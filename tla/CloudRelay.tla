------------------------------- MODULE CloudRelay ------------------------------
(***************************************************************************)
(* The way of the vehicle's packets to the cloud and to the local API: the *)
(* goroutine that the FMU loop starts for each and the pipe in which it    *)
(* leaves a copy (fmulink.go), the map that keeps one packet of each kind, *)
(* and the main loop of cloudlink.go that writes them.                     *)
(*                                                                         *)
(* Packets are numbered as the vehicle sends them.  FmuBridge models the   *)
(* loop that reads them and the commands that go the other way, CloudLink  *)
(* the session and the syncer, in whose Stop the main loop can be kept.    *)
(***************************************************************************)
EXTENDS Integers

CONSTANTS
    Kind,               \* MAVLink message ids
    Unthrottled,        \* those that are relayed at once
    PipeCap,            \* capacity of RawDataPipe (50)
    MaxPkt              \* bound: packets of the vehicle

Pkt == 1..MaxPkt

ASSUME RelayAssumption ==
    Unthrottled \subseteq Kind /\ PipeCap \in Nat \ {0} /\ MaxPkt \in Nat

VARIABLES
    pkts, kindOf,       \* packets read so far, and the kind of each
    inHand,             \* the FMU loop has not dealt with the last one
    pipe,               \* how many wait in RawDataPipe
    up,                 \* the goroutine of each packet
    msgs,               \* CloudLink.msgs: the packet of each kind, 0 if none
    online,             \* CloudLink.sessionId # 0
    main,               \* the main loop: it dials, selects or stops the syncer
    sent,               \* packets handed to the socket, whose errors are ignored
    late                \* history: packets handed over after a later one of their kind

fmuVars == <<pkts, kindOf, inHand, pipe>>
relayVars == <<fmuVars, up, msgs, online, main, sent, late>>

RelayInit ==
    /\ pkts = 0 /\ kindOf \in [Pkt -> Kind] /\ inHand = FALSE /\ pipe = 0
    /\ up = [p \in Pkt |-> "none"] /\ msgs = [k \in Kind |-> 0]
    /\ online = FALSE /\ main = "dial" /\ sent = {} /\ late = {}

ReadPacket ==
    /\ ~inHand /\ pkts < MaxPkt
    /\ pkts' = pkts + 1 /\ inHand' = TRUE
    /\ UNCHANGED <<kindOf, pipe, up, msgs, online, main, sent, late>>

\* A copy goes into the pipe if there is room, another to a goroutine.
Relay ==
    /\ inHand /\ inHand' = FALSE
    /\ pipe' = IF pipe < PipeCap THEN pipe + 1 ELSE pipe
    /\ up' = [up EXCEPT ![pkts] = "lock"]
    /\ UNCHANGED <<pkts, kindOf, msgs, online, main, sent, late>>

\* The local API takes a copy (statusServer.go).
TakeRaw ==
    /\ pipe > 0 /\ pipe' = pipe - 1
    /\ UNCHANGED <<pkts, kindOf, inHand, up, msgs, online, main, sent, late>>

Later(p) == {q \in Pkt : p < q /\ kindOf[q] = kindOf[p] /\ up[q] \in {"send", "gone"}}

\* Mutant: the first packet of a kind stays until the tick.
KeepFirst(p) ==
    /\ up[p] = "lock"
    /\ msgs' = [msgs EXCEPT ![kindOf[p]] = IF @ = 0 THEN p ELSE @]
    /\ up' = [up EXCEPT ![p] = IF kindOf[p] \in Unthrottled THEN "send" ELSE "gone"]
    /\ late' = IF Later(p) = {} THEN late ELSE late \cup {p}
    /\ UNCHANGED <<fmuVars, online, main, sent>>

\* UpdateFromFMU under msgMut, then its switch over the unthrottled ids.
UpdateFromFMU(p) ==
    /\ up[p] = "lock"
    /\ msgs' = [msgs EXCEPT ![kindOf[p]] = p]
    /\ up' = [up EXCEPT ![p] = IF kindOf[p] \in Unthrottled THEN "send" ELSE "gone"]
    /\ late' = IF Later(p) = {} THEN late ELSE late \cup {p}
    /\ UNCHANGED <<fmuVars, online, main, sent>>

\* The main loop takes what SetUnthrottledMsg holds out to it, and writes it
\* whether or not there is a session.
TakeUnthrottled(p) ==
    /\ main = "select" /\ up[p] = "send"
    /\ sent' = sent \cup {p}
    /\ up' = [up EXCEPT ![p] = "gone"]
    /\ UNCHANGED <<fmuVars, msgs, online, main, late>>

Pending == {msgs[k] : k \in Kind} \ {0}

\* Mutant: the map is emptied whether or not there is a session.
TickOffline ==
    /\ main = "select" /\ Pending # {}
    /\ sent' = IF online THEN sent \cup Pending ELSE sent
    /\ msgs' = [k \in Kind |-> 0]
    /\ UNCHANGED <<fmuVars, up, online, main, late>>

\* syncTimer: every packet in the map is written and deleted, under msgMut.
SyncTick ==
    /\ main = "select" /\ online /\ Pending # {}
    /\ sent' = sent \cup Pending
    /\ msgs' = [k \in Kind |-> 0]
    /\ UNCHANGED <<fmuVars, up, online, main, late>>

\* The session comes and goes (CloudLink).
Session ==
    /\ main # "dial" /\ online' = ~online
    /\ UNCHANGED <<fmuVars, up, msgs, main, sent, late>>

\* Serve has its socket.
Dialled ==
    /\ main = "dial" /\ main' = "select"
    /\ UNCHANGED <<fmuVars, up, msgs, online, sent, late>>

\* sendStatus without a session: the loop is in the syncer's Stop, from which it
\* comes back or not (CloudLink's BothGoOn and Overstopped say when).
StopSyncer ==
    /\ main = "select" /\ ~online /\ main' = "stop"
    /\ UNCHANGED <<fmuVars, up, msgs, online, sent, late>>

Stopped ==
    /\ main = "stop" /\ main' = "select"
    /\ UNCHANGED <<fmuVars, up, msgs, online, sent, late>>

RelayNext ==
    \/ ReadPacket \/ Relay \/ TakeRaw
    \/ \E p \in Pkt : UpdateFromFMU(p) \/ TakeUnthrottled(p)
    \/ SyncTick
    \/ Session
    \/ Dialled \/ StopSyncer \/ Stopped

\* The goroutines run on, and while the main loop selects its timer is set again by
\* each tick.  That it gets its socket, or comes back from Stop, is not assumed;
\* the vehicle, the local API and the session do as they like.
RelayFairness ==
    /\ WF_relayVars(Relay)
    /\ \A p \in Pkt : WF_relayVars(UpdateFromFMU(p)) /\ WF_relayVars(TakeUnthrottled(p))
    /\ WF_relayVars(SyncTick)

RelaySpec == RelayInit /\ [][RelayNext]_relayVars /\ RelayFairness

-----------------------------------------------------------------------------
(* Properties.                                                             *)

RelayTypeOK ==
    /\ pkts \in 0..MaxPkt /\ kindOf \in [Pkt -> Kind]
    /\ inHand \in BOOLEAN /\ pipe \in 0..PipeCap
    /\ up \in [Pkt -> {"none", "lock", "send", "gone"}]
    /\ msgs \in [Kind -> 0..MaxPkt] /\ online \in BOOLEAN
    /\ main \in {"dial", "select", "stop"}
    /\ sent \in SUBSET Pkt /\ late \in SUBSET Pkt

\* A later packet of p's kind, or one that came late and so took its place.
Successor(p) == {q \in 1..pkts \ {p} : kindOf[q] = kindOf[p] /\ (p < q \/ q \in late)}

\* No packet is forgotten: it is in the loop's or its goroutine's hands, in the
\* map or handed to the socket, or, unless it was to be relayed at once, one that
\* took its place is.
NothingForgotten ==
    \A p \in 1..pkts :
        \/ (p = pkts /\ inHand) \/ up[p] \in {"lock", "send"} \/ p \in sent
        \/ /\ kindOf[p] \notin Unthrottled
           /\ ({p} \cup Successor(p)) \cap (Pending \cup sent) # {}

\* With a session that stays, each packet is handed to the socket in the end, or
\* one that took its place is, unless the main loop is kept in Stop for ever
\* (cloudlink.go:224-241, 357).
EchoedInTheEnd ==
    <>[]online /\ []<>(main = "select") =>
        \A p \in Pkt : p <= pkts ~> ({p} \cup Successor(p)) \cap sent # {}

-----------------------------------------------------------------------------
(* The inductive invariant.                                                *)

\* The packets that have not been handed over are those that have not been read,
\* and the last one while the loop has it.
ReadInv ==
    /\ inHand => pkts > 0
    /\ \A p \in Pkt : up[p] = "none" <=> p > pkts \/ (p = pkts /\ inHand)

\* The place of a kind holds a packet of that kind which has been handed over.
MapInv ==
    \A k \in Kind : msgs[k] # 0 =>
        msgs[k] \in 1..pkts /\ kindOf[msgs[k]] = k /\ up[msgs[k]] \in {"send", "gone"}

\* What has been handed over is accounted for, even an unthrottled packet, whose
\* goroutine still holds it out.
HandedInv ==
    \A p \in Pkt :
        /\ up[p] \in {"send", "gone"} => ({p} \cup Successor(p)) \cap (Pending \cup sent) # {}
        /\ up[p] = "gone" /\ kindOf[p] \in Unthrottled => p \in sent

RelayInv == RelayTypeOK /\ ReadInv /\ MapInv /\ HandedInv

=============================================================================
