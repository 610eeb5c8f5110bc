------------------------------ MODULE StatusFeed -------------------------------
(***************************************************************************)
(* How the vehicle's state gets to the browsers (statusServer.go): every   *)
(* second a goroutine counts out the state to the goroutines of the web    *)
(* sockets, which write it to their browsers, while sockets come and go    *)
(* and the FMU loop writes the state (fmulink.go).  The status page        *)
(* (StatusCtrl.js) counts the seconds since the last one.                  *)
(*                                                                         *)
(* Both locks are sync.RWMutex: a writer that waits keeps new readers out. *)
(* The channel fmuEvent has no buffer and serves its receivers in the      *)
(* order in which they came to wait.                                       *)
(***************************************************************************)
EXTENDS Integers, FiniteSets, Sequences, SequencesExt

CONSTANTS
    Socket,             \* web sockets
    Periodic,           \* the goroutine of periodicFmuStatus
    FmuLoop,            \* the loop of fmulink.Serve
    Nobody,
    Seconds             \* that a page waits before it says so (5)

ASSUME FeedAssumption ==
    /\ IsFiniteSet(Socket)
    /\ Periodic \notin Socket /\ FmuLoop \notin Socket /\ Nobody \notin Socket
    /\ Periodic # FmuLoop /\ Nobody \notin {Periodic, FmuLoop}
    /\ Seconds \in Nat

VARIABLES
    sockLock, fmuLock,  \* socketLock and Fmu.mut
    cnt,                \* socketCnt
    handler,            \* each socket: where its connection or disconnection is
    receiver,           \* each socket: where its goroutine is
    recvq,              \* the receivers that wait at fmuEvent
    tick, sends,        \* the periodic goroutine, and what it has sent in this tick
    loop,               \* the FMU loop
    timeOutCnt,         \* each page's count; it says noConnect above Seconds
    waiting, served, leaving    \* history, see TickSucceeds

locks == <<sockLock, fmuLock>>
feedVars == <<handler, receiver, recvq, cnt>>
tickVars == <<tick, sends, waiting, leaving>>
vars == <<locks, feedVars, tickVars, served, loop, timeOutCnt>>

-----------------------------------------------------------------------------
(* sync.RWMutex: `writer` has announced itself, and holds the lock when no *)
(* reader is left; who asks to read meanwhile is in `blocked`.             *)

Free == [writer |-> Nobody, readers |-> {}, blocked |-> {}]

RLock(l, p) == IF l.writer = Nobody THEN [l EXCEPT !.readers = @ \cup {p}]
               ELSE [l EXCEPT !.blocked = @ \cup {p}]
RUnlock(l, p) == [l EXCEPT !.readers = @ \ {p}]
Announce(l, p) == [l EXCEPT !.writer = p]
Holds(l, p) == l.writer = p /\ l.readers = {}
Unlock(l) == [writer |-> Nobody, readers |-> l.blocked, blocked |-> {}]

Init ==
    /\ sockLock = Free /\ fmuLock = Free
    /\ cnt = 0
    /\ handler = [s \in Socket |-> "off"] /\ receiver = [s \in Socket |-> "off"]
    /\ recvq = <<>>
    /\ tick = "idle" /\ sends = 0
    /\ loop = "read"
    /\ timeOutCnt = [s \in Socket |-> 0]
    /\ waiting = {} /\ served = {} /\ leaving = 0

-----------------------------------------------------------------------------
(* The handlers of a socket's connection and disconnection.                *)

Handler(s, from, to) == handler[s] = from /\ handler' = [handler EXCEPT ![s] = to]

\* A page is opened, and the library calls the handler; it asks for the lock when
\* no other writer does.
Connect(s) ==
    /\ Handler(s, "off", "connect")
    /\ timeOutCnt' = [timeOutCnt EXCEPT ![s] = 0]
    /\ UNCHANGED <<locks, receiver, recvq, cnt, tickVars, served, loop>>

Disconnect(s) ==
    /\ Handler(s, "on", "disconnect")
    /\ UNCHANGED <<locks, receiver, recvq, cnt, tickVars, served, loop, timeOutCnt>>

Ask(s) ==
    /\ handler[s] \in {"connect", "disconnect"} /\ sockLock.writer = Nobody
    /\ sockLock' = Announce(sockLock, s)
    /\ UNCHANGED <<fmuLock, feedVars, tickVars, served, loop, timeOutCnt>>

CountIn(s) ==
    /\ Holds(sockLock, s) /\ Handler(s, "connect", "start")
    /\ cnt' = cnt + 1
    /\ sockLock' = Unlock(sockLock)
    /\ UNCHANGED <<fmuLock, receiver, recvq, tickVars, served, loop, timeOutCnt>>

\* go func() { for { select ...
Start(s) ==
    /\ Handler(s, "start", "on")
    /\ receiver' = [receiver EXCEPT ![s] = "select"]
    /\ recvq' = Append(recvq, s)
    /\ UNCHANGED <<locks, cnt, tickVars, served, loop, timeOutCnt>>

\* Mutant: the lock is kept until the goroutine has taken quit, and after.
CountOutLocked(s) ==
    /\ Holds(sockLock, s) /\ Handler(s, "disconnect", "quit")
    /\ cnt' = cnt - 1
    /\ UNCHANGED <<locks, receiver, recvq, tickVars, served, loop, timeOutCnt>>

CountOut(s) ==
    /\ Holds(sockLock, s) /\ Handler(s, "disconnect", "quit")
    /\ cnt' = cnt - 1
    /\ sockLock' = Unlock(sockLock)
    /\ UNCHANGED <<fmuLock, receiver, recvq, tickVars, served, loop, timeOutCnt>>

\* quit <- true, which the socket's goroutine takes when it is at its select.
Quit(s) ==
    /\ receiver[s] = "select" /\ Handler(s, "quit", "off")
    /\ receiver' = [receiver EXCEPT ![s] = "off"]
    /\ \E i \in 1..Len(recvq) : recvq[i] = s /\ recvq' = RemoveAt(recvq, i)
    /\ UNCHANGED <<locks, cnt, tickVars, served, loop, timeOutCnt>>

HandlerStep(s) == Ask(s) \/ CountIn(s) \/ Start(s) \/ CountOut(s) \/ Quit(s)

-----------------------------------------------------------------------------
(* The goroutine of a socket.                                              *)

Receiver(s, from, to) == receiver[s] = from /\ receiver' = [receiver EXCEPT ![s] = to]

\* Mutant: the state is locked first, and kept while the goroutine waits for the
\* sockets' lock.
LockFmuFirst(s) ==
    /\ Receiver(s, "got", "sockets")
    /\ sockLock' = RLock(sockLock, s)
    /\ fmuLock' = RLock(fmuLock, s)
    /\ UNCHANGED <<handler, recvq, cnt, tickVars, served, loop, timeOutCnt>>

LockSockets(s) ==
    /\ Receiver(s, "got", "sockets")
    /\ sockLock' = RLock(sockLock, s)
    /\ UNCHANGED <<fmuLock, handler, recvq, cnt, tickVars, served, loop, timeOutCnt>>

\* Mutant: the goroutine does not lock the state while it is written.
LockNothing(s) ==
    /\ s \in sockLock.readers /\ Receiver(s, "sockets", "emit")
    /\ UNCHANGED <<locks, handler, recvq, cnt, tickVars, served, loop, timeOutCnt>>

LockFmu(s) ==
    /\ s \in sockLock.readers /\ Receiver(s, "sockets", "fmu")
    /\ fmuLock' = RLock(fmuLock, s)
    /\ UNCHANGED <<sockLock, handler, recvq, cnt, tickVars, served, loop, timeOutCnt>>

StartEmit(s) ==
    /\ s \in fmuLock.readers /\ Receiver(s, "fmu", "emit")
    /\ UNCHANGED <<locks, handler, recvq, cnt, tickVars, served, loop, timeOutCnt>>

\* The browser's connection has taken the bytes, when it does, and the page runs
\* its handler of fmu:update.
EndEmit(s) ==
    /\ Receiver(s, "emit", "select")
    /\ fmuLock' = RUnlock(fmuLock, s)
    /\ sockLock' = RUnlock(sockLock, s)
    /\ recvq' = Append(recvq, s)
    /\ timeOutCnt' = [timeOutCnt EXCEPT ![s] = 0]
    /\ UNCHANGED <<handler, cnt, tickVars, served, loop>>

\* Mutant: the count begins anew when noConnect is set.
IntervalAnew(s) ==
    /\ handler[s] # "off"
    /\ timeOutCnt' = [timeOutCnt EXCEPT ![s] = IF @ <= Seconds THEN @ + 1 ELSE 0]
    /\ UNCHANGED <<locks, feedVars, tickVars, served, loop>>

\* $interval of the page, each second; above Seconds the count is as good as any.
Interval(s) ==
    /\ handler[s] # "off"
    /\ timeOutCnt' = [timeOutCnt EXCEPT ![s] = IF @ <= Seconds THEN @ + 1 ELSE @]
    /\ UNCHANGED <<locks, feedVars, tickVars, served, loop>>

ReceiverStep(s) == LockSockets(s) \/ LockFmu(s) \/ StartEmit(s) \/ EndEmit(s)

-----------------------------------------------------------------------------
(* periodicFmuStatus, and GetData.                                         *)

Tick ==
    /\ tick = "idle" /\ tick' = "sockets"
    /\ sockLock' = RLock(sockLock, Periodic)
    /\ UNCHANGED <<fmuLock, feedVars, sends, waiting, leaving, served, loop, timeOutCnt>>

Begin ==
    /\ tick = "sockets" /\ Periodic \in sockLock.readers /\ tick' = "next"
    /\ waiting' = ToSet(recvq)
    /\ leaving' = Cardinality({s \in Socket : handler[s] = "quit"})
    /\ UNCHANGED <<locks, feedVars, sends, served, loop, timeOutCnt>>

AskData ==
    /\ tick = "next" /\ sends < cnt /\ tick' = "data"
    /\ fmuLock' = RLock(fmuLock, Periodic)
    /\ UNCHANGED <<sockLock, feedVars, sends, waiting, leaving, served, loop, timeOutCnt>>

GetData ==
    /\ tick = "data" /\ Periodic \in fmuLock.readers /\ tick' = "send"
    /\ fmuLock' = RUnlock(fmuLock, Periodic)
    /\ UNCHANGED <<sockLock, feedVars, sends, waiting, leaving, served, loop, timeOutCnt>>

\* Mutant: the newest of the receivers is served.
SendLast ==
    /\ tick = "send" /\ recvq # <<>> /\ tick' = "next"
    /\ sends' = sends + 1
    /\ receiver' = [receiver EXCEPT ![Last(recvq)] = "got"]
    /\ recvq' = Front(recvq)
    /\ served' = served \cup {Last(recvq)}
    /\ UNCHANGED <<locks, handler, cnt, waiting, leaving, loop, timeOutCnt>>

Send ==
    /\ tick = "send" /\ recvq # <<>> /\ tick' = "next"
    /\ sends' = sends + 1
    /\ receiver' = [receiver EXCEPT ![Head(recvq)] = "got"]
    /\ recvq' = Tail(recvq)
    /\ served' = served \cup {Head(recvq)}
    /\ UNCHANGED <<locks, handler, cnt, waiting, leaving, loop, timeOutCnt>>

End ==
    /\ tick = "next" /\ sends >= cnt /\ tick' = "idle"
    /\ sends' = 0 /\ waiting' = {} /\ served' = {} /\ leaving' = 0
    /\ sockLock' = RUnlock(sockLock, Periodic)
    /\ UNCHANGED <<fmuLock, feedVars, loop, timeOutCnt>>

PeriodicStep == Tick \/ Begin \/ AskData \/ GetData \/ Send \/ End

-----------------------------------------------------------------------------
(* The FMU loop writes the state of each packet.                           *)

ReadPacket ==
    /\ loop = "read" /\ loop' = "lock"
    /\ fmuLock' = Announce(fmuLock, FmuLoop)
    /\ UNCHANGED <<sockLock, feedVars, tickVars, served, timeOutCnt>>

LockStatus ==
    /\ loop = "lock" /\ Holds(fmuLock, FmuLoop) /\ loop' = "write"
    /\ UNCHANGED <<locks, feedVars, tickVars, served, timeOutCnt>>

WriteStatus ==
    /\ loop = "write" /\ loop' = "read"
    /\ fmuLock' = Unlock(fmuLock)
    /\ UNCHANGED <<sockLock, feedVars, tickVars, served, timeOutCnt>>

LoopStep == LockStatus \/ WriteStatus

-----------------------------------------------------------------------------

Next ==
    \/ \E s \in Socket : \/ Connect(s) \/ Disconnect(s) \/ HandlerStep(s)
                         \/ ReceiverStep(s) \/ Interval(s)
    \/ PeriodicStep
    \/ ReadPacket \/ LoopStep

\* Every goroutine runs on, none starves for a lock that is free again and again,
\* a browser takes what it is sent, after any time, and the FMU loop comes to the
\* end of its write, in which it also answers a heartbeat and waits for the syncer
\* (see FmuBridge, FlightLog).  Sockets come and go, and the vehicle sends, as they
\* like.
Fairness ==
    /\ \A s \in Socket : /\ SF_vars(HandlerStep(s)) /\ WF_vars(ReceiverStep(s))
                         /\ WF_vars(Interval(s))
    /\ WF_vars(PeriodicStep) /\ WF_vars(LoopStep)

Spec == Init /\ [][Next]_vars /\ Fairness

-----------------------------------------------------------------------------
(* Properties.                                                             *)

Process == Socket \cup {Periodic, FmuLoop}
Lock == [writer : Process \cup {Nobody}, readers : SUBSET Process, blocked : SUBSET Process]

TypeOK ==
    /\ sockLock \in Lock /\ fmuLock \in Lock /\ cnt \in 0..Cardinality(Socket)
    /\ handler \in [Socket -> {"off", "connect", "start", "on", "disconnect", "quit"}]
    /\ receiver \in [Socket -> {"off", "select", "got", "sockets", "fmu", "emit"}]
    /\ recvq \in Seq(Socket)
    /\ tick \in {"idle", "sockets", "next", "data", "send"} /\ sends \in 0..Cardinality(Socket)
    /\ loop \in {"read", "lock", "write"}
    /\ timeOutCnt \in [Socket -> 0..Seconds + 1]
    /\ waiting \in SUBSET Socket /\ served \in SUBSET Socket
    /\ leaving \in 0..Cardinality(Socket)

\* The FMU loop writes no map of the state while an Emit encodes it: GetData copies
\* the struct, whose maps stay those of the loop (fmulink.go:113-117), and Go's
\* runtime ends a program that reads and writes a map at once.  (What a browser is
\* sent may still be the copied fields of one packet with the maps of a later one.)
NoWriteDuringEmit == loop = "write" => \A s \in Socket : receiver[s] # "emit"

\* The FMU loop waits for nobody but a browser that is being written to: who reads
\* the state holds it for a copy or an Emit, and in particular nobody does who
\* waits for socketLock, the channel or quit, jammed or not.
FmuWaitsForBrowsers ==
    fmuLock.readers \subseteq {p \in {Periodic} : tick = "data"}
                              \cup {s \in Socket : receiver[s] \in {"fmu", "emit"}}

\* Therefore the loop gets the state's lock, whoever waits for whom in the feed, if
\* each browser takes, in the end, what is being written to it (fmulink.go:432-433,
\* statusServer.go:139-145).
LoopGoesOn == loop # "read" ~> loop = "read"

\* At the end of a tick each socket that waited when it began has been served,
\* but for as many as were being closed then: they had been counted out and could
\* still take what was meant for another.
TickSucceeds ==
    tick = "next" /\ sends >= cnt => Cardinality(waiting \ served) <= leaving

\* The periodic goroutine needs a receiver; those that there are have taken what
\* was meant for others, or are late from the last tick, and wait behind a handler
\* that waits for the periodic goroutine.
Jammed ==
    /\ tick \in {"next", "data", "send"} /\ sends < cnt /\ recvq = <<>>
    /\ Periodic \in sockLock.readers /\ sockLock.writer # Nobody
    /\ \A s \in Socket : /\ receiver[s] \in {"off", "got"} \/ s \in sockLock.blocked
                         /\ handler[s] # "start"

\* That is the only way in which they can all wait for each other (statusServer.go:
\* 137-147, 281-297): otherwise each tick ends, and each socket that is closed gets
\* rid of its goroutine.
FeedGoesOn ==
    /\ tick # "idle" ~> (tick = "idle" \/ Jammed)
    /\ \A s \in Socket :
          handler[s] \in {"disconnect", "quit"} ~> (handler[s] = "off" \/ Jammed)

\* When the feed has stopped for good, each open page says in the end that it is not
\* connected.
PagesTell ==
    Jammed ~> \A s \in Socket : handler[s] # "off" => timeOutCnt[s] > Seconds

-----------------------------------------------------------------------------
(* The inductive invariant.                                                *)

InTick == tick \in {"next", "data", "send"}
Counted == {s \in Socket : handler[s] \in {"start", "on", "disconnect"}}
Closing == {s \in Socket : handler[s] = "quit"}
Left == waiting \ served

\* Who is in the locks: the periodic goroutine holds socketLock through its tick,
\* a goroutine that writes to its browser the state's lock, and the FMU loop
\* writes when nobody does.
LockInv ==
    /\ tick # "idle" => Periodic \in sockLock.readers \cup sockLock.blocked
    /\ InTick => Periodic \in sockLock.readers
    /\ fmuLock.readers \cap fmuLock.blocked = {}
    /\ fmuLock.blocked \subseteq {p \in {Periodic} : tick = "data"}
                                 \cup {s \in Socket : receiver[s] \in {"fmu", "emit"}}
    /\ \A s \in Socket : receiver[s] = "emit" => s \in fmuLock.readers
    /\ loop # "read" => fmuLock.writer = FmuLoop
    /\ loop = "write" => fmuLock.readers = {}

\* socketCnt counts the sockets that have not been counted out, and the receivers
\* that wait are those at their select, each once.
FeedInv ==
    /\ cnt = Cardinality(Counted)
    /\ \A i, j \in 1..Len(recvq) : recvq[i] = recvq[j] => i = j
    /\ \A i \in 1..Len(recvq) : receiver[recvq[i]] = "select"
    /\ \A s \in Socket : receiver[s] = "select" => \E i \in 1..Len(recvq) : recvq[i] = s
    /\ \A s \in Socket : receiver[s] # "off" => handler[s] \in {"on", "disconnect", "quit"}

\* Of those that waited when the tick began, the ones not yet served are first in
\* the queue, or have been closed; all sends so far went to one of them, unless
\* none is left.
TickInv ==
    /\ sends <= cnt /\ (tick \in {"data", "send"} => sends < cnt)
    /\ ~InTick => sends = 0 /\ served = {}
    /\ InTick =>
          /\ \A i, j \in 1..Len(recvq) : i < j /\ recvq[j] \in Left => recvq[i] \in Left
          /\ \A s \in Left : s \in ToSet(recvq) \/ handler[s] \in {"off", "connect"}
          /\ \/ served \subseteq waiting /\ Cardinality(served) = sends
             \/ ToSet(recvq) \cap Left = {}
          /\ Cardinality(Closing \cup (Left \ ToSet(recvq))) <= leaving
          /\ Cardinality(waiting) <= cnt + leaving

IInv == /\ TypeOK /\ LockInv /\ FeedInv /\ TickInv
        /\ NoWriteDuringEmit /\ FmuWaitsForBrowsers /\ TickSucceeds

-----------------------------------------------------------------------------
(* Who waits for whom.                                                     *)

Reading == {s \in Socket : receiver[s] \in {"sockets", "fmu", "emit"}}
AskingFmu == {s \in Socket : receiver[s] = "fmu"} \cup {p \in {Periodic} : tick = "data"}

\* Each goroutine that has asked for a lock to read holds it or waits for a writer,
\* and a writer is where it asked for its lock.
WaitInv ==
    /\ sockLock.readers \cup sockLock.blocked
          = Reading \cup {p \in {Periodic} : tick # "idle"}
    /\ sockLock.readers \cap sockLock.blocked = {}
    /\ sockLock.blocked \cap Socket \subseteq {s \in Socket : receiver[s] = "sockets"}
    /\ sockLock.writer # Nobody =>
          /\ sockLock.writer \in Socket
          /\ handler[sockLock.writer] \in {"connect", "disconnect"}
    /\ AskingFmu \subseteq fmuLock.readers \cup fmuLock.blocked
    /\ fmuLock.writer # Nobody => loop # "read"
    /\ sockLock.writer = Nobody => sockLock.blocked = {}
    /\ fmuLock.writer = Nobody => fmuLock.blocked = {}
    /\ \A s \in Socket : handler[s] \in {"on", "disconnect", "quit"} => receiver[s] # "off"

\* A goroutine of the server has a step to take, without a new packet or socket.
CanGoOn ==
    \/ \E s \in Socket :
          \/ handler[s] \in {"connect", "disconnect"}
             /\ (sockLock.writer = Nobody \/ Holds(sockLock, s))
          \/ handler[s] = "start" \/ (handler[s] = "quit" /\ receiver[s] = "select")
          \/ receiver[s] \in {"got", "emit"}
          \/ receiver[s] = "sockets" /\ s \in sockLock.readers
          \/ receiver[s] = "fmu" /\ s \in fmuLock.readers
    \/ tick = "sockets" /\ Periodic \in sockLock.readers
    \/ tick = "next" \/ (tick = "data" /\ Periodic \in fmuLock.readers)
    \/ tick = "send" /\ recvq # <<>>
    \/ loop = "write" \/ (loop = "lock" /\ Holds(fmuLock, FmuLoop))

\* The server's goroutines are at rest.
AtRest ==
    /\ tick = "idle" /\ loop = "read"
    /\ \A s \in Socket : handler[s] \in {"off", "on"} /\ receiver[s] \in {"off", "select"}

\* When nobody can go on they are all at rest, or jammed.
OnlyJam == CanGoOn \/ AtRest \/ Jammed

=============================================================================
