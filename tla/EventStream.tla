------------------------------ MODULE EventStream ------------------------------
(***************************************************************************)
(* The event stream of the local API: a goroutine of statusServer.go makes *)
(* an event of the telemetry every few milliseconds, the broker of         *)
(* apiservice/streamservice.go hands each to the goroutine of every HTTP   *)
(* client that has asked for the stream, with patience for a slow one.     *)
(*                                                                         *)
(* What an event says is left out; how old it is, is not.                  *)
(***************************************************************************)
EXTENDS Integers, FiniteSets

CONSTANTS
    Client,             \* HTTP requests for the stream
    NoClient

ASSUME StreamAssumption == IsFiniteSet(Client) /\ NoClient \notin Client

\* Where an event can be on its way.
Slot == {"maker", "notifier", "broker"}

VARIABLES
    maker,              \* the goroutine that makes the events
    notifier,           \* the channel Notifier, of one place: is an event there
    broker,             \* "select", or "hand" while an event is handed out
    age,                \* the age of the event in each slot, see below
    clients,            \* StreamBroker.clients
    rest,               \* the clients that it has not reached
    at, expired,        \* the one it waits for, and whether patience is over
    pc,                 \* each client's goroutine
    here                \* the client's connection is there

\* `age`: for how many clients the broker has waited, a second at most for each,
\* since the telemetry of the event was taken.

eventVars == <<maker, notifier, age>>
brokerVars == <<broker, clients, rest, at, expired>>
clientVars == <<pc, here>>
streamVars == <<eventVars, brokerVars, clientVars>>

StreamInit ==
    /\ maker = "sleep" /\ notifier = FALSE /\ age = [s \in Slot |-> 0]
    /\ broker = "select" /\ clients = {} /\ rest = {}
    /\ at = NoClient /\ expired = FALSE
    /\ pc = [c \in Client |-> "none"] /\ here = [c \in Client |-> FALSE]

-----------------------------------------------------------------------------
(* The goroutine that makes events.                                        *)

\* After SyncAPI milliseconds: Telem.
TakeTelem ==
    /\ maker = "sleep" /\ maker' = "encode"
    /\ UNCHANGED <<notifier, age, brokerVars, clientVars>>

\* json.Marshal, which refuses a NaN.
Encoded ==
    /\ maker = "encode" /\ maker' = "send"
    /\ UNCHANGED <<notifier, age, brokerVars, clientVars>>

Refused ==
    /\ maker = "encode" /\ maker' = "sleep"
    /\ age' = [age EXCEPT !["maker"] = 0]
    /\ UNCHANGED <<notifier, brokerVars, clientVars>>

Notify ==
    /\ maker = "send" /\ ~notifier
    /\ notifier' = TRUE /\ maker' = "sleep"
    /\ age' = [age EXCEPT !["notifier"] = age["maker"], !["maker"] = 0]
    /\ UNCHANGED <<brokerVars, clientVars>>

MakerStep == TakeTelem \/ Encoded \/ Refused \/ Notify

-----------------------------------------------------------------------------
(* The goroutine of a client.                                              *)

Request(c) ==
    /\ pc[c] = "none"
    /\ pc' = [pc EXCEPT ![c] = "register"] /\ here' = [here EXCEPT ![c] = TRUE]
    /\ UNCHANGED <<eventVars, brokerVars>>

\* The connection is closed; CloseNotify says so.
Close(c) ==
    /\ here[c] /\ here' = [here EXCEPT ![c] = FALSE]
    /\ UNCHANGED <<eventVars, brokerVars, pc>>

\* select: notify is there, or else the goroutine waits for the next event.
Look(c) ==
    /\ pc[c] = "look"
    /\ pc' = [pc EXCEPT ![c] = IF here[c] THEN "receive" ELSE "leave"]
    /\ UNCHANGED <<eventVars, brokerVars, here>>

\* Fprintf and Flush, which can take any time.
Written(c) ==
    /\ pc[c] = "write" /\ pc' = [pc EXCEPT ![c] = "look"]
    /\ UNCHANGED <<eventVars, brokerVars, here>>

-----------------------------------------------------------------------------
(* The broker.                                                             *)

Register(c) ==
    /\ broker = "select" /\ pc[c] = "register"
    /\ clients' = clients \cup {c} /\ pc' = [pc EXCEPT ![c] = "look"]
    /\ UNCHANGED <<eventVars, broker, rest, at, expired, here>>

\* Mutant: the channel of a client that has left stays in the map.
UnregisterKept(c) ==
    /\ broker = "select" /\ pc[c] = "leave"
    /\ pc' = [pc EXCEPT ![c] = "none"]
    /\ UNCHANGED <<eventVars, brokerVars, here>>

\* The deferred send to closingClients.
Unregister(c) ==
    /\ broker = "select" /\ pc[c] = "leave"
    /\ clients' = clients \ {c} /\ pc' = [pc EXCEPT ![c] = "none"]
    /\ UNCHANGED <<eventVars, broker, rest, at, expired, here>>

TakeEvent ==
    /\ broker = "select" /\ notifier
    /\ notifier' = FALSE
    /\ age' = [age EXCEPT !["broker"] = age["notifier"], !["notifier"] = 0]
    /\ broker' = "hand" /\ rest' = clients
    /\ UNCHANGED <<maker, clients, at, expired, clientVars>>

Occupied(s) ==
    CASE s = "maker" -> maker # "sleep" [] s = "notifier" -> notifier [] s = "broker" -> broker = "hand"

Older == age' = [s \in Slot |-> IF Occupied(s) THEN age[s] + 1 ELSE age[s]]

\* Mutant: a client that is not there to receive is reached for again.
ReachAgain(c) ==
    /\ broker = "hand" /\ at = NoClient /\ c \in rest
    /\ at' = c /\ rest' = IF pc[c] = "receive" THEN rest \ {c} ELSE rest
    /\ Older
    /\ UNCHANGED <<maker, notifier, broker, clients, expired, clientVars>>

\* range over the clients, in no order.
Reach(c) ==
    /\ broker = "hand" /\ at = NoClient /\ c \in rest
    /\ at' = c /\ rest' = rest \ {c}
    /\ Older
    /\ UNCHANGED <<maker, notifier, broker, clients, expired, clientVars>>

Hand ==
    /\ broker = "hand" /\ at # NoClient /\ pc[at] = "receive"
    /\ pc' = [pc EXCEPT ![at] = "write"]
    /\ at' = NoClient /\ expired' = FALSE
    /\ UNCHANGED <<eventVars, broker, clients, rest, here>>

\* time.After(patience) runs out while the client is not there to receive; the
\* select may still find both.
Expire ==
    /\ broker = "hand" /\ at # NoClient /\ ~expired /\ pc[at] # "receive"
    /\ expired' = TRUE
    /\ UNCHANGED <<eventVars, broker, clients, rest, at, clientVars>>

\* Mutant: patience begins again.
Retry ==
    /\ broker = "hand" /\ at # NoClient /\ expired
    /\ expired' = FALSE
    /\ UNCHANGED <<eventVars, broker, clients, rest, at, clientVars>>

Skip ==
    /\ broker = "hand" /\ at # NoClient /\ expired
    /\ at' = NoClient /\ expired' = FALSE
    /\ UNCHANGED <<eventVars, broker, clients, rest, clientVars>>

Done ==
    /\ broker = "hand" /\ at = NoClient /\ rest = {}
    /\ broker' = "select" /\ age' = [age EXCEPT !["broker"] = 0]
    /\ UNCHANGED <<maker, notifier, clients, rest, at, expired, clientVars>>

BrokerStep == TakeEvent \/ (\E c \in Client : Reach(c)) \/ Hand \/ Expire \/ Skip \/ Done

-----------------------------------------------------------------------------

StreamNext ==
    \/ MakerStep
    \/ \E c \in Client : \/ Request(c) \/ Close(c) \/ Look(c) \/ Written(c)
                         \/ Register(c) \/ Unregister(c)
    \/ BrokerStep

\* The goroutines run on, and a select that is there again and again takes each of
\* its channels in the end.  A write ends when its connection is closed, otherwise
\* when the client likes; json.Marshal may refuse for ever.
StreamFairness ==
    /\ WF_streamVars(MakerStep) /\ WF_streamVars(BrokerStep)
    /\ \A c \in Client : /\ WF_streamVars(Look(c) \/ (~here[c] /\ Written(c)))
                         /\ SF_streamVars(Register(c) \/ Unregister(c))

StreamSpec == StreamInit /\ [][StreamNext]_streamVars /\ StreamFairness

-----------------------------------------------------------------------------
(* Properties.                                                             *)

StreamTypeOK ==
    /\ maker \in {"sleep", "encode", "send"} /\ notifier \in BOOLEAN /\ age \in [Slot -> Nat]
    /\ broker \in {"select", "hand"}
    /\ clients \subseteq Client /\ rest \subseteq Client
    /\ at \in Client \cup {NoClient}
    /\ expired \in BOOLEAN /\ (expired => at # NoClient)
    /\ pc \in [Client -> {"none", "register", "look", "receive", "write", "leave"}]
    /\ here \in [Client -> BOOLEAN]

\* How old the telemetry can be that a client is handed: three rounds of waiting,
\* those for the event before it, which was handed out when it was taken, for the
\* one that was in Notifier, and its own (streamservice.go:93-98).
ThreeRounds == broker = "hand" => age["broker"] <= 3 * Cardinality(Client)

\* json.Marshal takes the telemetry again and again.
EventsAreMade == []<>(maker = "send")

\* While events are made a client that waits gets one, whatever the others do.
WaitingGets ==
    EventsAreMade => \A c \in Client : pc[c] = "receive" ~> pc[c] # "receive"

\* A client whose connection is closed does not stay in the broker's map, while
\* events are made: only one that is handed an event finds out.
LeaversGo ==
    EventsAreMade => \A c \in Client : ~here[c] ~> (here[c] \/ c \notin clients)

-----------------------------------------------------------------------------
(* The inductive invariant.                                                *)

\* The clients that the broker will still wait for, at least, before it takes the
\* next event, and those before Notifier has a place.
Round == Cardinality(rest)
Ahead == Round + (IF notifier THEN Cardinality(Client) ELSE 0)

AgeInv ==
    /\ broker = "select" => rest = {}
    /\ maker = "sleep" => age["maker"] = 0
    /\ age["maker"] + Ahead <= 2 * Cardinality(Client)
    /\ notifier => age["notifier"] + Round <= 2 * Cardinality(Client)
    /\ broker = "hand" => age["broker"] + Round <= 3 * Cardinality(Client)

StreamInv == StreamTypeOK /\ AgeInv

=============================================================================
