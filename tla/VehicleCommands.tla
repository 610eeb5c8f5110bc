--------------------------- MODULE VehicleCommands ---------------------------
(***************************************************************************)
(* How a command gets from an HTTP request to the vehicle and its result   *)
(* back: apiservice.go (the handlers and commandBlock), vehicle.go (the    *)
(* command queue, sysOnlineHandler, COMMAND_ACK, the last-result cell) and *)
(* api.go (UpdateFromAck).                                                 *)
(*                                                                         *)
(* Three kinds of goroutine meet here: one per HTTP request, the state     *)
(* handler, and the reader of the vehicle's packets.  They share the queue *)
(* (under its RWMutex), the last-result cell (under commandSync) and the   *)
(* Status field of the command at the head (under nothing).  A step of the *)
(* model is one critical section, or one access to an unprotected field.   *)
(*                                                                         *)
(* The vehicle has been initialised: stateHandler calls sysOnlineHandler   *)
(* every 500 ms.                                                           *)
(***************************************************************************)
EXTENDS Integers

CONSTANTS
    Cmd,          \* the VehicleCommand structs, one allocated per Push
    Op,           \* Op[c]: the int the command is pushed with
    Request,      \* HTTP requests that send commands, a goroutine each
    Setup,        \* Setup[r]: the SetMode command pushed first, or NoCmd
    Main,         \* Main[r]: the command whose result the request waits for
    Result,       \* the MAV_RESULT values the vehicle answers with
    RetryLimit,   \* TimesSent > RetryLimit gives up (5 in the source)
    PollLimit,    \* polls of commandBlock (10 in the source)
    NoCmd, Nobody, StateHandler

\* MAV_RESULT, and the values the source adds to it.
ACCEPTED == 0
Refusals == {2, 3, 4}     \* DENIED, UNSUPPORTED, FAILED
Unacked == 10             \* Status of a new command
NullOp == 10              \* commandLast and commandLastInfo when there is
NullInfo == -1            \* no result to report

UInt8 == 0..255           \* a MAV_RESULT on the wire
UInt16 == 0..65535        \* an op on the wire

Final == {ACCEPTED} \cup Refusals

ASSUME CommandAssumption ==
    /\ Op \in [Cmd -> Int]
    /\ Setup \in [Request -> Cmd \cup {NoCmd}]
    /\ Main \in [Request -> Cmd]
    /\ \A r, s \in Request : Main[r] = Main[s] => r = s
    /\ \A r, s \in Request : Setup[r] = Setup[s] /\ Setup[r] # NoCmd => r = s
    /\ \A r, s \in Request : Main[r] # Setup[s]
    /\ Result \subseteq UInt8
    /\ RetryLimit \in Nat /\ PollLimit \in Nat \ {0}
    /\ NoCmd \notin Cmd
    /\ Nobody # StateHandler /\ Nobody \notin Request /\ StateHandler \notin Request

VARIABLES
    queue, head,                 \* the command queue (module PriorityQueue)
    writer,                      \* who waits for or holds its write lock
    status, sent,                \* Status and TimesSent of every command
    commandLast, commandLastInfo,
    shPc, shCmd,                 \* the state handler and its local cmd
    rtPc, rtAck, rtCmd,          \* the packet reader, its message, its cmd
    acked,                       \* acknowledgements the vehicle has given
    pc, polls, reply             \* the requests

queueVars == <<queue, head>>
cmdVars == <<status, sent>>
lastVars == <<commandLast, commandLastInfo>>
shVars == <<shPc, shCmd>>
rtVars == <<rtPc, rtAck, rtCmd>>
reqVars == <<pc, polls, reply>>
vars == <<queueVars, writer, cmdVars, lastVars, shVars, rtVars, acked, reqVars>>

\* The callers here ignore what Pop returns.
Q == INSTANCE PriorityQueue
        WITH Item <- Cmd, Priority <- Op, PqType <- "MINPQ", NoItem <- NoCmd,
             items <- queue, out <- NoCmd

\* The op on the wire is a uint16 (PackComandLong, DoGenericCommand).
WireOp(c) == Op[c] % 65536

NoAck == [cmd |-> NoCmd, res |-> NullInfo]

-----------------------------------------------------------------------------
(* sync.RWMutex.  Lock() announces itself, which stops new readers, and    *)
(* then waits for the readers that are in.  The only reader that is in for *)
(* more than a step is the packet reader, around UpdateFromAck.            *)

\* Mutant: UpdateFromAck runs without the read lock.
ReaderInUnlocked == FALSE

ReaderIn == rtPc \in {"peek", "write"}
CanRLock == writer = Nobody
Announce(t) == writer = Nobody /\ writer' = t
Owns(t) == writer = t /\ ~ReaderIn

-----------------------------------------------------------------------------
Init ==
    /\ queue = {} /\ head = NoCmd
    /\ writer = Nobody
    /\ status = [c \in Cmd |-> Unacked]
    /\ sent = [c \in Cmd |-> 0]
    /\ commandLast = NullOp
    /\ commandLastInfo = NullInfo
    /\ shPc = "idle" /\ shCmd = NoCmd
    /\ rtPc = "idle" /\ rtAck = NoAck /\ rtCmd = NoCmd
    /\ acked = {}
    /\ pc = [r \in Request |-> "new"]
    /\ polls = [r \in Request |-> 0]
    /\ reply = [r \in Request |-> NullInfo]

-----------------------------------------------------------------------------
(* The HTTP handlers.  goto and takeoff push a SetMode command before the  *)
(* command they wait for; the others push one command.                     *)

Arrive(r) ==
    /\ pc[r] = "new"
    /\ pc' = [pc EXCEPT ![r] = IF Setup[r] = NoCmd THEN "main" ELSE "setup"]
    /\ UNCHANGED <<queueVars, writer, cmdVars, lastVars, shVars, rtVars, acked, polls, reply>>

LockOf == [setup |-> "setupLock", main |-> "mainLock"]

PushLock(r) ==
    /\ pc[r] \in {"setup", "main"}
    /\ Announce(r)
    /\ pc' = [pc EXCEPT ![r] = LockOf[pc[r]]]
    /\ UNCHANGED <<queueVars, cmdVars, lastVars, shVars, rtVars, acked, polls, reply>>

PushSetup(r) ==
    /\ pc[r] = "setupLock"
    /\ Owns(r)
    /\ Q!Insert(Setup[r])
    /\ writer' = Nobody
    /\ pc' = [pc EXCEPT ![r] = "main"]
    /\ UNCHANGED <<cmdVars, lastVars, shVars, rtVars, acked, polls, reply>>

PushMain(r) ==
    /\ pc[r] = "mainLock"
    /\ Owns(r)
    /\ Q!Insert(Main[r])
    /\ writer' = Nobody
    /\ pc' = [pc EXCEPT ![r] = "poll"]
    /\ UNCHANGED <<cmdVars, lastVars, shVars, rtVars, acked, polls, reply>>

\* goto and takeoff convert their JSON arguments after the first Push; one of
\* the wrong type panics and ServeHTTP answers 500.
Panic(r) ==
    /\ pc[r] = "main"
    /\ Setup[r] # NoCmd
    /\ pc' = [pc EXCEPT ![r] = "failed"]
    /\ UNCHANGED <<queueVars, writer, cmdVars, lastVars, shVars, rtVars, acked, polls, reply>>

\* Mutant: attempts++ is forgotten.
PollForever(r) ==
    /\ pc[r] = "poll"
    /\ polls[r] < PollLimit
    /\ reply' = [reply EXCEPT ![r] = commandLastInfo]
    /\ IF commandLast = Op[Main[r]] /\ commandLastInfo # Unacked
       THEN pc' = [pc EXCEPT ![r] = "null"] ELSE UNCHANGED pc
    /\ UNCHANGED <<queueVars, writer, cmdVars, lastVars, shVars, rtVars, acked, polls>>

\* commandBlock reads the last result under commandSync ...
Poll(r) ==
    /\ pc[r] = "poll"
    /\ polls[r] < PollLimit
    /\ reply' = [reply EXCEPT ![r] = commandLastInfo]
    /\ IF commandLast = Op[Main[r]] /\ commandLastInfo # Unacked
       THEN pc' = [pc EXCEPT ![r] = "null"] /\ UNCHANGED polls
       ELSE polls' = [polls EXCEPT ![r] = @ + 1] /\ UNCHANGED pc
    /\ UNCHANGED <<queueVars, writer, cmdVars, lastVars, shVars, rtVars, acked>>

\* ... and in a second critical section clears it, and answers.
NullLast(r) ==
    /\ pc[r] = "null"
    /\ commandLast' = NullOp
    /\ commandLastInfo' = NullInfo
    /\ pc' = [pc EXCEPT ![r] = "replied"]
    /\ UNCHANGED <<queueVars, writer, cmdVars, shVars, rtVars, acked, polls, reply>>

TimeOut(r) ==
    /\ pc[r] = "poll"
    /\ polls[r] = PollLimit
    /\ pc' = [pc EXCEPT ![r] = "timedOut"]
    /\ UNCHANGED <<queueVars, writer, cmdVars, lastVars, shVars, rtVars, acked, polls, reply>>

-----------------------------------------------------------------------------
(* sysOnlineHandler.                                                       *)

\* Size() and Head(): nobody else pops, so the queue is still not empty at
\* the second call.
ReadHead ==
    /\ shPc = "idle"
    /\ CanRLock
    /\ queue # {}
    /\ shCmd' = head
    /\ shPc' = "record"
    /\ UNCHANGED <<queueVars, writer, cmdVars, lastVars, rtVars, acked, reqVars>>

Record ==
    /\ shPc = "record"
    /\ commandLast' = WireOp(shCmd)
    /\ commandLastInfo' = status[shCmd]
    /\ shPc' = "decide"
    /\ UNCHANGED <<queueVars, writer, cmdVars, shCmd, rtVars, acked, reqVars>>

\* Status is read again here, with no lock.
Settled(c) == status[c] \in Final
GivenUp(c) == sent[c] > RetryLimit

DecidePop ==
    /\ shPc = "decide"
    /\ Settled(shCmd) \/ GivenUp(shCmd)
    /\ shPc' = "pop"
    /\ UNCHANGED <<queueVars, writer, cmdVars, lastVars, shCmd, rtVars, acked, reqVars>>

\* Mutant: TimesSent += 1 is forgotten.
DecideSendUncounted ==
    /\ shPc = "decide"
    /\ ~Settled(shCmd) /\ ~GivenUp(shCmd)
    /\ shPc' = "idle" /\ shCmd' = NoCmd
    /\ UNCHANGED <<queueVars, writer, cmdVars, lastVars, rtVars, acked, reqVars>>

DecideSend ==
    /\ shPc = "decide"
    /\ ~Settled(shCmd) /\ ~GivenUp(shCmd)
    /\ sent' = [sent EXCEPT ![shCmd] = @ + 1]
    /\ shPc' = "idle" /\ shCmd' = NoCmd
    /\ UNCHANGED <<queueVars, writer, status, lastVars, rtVars, acked, reqVars>>

PopLock ==
    /\ shPc = "pop"
    /\ Announce(StateHandler)
    /\ shPc' = "popLock"
    /\ UNCHANGED <<queueVars, cmdVars, lastVars, shCmd, rtVars, acked, reqVars>>

Pop ==
    /\ shPc = "popLock"
    /\ Owns(StateHandler)
    /\ Q!Remove
    /\ writer' = Nobody
    /\ shPc' = "idle" /\ shCmd' = NoCmd
    /\ UNCHANGED <<cmdVars, lastVars, rtVars, acked, reqVars>>

HandlerStep == ReadHead \/ Record \/ DecidePop \/ DecideSend \/ PopLock \/ Pop

-----------------------------------------------------------------------------
(* The vehicle and its packets.  The vehicle acknowledges what it was      *)
(* sent; an acknowledgement is an op and a result, and may arrive late,    *)
(* several times (each transmission is acknowledged) or never.             *)

VehicleAcks(c, res) ==
    /\ sent[c] > 0
    /\ acked' = acked \cup {[cmd |-> c, res |-> res]}
    /\ UNCHANGED <<queueVars, writer, cmdVars, lastVars, shVars, rtVars, reqVars>>

\* processPacket takes the queue's read lock around UpdateFromAck ...
ReceiveAck ==
    /\ rtPc = "idle"
    /\ CanRLock
    /\ rtAck' \in acked
    /\ rtPc' = "peek"
    /\ UNCHANGED <<queueVars, writer, cmdVars, lastVars, shVars, rtCmd, acked, reqVars>>

\* ... and Size() and Head() take it again.
PeekHead ==
    /\ rtPc = "peek"
    /\ CanRLock
    /\ IF queue = {} THEN rtPc' = "idle" /\ rtAck' = NoAck /\ UNCHANGED rtCmd
                     ELSE rtPc' = "write" /\ rtCmd' = head /\ UNCHANGED rtAck
    /\ UNCHANGED <<queueVars, writer, cmdVars, lastVars, shVars, acked, reqVars>>

\* Mutants: the op is not compared, or only its 16 bits are.
WriteStatusAny ==
    /\ rtPc = "write"
    /\ status' = [status EXCEPT ![rtCmd] = rtAck.res]
    /\ rtPc' = "idle" /\ rtAck' = NoAck /\ rtCmd' = NoCmd
    /\ UNCHANGED <<queueVars, writer, sent, lastVars, shVars, acked, reqVars>>

WriteStatusWire ==
    /\ rtPc = "write"
    /\ status' = IF WireOp(rtCmd) = WireOp(rtAck.cmd)
                 THEN [status EXCEPT ![rtCmd] = rtAck.res] ELSE status
    /\ rtPc' = "idle" /\ rtAck' = NoAck /\ rtCmd' = NoCmd
    /\ UNCHANGED <<queueVars, writer, sent, lastVars, shVars, acked, reqVars>>

WriteStatus ==
    /\ rtPc = "write"
    /\ status' = IF Op[rtCmd] = WireOp(rtAck.cmd)
                 THEN [status EXCEPT ![rtCmd] = rtAck.res] ELSE status
    /\ rtPc' = "idle" /\ rtAck' = NoAck /\ rtCmd' = NoCmd
    /\ UNCHANGED <<queueVars, writer, sent, lastVars, shVars, acked, reqVars>>

ReaderStep == PeekHead \/ WriteStatus

-----------------------------------------------------------------------------
Advance(r) ==
    \/ PushLock(r) \/ PushSetup(r) \/ PushMain(r)
    \/ Poll(r) \/ NullLast(r) \/ TimeOut(r)

Next ==
    \/ \E r \in Request : Arrive(r) \/ Panic(r) \/ Advance(r)
    \/ HandlerStep
    \/ \E c \in Cmd, res \in Result : VehicleAcks(c, res)
    \/ ReceiveAck
    \/ ReaderStep

Spec == Init /\ [][Next]_vars

\* Goroutines that can run do run; requests need not arrive and the vehicle
\* need not answer.
FairSpec ==
    /\ Spec
    /\ WF_vars(HandlerStep)
    /\ WF_vars(ReaderStep)
    /\ \A r \in Request : WF_vars(Advance(r))

-----------------------------------------------------------------------------

RequestPc == {"new", "setup", "setupLock", "main", "mainLock", "poll", "null",
              "replied", "timedOut", "failed"}

Acks == [cmd : Cmd, res : Result]

QueueType ==
    /\ queue \subseteq Cmd /\ head \in Cmd \cup {NoCmd}
    /\ writer \in Request \cup {StateHandler, Nobody}
CmdType == status \in [Cmd -> UInt8] /\ sent \in [Cmd -> 0..RetryLimit + 1]
LastType == commandLast \in UInt16 /\ commandLastInfo \in UInt8 \cup {NullInfo}
HandlerType ==
    /\ shPc \in {"idle", "record", "decide", "pop", "popLock"}
    /\ shCmd \in Cmd \cup {NoCmd}
ReaderType ==
    /\ rtPc \in {"idle", "peek", "write"}
    /\ rtAck \in Acks \cup {NoAck} /\ rtCmd \in Cmd \cup {NoCmd}
    /\ acked \subseteq Acks
RequestType ==
    /\ pc \in [Request -> RequestPc]
    /\ polls \in [Request -> 0..PollLimit]
    /\ reply \in [Request -> UInt8 \cup {NullInfo}]

\* The types of the variables.
TypeOK ==
    /\ QueueType /\ CmdType /\ LastType
    /\ HandlerType /\ ReaderType /\ RequestType

\* The vehicle has answered the op o with the result i.
Answered(o, i) == \E a \in acked : WireOp(a.cmd) = o /\ a.res = i

\* A client whose poll found its op (apiservice.go:610-620) is told only a result
\* that the vehicle gave for this op: not one made up on the way through the
\* queue, the Status field and the last-result cell, and not another op's.  (Op 10
\* is the "no result" value of vehicle.go:615 and escapes.  The reply of a poll
\* that timed out, 621-631, tells what the cell held last, of whatever op.)
ReplyIsAcked ==
    \A r \in Request :
        pc[r] \in {"null", "replied"} /\ Op[Main[r]] # NullOp =>
            Answered(Op[Main[r]], reply[r])

\* sysOnlineHandler takes a command to be finished (vehicle.go:193-204) only
\* when the vehicle gave its op a final answer or it was sent one time more
\* than RetryLimit: that is what TimesSent > 5 does, and TriedFiveTimes is what
\* the comment beside it says.
GivenUpForAReason ==
    shPc \in {"pop", "popLock"} =>
        \/ \E res \in Final : Answered(Op[shCmd], res)
        \/ sent[shCmd] = RetryLimit + 1

\* The Head of vehicle.go:187 and the Pop of 195-203 are two critical sections:
\* what Pop removes is the command that was judged, or one that arrived in
\* between and goes strictly ahead of it.  A tie never replaces the head.
PopTakesDecided ==
    [][\A c \in queue \ queue' : c = shCmd \/ Op[c] < Op[shCmd]]_vars

\* UpdateFromAck (api.go:782-789) looks the head up and writes its Status in
\* two steps: nobody takes the command out of the queue, or another one to its
\* head, in between, because processPacket holds the read lock around both.
AckUpdatesHead ==
    [][\A c \in Cmd : status'[c] # status[c] => c \in queue /\ c = head]_vars

\* The packet reader waits for a read lock inside its own read lock
\* (vehicle.go:429, api.go:782) while a writer waits for it to leave.
Jammed == rtPc = "peek" /\ writer # Nobody

\* A queued command is sent, judged and removed in the end (the retry limit of
\* vehicle.go:201), whatever is pushed ahead of it and whether or not the
\* vehicle answers, unless the reader and a writer wait for each other.
CommandsLeave == \A c \in Cmd : (c \in queue) ~> (c \notin queue \/ Jammed)

\* commandBlock ends (apiservice.go:605): every request that was begun is
\* answered, under the same condition.
RequestsAnswered ==
    \A r \in Request :
        (pc[r] # "new") ~> (pc[r] \in {"replied", "timedOut", "failed"} \/ Jammed)

-----------------------------------------------------------------------------
(* The inductive invariant: what each place of the pipeline knows.         *)

\* The head is in the queue and nothing in the queue goes before it.
QueueOK ==
    IF queue = {} THEN head = NoCmd
                  ELSE head \in queue /\ \A c \in queue : Op[head] <= Op[c]

\* The handler's cmd stays in the queue until the handler pops.
HandlerOK ==
    IF shPc = "idle" THEN shCmd = NoCmd
    ELSE shCmd \in queue /\ (head = shCmd \/ Op[head] < Op[shCmd])

\* The reader handles an acknowledgement that was given, and its cmd stays at
\* the head until it is written.
ReaderOK ==
    /\ rtPc # "idle" => rtAck \in acked
    /\ rtPc = "write" => rtCmd \in queue /\ rtCmd = head

\* A Status is the initial one or an answer to the command's op.
StatusOK == \A c \in Cmd : status[c] = Unacked \/ Answered(Op[c], status[c])

\* So is the last result, unless it names the "no result" op.
LastOK ==
    commandLast # NullOp /\ commandLastInfo # Unacked =>
        Answered(commandLast, commandLastInfo)

\* Only a goto or a takeoff pushes a SetMode command first.
SetupOK == \A r \in Request : pc[r] \in {"setup", "setupLock"} => Setup[r] # NoCmd

\* Each place the result of vehicle.go:182-204 and apiservice.go:601-632 goes
\* through keeps what it was handed.
IInv ==
    /\ TypeOK /\ QueueOK /\ HandlerOK /\ ReaderOK
    /\ SetupOK /\ StatusOK /\ LastOK /\ ReplyIsAcked /\ GivenUpForAReason

-----------------------------------------------------------------------------
(* What the comments promise.                                              *)

\* "We tried 5 times, but got no ack, so throw it out" (vehicle.go:202).
TriedFiveTimes == shPc = "pop" /\ acked = {} => sent[shCmd] = 5

\* "The priority queue is synchronized and is safe for concurrent operations."
\* (pqueue.go:34-36)
NotJammed == ~Jammed
=============================================================================
