------------------------ MODULE VehicleCommands_proofs ------------------------
(***************************************************************************)
(* Whatever the commands, the requests and the vehicle's answers: a client *)
(* is told only results the vehicle gave, and the queue loses no command   *)
(* that was not judged or overtaken.                                       *)
(*                                                                         *)
(* The argument follows a result from the vehicle to the client: acked,    *)
(* rtAck, status, the last-result cell, reply.  Each place keeps what it   *)
(* was handed (IInv), and acked only grows.                                *)
(***************************************************************************)
EXTENDS VehicleCommands, TLAPS

\* The parts of the assumption the proofs use.
LEMMA OpType == Op \in [Cmd -> Int]
  BY CommandAssumption

LEMMA RequestTypes ==
    ASSUME NEW r \in Request
    PROVE  Setup[r] \in Cmd \cup {NoCmd} /\ Main[r] \in Cmd
  BY CommandAssumption

LEMMA BoundTypes == Result \subseteq UInt8 /\ RetryLimit \in Nat /\ PollLimit \in Nat \ {0}
  BY CommandAssumption

-----------------------------------------------------------------------------
\* The op on the wire (vehicle.go:579) fits a uint16, and is the op if the op
\* does.
LEMMA WireOpIs ==
    ASSUME NEW c \in Cmd
    PROVE  /\ WireOp(c) \in UInt16
           /\ Op[c] \in UInt16 => WireOp(c) = Op[c]
<1>1. \A n \in Int : n % 65536 \in UInt16
  BY DEF UInt16
<1>2. \A n \in UInt16 : n % 65536 = n
  <2>1. \A n \in Int : 0 <= n /\ n < 65536 => n % 65536 = n
    OBVIOUS
  <2>2. \A n \in UInt16 : n \in Int /\ 0 <= n /\ n < 65536
    BY DEF UInt16
  <2>3. QED
    BY <2>1, <2>2
<1>3. Op[c] \in Int
  BY OpType
<1>4. QED
  BY <1>1, <1>2, <1>3 DEF WireOp

\* Only the vehicle answers (COMMAND_ACK).
LEMMA AckedFrame ==
    ASSUME Next
    PROVE  acked' = acked \/ \E c \in Cmd, res \in Result : VehicleAcks(c, res)
<1>1. ASSUME NEW r \in Request, Arrive(r) \/ Panic(r) \/ Advance(r)
      PROVE  UNCHANGED acked
  <2>1. CASE Arrive(r) \/ Panic(r) \/ PushLock(r)
    BY <2>1 DEF Arrive, Panic, PushLock
  <2>2. CASE PushSetup(r) \/ PushMain(r)
    BY <2>2 DEF PushSetup, PushMain
  <2>3. CASE Poll(r) \/ NullLast(r) \/ TimeOut(r)
    BY <2>3 DEF Poll, NullLast, TimeOut
  <2>4. QED
    BY <1>1, <2>1, <2>2, <2>3 DEF Advance
<1>2. CASE HandlerStep
  BY <1>2 DEF HandlerStep, ReadHead, Record, DecidePop, DecideSend, PopLock, Pop
<1>3. CASE ReceiveAck \/ ReaderStep
  BY <1>3 DEF ReceiveAck, ReaderStep, PeekHead, WriteStatus
<1>4. QED
  BY <1>1, <1>2, <1>3 DEF Next

\* Answers are never taken back.
LEMMA AnswersStay ==
    ASSUME Next
    PROVE  acked \subseteq acked'
<1>1. ASSUME NEW c \in Cmd, NEW res \in Result, VehicleAcks(c, res)
      PROVE  acked \subseteq acked'
  BY <1>1 DEF VehicleAcks
<1>2. QED
  BY <1>1, AckedFrame

-----------------------------------------------------------------------------
(* Which handler writes which shared state.                                *)

\* Only a push and sysOnlineHandler's Pop change the queue (vehicle.go:195-203,
\* 553, 572, 582), its write lock aside.
LEMMA QueueFrame ==
    ASSUME Next
    PROVE  \/ UNCHANGED <<queue, head>>
           \/ \E r \in Request : PushSetup(r) \/ PushMain(r)
           \/ Pop
<1>1. ASSUME NEW r \in Request, Arrive(r) \/ Panic(r) \/ PushLock(r) \/ Poll(r) \/ NullLast(r) \/ TimeOut(r)
      PROVE  UNCHANGED <<queue, head>>
  BY <1>1 DEF Arrive, Panic, PushLock, Poll, NullLast, TimeOut, queueVars
<1>2. CASE ReadHead \/ Record \/ DecidePop \/ DecideSend \/ PopLock
  BY <1>2 DEF ReadHead, Record, DecidePop, DecideSend, PopLock, queueVars
<1>3. CASE ReceiveAck \/ PeekHead \/ WriteStatus \/ \E c \in Cmd, res \in Result : VehicleAcks(c, res)
  BY <1>3 DEF ReceiveAck, PeekHead, WriteStatus, VehicleAcks, queueVars
<1>4. QED
  BY <1>1, <1>2, <1>3 DEF Next, Advance, HandlerStep, ReaderStep

\* Status is written by UpdateFromAck (api.go:788) and TimesSent by
\* sysOnlineHandler (vehicle.go:206), and by nothing else.
LEMMA CmdFrame ==
    ASSUME Next
    PROVE  /\ WriteStatus \/ UNCHANGED status
           /\ DecideSend \/ UNCHANGED sent
<1>1. ASSUME NEW r \in Request, Arrive(r) \/ Panic(r) \/ Advance(r)
      PROVE  UNCHANGED <<status, sent>>
  BY <1>1 DEF Advance, Arrive, Panic, PushLock, PushSetup, PushMain, Poll, NullLast, TimeOut, cmdVars
<1>2. CASE ReadHead \/ Record \/ DecidePop \/ DecideSend \/ PopLock \/ Pop
  BY <1>2 DEF ReadHead, Record, DecidePop, DecideSend, PopLock, Pop, cmdVars
<1>3. CASE ReceiveAck \/ PeekHead \/ WriteStatus \/ \E c \in Cmd, res \in Result : VehicleAcks(c, res)
  BY <1>3 DEF ReceiveAck, PeekHead, WriteStatus, VehicleAcks, cmdVars
<1>4. QED
  BY <1>1, <1>2, <1>3 DEF Next, HandlerStep, ReaderStep

\* The last-result cell is written by sysOnlineHandler (vehicle.go:189-192) and
\* by NullLastSuccessfulCmd (612-617).
LEMMA LastFrame ==
    ASSUME Next
    PROVE  \/ UNCHANGED <<commandLast, commandLastInfo>>
           \/ Record
           \/ \E r \in Request : NullLast(r)
<1>1. ASSUME NEW r \in Request, Arrive(r) \/ Panic(r) \/ PushLock(r) \/ PushSetup(r) \/ PushMain(r)
                                \/ Poll(r) \/ TimeOut(r)
      PROVE  UNCHANGED <<commandLast, commandLastInfo>>
  BY <1>1 DEF Arrive, Panic, PushLock, PushSetup, PushMain, Poll, TimeOut, lastVars
<1>2. CASE ReadHead \/ DecidePop \/ DecideSend \/ PopLock \/ Pop
  BY <1>2 DEF ReadHead, DecidePop, DecideSend, PopLock, Pop, lastVars
<1>3. CASE ReceiveAck \/ PeekHead \/ WriteStatus \/ \E c \in Cmd, res \in Result : VehicleAcks(c, res)
  BY <1>3 DEF ReceiveAck, PeekHead, WriteStatus, VehicleAcks, lastVars
<1>4. QED
  BY <1>1, <1>2, <1>3 DEF Next, Advance, HandlerStep, ReaderStep

\* Only the state handler moves the state handler (vehicle.go:180-209).
LEMMA HandlerFrame ==
    ASSUME Next
    PROVE  HandlerStep \/ UNCHANGED <<shPc, shCmd>>
<1>1. ASSUME NEW r \in Request, Arrive(r) \/ Panic(r) \/ Advance(r)
      PROVE  UNCHANGED <<shPc, shCmd>>
  BY <1>1 DEF Advance, Arrive, Panic, PushLock, PushSetup, PushMain, Poll, NullLast, TimeOut, shVars
<1>2. CASE ReceiveAck \/ PeekHead \/ WriteStatus \/ \E c \in Cmd, res \in Result : VehicleAcks(c, res)
  BY <1>2 DEF ReceiveAck, PeekHead, WriteStatus, VehicleAcks, shVars
<1>3. QED
  BY <1>1, <1>2 DEF Next, ReaderStep

\* Only the packet reader moves the packet reader (vehicle.go:425-432).
LEMMA ReaderFrame ==
    ASSUME Next
    PROVE  ReceiveAck \/ ReaderStep \/ UNCHANGED <<rtPc, rtAck, rtCmd>>
<1>1. ASSUME NEW r \in Request, Arrive(r) \/ Panic(r) \/ Advance(r)
      PROVE  UNCHANGED <<rtPc, rtAck, rtCmd>>
  BY <1>1 DEF Advance, Arrive, Panic, PushLock, PushSetup, PushMain, Poll, NullLast, TimeOut, rtVars
<1>2. CASE HandlerStep
  BY <1>2 DEF HandlerStep, ReadHead, Record, DecidePop, DecideSend, PopLock, Pop, rtVars
<1>3. CASE \E c \in Cmd, res \in Result : VehicleAcks(c, res)
  BY <1>3 DEF VehicleAcks, rtVars
<1>4. QED
  BY <1>1, <1>2, <1>3 DEF Next

\* Only a request's own goroutine moves it (apiservice.go:601-632).
LEMMA RequestFrame ==
    ASSUME Next
    PROVE  \/ UNCHANGED <<pc, polls, reply>>
           \/ \E r \in Request : Arrive(r) \/ Panic(r) \/ Advance(r)
<1>1. CASE HandlerStep
  BY <1>1 DEF HandlerStep, ReadHead, Record, DecidePop, DecideSend, PopLock, Pop, reqVars
<1>2. CASE ReceiveAck \/ PeekHead \/ WriteStatus \/ \E c \in Cmd, res \in Result : VehicleAcks(c, res)
  BY <1>2 DEF ReceiveAck, PeekHead, WriteStatus, VehicleAcks, reqVars
<1>3. QED
  BY <1>1, <1>2 DEF Next, ReaderStep

-----------------------------------------------------------------------------
(* Each part of the invariant is kept by the handlers that touch it.       *)

\* NewVehicle leaves an empty queue and no result to report (vehicle.go:75-132).
LEMMA InitOK == Init => IInv
<1> SUFFICES ASSUME Init PROVE IInv
  OBVIOUS
<1>1. TypeOK
  BY BoundTypes DEF Init, TypeOK, QueueType, CmdType, LastType, HandlerType, ReaderType,
     RequestType, RequestPc, NoAck, Unacked, NullOp, UInt8, UInt16
<1>2. QueueOK /\ HandlerOK /\ ReaderOK /\ StatusOK
  BY DEF Init, QueueOK, HandlerOK, ReaderOK, StatusOK
<1>3. SetupOK /\ LastOK /\ ReplyIsAcked /\ GivenUpForAReason
  BY DEF Init, LastOK, ReplyIsAcked, GivenUpForAReason, SetupOK
<1>4. QED
  BY <1>1, <1>2, <1>3 DEF IInv

\* A push puts its command at the head only when it goes strictly before the
\* old head; a pop finds the next head among those that nothing goes before
\* (pqueue.go:77-105, as module PriorityQueue states it).
LEMMA InsertOK ==
    ASSUME queue \subseteq Cmd, QueueOK, NEW c \in Cmd, Q!Insert(c)
    PROVE  /\ queue' = queue \cup {c} /\ head' \in queue'
           /\ QueueOK'
           /\ queue # {} => head' = head \/ Op[head'] < Op[head]
<1>1. \A x \in Cmd : Op[x] \in Int
  BY OpType
<1>2. queue' = queue \cup {c}
  BY DEF Q!Insert
<1>3. CASE queue = {}
  <2>1. head' = c
    BY <1>3 DEF QueueOK, Q!Insert
  <2>2. QED
    BY <1>1, <1>2, <1>3, <2>1 DEF QueueOK
<1>4. CASE queue # {}
  <2>1. head \in queue /\ \A x \in queue : Op[head] <= Op[x]
    BY <1>4 DEF QueueOK
  <2>2. head' = IF Op[c] < Op[head] THEN c ELSE head
    <3>1. head # NoCmd
      BY <2>1, CommandAssumption
    <3>2. QED
      BY <3>1 DEF Q!Insert, Q!Ahead
  <2>3. head' \in queue' /\ \A x \in queue' : Op[head'] <= Op[x]
    BY <1>1, <1>2, <2>1, <2>2
  <2>4. QED
    BY <1>2, <1>4, <2>2, <2>3 DEF QueueOK
<1>5. QED
  BY <1>2, <1>3, <1>4

LEMMA RemoveOK ==
    ASSUME queue \subseteq Cmd, QueueOK, Q!Remove
    PROVE  /\ queue' = queue \ {head}
           /\ queue' = {} => head' = NoCmd
           /\ queue' # {} => head' \in queue'
           /\ QueueOK'
  BY OpType DEF QueueOK, Q!Remove, Q!PopLeaves, Q!First, Q!Ahead

\* What the handlers push is a command (DoGenericCommand, vehicle.go:575-583).
LEMMA PushInserts ==
    ASSUME IInv, NEW r \in Request, PushSetup(r) \/ PushMain(r)
    PROVE  \E c \in Cmd : Q!Insert(c)
<1>1. ASSUME PushSetup(r) PROVE Setup[r] \in Cmd /\ Q!Insert(Setup[r])
  BY <1>1, RequestTypes DEF PushSetup, IInv, SetupOK
<1>2. ASSUME PushMain(r) PROVE Main[r] \in Cmd /\ Q!Insert(Main[r])
  BY <1>2, RequestTypes DEF PushMain
<1>3. QED
  BY <1>1, <1>2

LEMMA QueueStep ==
    ASSUME IInv, Next
    PROVE  QueueType' /\ QueueOK'
<1>1. queue \subseteq Cmd /\ head \in Cmd \cup {NoCmd} /\ QueueOK
  BY DEF IInv, TypeOK, QueueType
<1>2. writer' \in Request \cup {StateHandler, Nobody}
  <2>1. writer \in Request \cup {StateHandler, Nobody}
    BY DEF IInv, TypeOK, QueueType
  <2>2. ASSUME NEW r \in Request, Arrive(r) \/ Panic(r) \/ Advance(r)
        PROVE  writer' \in {writer, r, Nobody}
    <3>1. CASE Arrive(r) \/ Panic(r)
      BY <3>1 DEF Arrive, Panic
    <3>2. CASE PushLock(r)
      BY <3>2 DEF PushLock, Announce
    <3>3. CASE PushSetup(r) \/ PushMain(r)
      BY <3>3 DEF PushSetup, PushMain
    <3>4. CASE Poll(r) \/ NullLast(r) \/ TimeOut(r)
      BY <3>4 DEF Poll, NullLast, TimeOut
    <3>5. QED
      BY <2>2, <3>1, <3>2, <3>3, <3>4 DEF Advance
  <2>3. CASE HandlerStep
    BY <2>1, <2>3 DEF HandlerStep, ReadHead, Record, DecidePop, DecideSend, PopLock, Pop, Announce
  <2>4. CASE ReceiveAck \/ ReaderStep \/ \E c \in Cmd, res \in Result : VehicleAcks(c, res)
    BY <2>1, <2>4 DEF ReceiveAck, ReaderStep, PeekHead, WriteStatus, VehicleAcks
  <2>5. QED
    BY <2>1, <2>2, <2>3, <2>4 DEF Next
<1>3. ASSUME NEW r \in Request, PushSetup(r) \/ PushMain(r)
      PROVE  queue' \subseteq Cmd /\ head' \in Cmd \cup {NoCmd} /\ QueueOK'
  <2>1. PICK c \in Cmd : Q!Insert(c)
    BY <1>3, PushInserts
  <2>2. queue' = queue \cup {c} /\ head' \in queue' /\ QueueOK'
    BY ONLY <1>1, <2>1, InsertOK
  <2>3. QED
    BY <1>1, <2>2
<1>4. CASE Pop
  <2>1. Q!Remove
    BY <1>4 DEF Pop
  <2>2. /\ queue' = queue \ {head} /\ QueueOK'
        /\ queue' = {} => head' = NoCmd
        /\ queue' # {} => head' \in queue'
    BY <1>1, <2>1, RemoveOK
  <2>3. QED
    BY <1>1, <1>2, <2>2 DEF QueueType
<1>5. CASE UNCHANGED <<queue, head>>
  BY <1>1, <1>2, <1>5 DEF QueueType, QueueOK
<1>6. QED
  BY <1>2, <1>3, <1>4, <1>5, QueueFrame DEF QueueType

\* UpdateFromAck writes the result of an answer to the head's op, and
\* sysOnlineHandler counts a transmission only up to the limit (api.go:787,
\* vehicle.go:201).
LEMMA CmdStep ==
    ASSUME IInv, Next
    PROVE  CmdType' /\ StatusOK'
<1>1. CmdType /\ StatusOK
  BY DEF IInv, TypeOK
<1>2. acked \subseteq acked'
  BY AnswersStay
<1>3. CASE WriteStatus
  <2>1. rtAck \in acked /\ rtCmd \in Cmd /\ acked \subseteq Acks
    BY <1>3 DEF WriteStatus, IInv, ReaderOK, TypeOK, QueueType, ReaderType
  <2>2. rtAck.cmd \in Cmd /\ rtAck.res \in UInt8
    BY <2>1, BoundTypes DEF Acks
  <2>3. status' = IF Op[rtCmd] = WireOp(rtAck.cmd)
                  THEN [status EXCEPT ![rtCmd] = rtAck.res] ELSE status
    BY <1>3 DEF WriteStatus
  <2>4. /\ status' \in [Cmd -> UInt8]
        /\ \A c \in Cmd : \/ status'[c] = status[c]
                          \/ status'[c] = rtAck.res /\ Op[c] = WireOp(rtAck.cmd)
    BY <1>1, <2>1, <2>2, <2>3 DEF CmdType
  <2>5. ASSUME NEW c \in Cmd PROVE status'[c] = Unacked \/ Answered(Op[c], status'[c])
    BY <1>1, <2>1, <2>4 DEF StatusOK, Answered
  <2>6. UNCHANGED <<sent, acked>>
    BY <1>3 DEF WriteStatus
  <2>7. QED
    BY <1>1, <2>4, <2>5, <2>6 DEF CmdType, StatusOK, Answered
<1>4. CASE UNCHANGED status
  <2>1. StatusOK'
    BY <1>1, <1>2, <1>4 DEF StatusOK, Answered
  <2>2. sent' \in [Cmd -> 0..RetryLimit + 1]
    <3>1. CASE DecideSend
      <4>1. /\ shCmd \in Cmd /\ ~(sent[shCmd] > RetryLimit)
            /\ sent' = [sent EXCEPT ![shCmd] = @ + 1]
        BY <3>1 DEF DecideSend, GivenUp, IInv, TypeOK, QueueType, HandlerOK
      <4>2. sent[shCmd] \in 0..RetryLimit + 1 /\ sent[shCmd] + 1 \in 0..RetryLimit + 1
        BY <1>1, <4>1, BoundTypes DEF CmdType
      <4>3. QED
        BY <1>1, <4>1, <4>2 DEF CmdType
    <3>2. CASE UNCHANGED sent
      BY <1>1, <3>2 DEF CmdType
    <3>3. QED
      BY <3>1, <3>2, CmdFrame
  <2>3. QED
    BY <1>1, <1>4, <2>1, <2>2 DEF CmdType
<1>5. QED
  BY <1>3, <1>4, CmdFrame

\* The last-result cell takes its op and its result from one command
\* (vehicle.go:190-191).
LEMMA LastStep ==
    ASSUME IInv, Next
    PROVE  LastType' /\ LastOK'
<1>1. LastType /\ LastOK
  BY DEF IInv, TypeOK
<1>2. acked \subseteq acked'
  BY AnswersStay
<1>3. CASE Record
  <2>1. /\ commandLast' = WireOp(shCmd) /\ commandLastInfo' = status[shCmd] /\ acked' = acked
        /\ shCmd \in Cmd
    BY <1>3 DEF Record, IInv, TypeOK, QueueType, HandlerOK
  <2>2. status[shCmd] \in UInt8 /\ (status[shCmd] = Unacked \/ Answered(Op[shCmd], status[shCmd]))
    BY <2>1 DEF IInv, TypeOK, CmdType, StatusOK
  <2>3. WireOp(shCmd) \in UInt16
    BY <2>1, WireOpIs
  <2>4. Answered(Op[shCmd], status[shCmd]) => Answered(WireOp(shCmd), status[shCmd])
    <3>1. ASSUME NEW a \in acked, WireOp(a.cmd) = Op[shCmd] PROVE WireOp(shCmd) = Op[shCmd]
      <4>1. a.cmd \in Cmd
        BY DEF IInv, TypeOK, ReaderType, Acks
      <4>2. Op[shCmd] \in UInt16
        BY <3>1, <4>1, WireOpIs
      <4>3. QED
        BY <2>1, <4>2, WireOpIs
    <3>2. QED
      BY <3>1 DEF Answered
  <2>5. commandLastInfo' = Unacked \/ Answered(commandLast, commandLastInfo)'
    BY <2>1, <2>2, <2>4 DEF Answered
  <2>6. QED
    BY <2>1, <2>2, <2>3, <2>5 DEF LastType, LastOK
<1>4. ASSUME NEW r \in Request, NullLast(r) PROVE LastType' /\ LastOK'
  <2>1. commandLast' = NullOp /\ commandLastInfo' = NullInfo
    BY <1>4 DEF NullLast
  <2>2. NullOp \in UInt16
    BY DEF NullOp, UInt16
  <2>3. QED
    BY <2>1, <2>2 DEF LastType, LastOK
<1>5. CASE UNCHANGED <<commandLast, commandLastInfo>>
  BY <1>1, <1>2, <1>5 DEF LastType, LastOK, Answered
<1>6. QED
  BY <1>3, <1>4, <1>5, LastFrame

\* The handler's cmd is the head when it is read, and only a command that goes
\* before it can take its place until the handler pops (vehicle.go:187-203).
\* The handler pops for one of the two reasons of lines 193-204.
LEMMA HandlerInv ==
    ASSUME IInv, Next
    PROVE  HandlerType' /\ HandlerOK' /\ GivenUpForAReason'
<1>1. HandlerType /\ HandlerOK /\ GivenUpForAReason /\ QueueOK /\ queue \subseteq Cmd
  BY DEF IInv, TypeOK, QueueType
<1>2. acked \subseteq acked'
  BY AnswersStay
<1>3. CASE ReadHead
  <2>1. shCmd' = head /\ shPc' = "record" /\ UNCHANGED <<queue, head>> /\ queue # {}
    BY <1>3 DEF ReadHead, queueVars
  <2>2. QED
    BY <1>1, <2>1 DEF QueueOK, HandlerType, HandlerOK, GivenUpForAReason
<1>4. CASE Record
  <2>1. shPc = "record" /\ shPc' = "decide" /\ UNCHANGED <<queue, head, shCmd>>
    BY <1>4 DEF Record, queueVars
  <2>2. QED
    BY <1>1, <2>1 DEF HandlerType, HandlerOK, GivenUpForAReason
<1>5. CASE DecidePop
  <2>1. /\ shPc = "decide" /\ shPc' = "pop"
        /\ UNCHANGED <<queue, head, shCmd, sent, acked>>
        /\ Settled(shCmd) \/ GivenUp(shCmd)
    BY <1>5 DEF DecidePop, queueVars, cmdVars
  <2>2. shCmd \in Cmd
    BY <1>1, <2>1 DEF HandlerOK
  <2>3. Settled(shCmd) => \E res \in Final : Answered(Op[shCmd], res)
    <3>1. Unacked \notin Final
      BY DEF Unacked, Final, ACCEPTED, Refusals
    <3>2. QED
      BY <2>2, <3>1 DEF Settled, IInv, StatusOK
  <2>4. GivenUp(shCmd) => sent[shCmd] = RetryLimit + 1
    BY <2>2, BoundTypes DEF GivenUp, IInv, TypeOK, CmdType
  <2>5. GivenUpForAReason'
    BY <2>1, <2>3, <2>4 DEF GivenUpForAReason, Answered
  <2>6. QED
    BY <1>1, <2>1, <2>5 DEF HandlerType, HandlerOK
<1>6. CASE DecideSend \/ Pop
  <2>1. shPc' = "idle" /\ shCmd' = NoCmd
    BY <1>6 DEF DecideSend, Pop
  <2>2. QED
    BY <2>1 DEF HandlerType, HandlerOK, GivenUpForAReason
<1>7. CASE PopLock
  <2>1. /\ shPc = "pop" /\ shPc' = "popLock"
        /\ UNCHANGED <<queue, head, shCmd, sent, acked>>
    BY <1>7 DEF PopLock, queueVars, cmdVars
  <2>2. QED
    BY <1>1, <2>1 DEF HandlerType, HandlerOK, GivenUpForAReason, Answered
<1>8. CASE UNCHANGED <<shPc, shCmd>> /\ ~HandlerStep
  <2>1. UNCHANGED sent
    BY <1>8, CmdFrame DEF HandlerStep
  <2>2. GivenUpForAReason'
    BY <1>1, <1>2, <1>8, <2>1 DEF GivenUpForAReason, Answered
  <2>3. HandlerOK'
    <3>1. ASSUME NEW r \in Request, PushSetup(r) \/ PushMain(r) PROVE HandlerOK'
      <4>1. PICK c \in Cmd : Q!Insert(c)
        BY <3>1, PushInserts
      <4>2. /\ queue' = queue \cup {c} /\ head' \in queue'
            /\ queue # {} => head' = head \/ Op[head'] < Op[head]
        BY ONLY <1>1, <4>1, InsertOK
      <4>3. CASE shPc = "idle"
        BY <1>1, <1>8, <4>3 DEF HandlerOK
      <4>4. CASE shPc # "idle"
        <5>1. shCmd \in queue /\ (head = shCmd \/ Op[head] < Op[shCmd])
          BY <1>1, <4>4 DEF HandlerOK
        <5>2. head \in queue
          BY <1>1, <5>1 DEF QueueOK
        <5>3. Op[head] \in Int /\ Op[head'] \in Int /\ Op[shCmd] \in Int
          BY <1>1, <4>2, <5>1, <5>2, OpType
        <5>4. head' = shCmd \/ Op[head'] < Op[shCmd]
          BY <4>2, <5>1, <5>3
        <5>5. QED
          BY <1>8, <4>2, <4>4, <5>1, <5>4 DEF HandlerOK
      <4>5. QED
        BY <4>3, <4>4
    <3>2. CASE UNCHANGED <<queue, head>>
      BY <1>1, <1>8, <3>2 DEF HandlerOK
    <3>3. QED
      BY <1>8, <3>1, <3>2, QueueFrame DEF HandlerStep
  <2>4. QED
    BY <1>1, <1>8, <2>2, <2>3 DEF HandlerType
<1>9. QED
  BY <1>3, <1>4, <1>5, <1>6, <1>7, <1>8, HandlerFrame DEF HandlerStep

\* The reader's cmd stays at the head until its Status is written: nobody who
\* changes the queue gets its lock meanwhile (vehicle.go:429-431).
LEMMA ReaderInv ==
    ASSUME IInv, Next
    PROVE  ReaderType' /\ ReaderOK'
<1>1. ReaderType /\ ReaderOK /\ QueueOK /\ queue \subseteq Cmd
  BY DEF IInv, TypeOK, QueueType
<1>2. acked \subseteq acked' /\ acked' \subseteq Acks
  <2>1. ASSUME NEW c \in Cmd, NEW res \in Result, VehicleAcks(c, res)
        PROVE  acked' \subseteq Acks
    <3>1. acked' = acked \cup {[cmd |-> c, res |-> res]} /\ acked \subseteq Acks
      BY <1>1, <2>1 DEF VehicleAcks, ReaderType
    <3>2. QED
      BY <3>1 DEF Acks
  <2>2. acked' = acked => acked' \subseteq Acks
    BY <1>1 DEF ReaderType
  <2>3. QED
    BY <2>1, <2>2, AnswersStay, AckedFrame
<1>3. CASE ReceiveAck
  <2>1. rtAck' \in acked /\ rtPc' = "peek" /\ UNCHANGED rtCmd
    BY <1>3 DEF ReceiveAck
  <2>2. QED
    BY <1>1, <1>2, <2>1 DEF ReaderType, ReaderOK
<1>4. CASE PeekHead
  <2>1. /\ rtPc = "peek" /\ UNCHANGED <<queue, head>>
        /\ IF queue = {} THEN rtPc' = "idle" /\ rtAck' = NoAck /\ UNCHANGED rtCmd
                         ELSE rtPc' = "write" /\ rtCmd' = head /\ UNCHANGED rtAck
    BY <1>4 DEF PeekHead, queueVars
  <2>2. rtAck \in acked
    BY <1>1, <2>1 DEF ReaderOK
  <2>3. QED
    BY <1>1, <1>2, <2>1, <2>2 DEF ReaderType, ReaderOK, QueueOK
<1>5. CASE WriteStatus
  <2>1. rtPc' = "idle" /\ rtAck' = NoAck /\ rtCmd' = NoCmd
    BY <1>5 DEF WriteStatus
  <2>2. QED
    BY <1>2, <2>1 DEF ReaderType, ReaderOK
<1>6. CASE UNCHANGED <<rtPc, rtAck, rtCmd>>
  <2>1. ReaderType' /\ (rtPc' # "idle" => rtAck' \in acked')
    BY <1>1, <1>2, <1>6 DEF ReaderType, ReaderOK
  <2>2. CASE rtPc = "write"
    <3>1. UNCHANGED <<queue, head>>
      BY <2>2, QueueFrame DEF PushSetup, PushMain, Pop, Owns, ReaderIn
    <3>2. QED
      BY <1>1, <1>6, <2>1, <3>1 DEF ReaderOK
  <2>3. QED
    BY <1>6, <2>1, <2>2 DEF ReaderOK
<1>7. QED
  BY <1>3, <1>4, <1>5, <1>6, ReaderFrame DEF ReaderStep

\* commandBlock takes the reply from the last-result cell, when the cell names
\* its op and the result is not the initial one (apiservice.go:610-615).
LEMMA RequestInv ==
    ASSUME IInv, Next
    PROVE  RequestType' /\ SetupOK' /\ ReplyIsAcked'
<1>1. RequestType /\ SetupOK /\ ReplyIsAcked /\ LastType /\ LastOK
  BY DEF IInv, TypeOK
<1>2. acked \subseteq acked'
  BY AnswersStay
<1>3. ASSUME NEW o, NEW i, Answered(o, i) PROVE Answered(o, i)'
  BY <1>2, <1>3 DEF Answered
<1>4. ASSUME NEW r \in Request,
             Arrive(r) \/ Panic(r) \/ PushLock(r) \/ PushSetup(r) \/ PushMain(r) \/ TimeOut(r)
      PROVE  RequestType' /\ SetupOK' /\ ReplyIsAcked'
  <2>1. PICK p \in RequestPc \ {"null", "replied"} :
            /\ pc' = [pc EXCEPT ![r] = p]
            /\ UNCHANGED <<polls, reply>>
            /\ p \in {"setup", "setupLock"} => Setup[r] # NoCmd
    <3>1. CASE Arrive(r)
      <4>1. /\ pc' = [pc EXCEPT ![r] = IF Setup[r] = NoCmd THEN "main" ELSE "setup"]
            /\ UNCHANGED <<polls, reply>>
        BY <3>1 DEF Arrive
      <4>2. CASE Setup[r] = NoCmd
        <5>1. pc' = [pc EXCEPT ![r] = "main"]
          BY <4>1, <4>2
        <5>2. "main" \in RequestPc \ {"null", "replied"} /\ "main" \notin {"setup", "setupLock"}
          BY DEF RequestPc
        <5>3. QED
          BY ONLY <4>1, <5>1, <5>2
      <4>3. CASE Setup[r] # NoCmd
        <5>1. pc' = [pc EXCEPT ![r] = "setup"]
          BY <4>1, <4>3
        <5>2. QED
          BY <4>1, <4>3, <5>1 DEF RequestPc
      <4>4. QED
        BY <4>2, <4>3
    <3>2. CASE PushLock(r)
      <4>1. /\ pc[r] \in {"setup", "main"} /\ pc' = [pc EXCEPT ![r] = LockOf[pc[r]]]
            /\ UNCHANGED <<polls, reply>>
        BY <3>2 DEF PushLock
      <4>2. CASE pc[r] = "setup"
        <5>1. pc' = [pc EXCEPT ![r] = "setupLock"]
          BY <4>1, <4>2 DEF LockOf
        <5>2. Setup[r] # NoCmd
          BY <1>1, <4>2 DEF SetupOK
        <5>3. QED
          BY <4>1, <5>1, <5>2 DEF RequestPc
      <4>3. CASE pc[r] = "main"
        <5>1. pc' = [pc EXCEPT ![r] = "mainLock"]
          BY <4>1, <4>3 DEF LockOf
        <5>2. QED
          BY <4>1, <5>1 DEF RequestPc
      <4>4. QED
        BY <4>1, <4>2, <4>3
    <3>3. CASE Panic(r) \/ TimeOut(r)
      BY <3>3 DEF Panic, TimeOut, RequestPc
    <3>4. CASE PushSetup(r) \/ PushMain(r)
      BY <3>4 DEF PushSetup, PushMain, RequestPc
    <3>5. QED
      BY <1>4, <3>1, <3>2, <3>3, <3>4
  <2>2. RequestType' /\ SetupOK'
    BY <1>1, <2>1 DEF RequestType, SetupOK
  <2>3. ReplyIsAcked'
    BY <1>1, <1>3, <2>1 DEF RequestType, ReplyIsAcked
  <2>4. QED
    BY <2>2, <2>3
<1>5. ASSUME NEW r \in Request, Poll(r)
      PROVE  RequestType' /\ SetupOK' /\ ReplyIsAcked'
  <2>1. /\ pc[r] = "poll" /\ polls[r] < PollLimit
        /\ reply' = [reply EXCEPT ![r] = commandLastInfo]
    BY <1>5 DEF Poll
  <2>2. CASE commandLast = Op[Main[r]] /\ commandLastInfo # Unacked
    <3>1. pc' = [pc EXCEPT ![r] = "null"] /\ UNCHANGED polls
      BY <1>5, <2>2 DEF Poll
    <3>2. RequestType' /\ SetupOK'
      <4>1. commandLastInfo \in UInt8 \cup {NullInfo} /\ "null" \in RequestPc
        BY <1>1 DEF LastType, RequestPc
      <4>2. RequestType'
        BY <1>1, <2>1, <3>1, <4>1 DEF RequestType
      <4>3. SetupOK'
        BY <1>1, <3>1 DEF RequestType, SetupOK
      <4>4. QED
        BY <4>2, <4>3
    <3>3. Op[Main[r]] # NullOp => Answered(Op[Main[r]], commandLastInfo)
      BY <1>1, <2>2 DEF LastOK
    <3>4. ReplyIsAcked'
      BY <1>1, <1>3, <2>1, <3>1, <3>3 DEF ReplyIsAcked, RequestType
    <3>5. QED
      BY <3>2, <3>4
  <2>3. CASE ~(commandLast = Op[Main[r]] /\ commandLastInfo # Unacked)
    <3>1. polls' = [polls EXCEPT ![r] = @ + 1] /\ UNCHANGED pc
      BY <1>5, <2>3 DEF Poll
    <3>2. polls[r] + 1 \in 0..PollLimit
      BY <1>1, <2>1, BoundTypes DEF RequestType
    <3>3. RequestType' /\ SetupOK'
      BY <1>1, <2>1, <3>1, <3>2 DEF RequestType, SetupOK, LastType
    <3>4. ReplyIsAcked'
      BY <1>1, <1>3, <2>1, <3>1 DEF ReplyIsAcked, RequestType
    <3>5. QED
      BY <3>3, <3>4
  <2>4. QED
    BY <2>2, <2>3
<1>6. ASSUME NEW r \in Request, NullLast(r)
      PROVE  RequestType' /\ SetupOK' /\ ReplyIsAcked'
  <2>1. pc[r] = "null" /\ pc' = [pc EXCEPT ![r] = "replied"] /\ UNCHANGED <<polls, reply>>
    BY <1>6 DEF NullLast
  <2>2. QED
    BY <1>1, <1>3, <2>1 DEF RequestType, RequestPc, SetupOK, ReplyIsAcked
<1>7. CASE UNCHANGED <<pc, polls, reply>>
  BY <1>1, <1>3, <1>7 DEF RequestType, SetupOK, ReplyIsAcked
<1>8. QED
  BY <1>4, <1>5, <1>6, <1>7, RequestFrame DEF Advance

-----------------------------------------------------------------------------
\* A goroutine that does nothing breaks nothing.
LEMMA StutterOK == IInv /\ UNCHANGED vars => IInv'
<1> SUFFICES ASSUME IInv, UNCHANGED vars PROVE IInv'
  OBVIOUS
<1>1. /\ UNCHANGED <<queue, head, writer, status, sent>>
      /\ UNCHANGED <<commandLast, commandLastInfo, shPc, shCmd>>
      /\ UNCHANGED <<rtPc, rtAck, rtCmd, acked, pc, polls, reply>>
  BY DEF vars, queueVars, cmdVars, lastVars, shVars, rtVars, reqVars
<1>2. TypeOK'
  BY <1>1 DEF IInv, TypeOK, QueueType, CmdType, LastType, HandlerType, ReaderType, RequestType
<1>3. QueueOK' /\ HandlerOK' /\ ReaderOK' /\ SetupOK'
  BY <1>1 DEF IInv, QueueOK, HandlerOK, ReaderOK, SetupOK
<1>4. StatusOK' /\ LastOK' /\ ReplyIsAcked' /\ GivenUpForAReason'
  BY <1>1 DEF IInv, StatusOK, LastOK, ReplyIsAcked, GivenUpForAReason, Answered
<1>5. QED
  BY <1>2, <1>3, <1>4 DEF IInv

\* Every handler keeps what every place of the pipeline knows (vehicle.go:180-209,
\* apiservice.go:601-632, api.go:781-805).
THEOREM InductiveInvariant == Spec => []IInv
<1>1. ASSUME IInv, Next PROVE IInv'
  BY <1>1, QueueStep, CmdStep, LastStep, HandlerInv, ReaderInv, RequestInv DEF IInv, TypeOK
<1>2. IInv /\ [Next]_vars => IInv'
  BY <1>1, StutterOK
<1>3. QED
  BY InitOK, <1>2, PTL DEF Spec

\* The variables of the command pipeline keep their types.
THEOREM TypeCorrect == Spec => []TypeOK
<1>1. IInv => TypeOK
  BY DEF IInv
<1>2. QED
  BY <1>1, InductiveInvariant, PTL

\* A client whose poll found its op is told only results that the vehicle gave
\* for this op (apiservice.go:610-620).
THEOREM RepliesAreAcked == Spec => []ReplyIsAcked
<1>1. IInv => ReplyIsAcked
  BY DEF IInv
<1>2. QED
  BY <1>1, InductiveInvariant, PTL

\* sysOnlineHandler finishes a command only on a final answer or after the
\* last transmission (vehicle.go:193-204).
THEOREM FinishedForAReason == Spec => []GivenUpForAReason
<1>1. IInv => GivenUpForAReason
  BY DEF IInv
<1>2. QED
  BY <1>1, InductiveInvariant, PTL

\* The command a pop removes was judged, or goes strictly before the one that
\* was (vehicle.go:187-203).
THEOREM PopsTakeDecided == Spec => PopTakesDecided
<1> DEFINE A == \A c \in queue \ queue' : c = shCmd \/ Op[c] < Op[shCmd]
<1>1. ASSUME IInv, Next PROVE A
  <2>1. CASE Pop
    <3>1. shPc = "popLock" /\ queue' = queue \ {head}
      BY <2>1 DEF Pop, Q!Remove
    <3>2. head = shCmd \/ Op[head] < Op[shCmd]
      BY <1>1, <3>1 DEF IInv, HandlerOK
    <3>3. QED
      BY <3>1, <3>2
  <2>2. ASSUME NEW r \in Request, PushSetup(r) \/ PushMain(r) PROVE A
    BY <2>2 DEF PushSetup, PushMain, Q!Insert
  <2>3. QED
    BY <1>1, <2>1, <2>2, QueueFrame
<1>2. UNCHANGED vars => A
  BY DEF vars, queueVars
<1>3. IInv /\ [Next]_vars => [A]_vars
  BY <1>1, <1>2
<1>4. QED
  BY <1>3, InductiveInvariant, PTL DEF Spec, PopTakesDecided

\* An acknowledgement is written to the command at the head of the queue at
\* that moment (api.go:782-789).
THEOREM AcksUpdateHead == Spec => AckUpdatesHead
<1> DEFINE A == \A c \in Cmd : status'[c] # status[c] => c \in queue /\ c = head
<1>1. ASSUME IInv, Next PROVE A
  <2>1. CASE WriteStatus
    <3>1. rtCmd \in queue /\ rtCmd = head
      BY <1>1, <2>1 DEF WriteStatus, IInv, ReaderOK
    <3>2. status' = IF Op[rtCmd] = WireOp(rtAck.cmd)
                    THEN [status EXCEPT ![rtCmd] = rtAck.res] ELSE status
      BY <2>1 DEF WriteStatus
    <3>3. status \in [Cmd -> UInt8]
      BY <1>1 DEF IInv, TypeOK, CmdType
    <3>4. QED
      BY <3>1, <3>2, <3>3
  <2>2. QED
    BY <1>1, <2>1, CmdFrame
<1>2. UNCHANGED vars => A
  BY DEF vars, cmdVars
<1>3. IInv /\ [Next]_vars => [A]_vars
  BY <1>1, <1>2
<1>4. QED
  BY <1>3, InductiveInvariant, PTL DEF Spec, AckUpdatesHead
=============================================================================
