------------------------------- MODULE FmuBridge -------------------------------
(***************************************************************************)
(* The FMU loop of fmulink.go, the one place in which the cloud's reader   *)
(* leaves a command for it (cloudlink.go), and the MAVLink encoder that it *)
(* shares with the HTTP handlers of a receiver binding                     *)
(* (mavlink/parser/message.go).                                            *)
(*                                                                         *)
(* The loop also calls the outputs (UdpOutputs) and the recorder           *)
(* (FlightLog), and starts a goroutine that hands the packet to the cloud  *)
(* (CloudRelay); those have modules of their own.                          *)
(***************************************************************************)
EXTENDS Integers, Sequences

CONSTANTS
    Binder,             \* HTTP requests that bind a receiver
    Loop,               \* the FMU loop, as a writer
    SeqMod,             \* the encoder's sequence number is a byte (256)
    MaxCmd              \* bound: commands of the cloud

Writer == {Loop} \cup Binder
Cmd == 1..MaxCmd
Reply == 0              \* the heartbeat that answers one
Request == -1           \* the START_RX_PAIR command of a binding
Message == Cmd \cup {Reply, Request}
Garbled == -2           \* what reached the vehicle is no frame

\* A command whose id the dialects hold, one of an unknown id, and one shorter
\* than the eight bytes of a frame.
Class == {"good", "unknown", "short"}

ASSUME BridgeAssumption ==
    /\ Loop \notin Binder
    /\ SeqMod \in Nat \ {0} /\ MaxCmd \in Nat

VARIABLES
    cmds, class,        \* commands received so far; what each is like
    rawCmd,             \* CloudLink.rawFmuCmd, 0 if nil
    chunk,              \* the command the loop took last, 0 before the first
    loop,               \* where the loop is
    enc, out,           \* each writer: its place in EncodePacket, its message
    num,                \* each writer: what it has read of CurrSeqID
    buf, seq,           \* the encoder's buffer and CurrSeqID
    broken,             \* the buffer keeps the error of a failed write
    frame,              \* the last frame: its message, its number, had it met none
    mode,               \* "up", or "dead" after a panic
    met, fate           \* history, see below

\* `met`: the writers whose message met another one in the encoder.  `fate` of a
\* command: it was `replaced` unread, came `during` the writing of another, was
\* `spoilt` by another message in the encoder, or is `whole` at the vehicle.
Fate == {"none", "replaced", "during", "spoilt", "whole"}

cmdVars == <<cmds, class, rawCmd, chunk>>
encVars == <<enc, out, num, buf, seq, broken, frame, met>>
vars == <<cmdVars, loop, encVars, mode, fate>>

Init ==
    /\ cmds = 0 /\ class = [c \in Cmd |-> "good"] /\ rawCmd = 0 /\ chunk = 0
    /\ loop = "decode"
    /\ enc = [w \in Writer |-> "idle"] /\ out = [w \in Writer |-> Reply]
    /\ num = [w \in Writer |-> 0]
    /\ buf = <<>> /\ seq = 0 /\ broken = FALSE
    /\ frame = [of |-> Reply, seq |-> SeqMod - 1, alone |-> TRUE]
    /\ mode = "up"
    /\ met = {} /\ fate = [c \in Cmd |-> "none"]

-----------------------------------------------------------------------------
(* EncodePacket: CurrSeqID is read; header and payload, the piece "start"; *)
(* checksum; Flush; CurrSeqID++, which reads and writes.  Nothing guards   *)
(* the buffer or the number: of two goroutines that are at the buffer one  *)
(* may undo what the other does.                                           *)

Encoding(w) == enc[w] # "idle"
Others(w) == {v \in Writer \ {w} : Encoding(v)}
AtBuffer(w) == enc[w] \in {"start", "crc", "flush"}

StartEncode(w, m) ==
    /\ enc' = [enc EXCEPT ![w] = "number"]
    /\ out' = [out EXCEPT ![w] = m]
    /\ met' = IF Others(w) # {} THEN met \cup {w} \cup Others(w)
              ELSE IF buf # <<>> THEN met \cup {w} ELSE met \ {w}
    /\ UNCHANGED <<num, buf, seq, broken, frame>>

EndEncode(w) ==
    /\ enc' = [enc EXCEPT ![w] = "idle"]
    /\ out' = [out EXCEPT ![w] = Reply]
    /\ num' = [num EXCEPT ![w] = 0]

Becomes(m, f) == fate' = [c \in Cmd |-> IF c = m /\ fate[c] = "none" THEN f ELSE fate[c]]

ReadNumber(w, at, next) ==
    /\ enc[w] = at
    /\ num' = [num EXCEPT ![w] = seq]
    /\ enc' = [enc EXCEPT ![w] = next]
    /\ UNCHANGED <<cmdVars, loop, out, buf, seq, broken, frame, mode, met, fate>>

\* writeAndCheck, into a buffer that has not failed.
Write(w, what, next) ==
    /\ enc[w] = what /\ ~broken
    /\ \/ buf' = Append(buf, [piece |-> what, of |-> out[w], seq |-> num[w]])
       \/ (\E v \in Others(w) : AtBuffer(v)) /\ buf' = buf
    /\ enc' = [enc EXCEPT ![w] = next]
    /\ UNCHANGED <<cmdVars, loop, out, num, seq, broken, frame, mode, met, fate>>

\* findCrcX: the dialects hold its id.
Known(m) == m \in Cmd => class[m] = "good"

Number(w) == ReadNumber(w, "number", "start")
Header(w) == Write(w, "start", "crc")
Checksum(w) == Known(out[w]) /\ Write(w, "crc", "flush")

\* It returns with the header and the payload in the buffer.
UnknownId(w) ==
    /\ enc[w] = "crc" /\ ~broken /\ ~Known(out[w])
    /\ EndEncode(w)
    /\ UNCHANGED <<cmdVars, loop, buf, seq, broken, frame, mode, met, fate>>

\* What the vehicle can read as a frame of message m.
IsFrame(m, pieces) ==
    /\ Len(pieces) = 2
    /\ \A i \in 1..2 : pieces[i].of = m /\ pieces[i].piece = <<"start", "crc">>[i]

Deliver(w) ==
    /\ buf' = <<>>
    /\ \/ /\ IsFrame(out[w], buf)
          /\ frame' = [of |-> out[w], seq |-> buf[1].seq, alone |-> w \notin met]
          /\ Becomes(out[w], "whole")
       \/ /\ ~IsFrame(out[w], buf)
          /\ frame' = [of |-> Garbled, seq |-> 0, alone |-> FALSE]
          /\ IF w \in met THEN Becomes(out[w], "spoilt") ELSE UNCHANGED fate

\* Mutant: the frame is left in the buffer for the next one.
FlushLater(w) ==
    /\ enc[w] = "flush" /\ ~broken
    /\ enc' = [enc EXCEPT ![w] = "count"]
    /\ UNCHANGED <<cmdVars, loop, out, num, buf, seq, broken, frame, mode, met, fate>>

Flush(w) ==
    /\ enc[w] = "flush" /\ ~broken
    /\ Deliver(w)
    /\ enc' = [enc EXCEPT ![w] = "count"]
    /\ UNCHANGED <<cmdVars, loop, out, num, seq, broken, mode, met>>

\* The link does not take the bytes; from now on bufio's writer only fails.
FlushFails(w) ==
    /\ enc[w] = "flush" /\ ~broken
    /\ broken' = TRUE
    /\ EndEncode(w)
    /\ UNCHANGED <<cmdVars, loop, buf, seq, frame, mode, met, fate>>

Refuses(w) ==
    /\ AtBuffer(w) /\ broken
    /\ EndEncode(w)
    /\ UNCHANGED <<cmdVars, loop, buf, seq, broken, frame, mode, met, fate>>

Count(w) == ReadNumber(w, "count", "store")

Next1(n) == (n + 1) % SeqMod

\* Mutant: the sequence number stays.
StoreUncounted(w) ==
    /\ enc[w] = "store"
    /\ EndEncode(w)
    /\ UNCHANGED <<cmdVars, loop, buf, seq, broken, frame, mode, met, fate>>

Store(w) ==
    /\ enc[w] = "store"
    /\ seq' = Next1(num[w])
    /\ EndEncode(w)
    /\ UNCHANGED <<cmdVars, loop, buf, broken, frame, mode, met, fate>>

EncodeStep(w) ==
    /\ mode = "up"
    /\ \/ Number(w) \/ Header(w) \/ Checksum(w) \/ UnknownId(w)
       \/ Flush(w) \/ FlushFails(w) \/ Refuses(w)
       \/ Count(w) \/ Store(w)

\* StartBind, in the goroutine of an HTTP request.
Bind(b) ==
    /\ mode = "up" /\ ~Encoding(b)
    /\ StartEncode(b, Request)
    /\ UNCHANGED <<cmdVars, loop, mode, fate>>

-----------------------------------------------------------------------------
(* The FMU loop.                                                           *)

\* Decode.  What the loop does with the packet is the matter of other modules.
Read ==
    /\ mode = "up" /\ loop = "decode"
    /\ loop' = "get"
    /\ UNCHANGED <<cmdVars, encVars, mode, fate>>

NoCommand ==
    /\ mode = "up" /\ loop = "get" /\ rawCmd = 0
    /\ loop' = "status"
    /\ UNCHANGED <<cmdVars, encVars, mode, fate>>

GetCommand ==
    /\ mode = "up" /\ loop = "get" /\ rawCmd # 0 /\ class[rawCmd] # "short"
    /\ chunk' = rawCmd
    /\ StartEncode(Loop, rawCmd)
    /\ loop' = "command"
    /\ UNCHANGED <<cmds, class, rawCmd, mode, fate>>

\* chunk[6:len(chunk)-2] panics.
ShortCommand ==
    /\ mode = "up" /\ loop = "get" /\ rawCmd # 0 /\ class[rawCmd] = "short"
    /\ mode' = "dead"
    /\ UNCHANGED <<cmdVars, loop, encVars, fate>>

\* Mutant: the command is not cleared.
KeepCommand ==
    /\ mode = "up" /\ loop = "command" /\ ~Encoding(Loop)
    /\ loop' = "status"
    /\ UNCHANGED <<cmdVars, encVars, mode, fate>>

\* NullRawFmuCmd: of whatever is there by now.
NullCommand ==
    /\ mode = "up" /\ loop = "command" /\ ~Encoding(Loop)
    /\ rawCmd' = 0
    /\ loop' = "status"
    /\ UNCHANGED <<cmds, class, chunk, encVars, mode, fate>>

\* The state is updated under the locks of StatusFeed, which may keep the loop;
\* the packet is answered if it was a heartbeat.
Status ==
    /\ mode = "up" /\ loop = "status"
    /\ \/ /\ StartEncode(Loop, Reply)
          /\ loop' = "reply"
       \/ /\ loop' = "decode"
          /\ UNCHANGED encVars
    /\ UNCHANGED <<cmdVars, mode, fate>>

Replied ==
    /\ mode = "up" /\ loop = "reply" /\ ~Encoding(Loop)
    /\ loop' = "decode"
    /\ UNCHANGED <<cmdVars, encVars, mode, fate>>

LoopStep == NoCommand \/ GetCommand \/ ShortCommand \/ NullCommand \/ Status \/ Replied
            \/ EncodeStep(Loop)

\* handleMessage of OP_MAVLINK_BIN, in the cloud's reader.
ReceiveCommand(c) ==
    /\ mode = "up" /\ cmds < MaxCmd
    /\ cmds' = cmds + 1
    /\ class' = [class EXCEPT ![cmds + 1] = c]
    /\ rawCmd' = cmds + 1
    /\ fate' = [d \in Cmd |->
                 IF d = cmds + 1 /\ loop = "command" THEN "during"
                 ELSE IF d = rawCmd /\ d # chunk /\ fate[d] = "none" THEN "replaced" ELSE fate[d]]
    /\ UNCHANGED <<chunk, loop, encVars, mode>>

-----------------------------------------------------------------------------

Next ==
    \/ Read
    \/ LoopStep
    \/ \E b \in Binder : Bind(b) \/ EncodeStep(b)
    \/ \E c \in Class : ReceiveCommand(c)

Spec == Init /\ [][Next]_vars

-----------------------------------------------------------------------------
(* Properties.                                                             *)

Place == {"idle", "number", "start", "crc", "flush", "count", "store"}

TypeOK ==
    /\ cmds \in 0..MaxCmd /\ class \in [Cmd -> Class]
    /\ rawCmd \in 0..MaxCmd /\ chunk \in 0..MaxCmd
    /\ loop \in {"decode", "get", "command", "status", "reply"}
    /\ enc \in [Writer -> Place] /\ out \in [Writer -> Message]
    /\ num \in [Writer -> 0..SeqMod - 1]
    /\ buf \in Seq([piece : {"start", "crc"}, of : Message, seq : 0..SeqMod - 1])
    /\ seq \in 0..SeqMod - 1 /\ broken \in BOOLEAN
    /\ frame \in [of : Message \cup {Garbled}, seq : 0..SeqMod - 1, alone : BOOLEAN]
    /\ mode \in {"up", "dead"} /\ met \in SUBSET Writer /\ fate \in [Cmd -> Fate]

\* The loop takes a command of the cloud once, and never an older one after a
\* newer one: it compares nothing, GetRawFmuCmd and NullRawFmuCmd must see to it
\* with the reader free to write between the two.
OnceInOrder ==
    [][\A c \in Cmd : loop = "get" /\ loop' = "command" /\ chunk' = c => chunk < c]_vars

\* A command that was received is waiting, in the loop's hands or whole at the
\* vehicle, unless there is a reason: one of the two ways to lose it in the one
\* place rawFmuCmd, another message in the encoder, an id the encoder does not
\* know, a link that failed, the panic.
CommandsAccounted ==
    \A c \in 1..cmds :
        \/ c = rawCmd \/ (c = chunk /\ loop = "command")
        \/ fate[c] # "none" \/ class[c] = "unknown" \/ broken \/ mode = "dead"

\* The harm that two goroutines, or a message of unknown id, do in the encoder
\* does not outlive it: a message that meets no other, and finds the buffer
\* empty, reaches the vehicle whole; and when the frame before it was such a one,
\* with the number after that one's.  (Numbers are read, and counted, apart from
\* the writes: what met another may repeat or skip some.)
AloneIsWhole ==
    [][\A w \in Writer \ met :
          enc[w] = "flush" /\ enc'[w] = "count" =>
              /\ frame'.of = out[w]
              /\ frame.alone => frame'.seq = Next1(frame.seq)]_vars

-----------------------------------------------------------------------------
(* The inductive invariant.                                                *)

\* A writer that met no other is alone, and finds in the buffer what it wrote,
\* with the number that it read and that still holds.
AloneInv ==
    \A w \in Writer \ met :
        Encoding(w) =>
            /\ Others(w) = {}
            /\ AtBuffer(w) => num[w] = seq
            /\ ~broken =>
                  /\ enc[w] \in {"number", "start"} => buf = <<>>
                  /\ enc[w] = "crc" =>
                        Len(buf) = 1 /\ buf[1].of = out[w] /\ buf[1].piece = "start"
                  /\ enc[w] = "flush" => IsFrame(out[w], buf)
                  /\ enc[w] \in {"crc", "flush"} => buf[1].seq = num[w]

\* After a frame that met no other the number is the next, or its writer is about
\* to make it that, and no other is.
Counting(w) == enc[w] \in {"count", "store"}
SeqInv ==
    frame.alone =>
        IF \E v \in Writer : Counting(v)
        THEN /\ seq = frame.seq
             /\ \A v \in Writer : enc[v] = "store" => num[v] = frame.seq
             /\ \A v, w \in Writer : Counting(v) /\ Counting(w) => v = w
        ELSE seq = Next1(frame.seq)

\* What waits in rawFmuCmd is newer than what the loop took, or the same while
\* the loop writes it; when it has written it, its fate is known.
LoopInv ==
    /\ rawCmd <= cmds /\ chunk <= cmds
    /\ Encoding(Loop) => loop \in {"command", "reply"}
    /\ loop # "command" => rawCmd = 0 \/ rawCmd > chunk
    /\ loop = "command" =>
          /\ chunk # 0 /\ class[chunk] # "short"
          /\ rawCmd = chunk \/ (rawCmd > chunk /\ fate[rawCmd] # "none")
          /\ Encoding(Loop) => out[Loop] = chunk
          /\ ~Encoding(Loop) \/ Counting(Loop) =>
                fate[chunk] # "none" \/ class[chunk] = "unknown" \/ broken

IInv == TypeOK /\ AloneInv /\ SeqInv /\ LoopInv /\ CommandsAccounted

=============================================================================
