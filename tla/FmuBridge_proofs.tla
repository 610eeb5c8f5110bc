--------------------------- MODULE FmuBridge_proofs ---------------------------
(***************************************************************************)
(* For any number of bindings, any modulus of the sequence number and any  *)
(* number of commands: the loop takes commands in order and once, every    *)
(* command is accounted for, and what a message meets in the encoder does  *)
(* no harm to a later one.  For any packets of any kinds in the other      *)
(* direction, which CloudRelay models: none is forgotten.                  *)
(***************************************************************************)
EXTENDS FmuBridge, CloudRelay, TLAPS

-----------------------------------------------------------------------------
\* The constants, and the messages that are no commands.
LEMMA Constants ==
    /\ Loop \in Writer /\ Binder \subseteq Writer /\ Loop \notin Binder
    /\ SeqMod \in Nat /\ SeqMod > 0 /\ MaxCmd \in Nat
    /\ Reply \notin Cmd /\ Request \notin Cmd /\ Reply \in Message /\ Request \in Message
    /\ Cmd \subseteq Message /\ Garbled \notin Message
  BY BridgeAssumption DEF Writer, Reply, Request, Message, Cmd, Garbled

\* The number after one of the encoder's numbers is one of them; it starts at 0.
LEMMA Numbers ==
    /\ \A n \in 0..SeqMod - 1 : Next1(n) \in 0..SeqMod - 1
    /\ Next1(SeqMod - 1) = 0
<1>1. ASSUME NEW n \in 0..SeqMod - 1, n + 1 < SeqMod
      PROVE  Next1(n) = n + 1
  BY <1>1, Constants, SMT DEF Next1
<1>2. Next1(SeqMod - 1) = 0
  <2>1. SeqMod - 1 + 1 = SeqMod /\ SeqMod % SeqMod = 0
    BY Constants, SMT
  <2>2. QED
    BY <2>1 DEF Next1
<1>3. QED
  BY <1>1, <1>2, Constants, SMT

\* A command's fate is settled once.
LEMMA FateOnce ==
    ASSUME TypeOK, NEW m, NEW f \in Fate, Becomes(m, f)
    PROVE  /\ fate' \in [Cmd -> Fate]
           /\ \A c \in Cmd : fate[c] # "none" => fate'[c] = fate[c]
           /\ m \in Cmd /\ f # "none" => fate'[m] # "none"
  BY DEF TypeOK, Becomes, Fate

\* A writer that comes to the encoder: it and those it meets are marked, the
\* others stay as they were.
LEMMA StartsOK ==
    ASSUME IInv, NEW w \in Writer, NEW m \in Message, ~Encoding(w), StartEncode(w, m)
    PROVE  /\ enc' \in [Writer -> Place]
           /\ out' \in [Writer -> Message] /\ met' \in SUBSET Writer
           /\ AloneInv' /\ SeqInv'
           /\ Encoding(w)' /\ out'[w] = m
           /\ \A v \in Writer \ {w} : enc'[v] = enc[v] /\ out'[v] = out[v]
<1> USE DEF IInv, TypeOK, StartEncode, Encoding, Others, Place
<1>1. /\ enc' \in [Writer -> Place]
      /\ out' \in [Writer -> Message] /\ met' \in SUBSET Writer
      /\ Encoding(w)' /\ out'[w] = m
      /\ \A v \in Writer \ {w} : enc'[v] = enc[v] /\ out'[v] = out[v]
  OBVIOUS
<1>2. AloneInv'
  <2> SUFFICES ASSUME NEW v \in Writer, v \notin met', enc'[v] # "idle"
               PROVE  Others(v)' = {} /\ enc'[v] = "number" /\ (~broken' => buf' = <<>>)
    BY <1>1 DEF AloneInv, IsFrame, AtBuffer
  <2>1. v = w
    OBVIOUS
  <2>2. Others(w) = {} /\ buf = <<>>
    BY <2>1
  <2>3. QED
    BY <2>1, <2>2
<1>3. SeqInv'
  <2>1. \A v \in Writer : (Counting(v) <=> Counting(v)') /\ (enc'[v] = "store" <=> enc[v] = "store")
    BY DEF Counting
  <2>2. num' = num /\ seq' = seq /\ frame' = frame
    OBVIOUS
  <2>3. QED
    BY <2>1, <2>2 DEF SeqInv, Next1
<1>4. QED
  BY <1>1, <1>2, <1>3

-----------------------------------------------------------------------------
\* Nothing is written, and the encoder's first number is 0.
LEMMA InitOK == Init => IInv
<1> SUFFICES ASSUME Init PROVE IInv
  OBVIOUS
<1> USE Constants DEF Init
<1>1. TypeOK
  <2>1. frame \in [of : Message \cup {Garbled}, seq : 0..SeqMod - 1, alone : BOOLEAN]
    <3>1. SeqMod - 1 \in 0..SeqMod - 1
      OBVIOUS
    <3>2. QED
      BY <3>1
  <2>2. buf \in Seq([piece : {"start", "crc"}, of : Message, seq : 0..SeqMod - 1])
    OBVIOUS
  <2>3. /\ enc \in [Writer -> Place]
        /\ out \in [Writer -> Message] /\ met \in SUBSET Writer
    BY DEF Place
  <2>7. num \in [Writer -> 0..SeqMod - 1]
    OBVIOUS
  <2>4. class \in [Cmd -> Class] /\ fate \in [Cmd -> Fate]
    BY DEF Class, Fate
  <2>5. cmds \in 0..MaxCmd /\ rawCmd \in 0..MaxCmd /\ chunk \in 0..MaxCmd /\ seq \in 0..SeqMod - 1
    OBVIOUS
  <2>6. QED
    BY <2>1, <2>2, <2>3, <2>4, <2>5, <2>7 DEF TypeOK
<1>2. AloneInv
  BY DEF AloneInv, Encoding
<1>3. SeqInv
  BY Numbers DEF SeqInv, Counting
<1>4. LoopInv /\ CommandsAccounted
  BY DEF LoopInv, CommandsAccounted, Encoding, Counting
<1>5. QED
  BY <1>1, <1>2, <1>3, <1>4 DEF IInv

\* The loop's steps that touch neither the commands nor the encoder.
LEMMA LoopOK ==
    ASSUME IInv, Read \/ NoCommand \/ ShortCommand \/ Replied
    PROVE  IInv'
<1> USE DEF IInv, Read, NoCommand, ShortCommand, Replied, cmdVars, encVars
<1>1. TypeOK'
  BY DEF TypeOK
<1>2. AloneInv' /\ SeqInv'
  BY DEF AloneInv, SeqInv, Encoding, Others, AtBuffer, Counting, IsFrame, Next1
<1>3. LoopInv'
  BY DEF LoopInv, Encoding, Counting
<1>4. CommandsAccounted'
  BY DEF CommandsAccounted
<1>5. QED
  BY <1>1, <1>2, <1>3, <1>4

\* GetRawFmuCmd finds a command newer than the last one.
LEMMA GetCommandOK ==
    ASSUME IInv, GetCommand
    PROVE  IInv' /\ chunk < chunk'
<1> USE Constants DEF IInv, GetCommand
<1>1. ~Encoding(Loop) /\ rawCmd \in Cmd /\ rawCmd > chunk
  BY DEF LoopInv, TypeOK, Cmd
<1>2. rawCmd \in Message
  BY <1>1
<1>3. /\ enc' \in [Writer -> Place]
      /\ out' \in [Writer -> Message] /\ met' \in SUBSET Writer
      /\ AloneInv' /\ SeqInv' /\ Encoding(Loop)' /\ out'[Loop] = rawCmd
  BY <1>1, <1>2, StartsOK
<1>4. TypeOK'
  BY <1>1, <1>3 DEF TypeOK, StartEncode, Cmd
<1>5. LoopInv'
  <2>1. ~Counting(Loop)'
    BY Constants DEF StartEncode, TypeOK, Counting
  <2>2. QED
    BY <2>1, <1>1, <1>3 DEF LoopInv, TypeOK, StartEncode
<1>6. CommandsAccounted'
  BY DEF CommandsAccounted, StartEncode
<1>7. QED
  BY <1>1, <1>3, <1>4, <1>5, <1>6 DEF TypeOK

\* NullRawFmuCmd: a command it clears unread came during the writing.
LEMMA NullCommandOK ==
    ASSUME IInv, NullCommand
    PROVE  IInv'
<1> USE DEF IInv, NullCommand, encVars
<1>1. TypeOK'
  BY Constants DEF TypeOK
<1>2. AloneInv' /\ SeqInv'
  BY DEF AloneInv, SeqInv, Encoding, Others, AtBuffer, Counting, IsFrame, Next1
<1>3. LoopInv'
  BY DEF LoopInv, TypeOK, Encoding, Counting
<1>4. CommandsAccounted'
  BY DEF CommandsAccounted, LoopInv
<1>5. QED
  BY <1>1, <1>2, <1>3, <1>4

\* The heartbeat's answer.
LEMMA StatusOK ==
    ASSUME IInv, Status
    PROVE  IInv'
<1> USE DEF IInv, Status, cmdVars, encVars
<1>1. CASE StartEncode(Loop, Reply) /\ loop' = "reply"
  <2>1. ~Encoding(Loop)
    BY DEF LoopInv
  <2>2. /\ enc' \in [Writer -> Place]
        /\ out' \in [Writer -> Message] /\ met' \in SUBSET Writer
        /\ AloneInv' /\ SeqInv'
    BY <1>1, <2>1, StartsOK, Constants
  <2>3. TypeOK'
    BY <1>1, <2>2 DEF TypeOK, StartEncode
  <2>4. LoopInv' /\ CommandsAccounted'
    BY <1>1 DEF LoopInv, CommandsAccounted, StartEncode
  <2>5. QED
    BY <2>2, <2>3, <2>4
<1>2. CASE loop' = "decode" /\ UNCHANGED encVars
  <2>1. TypeOK'
    BY <1>2 DEF TypeOK
  <2>2. AloneInv' /\ SeqInv'
    BY <1>2 DEF AloneInv, SeqInv, Encoding, Others, AtBuffer, Counting, IsFrame, Next1
  <2>3. LoopInv' /\ CommandsAccounted'
    BY <1>2 DEF LoopInv, CommandsAccounted, Encoding, Counting
  <2>4. QED
    BY <2>1, <2>2, <2>3
<1>3. QED
  BY <1>1, <1>2

\* A request that binds a receiver.
LEMMA BindOK ==
    ASSUME IInv, NEW b \in Binder, Bind(b)
    PROVE  IInv'
<1> USE Constants DEF IInv, Bind, cmdVars
<1>1. /\ enc' \in [Writer -> Place]
      /\ out' \in [Writer -> Message] /\ met' \in SUBSET Writer
      /\ AloneInv' /\ SeqInv'
      /\ \A v \in Writer \ {b} : enc'[v] = enc[v] /\ out'[v] = out[v]
  BY StartsOK
<1>2. enc'[Loop] = enc[Loop] /\ out'[Loop] = out[Loop]
  BY <1>1
<1>3. TypeOK'
  BY <1>1 DEF TypeOK, StartEncode
<1>4. LoopInv'
  BY <1>2 DEF LoopInv, StartEncode, Encoding, Counting
<1>5. CommandsAccounted'
  BY DEF CommandsAccounted, StartEncode
<1>6. QED
  BY <1>1, <1>3, <1>4, <1>5

\* The reader of the cloud leaves a command, whatever the loop is doing.
LEMMA ReceiveOK ==
    ASSUME IInv, NEW c \in Class, ReceiveCommand(c)
    PROVE  IInv'
<1> USE Constants DEF IInv, ReceiveCommand, encVars
<1>1. cmds + 1 \in Cmd /\ cmds \in Nat
  BY DEF TypeOK, Cmd
<1>2. \A d \in Cmd : fate'[d] = IF d = cmds + 1 /\ loop = "command" THEN "during"
                                ELSE IF d = rawCmd /\ d # chunk /\ fate[d] = "none"
                                     THEN "replaced" ELSE fate[d]
  OBVIOUS
<1>3. TypeOK'
  <2>1. fate' \in [Cmd -> Fate]
    BY DEF TypeOK, Fate
  <2>2. cmds' \in 0..MaxCmd /\ rawCmd' \in 0..MaxCmd /\ class' \in [Cmd -> Class]
    BY <1>1 DEF TypeOK, Cmd
  <2>3. QED
    BY <2>1, <2>2 DEF TypeOK
<1>4. AloneInv' /\ SeqInv'
  BY DEF AloneInv, SeqInv, Encoding, Others, AtBuffer, Counting, IsFrame, Next1
<1>5. LoopInv'
  <2>1. chunk # cmds + 1 /\ chunk <= cmds + 1 /\ cmds + 1 > chunk
    BY <1>1 DEF LoopInv, TypeOK
  <2>2. chunk # 0 => chunk \in Cmd
    BY DEF TypeOK, Cmd
  <2>3. chunk # 0 => class'[chunk] = class[chunk] /\ (fate[chunk] # "none" => fate'[chunk] # "none")
    BY <1>1, <1>2, <2>1, <2>2 DEF TypeOK
  <2>4. loop = "command" => fate'[cmds + 1] # "none"
    BY <1>1, <1>2
  <2>5. cmds' = cmds + 1 /\ rawCmd' = cmds + 1 /\ chunk' = chunk /\ loop' = loop
        /\ enc' = enc /\ out' = out /\ broken' = broken
    OBVIOUS
  <2>6. QED
    BY <1>1, <2>1, <2>3, <2>4, <2>5 DEF LoopInv, Encoding, Counting, TypeOK
<1>6. CommandsAccounted'
  <2> SUFFICES ASSUME NEW d \in 1..cmds', d # rawCmd', ~(d = chunk' /\ loop' = "command"),
                      fate'[d] = "none", broken' # TRUE, mode' # "dead"
               PROVE  class'[d] = "unknown"
    BY DEF CommandsAccounted
  <2>1. d \in 1..cmds /\ d \in Cmd /\ class'[d] = class[d]
    BY <1>1 DEF TypeOK, Cmd
  <2>2. fate[d] = "none"
    BY <1>2, <2>1
  <2>3. d # rawCmd
    <3>1. d = rawCmd => d = chunk
      BY <1>2, <2>1, <2>2
    <3>2. d = rawCmd /\ d = chunk => loop = "command"
      BY <2>1 DEF LoopInv, TypeOK
    <3>3. QED
      BY <3>1, <3>2
  <2>4. QED
    BY <2>1, <2>2, <2>3 DEF CommandsAccounted, TypeOK
<1>7. QED
  BY <1>3, <1>4, <1>5, <1>6

-----------------------------------------------------------------------------
\* Of two writers in the encoder both have met another.
LEMMA NoTwoAlone ==
    ASSUME AloneInv, NEW w \in Writer, NEW v \in Writer \ met, Encoding(w), Encoding(v)
    PROVE  v = w
BY DEF AloneInv, Others

\* A writer reads the number, before its message or to count it.
LEMMA NumberOK ==
    ASSUME IInv, NEW w \in Writer, Number(w) \/ Count(w)
    PROVE  IInv'
<1>0. TypeOK /\ AloneInv /\ SeqInv /\ LoopInv /\ CommandsAccounted
  BY DEF IInv
<1>1. /\ num' = [num EXCEPT ![w] = seq]
      /\ UNCHANGED <<cmds, class, rawCmd, chunk, loop, out, buf, seq, broken, frame, mode, met, fate>>
      /\ \/ enc[w] = "number" /\ enc' = [enc EXCEPT ![w] = "start"]
         \/ enc[w] = "count" /\ enc' = [enc EXCEPT ![w] = "store"]
  BY DEF Number, Count, ReadNumber, cmdVars
<1>2. /\ num' \in [Writer -> 0..SeqMod - 1] /\ num'[w] = seq
      /\ enc' \in [Writer -> Place] /\ enc'[w] \in {"start", "store"}
      /\ \A v \in Writer \ {w} : enc'[v] = enc[v] /\ num'[v] = num[v]
      /\ \A v \in Writer : Encoding(v)' <=> Encoding(v)
      /\ \A v \in Writer : Counting(v)' <=> Counting(v)
  BY <1>0, <1>1 DEF TypeOK, Encoding, Counting, Place
<1>3. TypeOK'
  BY <1>0, <1>1, <1>2 DEF TypeOK
<1>4. AloneInv'
  <2> SUFFICES ASSUME NEW v \in Writer \ met, Encoding(v)'
               PROVE  /\ Others(v)' = {}
                      /\ AtBuffer(v)' => num'[v] = seq
                      /\ ~broken =>
                            /\ enc'[v] \in {"number", "start"} => buf = <<>>
                            /\ enc'[v] \notin {"crc", "flush"}
    BY <1>1 DEF AloneInv, IsFrame
  <2>1. v = w
    BY <1>0, <1>1, <1>2, NoTwoAlone DEF Encoding
  <2>2. Others(v)' = {}
    BY <1>0, <1>2 DEF AloneInv, Others
  <2>3. enc'[v] = "start" => enc[v] = "number"
    BY <1>0, <1>1, <2>1 DEF TypeOK
  <2>4. QED
    BY <1>0, <1>2, <2>1, <2>2, <2>3 DEF AloneInv, Encoding
<1>5. SeqInv'
  <2> SUFFICES ASSUME frame.alone PROVE SeqInv'
    BY <1>1 DEF SeqInv
  <2>1. CASE \E v \in Writer : Counting(v)
    <3>1. /\ seq = frame.seq
          /\ \A v \in Writer : enc[v] = "store" => num[v] = frame.seq
          /\ \A v, u \in Writer : Counting(v) /\ Counting(u) => v = u
      BY <1>0, <2>1 DEF SeqInv
    <3>2. /\ seq' = frame'.seq
          /\ \A v \in Writer : enc'[v] = "store" => num'[v] = frame'.seq
          /\ \A v, u \in Writer : Counting(v)' /\ Counting(u)' => v = u
          /\ \E v \in Writer : Counting(v)'
      BY <1>1, <1>2, <2>1, <3>1
    <3>3. QED
      BY <3>2 DEF SeqInv
  <2>2. CASE ~\E v \in Writer : Counting(v)
    <3>1. seq' = Next1(frame'.seq)
      BY <1>0, <1>1, <2>2 DEF SeqInv, Next1
    <3>2. ~\E v \in Writer : Counting(v)'
      BY <1>2, <2>2
    <3>3. QED
      BY <3>1, <3>2 DEF SeqInv
  <2>3. QED
    BY <2>1, <2>2
<1>6. LoopInv' /\ CommandsAccounted'
  <2>1. (Encoding(Loop)' <=> Encoding(Loop)) /\ (Counting(Loop)' <=> Counting(Loop))
    BY <1>2, Constants
  <2>2. QED
    BY <2>1, <1>0, <1>1 DEF LoopInv, CommandsAccounted
<1>7. QED
  BY <1>3, <1>4, <1>5, <1>6 DEF IInv

\* A piece goes to the end of the buffer, or is lost to another writer.
LEMMA WriteOK ==
    ASSUME IInv, NEW w \in Writer, Header(w) \/ Checksum(w)
    PROVE  IInv'
<1>0. TypeOK /\ AloneInv /\ SeqInv /\ LoopInv /\ CommandsAccounted
  BY DEF IInv
<1>1. PICK what \in {"start", "crc"}, next \in {"crc", "flush"} :
        /\ Write(w, what, next)
        /\ <<what, next>> \in {<<"start", "crc">>, <<"crc", "flush">>}
  BY DEF Header, Checksum
<1> DEFINE new == [piece |-> what, of |-> out[w], seq |-> num[w]]
<1>2. /\ enc[w] = what /\ ~broken
      /\ buf' = Append(buf, new) \/ (Others(w) # {} /\ buf' = buf)
      /\ enc' = [enc EXCEPT ![w] = next]
      /\ UNCHANGED <<cmds, class, rawCmd, chunk, loop, out, num, seq, broken, frame, mode, met, fate>>
  BY <1>1 DEF Write, cmdVars
<1> DEFINE Piece == [piece : {"start", "crc"}, of : Message, seq : 0..SeqMod - 1]
<1>3. buf \in Seq(Piece) /\ new \in Piece /\ new.of = out[w] /\ new.piece = what /\ new.seq = num[w]
  BY <1>0 DEF TypeOK
<1> HIDE DEF new, Piece
<1>9. /\ Append(buf, new) \in Seq(Piece) /\ Len(buf) \in Nat
      /\ Len(Append(buf, new)) = Len(buf) + 1 /\ Append(buf, new)[Len(buf) + 1] = new
      /\ \A i \in 1..Len(buf) : Append(buf, new)[i] = buf[i]
  BY <1>3
<1>10. /\ \A v \in Writer \ {w} : enc'[v] = enc[v]
       /\ enc'[w] = next /\ enc' \in [Writer -> Place]
       /\ \A v \in Writer : Encoding(v)' <=> Encoding(v)
       /\ \A v \in Writer : Counting(v)' <=> Counting(v)
  BY <1>0, <1>1, <1>2 DEF TypeOK, Encoding, Counting, Place
<1>4. TypeOK'
  <2>1. buf' \in Seq(Piece)
    BY <1>2, <1>3, <1>9
  <2>2. QED
    BY <2>1, <1>0, <1>2, <1>10 DEF TypeOK, Piece
<1>5. AloneInv'
  <2> SUFFICES ASSUME NEW v \in Writer \ met, Encoding(v)'
               PROVE  /\ Others(v)' = {} /\ num[v] = seq
                      /\ enc'[v] \notin {"number", "start"}
                      /\ enc'[v] = "crc" =>
                            Len(buf') = 1 /\ buf'[1].of = out[v] /\ buf'[1].piece = "start"
                      /\ enc'[v] = "flush" => IsFrame(out[v], buf')
                      /\ buf'[1].seq = num[v]
    BY <1>0, <1>2 DEF AloneInv, IsFrame
  <2>1. v = w
    BY <1>0, <1>1, <1>2, <1>10, NoTwoAlone DEF Encoding
  <2>2. Encoding(w) /\ AtBuffer(w) /\ Others(w) = {} /\ num[w] = seq
    BY <2>1, <1>0, <1>1, <1>2 DEF AloneInv, Encoding, AtBuffer
  <2>3. Others(v)' = {}
    BY <2>1, <2>2, <1>10 DEF Others
  <2>4. buf' = Append(buf, new) /\ enc'[v] = next
    BY <2>1, <2>2, <1>2, <1>10
  <2>5. CASE what = "start" /\ next = "crc"
    <3>1. buf = <<>>
      BY <2>1, <2>2, <2>5, <1>0, <1>2 DEF AloneInv
    <3>2. Len(buf') = 1 /\ buf'[1] = new
      BY <3>1, <2>4, <1>9
    <3>3. QED
      BY <3>2, <2>1, <2>2, <2>3, <2>4, <2>5, <1>3
  <2>6. CASE what = "crc" /\ next = "flush"
    <3>1. Len(buf) = 1 /\ buf[1].of = out[w] /\ buf[1].piece = "start" /\ buf[1].seq = num[w]
      BY <2>1, <2>2, <2>6, <1>0, <1>2 DEF AloneInv
    <3>2. Len(buf') = 2 /\ buf'[1] = buf[1] /\ buf'[2] = new
      BY <3>1, <2>4, <1>9
    <3>3. IsFrame(out[w], buf')
      BY <3>1, <3>2, <2>6, <1>3 DEF IsFrame
    <3>4. QED
      BY <3>1, <3>2, <3>3, <2>1, <2>2, <2>3, <2>4, <2>6
  <2>7. QED
    BY <2>5, <2>6, <1>1
<1>6. SeqInv'
  <2>1. \A v \in Writer : enc'[v] = "store" => enc[v] = "store"
    BY <1>1, <1>10
  <2>2. QED
    BY <2>1, <1>0, <1>2, <1>10 DEF SeqInv, Next1
<1>7. LoopInv' /\ CommandsAccounted'
  <2>1. (Encoding(Loop)' <=> Encoding(Loop)) /\ (Counting(Loop)' <=> Counting(Loop))
    BY <1>10, Constants
  <2>2. QED
    BY <2>1, <1>0, <1>2 DEF LoopInv, CommandsAccounted
<1>8. QED
  BY <1>4, <1>5, <1>6, <1>7 DEF IInv

\* A writer that leaves the encoder.
LEMMA EndEncodeOK ==
    ASSUME TypeOK, AloneInv, NEW w \in Writer, Encoding(w), EndEncode(w),
           UNCHANGED <<met, seq, buf>>, broken => broken'
    PROVE  /\ enc' \in [Writer -> Place] /\ out' \in [Writer -> Message]
           /\ num' \in [Writer -> 0..SeqMod - 1]
           /\ enc'[w] = "idle"
           /\ \A v \in Writer \ {w} : enc'[v] = enc[v] /\ out'[v] = out[v] /\ num'[v] = num[v]
           /\ AloneInv'
<1>1. /\ enc' = [enc EXCEPT ![w] = "idle"] /\ out' = [out EXCEPT ![w] = Reply]
      /\ num' = [num EXCEPT ![w] = 0]
  BY DEF EndEncode
<1>2. /\ enc' \in [Writer -> Place] /\ out' \in [Writer -> Message]
      /\ num' \in [Writer -> 0..SeqMod - 1]
      /\ enc'[w] = "idle"
      /\ \A v \in Writer \ {w} : enc'[v] = enc[v] /\ out'[v] = out[v] /\ num'[v] = num[v]
  BY <1>1, Constants DEF TypeOK, Place
<1>3. AloneInv'
  <2>1. ASSUME NEW v \in Writer \ met, Encoding(v)' PROVE FALSE
    <3>1. v # w /\ Encoding(v)
      BY <1>2, <2>1 DEF Encoding
    <3>2. QED
      BY <3>1, NoTwoAlone
  <2>2. QED
    BY <2>1 DEF AloneInv
<1>4. QED
  BY <1>2, <1>3

\* It leaves with its message unwritten, and says so: the id is unknown, or the
\* buffer is broken.
LEMMA LeaveOK ==
    ASSUME IInv, NEW w \in Writer, UnknownId(w) \/ FlushFails(w) \/ Refuses(w)
    PROVE  IInv'
<1>0. TypeOK /\ AloneInv /\ SeqInv /\ LoopInv /\ CommandsAccounted
  BY DEF IInv
<1>1. /\ AtBuffer(w) /\ EndEncode(w)
      /\ UNCHANGED <<cmds, class, rawCmd, chunk, loop, buf, seq, frame, mode, met, fate>>
      /\ \/ ~broken' /\ ~broken /\ enc[w] = "crc" /\ ~Known(out[w])
         \/ broken'
      /\ broken' \in BOOLEAN /\ (broken => broken')
  BY <1>0 DEF UnknownId, FlushFails, Refuses, AtBuffer, cmdVars, TypeOK
<1>2. /\ enc' \in [Writer -> Place] /\ out' \in [Writer -> Message]
      /\ num' \in [Writer -> 0..SeqMod - 1]
      /\ enc'[w] = "idle"
      /\ \A v \in Writer \ {w} : enc'[v] = enc[v] /\ out'[v] = out[v] /\ num'[v] = num[v]
      /\ AloneInv'
  BY <1>0, <1>1, EndEncodeOK DEF AtBuffer, Encoding
<1>3. TypeOK'
  BY <1>0, <1>1, <1>2 DEF TypeOK
<1>4. SeqInv'
  <2>1. /\ \A v \in Writer : Counting(v)' <=> Counting(v)
        /\ \A v \in Writer : enc'[v] = "store" => enc[v] = "store" /\ num'[v] = num[v]
    BY <1>1, <1>2 DEF Counting, AtBuffer
  <2>2. QED
    BY <2>1, <1>0, <1>1 DEF SeqInv, Next1
<1>5. LoopInv'
  <2>1. CASE w # Loop
    <3>1. enc'[Loop] = enc[Loop] /\ out'[Loop] = out[Loop]
      BY <2>1, <1>2, Constants
    <3>2. QED
      BY <3>1, <1>0, <1>1 DEF LoopInv, Encoding, Counting
  <2>2. CASE w = Loop
    <3>1. enc'[Loop] = "idle"
      BY <2>2, <1>2
    <3>2. loop = "command" => class[chunk] = "unknown" \/ broken'
      <4> SUFFICES ASSUME loop = "command", ~broken'
                   PROVE  class[chunk] = "unknown"
        OBVIOUS
      <4>1. out[Loop] = chunk /\ class[chunk] # "short" /\ ~Known(chunk)
        BY <2>2, <1>0, <1>1 DEF LoopInv, Encoding
      <4>2. QED
        BY <4>1, <1>0 DEF Known, TypeOK, Class
    <3>3. QED
      BY <3>1, <3>2, <1>0, <1>1 DEF LoopInv, Encoding
  <2>3. QED
    BY <2>1, <2>2
<1>6. CommandsAccounted'
  BY <1>0, <1>1 DEF CommandsAccounted
<1>7. QED
  BY <1>2, <1>3, <1>4, <1>5, <1>6 DEF IInv

\* What is in the buffer goes to the vehicle; of a writer that met no other it is
\* its message, under the encoder's number.
LEMMA FlushDelivers ==
    ASSUME IInv, NEW w \in Writer, Flush(w)
    PROVE  /\ buf' = <<>>
           /\ frame' \in [of : Message \cup {Garbled}, seq : 0..SeqMod - 1, alone : BOOLEAN]
           /\ frame'.alone => w \notin met
           /\ w \notin met => frame'.of = out[w] /\ frame'.seq = seq
           /\ fate' \in [Cmd -> Fate]
           /\ \A c \in Cmd : fate[c] # "none" => fate'[c] # "none"
           /\ out[w] \in Cmd => fate'[out[w]] # "none"
<1> USE DEF IInv
<1>1. enc[w] = "flush" /\ ~broken /\ out[w] \in Message /\ fate \in [Cmd -> Fate] /\ Deliver(w)
  BY DEF Flush, TypeOK
<1>2. w \notin met => IsFrame(out[w], buf) /\ buf[1].seq = seq
  BY <1>1 DEF AloneInv, Encoding, AtBuffer
<1>3. CASE IsFrame(out[w], buf)
  <2>1. /\ frame' = [of |-> out[w], seq |-> buf[1].seq, alone |-> w \notin met]
        /\ buf' = <<>> /\ Becomes(out[w], "whole")
    BY <1>1, <1>3 DEF Deliver
  <2>2. buf[1].seq \in 0..SeqMod - 1
    <3> DEFINE Piece == [piece : {"start", "crc"}, of : Message, seq : 0..SeqMod - 1]
    <3>1. Len(buf) = 2 /\ buf \in Seq(Piece)
      BY <1>3 DEF IsFrame, TypeOK
    <3>2. \A p \in Piece : p.seq \in 0..SeqMod - 1
      OBVIOUS
    <3> HIDE DEF Piece
    <3>3. buf[1] \in Piece
      BY <3>1
    <3>4. QED
      BY <3>2, <3>3
  <2>3. frame' \in [of : Message \cup {Garbled}, seq : 0..SeqMod - 1, alone : BOOLEAN]
    BY <2>1, <2>2, <1>1
  <2>4. frame'.of = out[w] /\ frame'.seq = buf[1].seq /\ (frame'.alone <=> w \notin met)
    BY <2>1
  <2>5. /\ fate' \in [Cmd -> Fate]
        /\ \A c \in Cmd : fate[c] # "none" => fate'[c] # "none"
        /\ out[w] \in Cmd => fate'[out[w]] # "none"
    BY <2>1, FateOnce DEF Fate
  <2>6. QED
    BY <2>1, <2>3, <2>4, <2>5, <1>2
<1>4. CASE ~IsFrame(out[w], buf)
  <2>1. /\ frame' = [of |-> Garbled, seq |-> 0, alone |-> FALSE]
        /\ buf' = <<>> /\ w \in met /\ Becomes(out[w], "spoilt")
    BY <1>1, <1>2, <1>4 DEF Deliver
  <2>2. frame' \in [of : Message \cup {Garbled}, seq : 0..SeqMod - 1, alone : BOOLEAN] /\ ~frame'.alone
    BY <2>1, Constants
  <2>3. QED
    BY <2>1, <2>2, <1>1, FateOnce DEF Fate
<1>5. QED
  BY <1>3, <1>4

LEMMA FlushOK ==
    ASSUME IInv, NEW w \in Writer, Flush(w)
    PROVE  IInv'
<1>0. TypeOK /\ AloneInv /\ SeqInv /\ LoopInv /\ CommandsAccounted
  BY DEF IInv
<1>1. /\ enc[w] = "flush" /\ ~broken
      /\ enc' = [enc EXCEPT ![w] = "count"]
      /\ UNCHANGED <<cmds, class, rawCmd, chunk, loop, out, num, seq, broken, mode, met>>
  BY DEF Flush, cmdVars
<1>2. /\ buf' = <<>>
      /\ frame' \in [of : Message \cup {Garbled}, seq : 0..SeqMod - 1, alone : BOOLEAN]
      /\ frame'.alone => w \notin met
      /\ w \notin met => frame'.seq = seq
      /\ fate' \in [Cmd -> Fate]
      /\ \A c \in Cmd : fate[c] # "none" => fate'[c] # "none"
      /\ out[w] \in Cmd => fate'[out[w]] # "none"
  BY FlushDelivers
<1>9. /\ \A v \in Writer \ {w} : enc'[v] = enc[v]
      /\ enc'[w] = "count" /\ enc' \in [Writer -> Place]
      /\ \A v \in Writer : Encoding(v)' <=> Encoding(v)
  BY <1>0, <1>1 DEF TypeOK, Encoding, Place
<1>3. TypeOK'
  <2>1. buf' \in Seq([piece : {"start", "crc"}, of : Message, seq : 0..SeqMod - 1])
    BY <1>2
  <2>2. QED
    BY <2>1, <1>0, <1>1, <1>2, <1>9 DEF TypeOK
<1>4. AloneInv'
  <2> SUFFICES ASSUME NEW v \in Writer \ met, Encoding(v)'
               PROVE  Others(v)' = {} /\ enc'[v] = "count"
    BY <1>1 DEF AloneInv, AtBuffer
  <2>1. v = w
    BY <1>0, <1>1, <1>9, NoTwoAlone DEF Encoding
  <2>2. QED
    BY <2>1, <1>0, <1>9 DEF AloneInv, Others
<1>5. SeqInv'
  <2> SUFFICES ASSUME frame'.alone PROVE SeqInv'
    BY DEF SeqInv
  <2>1. w \notin met /\ frame'.seq = seq' /\ Others(w) = {}
    BY <1>0, <1>1, <1>2 DEF AloneInv, Encoding
  <2>2. \A v \in Writer \ {w} : enc'[v] = "idle"
    BY <2>1, <1>9 DEF Others, Encoding
  <2>3. /\ \A v \in Writer : Counting(v)' <=> v = w
        /\ \A v \in Writer : enc'[v] # "store"
    BY <2>2, <1>9 DEF Counting
  <2>4. QED
    BY <2>1, <2>3 DEF SeqInv
<1>6. LoopInv'
  <2>1. rawCmd # 0 => rawCmd \in Cmd
    BY <1>0 DEF TypeOK, Cmd
  <2>2. CASE w # Loop
    <3>1. enc'[Loop] = enc[Loop]
      BY <2>2, <1>9, Constants
    <3>2. chunk # 0 => chunk \in Cmd
      BY <1>0 DEF TypeOK, Cmd
    <3>3. loop = "command" =>
            /\ rawCmd = chunk \/ (rawCmd > chunk /\ fate'[rawCmd] # "none")
            /\ ~Encoding(Loop) \/ Counting(Loop) =>
                  fate'[chunk] # "none" \/ class[chunk] = "unknown" \/ broken
      BY <2>1, <3>2, <1>0, <1>2 DEF LoopInv, TypeOK
    <3>4. QED
      BY <3>1, <3>3, <1>0, <1>1 DEF LoopInv, Encoding, Counting
  <2>3. CASE w = Loop
    <3>1. Encoding(Loop)
      BY <2>3, <1>1 DEF Encoding
    <3>2. loop = "command" =>
            /\ out[Loop] = chunk /\ chunk \in Cmd
            /\ rawCmd = chunk \/ (rawCmd > chunk /\ fate[rawCmd] # "none")
      BY <3>1, <1>0 DEF LoopInv, TypeOK, Cmd
    <3>3. loop = "command" =>
            /\ fate'[chunk] # "none"
            /\ rawCmd = chunk \/ (rawCmd > chunk /\ fate'[rawCmd] # "none")
      BY <3>2, <2>1, <2>3, <1>0, <1>2 DEF TypeOK
    <3>4. QED
      BY <3>1, <3>3, <1>0, <1>1 DEF LoopInv
  <2>4. QED
    BY <2>2, <2>3
<1>7. CommandsAccounted'
  <2> SUFFICES ASSUME NEW c \in 1..cmds
               PROVE  \/ c = rawCmd \/ (c = chunk /\ loop = "command")
                      \/ fate'[c] # "none" \/ class[c] = "unknown" \/ mode = "dead"
    <3>1. cmds' = cmds /\ rawCmd' = rawCmd /\ chunk' = chunk /\ loop' = loop
          /\ class' = class /\ mode' = mode
      BY <1>1
    <3>2. QED
      BY <3>1 DEF CommandsAccounted
  <2>1. c \in Cmd
    BY <1>0, Constants DEF TypeOK, Cmd
  <2>2. \/ c = rawCmd \/ (c = chunk /\ loop = "command")
        \/ fate[c] # "none" \/ class[c] = "unknown" \/ mode = "dead"
    BY <1>0, <1>1 DEF CommandsAccounted
  <2>3. QED
    BY <2>1, <2>2, <1>2
<1>8. QED
  BY <1>3, <1>4, <1>5, <1>6, <1>7 DEF IInv

\* CurrSeqID++ writes back one more than it read.
LEMMA StoreOK ==
    ASSUME IInv, NEW w \in Writer, Store(w)
    PROVE  IInv'
<1>0. TypeOK /\ AloneInv /\ SeqInv /\ LoopInv /\ CommandsAccounted
  BY DEF IInv
<1>1. /\ enc[w] = "store" /\ seq' = Next1(num[w]) /\ EndEncode(w)
      /\ UNCHANGED <<cmds, class, rawCmd, chunk, loop, buf, broken, frame, mode, met, fate>>
  BY DEF Store, cmdVars
<1>2. /\ enc' = [enc EXCEPT ![w] = "idle"] /\ out' = [out EXCEPT ![w] = Reply]
      /\ num' = [num EXCEPT ![w] = 0]
  BY <1>1 DEF EndEncode
<1>3. /\ enc' \in [Writer -> Place] /\ out' \in [Writer -> Message]
      /\ num' \in [Writer -> 0..SeqMod - 1] /\ seq' \in 0..SeqMod - 1
      /\ enc'[w] = "idle"
      /\ \A v \in Writer \ {w} : enc'[v] = enc[v] /\ out'[v] = out[v] /\ num'[v] = num[v]
  <2>1. num[w] \in 0..SeqMod - 1
    BY <1>0 DEF TypeOK
  <2>2. seq' \in 0..SeqMod - 1
    BY <2>1, <1>1, Numbers
  <2>3. num' \in [Writer -> 0..SeqMod - 1]
    BY <1>0, <1>2, Constants DEF TypeOK
  <2>4. QED
    BY <2>2, <2>3, <1>0, <1>2, Constants DEF TypeOK, Place
<1>4. TypeOK'
  BY <1>0, <1>1, <1>3 DEF TypeOK
<1>5. AloneInv'
  <2>1. ASSUME NEW v \in Writer \ met, Encoding(v)' PROVE FALSE
    <3>1. v # w /\ Encoding(v) /\ Encoding(w)
      BY <1>1, <1>3, <2>1 DEF Encoding
    <3>2. QED
      BY <3>1, <1>0, NoTwoAlone
  <2>2. QED
    BY <2>1, <1>1 DEF AloneInv
<1>6. SeqInv'
  <2> SUFFICES ASSUME frame.alone PROVE SeqInv'
    BY <1>1 DEF SeqInv
  <2>1. /\ num[w] = frame.seq
        /\ \A v, u \in Writer : Counting(v) /\ Counting(u) => v = u
    BY <1>0, <1>1 DEF SeqInv, Counting
  <2>2. seq' = Next1(frame'.seq)
    BY <2>1, <1>1 DEF Next1
  <2>3. ASSUME NEW v \in Writer, Counting(v)' PROVE FALSE
    <3>1. v # w /\ Counting(v) /\ Counting(w)
      BY <2>3, <1>1, <1>3 DEF Counting
    <3>2. QED
      BY <3>1, <2>1
  <2>4. QED
    BY <2>2, <2>3 DEF SeqInv
<1>7. LoopInv'
  <2>1. CASE w # Loop
    <3>1. enc'[Loop] = enc[Loop] /\ out'[Loop] = out[Loop]
      BY <2>1, <1>3, Constants
    <3>2. QED
      BY <3>1, <1>0, <1>1 DEF LoopInv, Encoding, Counting
  <2>2. CASE w = Loop
    <3>1. enc'[Loop] = "idle" /\ Counting(Loop) /\ Encoding(Loop)
      BY <2>2, <1>1, <1>3 DEF Counting, Encoding
    <3>2. QED
      BY <3>1, <1>0, <1>1 DEF LoopInv, Encoding
  <2>3. QED
    BY <2>1, <2>2
<1>8. CommandsAccounted'
  BY <1>0, <1>1 DEF CommandsAccounted
<1>9. QED
  BY <1>4, <1>5, <1>6, <1>7, <1>8 DEF IInv

LEMMA StutterOK ==
    ASSUME IInv, UNCHANGED vars
    PROVE  IInv'
<1> USE DEF IInv, vars, cmdVars, encVars
<1>1. TypeOK'
  BY DEF TypeOK
<1>2. AloneInv' /\ SeqInv'
  BY DEF AloneInv, SeqInv, Encoding, Others, AtBuffer, Counting, IsFrame, Next1
<1>3. LoopInv' /\ CommandsAccounted'
  BY DEF LoopInv, CommandsAccounted, Encoding, Counting
<1>4. QED
  BY <1>1, <1>2, <1>3

LEMMA StepOK == IInv /\ [Next]_vars => IInv'
<1> SUFFICES ASSUME IInv, [Next]_vars PROVE IInv'
  OBVIOUS
<1>1. ASSUME NEW w \in Writer, EncodeStep(w) PROVE IInv'
  BY <1>1, NumberOK, WriteOK, LeaveOK, FlushOK, StoreOK DEF EncodeStep
<1>2. CASE LoopStep
  BY <1>1, <1>2, LoopOK, GetCommandOK, NullCommandOK, StatusOK, Constants DEF LoopStep
<1>3. CASE Read
  BY <1>3, LoopOK
<1>4. ASSUME NEW b \in Binder, Bind(b) \/ EncodeStep(b) PROVE IInv'
  BY <1>1, <1>4, BindOK, Constants
<1>5. ASSUME NEW c \in Class, ReceiveCommand(c) PROVE IInv'
  BY <1>5, ReceiveOK
<1>6. CASE UNCHANGED vars
  BY <1>6, StutterOK
<1>7. QED
  BY <1>2, <1>3, <1>4, <1>5, <1>6 DEF Next

-----------------------------------------------------------------------------
\* The inductive invariant of the loop and the encoder.
THEOREM InductiveInvariant == Spec => []IInv
BY InitOK, StepOK, PTL DEF Spec

\* Commands, buffer and sequence number keep their types; the number fits a byte.
THEOREM TypeCorrect == Spec => []TypeOK
<1>1. IInv => TypeOK
  BY DEF IInv
<1>2. QED
  BY <1>1, InductiveInvariant, PTL

\* Every command of the cloud is on its way or has a reason not to arrive
\* (cloudlink.go:296-312, fmulink.go:412-429).
THEOREM NoCommandVanishes == Spec => []CommandsAccounted
<1>1. IInv => CommandsAccounted
  BY DEF IInv
<1>2. QED
  BY <1>1, InductiveInvariant, PTL

\* GetRawFmuCmd and NullRawFmuCmd never hand the loop a command again, or an
\* older one (fmulink.go:412-429).
THEOREM CommandsInOrder == Spec => OnceInOrder
<1> DEFINE A == \A c \in Cmd : loop = "get" /\ loop' = "command" /\ chunk' = c => chunk < c
<1>1. IInv /\ [Next]_vars => [A]_vars
  <2> SUFFICES ASSUME IInv, [Next]_vars, loop = "get", loop' = "command"
               PROVE  chunk < chunk'
    OBVIOUS
  <2>1. GetCommand
    <3>1. ASSUME NEW w \in Writer, EncodeStep(w) PROVE loop' = loop
      BY <3>1 DEF EncodeStep, Number, Header, Checksum, Write, UnknownId, Flush, FlushFails, Refuses,
                  Count, ReadNumber, Store
    <3>2. ASSUME NEW b \in Binder, Bind(b) \/ EncodeStep(b) PROVE loop' = loop
      BY <3>1, <3>2, Constants DEF Bind
    <3>3. ASSUME NEW c \in Class, ReceiveCommand(c) PROVE loop' = loop
      BY <3>3 DEF ReceiveCommand
    <3>4. UNCHANGED vars => loop' = loop
      BY DEF vars
    <3>5. QED
      BY <3>1, <3>2, <3>3, <3>4, Constants
      DEF Next, LoopStep, Read, NoCommand, ShortCommand, NullCommand, Status, Replied
  <2>2. QED
    BY <2>1, GetCommandOK
<1>2. QED
  BY <1>1, InductiveInvariant, PTL DEF Spec, OnceInOrder

\* EncodePacket (message.go:211-247): a message that meets no other reaches the
\* vehicle whole, whatever two writers, or an unknown id, did before; its number
\* follows that of the frame before it if that one met no other either.
THEOREM EncoderRecovers == Spec => AloneIsWhole
<1> DEFINE A == \A w \in Writer \ met :
                   enc[w] = "flush" /\ enc'[w] = "count" =>
                       /\ frame'.of = out[w]
                       /\ frame.alone => frame'.seq = Next1(frame.seq)
<1>1. IInv /\ [Next]_vars => [A]_vars
  <2> SUFFICES ASSUME IInv, [Next]_vars, NEW w \in Writer, w \notin met,
                      enc[w] = "flush", enc'[w] = "count"
               PROVE  /\ frame'.of = out[w]
                      /\ frame.alone => frame'.seq = Next1(frame.seq)
    OBVIOUS
  <2>0. TypeOK /\ AloneInv /\ SeqInv
    BY DEF IInv
  <2>1. Flush(w)
    <3>1. ASSUME NEW v \in Writer, EncodeStep(v) PROVE Flush(w)
      <4>1. v # w => enc'[w] = enc[w]
        BY <3>1, <2>0 DEF EncodeStep, Number, Header, Checksum, Write, UnknownId, Flush, FlushFails,
                          Refuses, Count, ReadNumber, Store, EndEncode, TypeOK
      <4>2. v = w
        BY <4>1
      <4>3. ~(UnknownId(v) \/ FlushFails(v) \/ Refuses(v) \/ Store(v))
        BY <4>2, <2>0 DEF UnknownId, FlushFails, Refuses, Store, EndEncode, TypeOK
      <4>4. ~(Number(v) \/ Header(v) \/ Checksum(v) \/ Count(v))
        BY <4>2 DEF Number, Header, Checksum, Count, ReadNumber, Write
      <4>5. QED
        BY <3>1, <4>2, <4>3, <4>4 DEF EncodeStep
    <3>2. ASSUME NEW b \in Binder, Bind(b) \/ EncodeStep(b) PROVE Flush(w)
      BY <3>1, <3>2, <2>0, Constants DEF Bind, StartEncode, TypeOK
    <3>3. CASE LoopStep \/ Read
      BY <3>1, <3>3, <2>0, Constants
      DEF LoopStep, Read, NoCommand, GetCommand, ShortCommand, NullCommand, Status, Replied,
          StartEncode, encVars, TypeOK
    <3>4. ASSUME NEW c \in Class, ReceiveCommand(c) PROVE FALSE
      BY <3>4 DEF ReceiveCommand, encVars
    <3>5. UNCHANGED vars => FALSE
      BY DEF vars, encVars
    <3>6. QED
      BY <3>2, <3>3, <3>4, <3>5 DEF Next
  <2>2. Others(w) = {}
    BY <2>0 DEF AloneInv, Encoding
  <2>3. \A v \in Writer : ~Counting(v)
    BY <2>2 DEF Others, Encoding, Counting
  <2>4. frame.alone => seq = Next1(frame.seq)
    BY <2>0, <2>3 DEF SeqInv
  <2>5. QED
    BY <2>1, <2>4, FlushDelivers
<1>2. QED
  BY <1>1, InductiveInvariant, PTL DEF Spec, AloneIsWhole

-----------------------------------------------------------------------------
(* The other direction: the packets that the FMU loop hands to the cloud.  *)

\* Nothing has been read.
LEMMA RelayInitOK ==
    ASSUME RelayInit PROVE RelayInv
<1> USE RelayAssumption DEF RelayInit
<1>1. RelayTypeOK
  <2>1. inHand \in BOOLEAN /\ online \in BOOLEAN
    OBVIOUS
  <2>2. pkts \in 0..MaxPkt /\ pipe \in 0..PipeCap /\ msgs \in [Kind -> 0..MaxPkt]
    OBVIOUS
  <2>3. QED
    BY <2>1, <2>2 DEF RelayTypeOK
<1>2. ReadInv
  BY DEF ReadInv, Pkt
<1>3. MapInv /\ HandedInv
  BY DEF MapInv, HandedInv
<1>4. QED
  BY <1>1, <1>2, <1>3 DEF RelayInv

\* A packet that is accounted for stays so while the map and the cloud lose none
\* and no packet ceases to be a successor.
LEMMA StillHanded ==
    ASSUME Pending \subseteq (Pending \cup sent)', sent \subseteq sent',
           NEW p, Successor(p) \subseteq Successor(p)',
           ({p} \cup Successor(p)) \cap (Pending \cup sent) # {}
    PROVE  (({p} \cup Successor(p)) \cap (Pending \cup sent))' # {}
  OBVIOUS

\* The FMU loop reads a packet and hands it on (fmulink.go:377-410); the local
\* API, the session and the syncer's Stop do as they like.
LEMMA RelayReadOK ==
    ASSUME RelayInv,
           \/ ReadPacket \/ Relay \/ TakeRaw
           \/ Session \/ Dialled \/ StopSyncer \/ Stopped
    PROVE  RelayInv'
<1> USE RelayAssumption DEF fmuVars, Pkt
<1>0. RelayTypeOK /\ ReadInv /\ MapInv /\ HandedInv
  BY DEF RelayInv
<1>1. /\ UNCHANGED <<kindOf, msgs, sent, late>>
      /\ pkts' \in 0..MaxPkt /\ pkts <= pkts'
      /\ pipe' \in 0..PipeCap
      /\ \/ UNCHANGED up
         \/ inHand /\ pkts \in 1..MaxPkt /\ up' = [up EXCEPT ![pkts] = "lock"]
  BY <1>0 DEF RelayTypeOK, ReadInv, ReadPacket, Relay, TakeRaw, Session, Dialled, StopSyncer, Stopped
<1>2. inHand' \in BOOLEAN /\ online' \in BOOLEAN /\ main' \in {"dial", "select", "stop"}
  BY <1>0 DEF RelayTypeOK, ReadPacket, Relay, TakeRaw, Session, Dialled, StopSyncer, Stopped
<1>3. RelayTypeOK'
  <2>1. up' \in [1..MaxPkt -> {"none", "lock", "send", "gone"}]
    BY <1>0, <1>1 DEF RelayTypeOK
  <2>2. QED
    BY <1>0, <1>1, <1>2, <2>1 DEF RelayTypeOK
<1>4. ReadInv'
  BY <1>0, <1>1 DEF RelayTypeOK, ReadInv, ReadPacket, Relay, TakeRaw, Session, Dialled,
                    StopSyncer, Stopped
<1>5. \A p \in 1..MaxPkt : up'[p] \in {"send", "gone"} => up[p] = up'[p]
  BY <1>0, <1>1 DEF RelayTypeOK
<1>6. MapInv'
  <2>1. \A p \in 1..pkts : p # pkts \/ ~inHand => up'[p] = up[p]
    BY <1>0, <1>1 DEF RelayTypeOK
  <2>2. QED
    BY <1>0, <1>1, <2>1 DEF RelayTypeOK, MapInv, ReadInv
<1>7. HandedInv'
  <2>1. Pending' = Pending
    BY <1>1 DEF Pending
  <2>2. \A p : Successor(p) \subseteq Successor(p)'
    BY <1>0, <1>1 DEF Successor, RelayTypeOK
  <2>3. QED
    BY <1>0, <1>1, <1>5, <2>1, <2>2, StillHanded DEF HandedInv
<1>8. QED
  BY <1>3, <1>4, <1>6, <1>7 DEF RelayInv

\* UpdateFromFMU (cloudlink.go:314-333): a packet takes the place of the one of
\* its kind, which it follows, or which it is late for.
LEMMA RelayUpdateOK ==
    ASSUME RelayInv, NEW p \in Pkt, UpdateFromFMU(p)
    PROVE  RelayInv'
<1> USE RelayAssumption DEF fmuVars, Pkt
<1>0. RelayTypeOK /\ ReadInv /\ MapInv /\ HandedInv
  BY DEF RelayInv
<1> DEFINE k == kindOf[p]
<1>1. /\ up[p] = "lock" /\ UNCHANGED <<pkts, kindOf, inHand, pipe, online, main, sent>>
      /\ msgs' = [msgs EXCEPT ![k] = p]
      /\ up' = [up EXCEPT ![p] = IF k \in Unthrottled THEN "send" ELSE "gone"]
      /\ late' = (IF Later(p) = {} THEN late ELSE late \cup {p})
  BY DEF UpdateFromFMU
<1>2. p \in 1..MaxPkt /\ k \in Kind /\ p \in 1..pkts
  BY <1>0, <1>1 DEF RelayTypeOK, ReadInv
<1>3. RelayTypeOK'
  <2>1. msgs' \in [Kind -> 0..MaxPkt]
    BY <1>0, <1>1, <1>2 DEF RelayTypeOK
  <2>2. up' \in [1..MaxPkt -> {"none", "lock", "send", "gone"}] /\ late' \in SUBSET (1..MaxPkt)
    BY <1>0, <1>1, <1>2 DEF RelayTypeOK
  <2>3. QED
    BY <1>0, <1>1, <2>1, <2>2 DEF RelayTypeOK
<1>4. ReadInv'
  BY <1>0, <1>1, <1>2 DEF RelayTypeOK, ReadInv
<1>5. MapInv'
  BY <1>0, <1>1, <1>2 DEF RelayTypeOK, MapInv
<1>6. HandedInv'
  <2>1. p \in Pending'
    BY <1>0, <1>1, <1>2 DEF Pending, RelayTypeOK
  <2>2. \A q : Successor(q) \subseteq Successor(q)'
    BY <1>1 DEF Successor
  <2>3. ASSUME NEW q \in 1..MaxPkt, q # p, up[q] \in {"send", "gone"}, kindOf[q] = k
        PROVE  p \in Successor(q)'
    <3>1. q < p \/ q \in Later(p)
      BY <1>2, <2>3 DEF Later
    <3>2. q < p \/ p \in late'
      BY <1>1, <3>1
    <3>3. QED
      BY <1>1, <1>2, <2>3, <3>2 DEF Successor
  <2>4. ASSUME NEW q \in 1..MaxPkt, up'[q] \in {"send", "gone"}
        PROVE  (({q} \cup Successor(q)) \cap (Pending \cup sent))' # {}
    <3>1. CASE q = p
      BY <2>1, <3>1
    <3>2. CASE q # p /\ kindOf[q] = k
      <4>1. up[q] \in {"send", "gone"}
        BY <1>0, <1>1, <2>4, <3>2 DEF RelayTypeOK
      <4>2. QED
        BY <2>1, <2>3, <3>2, <4>1
    <3>3. CASE q # p /\ kindOf[q] # k
      <4>1. up[q] \in {"send", "gone"}
        BY <1>0, <1>1, <2>4, <3>3 DEF RelayTypeOK
      <4>2. PICK w \in {q} \cup Successor(q) : w \in Pending \cup sent
        BY <1>0, <4>1 DEF HandedInv
      <4>3. kindOf[w] # k
        BY <3>3 DEF Successor
      <4>4. w \in Pending => w \in Pending'
        <5>1. SUFFICES ASSUME NEW j \in Kind, w = msgs[j], w # 0
                       PROVE  w \in Pending'
          BY DEF Pending
        <5>2. j # k
          BY <1>0, <4>3, <5>1 DEF MapInv
        <5>3. msgs'[j] = w
          BY <1>0, <1>1, <5>1, <5>2 DEF RelayTypeOK
        <5>4. QED
          BY <5>1, <5>3 DEF Pending
      <4>5. QED
        BY <1>1, <2>2, <4>2, <4>4
    <3>4. QED
      BY <3>1, <3>2, <3>3
  <2>5. ASSUME NEW q \in 1..MaxPkt, up'[q] = "gone", kindOf'[q] \in Unthrottled
        PROVE  q \in sent'
    BY <1>0, <1>1, <2>5 DEF HandedInv, RelayTypeOK
  <2>6. QED
    BY <2>4, <2>5 DEF HandedInv
<1>7. QED
  BY <1>3, <1>4, <1>5, <1>6 DEF RelayInv

\* The main loop (cloudlink.go:213-241) writes what it takes from the map or is
\* held out.
LEMMA RelayWriteOK ==
    ASSUME RelayInv,
           SyncTick \/ \E p \in Pkt : TakeUnthrottled(p)
    PROVE  RelayInv'
<1> USE RelayAssumption DEF fmuVars, Pkt
<1>0. RelayTypeOK /\ ReadInv /\ MapInv /\ HandedInv
  BY DEF RelayInv
<1>1. UNCHANGED <<pkts, kindOf, inHand, pipe, online, main, late>>
  BY DEF SyncTick, TakeUnthrottled
<1>2. \A p : Successor(p) = Successor(p)'
  BY <1>1 DEF Successor
<1>3. CASE SyncTick
  <2>1. /\ sent' = sent \cup Pending /\ UNCHANGED up
        /\ msgs' = [k \in Kind |-> 0]
    BY <1>3 DEF SyncTick
  <2>2. Pending \subseteq 1..MaxPkt
    BY <1>0 DEF RelayTypeOK, Pending
  <2>3. RelayTypeOK'
    BY <1>0, <1>1, <2>1, <2>2 DEF RelayTypeOK
  <2>4. ReadInv' /\ MapInv'
    BY <1>0, <1>1, <2>1 DEF ReadInv, MapInv
  <2>5. HandedInv'
    BY <1>0, <1>1, <1>2, <2>1, StillHanded DEF HandedInv
  <2>6. QED
    BY <2>3, <2>4, <2>5 DEF RelayInv
<1>4. ASSUME NEW p \in Pkt, TakeUnthrottled(p) PROVE RelayInv'
  <2>1. /\ up[p] = "send" /\ sent' = sent \cup {p} /\ UNCHANGED msgs
        /\ up' = [up EXCEPT ![p] = "gone"]
    BY <1>4 DEF TakeUnthrottled
  <2>2. RelayTypeOK'
    BY <1>0, <1>1, <2>1 DEF RelayTypeOK
  <2>3. ReadInv'
    BY <1>0, <1>1, <2>1 DEF RelayTypeOK, ReadInv
  <2>4. MapInv'
    BY <1>0, <1>1, <2>1 DEF RelayTypeOK, MapInv
  <2>5. Pending' = Pending
    BY <2>1 DEF Pending
  <2>6. \A q \in 1..MaxPkt : q # p => up'[q] = up[q]
    BY <1>0, <2>1 DEF RelayTypeOK
  <2>7. HandedInv'
    BY <1>0, <1>1, <1>2, <2>1, <2>5, <2>6, StillHanded DEF HandedInv
  <2>8. QED
    BY <2>2, <2>3, <2>4, <2>7 DEF RelayInv
<1>5. QED
  BY <1>3, <1>4

\* Every step of the relay keeps the invariant.
LEMMA RelayStepOK ==
    ASSUME RelayInv, [RelayNext]_relayVars PROVE RelayInv'
<1>1. CASE UNCHANGED relayVars
  BY <1>1 DEF relayVars, fmuVars, RelayInv, RelayTypeOK, ReadInv, MapInv,
              HandedInv, Successor, Pending
<1>2. CASE RelayNext
  BY <1>2, RelayReadOK, RelayUpdateOK, RelayWriteOK DEF RelayNext
<1>3. QED
  BY <1>1, <1>2

\* The inductive invariant of the relay.
THEOREM RelayInvariant == RelaySpec => []RelayInv
BY RelayInitOK, RelayStepOK, PTL DEF RelaySpec

\* The goroutines of the packets (fmulink.go:410, cloudlink.go:314) overtake
\* each other and share one place for each kind: none is forgotten but for one
\* that took its place.
THEOREM NoPacketForgotten == RelaySpec => []NothingForgotten
<1>1. RelayInv => NothingForgotten
  <2> SUFFICES ASSUME RelayInv, NEW p \in 1..pkts,
                      ~(p = pkts /\ inHand), up[p] \notin {"lock", "send"}, p \notin sent
               PROVE  /\ kindOf[p] \notin Unthrottled
                      /\ ({p} \cup Successor(p)) \cap (Pending \cup sent) # {}
    BY DEF NothingForgotten
  <2>1. p \in Pkt
    BY RelayAssumption DEF RelayInv, RelayTypeOK, Pkt
  <2>2. up[p] = "gone"
    BY <2>1 DEF RelayInv, RelayTypeOK, ReadInv
  <2>3. QED
    BY <2>1, <2>2 DEF RelayInv, HandedInv
<1>2. QED
  BY <1>1, RelayInvariant, PTL

=============================================================================
