--------------------------- MODULE UdpOutputs_proofs ---------------------------
(***************************************************************************)
(* For any addresses, sockets, requests and stops: the readers' unlocked   *)
(* look-up finds a link, every running reader is the one that Remove would *)
(* reach, unless an address was added twice; the list agrees with the      *)
(* links when nothing is in progress, unless requests clashed; whom Remove *)
(* waits for under the lock can come; a start brings back what the list    *)
(* showed when the program stopped.                                        *)
(***************************************************************************)
EXTENDS UdpOutputs, TLAPS

-----------------------------------------------------------------------------
\* The sentinels are no task, socket or address.
LEMMA Sentinels ==
    /\ Free \notin Task /\ Boot \in Task /\ Req \subseteq Task /\ Boot \notin Req
    /\ NoConn \notin Conn /\ NoAddr \notin Addr
    /\ CmdLine \subseteq Addr /\ MaxStop \in Nat
  BY OutputsAssumption DEF Free, Task, Boot, Req

\* Nobody writes the file at start-up (main.go loads the store before it serves).
LEMMA WriterServes ==
    ASSUME IInv, NEW t \in Task, pc[t] \notin {"load", "idle", "done"}
    PROVE  pc[Boot] # "load"
<1>1. pc[Boot] = "load" => \A r \in Req : pc[r] \in {"idle", "done"}
  BY DEF IInv, LifeInv
<1>2. t = Boot \/ t \in Req
  BY OutputsAssumption DEF Task, Req, Boot
<1>3. QED
  BY <1>1, <1>2

\* The steps of a task in the store.
StoreStep(t) ==
    \/ GetList(t) \/ SetBegin(t) \/ OpenFails(t) \/ SetEnd(t) \/ SetFails(t)
    \/ Forget(t) \/ ForgetFails(t) \/ Restore(t)

\* What a task leaves of its own state when it goes on: no other task's.
Moved(t, places) ==
    /\ pc' \in [Task -> {"load", "idle", "dial", "lock", "insert", "get", "set", "file",
                         "unlink", "quit", "delete", "forget", "list", "done"}]
    /\ op' \in [Task -> {"none", "add", "delete", "login", "logout", "cmdline", "stored"}]
    /\ cur' \in [Task -> Addr \cup {NoAddr}]
    /\ todo' \in [Task -> SUBSET Addr]
    /\ conn' \in [Task -> Conn \cup {NoConn}]
    /\ got' \in [Task -> SUBSET Addr]
    /\ pc'[t] \in places
    /\ (pc'[t] \in {"dial", "unlink"} \/ op'[t] \in {"add", "delete"}) => cur'[t] \in Addr
    /\ \A u \in Task \ {t} : /\ pc'[u] = pc[u] /\ op'[u] = op[u]
                             /\ cur'[u] = cur[u] /\ conn'[u] = conn[u]

\* Ending a task, or going on to the next address of a list, touches that task
\* only, and sends it to Add, to the store's list, or to its end.
LEMMA Moves ==
    ASSUME TypeOK, NEW t \in Task, NEW list \in SUBSET Addr,
           Finish(t) \/ AddEach(t, list)
    PROVE  Moved(t, {"dial", "list", "done"})
<1> USE DEF TypeOK, Moved
<1>1. CASE Finish(t)
  BY <1>1 DEF Finish, Goto
<1>2. CASE list # {} /\ AddEach(t, list)
  <2>1. PICK a \in list :
          /\ cur' = [cur EXCEPT ![t] = a]
          /\ todo' = [todo EXCEPT ![t] = list \ {a}]
          /\ conn' = [conn EXCEPT ![t] = NoConn]
          /\ Goto(t, "dial")
          /\ UNCHANGED <<op, got>>
    BY <1>2 DEF AddEach
  <2>2. a \in Addr /\ list \ {a} \in SUBSET Addr
    OBVIOUS
  <2>3. QED
    BY <2>1, <2>2 DEF Goto
<1>3. QED
  BY <1>1, <1>2 DEF AddEach

-----------------------------------------------------------------------------
\* Nothing is linked, dialled or written when the program starts.
LEMMA InitOK == Init => IInv
<1> SUFFICES ASSUME Init PROVE IInv
  OBVIOUS
<1> USE Sentinels
<1>1. TypeOK
  <2>1. NoData \in Data /\ 0 \in 0..MaxStop
    BY DEF NoData, Data
  <2>2. /\ pc \in [Task -> {"load", "idle"}] /\ op \in [Task -> {"cmdline", "none"}]
        /\ cur \in [Task -> {NoAddr}] /\ todo \in [Task -> {{}}] /\ conn \in [Task -> {NoConn}]
        /\ got \in [Task -> {{}}]
    BY DEF Init
  <2>3. QED
    BY <2>1, <2>2 DEF Init, TypeOK
<1>2. LockInv /\ DialInv /\ CurInv /\ QuitInv /\ ReaderInv
  BY DEF Init, LockInv, DialInv, CurInv, QuitInv, ReaderInv, Started
<1>3. LifeInv /\ NilOnlyAfterTwice
  BY DEF Init, LifeInv, NilOnlyAfterTwice
<1>4. QED
  BY <1>1, <1>2, <1>3 DEF IInv

\* What a write that is cut short leaves.
LEMMA CutIsData ==
    ASSUME TypeOK, CutShort
    PROVE  file' \in Data /\ readable' \in BOOLEAN
<1>1. CASE /\ file' \in [out : {file.out, mem.out, {}}, user : {file.user, mem.user, FALSE}]
           /\ readable' = TRUE
  BY <1>1 DEF TypeOK, Data
<1>2. CASE file' = NoData /\ readable' = FALSE
  BY <1>2 DEF NoData, Data
<1>3. QED
  BY <1>1, <1>2 DEF CutShort

\* A stop forgets all but the file; "nil" is its reason only after an address
\* was added twice.
LEMMA StopOK ==
    ASSUME IInv, NEW why \in {"off", "nil", "race"}, why = "nil" => twice, Stop(why)
    PROVE  IInv'
<1> USE Sentinels
<1>0. TypeOK
  BY DEF IInv
<1>1. file' \in Data /\ readable' \in BOOLEAN
  <2>1. CASE UNCHANGED <<file, readable>>
    BY <2>1, <1>0 DEF TypeOK
  <2>2. CASE CutShort
    BY <2>2, <1>0, CutIsData
  <2>3. QED
    BY <2>1, <2>2 DEF Stop
<1>2. kept' \subseteq Addr /\ sure' \in BOOLEAN
  <2>1. mem.out \subseteq Addr /\ kept \subseteq Addr /\ sure \in BOOLEAN
    BY <1>0 DEF TypeOK, Data
  <2>2. QED
    BY <2>1 DEF Stop
<1>3. TypeOK'
  BY <1>0, <1>1, <1>2 DEF Stop, TypeOK, Data, NoData
<1>4. (LockInv /\ DialInv /\ CurInv /\ QuitInv /\ ReaderInv)'
  BY <1>0 DEF Stop, TypeOK, LockInv, DialInv, CurInv, QuitInv, ReaderInv, Started
<1>5. LifeInv' /\ NilOnlyAfterTwice'
  BY <1>0 DEF Stop, TypeOK, LifeInv, NilOnlyAfterTwice
<1>6. QED
  BY <1>3, <1>4, <1>5 DEF IInv

\* The requests begin.
LEMMA BeginOK ==
    ASSUME IInv, Up, NEW r \in Req, Begin(r)
    PROVE  IInv'
<1> USE Sentinels DEF linkVars, taskVars, storeVars, lifeVars
<1>0. TypeOK /\ r \in Task /\ mode = "up"
  BY DEF IInv, Up
<1> DEFINE Begun(where) ==
        /\ Arrives(r)
        /\ pc' = [pc EXCEPT ![r] = where]
        /\ op' \in [Task -> {"none", "add", "delete", "login", "logout", "cmdline", "stored"}]
        /\ cur' \in [Task -> Addr \cup {NoAddr}]
        /\ (where = "dial" \/ op'[r] \in {"add", "delete"}) => cur'[r] \in Addr
        /\ \A u \in Task \ {r} : op'[u] = op[u] /\ cur'[u] = cur[u]
        /\ clashed' \in BOOLEAN
        /\ UNCHANGED <<links, lock, addr, reader, waits, closed, todo, conn, got, mem, file,
                       readable, mode, stops, kept, sure, twice>>
<1>1. PICK where \in {"dial", "get", "set", "forget"} : Begun(where)
  <2>1. ASSUME NEW a \in Addr, BeginAdd(r, a) PROVE Begun("dial")
    BY <2>1, <1>0 DEF BeginAdd, Goto, TypeOK
  <2>2. ASSUME NEW a \in Addr, BeginDelete(r, a) PROVE Begun("get")
    BY <2>2, <1>0 DEF BeginDelete, Goto, TypeOK
  <2>3. ASSUME BeginLogin(r) PROVE Begun("set")
    BY <2>3, <1>0 DEF BeginLogin, Goto, TypeOK
  <2>4. ASSUME BeginLogout(r) PROVE Begun("forget")
    BY <2>4, <1>0 DEF BeginLogout, Goto, TypeOK
  <2>5. QED
    <3>1. \/ \E a \in Addr : BeginAdd(r, a) \/ BeginDelete(r, a)
          \/ BeginLogin(r) \/ BeginLogout(r)
      BY DEF Begin
    <3> HIDE DEF Begun
    <3>2. QED
      BY <2>1, <2>2, <2>3, <2>4, <3>1
<1>2. pc[Boot] = "done" /\ pc[r] = "idle"
  BY <1>1 DEF Arrives, Serving
<1>3. TypeOK'
  BY <1>0, <1>1 DEF TypeOK
<1>4. (LockInv /\ DialInv /\ CurInv /\ QuitInv /\ ReaderInv)'
  BY <1>0, <1>1, <1>2 DEF IInv, TypeOK, LockInv, DialInv, CurInv, QuitInv, ReaderInv, Started
<1>5. LifeInv' /\ NilOnlyAfterTwice'
  BY <1>0, <1>1, <1>2 DEF IInv, TypeOK, LifeInv, NilOnlyAfterTwice
<1>6. QED
  BY <1>3, <1>4, <1>5 DEF IInv

-----------------------------------------------------------------------------
(* OutputManager                                                           *)

\* Add (output.go:74-106): the new socket is its task's own until it is linked.
LEMMA AddOK ==
    ASSUME IInv, Up, NEW t \in Task, Dial(t) \/ DialFails(t) \/ LockToAdd(t) \/ Insert(t)
    PROVE  IInv'
<1> USE Sentinels DEF linkVars, taskVars, storeVars, lifeVars
<1>0. TypeOK /\ mode = "up"
  BY DEF IInv, Up
<1>1. CASE Dial(t)
  <2>1. PICK c \in FreeConns :
          /\ reader' = [reader EXCEPT ![c] = "new"]
          /\ addr' = [addr EXCEPT ![c] = cur[t]]
          /\ conn' = [conn EXCEPT ![t] = c]
    BY <1>1 DEF Dial
  <2>2. c \in Conn /\ reader[c] = "free" /\ pc[t] = "dial" /\ pc' = [pc EXCEPT ![t] = "lock"]
    BY <1>1 DEF Dial, FreeConns, Goto
  <2>3. UNCHANGED <<links, lock, waits, closed, op, cur, todo, got, mem, file, readable,
                    mode, stops, kept, sure, twice, clashed>>
    BY <1>1 DEF Dial
  <2>4. cur[t] \in Addr
    BY <2>2 DEF IInv, CurInv
  <2>5. TypeOK'
    BY <1>0, <2>1, <2>2, <2>3 DEF TypeOK
  <2>6. (LockInv /\ DialInv /\ CurInv)'
    BY <1>0, <2>1, <2>2, <2>3, <2>4 DEF IInv, TypeOK, LockInv, DialInv, CurInv
  <2>7. QuitInv' /\ ReaderInv'
    BY <1>0, <2>1, <2>2, <2>3 DEF IInv, TypeOK, QuitInv, ReaderInv, Started
  <2>8. LifeInv' /\ NilOnlyAfterTwice'
    BY <1>0, <2>2, <2>3, WriterServes DEF IInv, TypeOK, LifeInv, NilOnlyAfterTwice
  <2>9. QED
    BY <2>5, <2>6, <2>7, <2>8 DEF IInv
<1>2. CASE DialFails(t)
  <2>1. TypeOK'
    BY <1>0, <1>2 DEF DialFails, Goto, TypeOK
  <2>2. (LockInv /\ DialInv /\ CurInv /\ QuitInv /\ ReaderInv)'
    BY <1>0, <1>2 DEF IInv, DialFails, Goto, TypeOK, LockInv, DialInv, CurInv, QuitInv,
                      ReaderInv, Started
  <2>3. LifeInv' /\ NilOnlyAfterTwice'
    BY <1>0, <1>2, WriterServes DEF IInv, DialFails, Goto, TypeOK, LifeInv, NilOnlyAfterTwice
  <2>4. QED
    BY <2>1, <2>2, <2>3 DEF IInv
<1>3. CASE LockToAdd(t)
  <2>1. TypeOK'
    BY <1>0, <1>3 DEF LockToAdd, Goto, TypeOK
  <2>2. (LockInv /\ DialInv /\ CurInv /\ QuitInv /\ ReaderInv)'
    BY <1>0, <1>3 DEF IInv, LockToAdd, Goto, TypeOK, LockInv, DialInv, CurInv, QuitInv,
                      ReaderInv, Started
  <2>3. LifeInv' /\ NilOnlyAfterTwice'
    BY <1>0, <1>3, WriterServes DEF IInv, LockToAdd, Goto, TypeOK, LifeInv, NilOnlyAfterTwice
  <2>4. QED
    BY <2>1, <2>2, <2>3 DEF IInv
<1>4. CASE Insert(t)
  <2>1. /\ pc[t] = "insert" /\ lock' = Free
        /\ links' = [links EXCEPT ![cur[t]] = conn[t]]
        /\ reader' = [reader EXCEPT ![conn[t]] = "loop"]
        /\ twice' = (twice \/ links[cur[t]] # NoConn)
        /\ UNCHANGED <<addr, waits, closed, mem, file, readable, mode, stops, kept, sure, clashed>>
    BY <1>4 DEF Insert
  <2>2. /\ cur[t] \in Addr /\ conn[t] \in Conn
        /\ reader[conn[t]] = "new" /\ addr[conn[t]] = cur[t] /\ lock = t
    BY <2>1 DEF IInv, CurInv, DialInv, LockInv
  <2>3. Moved(t, {"get", "dial", "list", "done"})
    <3>1. CASE op[t] = "add"
      BY <1>0, <1>4, <2>2, <3>1 DEF Insert, Goto, TypeOK, Moved
    <3>2. CASE op[t] # "add"
      <4>1. AddEach(t, todo[t]) /\ todo[t] \in SUBSET Addr
        BY <1>0, <1>4, <3>2 DEF Insert, TypeOK
      <4>2. QED
        BY <1>0, <4>1, Moves DEF Moved
    <3>3. QED
      BY <3>1, <3>2
  <2>4. TypeOK'
    BY <1>0, <2>1, <2>2, <2>3 DEF Moved, TypeOK
  <2>5. \A u \in Task \ {t} : pc[u] \notin {"insert", "quit", "delete"}
    BY <2>2 DEF IInv, LockInv
  <2>6. LockInv' /\ CurInv'
    BY <1>0, <2>3, <2>5 DEF Moved, IInv, TypeOK, LockInv, CurInv
  <2>7. DialInv'
    BY <1>0, <2>1, <2>2, <2>3 DEF Moved, IInv, TypeOK, DialInv
  <2>8. QuitInv'
    BY <2>3, <2>5 DEF Moved, QuitInv
  <2>9. ReaderInv'
    <3>1. ASSUME NEW c \in Conn, reader'[c] \in {"loop", "wait", "read", "input"}
          PROVE  /\ addr'[c] \in Addr
                 /\ ~twice' => (links'[addr'[c]] = c /\ (reader'[c] = "wait" => waits'[c] = c))
      <4>1. CASE c = conn[t]
        BY <1>0, <2>1, <2>2, <4>1 DEF TypeOK
      <4>2. CASE c # conn[t]
        <5>1. Started(c) /\ reader'[c] = reader[c]
          BY <1>0, <2>1, <3>1, <4>2 DEF TypeOK, Started
        <5>2. /\ addr[c] \in Addr
              /\ ~twice => links[addr[c]] = c /\ (reader[c] = "wait" => waits[c] = c)
          BY <5>1 DEF IInv, ReaderInv
        <5>3. ~twice' => ~twice /\ addr[c] # cur[t]
          BY <2>1, <5>2
        <5>4. addr'[c] = addr[c] /\ waits'[c] = waits[c]
          BY <2>1
        <5>5. addr[c] # cur[t] => links'[addr[c]] = links[addr[c]]
          BY <1>0, <2>1, <5>2 DEF TypeOK
        <5>6. QED
          BY <5>1, <5>2, <5>3, <5>4, <5>5
      <4>3. QED
        BY <4>1, <4>2
    <3>2. QED
      BY <3>1 DEF ReaderInv, Started
  <2>10. LifeInv' /\ NilOnlyAfterTwice'
    BY <1>0, <2>1, <2>3, WriterServes DEF Moved, IInv, TypeOK, LifeInv, NilOnlyAfterTwice
  <2>11. QED
    BY <2>4, <2>6, <2>7, <2>8, <2>9, <2>10 DEF IInv
<1>5. QED
  BY <1>1, <1>2, <1>3, <1>4

\* Remove (output.go:108-119): from the Quit to the delete the link is there and
\* the goroutine that took the Quit is gone.
LEMMA RemoveOK ==
    ASSUME IInv, Up, NEW t \in Task,
           LockToRemove(t) \/ Delete(t) \/ \E c \in Conn : TakeQuit(t, c)
    PROVE  IInv'
<1> USE Sentinels DEF linkVars, taskVars, storeVars, lifeVars
<1>0. TypeOK /\ mode = "up"
  BY DEF IInv, Up
<1>1. CASE LockToRemove(t) /\ links[cur[t]] = NoConn
  <2>1. /\ Finish(t) /\ pc[t] = "unlink"
        /\ UNCHANGED <<links, lock, addr, reader, waits, closed, mem, file, readable, mode,
                       stops, kept, sure, twice, clashed>>
    BY <1>1 DEF LockToRemove
  <2>2. Moved(t, {"dial", "list", "done"})
    <3>1. Finish(t) \/ AddEach(t, {})
      BY <2>1
    <3>2. QED
      BY <1>0, <3>1, Moves
  <2>3. TypeOK'
    BY <1>0, <2>1, <2>2 DEF Moved, TypeOK
  <2>4. (LockInv /\ DialInv /\ CurInv)'
    BY <1>0, <2>1, <2>2 DEF Moved, IInv, LockInv, DialInv, CurInv
  <2>5. (QuitInv /\ ReaderInv)'
    BY <1>0, <2>1, <2>2 DEF Moved, IInv, QuitInv, ReaderInv, Started
  <2>6. LifeInv' /\ NilOnlyAfterTwice'
    BY <1>0, <2>1, <2>2, WriterServes DEF Moved, IInv, LifeInv, NilOnlyAfterTwice
  <2>7. QED
    BY <2>3, <2>4, <2>5, <2>6 DEF IInv
<1>2. CASE LockToRemove(t) /\ links[cur[t]] # NoConn
  <2>1. /\ lock = Free /\ lock' = t
        /\ closed' = closed \cup {links[cur[t]]}
        /\ pc[t] = "unlink" /\ pc' = [pc EXCEPT ![t] = "quit"]
        /\ UNCHANGED <<op, cur, todo, conn, got, links, addr, reader, waits, mem, file,
                       readable, mode, stops, kept, sure, twice, clashed>>
    BY <1>2 DEF LockToRemove, Goto
  <2>2. cur[t] \in Addr
    BY <2>1 DEF IInv, CurInv
  <2>3. TypeOK'
    BY <1>0, <1>2, <2>1, <2>2 DEF TypeOK
  <2>4. (LockInv /\ DialInv /\ CurInv)'
    BY <1>0, <2>1 DEF IInv, TypeOK, LockInv, DialInv, CurInv
  <2>5. (QuitInv /\ ReaderInv)'
    BY <1>0, <1>2, <2>1 DEF IInv, TypeOK, QuitInv, ReaderInv, Started
  <2>6. LifeInv' /\ NilOnlyAfterTwice'
    BY <1>0, <2>1, WriterServes DEF IInv, TypeOK, LifeInv, NilOnlyAfterTwice
  <2>7. QED
    BY <2>3, <2>4, <2>5, <2>6 DEF IInv
<1>3. ASSUME NEW c \in Conn, TakeQuit(t, c) PROVE IInv'
  <2>1. /\ pc[t] = "quit" /\ pc' = [pc EXCEPT ![t] = "delete"]
        /\ reader[c] = "wait" /\ waits[c] = links[cur[t]]
        /\ reader' = [reader EXCEPT ![c] = "free"]
        /\ addr' = [addr EXCEPT ![c] = NoAddr]
        /\ waits' = [d \in Conn |-> IF c \in {d, waits[d]} THEN NoConn ELSE waits[d]]
        /\ closed' = closed \ {c}
        /\ UNCHANGED <<links, lock, op, cur, todo, conn, got, mem, file, readable, mode, stops, kept, sure,
                       twice, clashed>>
    BY <1>3 DEF TakeQuit, Goto
  <2>2. ~twice => links[cur[t]] = c
    BY <2>1 DEF IInv, ReaderInv, Started
  <2>3. lock = t
    BY <2>1 DEF IInv, LockInv
  <2>4. TypeOK'
    BY <1>0, <2>1 DEF TypeOK
  <2>5. (LockInv /\ DialInv /\ CurInv)'
    BY <1>0, <2>1 DEF IInv, TypeOK, LockInv, DialInv, CurInv
  <2>6. QuitInv'
    BY <1>0, <2>1, <2>2, <2>3 DEF IInv, TypeOK, QuitInv, LockInv
  <2>7. ReaderInv'
    BY <1>0, <2>1 DEF IInv, TypeOK, ReaderInv, Started
  <2>8. LifeInv' /\ NilOnlyAfterTwice'
    BY <1>0, <2>1, WriterServes DEF IInv, TypeOK, LifeInv, NilOnlyAfterTwice
  <2>9. QED
    BY <2>4, <2>5, <2>6, <2>7, <2>8 DEF IInv
<1>4. CASE Delete(t)
  <2>1. /\ Finish(t) /\ pc[t] = "delete" /\ lock' = Free
        /\ links' = [links EXCEPT ![cur[t]] = NoConn]
        /\ UNCHANGED <<addr, reader, waits, closed, mem, file, readable, mode, stops, kept, sure, twice,
                       clashed>>
    BY <1>4 DEF Delete
  <2>2. Moved(t, {"dial", "list", "done"})
    <3>1. Finish(t) \/ AddEach(t, {})
      BY <2>1
    <3>2. QED
      BY <1>0, <3>1, Moves
  <2>3. \A u \in Task \ {t} : pc[u] \notin {"insert", "quit", "delete"}
    BY <2>1 DEF IInv, LockInv
  <2>4. TypeOK'
    BY <1>0, <2>1, <2>2 DEF Moved, TypeOK
  <2>5. (LockInv /\ DialInv /\ CurInv)'
    BY <1>0, <2>1, <2>2, <2>3 DEF Moved, IInv, LockInv, DialInv, CurInv
  <2>6. QuitInv'
    BY <1>0, <2>2, <2>3 DEF Moved, QuitInv
  <2>7. ReaderInv'
    <3>1. ~twice => \A c \in Conn : Started(c) => addr[c] # cur[t]
      BY <2>1 DEF IInv, QuitInv, ReaderInv, Started
    <3>2. QED
      BY <1>0, <2>1, <3>1 DEF IInv, TypeOK, ReaderInv, Started
  <2>8. LifeInv' /\ NilOnlyAfterTwice'
    BY <1>0, <2>1, <2>2, WriterServes DEF Moved, IInv, LifeInv, NilOnlyAfterTwice
  <2>9. QED
    BY <2>4, <2>5, <2>6, <2>7, <2>8 DEF IInv
<1>5. QED
  BY <1>1, <1>2, <1>3, <1>4

\* The readers (output.go:87-103): a nil link is met only after an address was
\* added twice.
LEMMA ReaderOK ==
    ASSUME IInv, Up, NEW c \in Conn, ReaderStep(c) \/ ReadPacket(c) \/ MapRace(c)
    PROVE  IInv'
<1> USE Sentinels DEF linkVars, taskVars, storeVars, lifeVars
<1>0. TypeOK /\ mode = "up"
  BY DEF IInv, Up
<1>1. CASE EnterSelect(c) \/ Tick(c) \/ ReadFails(c) \/ TakeInput(c) \/ ReadPacket(c)
  <2> DEFINE Reads(where) ==
        /\ Started(c) /\ reader' = [reader EXCEPT ![c] = where]
        /\ \/ waits' = waits /\ where # "wait"
           \/ waits' = [waits EXCEPT ![c] = links[addr[c]]] /\ links[addr[c]] # NoConn
        /\ UNCHANGED <<links, lock, addr, closed, pc, op, cur, todo, conn, got, mem, file,
                       readable, mode, stops, kept, sure, twice, clashed>>
  <2>1. PICK where \in {"loop", "wait", "read", "input"} : Reads(where)
    BY <1>1 DEF EnterSelect, Tick, ReadFails, TakeInput, ReadPacket, Started
  <2>2. links[addr[c]] \in Conn \cup {NoConn} /\ pc[Boot] # "load"
    BY <1>0, <2>1 DEF IInv, ReaderInv, TypeOK, LifeInv, Started
  <2>3. TypeOK'
    BY <1>0, <2>1, <2>2 DEF TypeOK
  <2>4. (LockInv /\ DialInv /\ CurInv /\ QuitInv)'
    BY <1>0, <2>1 DEF IInv, TypeOK, LockInv, DialInv, CurInv, QuitInv, Started
  <2>5. ReaderInv'
    BY <1>0, <2>1 DEF IInv, TypeOK, ReaderInv, Started
  <2>6. LifeInv' /\ NilOnlyAfterTwice'
    BY <1>0, <2>1, <2>2 DEF IInv, TypeOK, LifeInv, NilOnlyAfterTwice
  <2>7. QED
    BY <2>3, <2>4, <2>5, <2>6 DEF IInv
<1>2. CASE NilLink(c)
  <2>1. twice
    BY <1>2 DEF IInv, ReaderInv, NilLink, Started
  <2>2. QED
    BY <1>2, <2>1, StopOK DEF NilLink
<1>3. CASE MapRace(c)
  BY <1>3, StopOK DEF MapRace
<1>4. QED
  BY <1>1, <1>2, <1>3 DEF ReaderStep

-----------------------------------------------------------------------------
(* Store, start and restart                                                *)

\* SetOutput, DelOutput, Set and Del (store.go:50-154), with their failures, touch
\* the store and the task that calls them.
LEMMA StoreOK ==
    ASSUME IInv, Up, NEW t \in Task, StoreStep(t)
    PROVE  IInv'
<1> USE Sentinels DEF linkVars, storeVars, lifeVars
<1>0. TypeOK /\ mode = "up"
  BY DEF IInv, Up
<1>1. /\ UNCHANGED <<links, lock, addr, reader, waits, closed, mode, stops, kept, twice>>
      /\ pc[t] \in {"get", "set", "file", "forget", "list"}
  BY DEF StoreStep, GetList, SetBegin, OpenFails, SetEnd, SetFails, Forget, ForgetFails, Restore
<1> DEFINE Places == {"dial", "list", "done", "unlink", "set", "file", "forget"}
      Stored == /\ mem' \in Data /\ file' \in Data /\ readable' \in BOOLEAN
                /\ clashed' \in BOOLEAN /\ sure' \in BOOLEAN
<1>2. mem \in Data /\ file \in Data /\ mem.out \in SUBSET Addr /\ readable \in BOOLEAN
      /\ clashed \in BOOLEAN /\ sure \in BOOLEAN
  BY <1>0 DEF TypeOK, Data
<1>3. op[t] \in {"add", "delete"} => cur[t] \in Addr
  BY DEF IInv, CurInv
<1>4. Finish(t) => Moved(t, Places)
  <2>1. ASSUME Finish(t) PROVE Moved(t, {"dial", "list", "done"})
    <3>1. Finish(t) \/ AddEach(t, {})
      BY <2>1
    <3>2. QED
      BY <1>0, <3>1, Moves
  <2>2. QED
    BY <2>1 DEF Moved
<1>5. ASSUME NEW where \in Places, where # "dial", where = "unlink" => cur[t] \in Addr,
             Goto(t, where), UNCHANGED <<op, cur, todo, conn, got>>
      PROVE  Moved(t, Places)
  BY <1>0, <1>3, <1>5 DEF Goto, Moved, TypeOK
<1>6. Moved(t, Places) /\ Stored
  <2>1. CASE GetList(t)
    <3>1. Stored
      BY <1>2, <2>1 DEF GetList
    <3>2. CASE op[t] = "add" /\ cur[t] \in mem.out /\ Finish(t)
      BY <1>4, <3>1, <3>2
    <3>3. CASE ~(op[t] = "add" /\ cur[t] \in mem.out)
      BY <1>0, <1>2, <1>3, <2>1, <3>1, <3>3 DEF GetList, Goto, Moved, TypeOK
    <3>4. QED
      BY <2>1, <3>2, <3>3 DEF GetList
  <2>2. CASE SetBegin(t)
    <3>1. Moved(t, Places)
      BY <1>5, <2>2 DEF SetBegin
    <3>2. mem' \in Data
      <4>1. CASE op[t] = "login"
        BY <1>2, <2>2, <4>1 DEF SetBegin, Data
      <4>2. CASE op[t] # "login"
        <5>1. NewList(t) \in SUBSET Addr
          BY <1>0, <1>3 DEF NewList, TypeOK
        <5>2. QED
          BY <1>2, <2>2, <4>2, <5>1 DEF SetBegin, Data
      <4>3. QED
        BY <4>1, <4>2
    <3>3. QED
      BY <1>2, <2>2, <3>1, <3>2 DEF SetBegin
  <2>3. CASE SetEnd(t)
    <3>1. Stored
      BY <1>2, <2>3 DEF SetEnd
    <3>2. CASE op[t] = "add"
      BY <1>4, <2>3, <3>1, <3>2 DEF SetEnd
    <3>3. CASE op[t] = "delete"
      BY <1>3, <1>5, <2>3, <3>1, <3>3 DEF SetEnd
    <3>4. CASE op[t] \notin {"add", "delete"}
      <4>1. /\ Goto(t, "list") \/ Goto(t, "forget")
            /\ UNCHANGED <<op, cur, todo, conn, got>>
        BY <2>3, <3>4 DEF SetEnd, Online
      <4>2. QED
        BY <1>5, <3>1, <4>1
    <3>5. QED
      BY <3>2, <3>3, <3>4
  <2>4. CASE OpenFails(t) \/ SetFails(t)
    <3>1. SetFailed(t)
      BY <2>4 DEF OpenFails, SetFails
    <3>2. Moved(t, Places)
      BY <1>3, <1>4, <1>5, <3>1 DEF SetFailed
    <3>3. Stored
      <4>1. CASE OpenFails(t)
        BY <1>2, <4>1 DEF OpenFails
      <4>2. CASE SetFails(t)
        <5>1. mem' \in Data
          BY <1>2, <4>2 DEF SetFails, Data
        <5>2. QED
          BY <1>0, <4>2, <5>1, CutIsData DEF SetFails
      <4>3. QED
        BY <2>4, <4>1, <4>2
    <3>4. QED
      BY <3>2, <3>3
  <2>5. CASE Forget(t) \/ ForgetFails(t)
    <3>1. NoData \in Data
      BY DEF NoData, Data
    <3>2. Stored
      <4>1. CASE Forget(t)
        BY <1>2, <3>1, <4>1 DEF Forget
      <4>2. CASE ForgetFails(t)
        BY <1>2, <3>1, <4>2 DEF ForgetFails
      <4>3. QED
        BY <2>5, <4>1, <4>2
    <3>3. CASE Finish(t)
      BY <1>4, <3>2, <3>3
    <3>4. CASE Goto(t, "list") /\ UNCHANGED <<op, cur, todo, conn, got>>
      BY <1>5, <3>2, <3>4
    <3>5. QED
      BY <2>5, <3>3, <3>4 DEF Forget, ForgetFails
  <2>6. CASE Restore(t)
    <3>1. Finish(t) \/ AddEach(t, mem.out)
      BY <2>6 DEF Restore
    <3>2. UNCHANGED <<mem, file, readable, clashed, sure>>
      BY <2>6 DEF Restore
    <3>3. Moved(t, {"dial", "list", "done"})
      BY <1>0, <1>2, <3>1, Moves
    <3>4. QED
      BY <1>2, <3>2, <3>3 DEF Moved
  <2>7. QED
    BY <2>1, <2>2, <2>3, <2>4, <2>5, <2>6 DEF StoreStep
<1>7. TypeOK'
  BY <1>0, <1>1, <1>6 DEF Moved, TypeOK
<1>8. (LockInv /\ DialInv /\ CurInv /\ QuitInv /\ ReaderInv)'
  BY <1>1, <1>6 DEF Moved, IInv, LockInv, DialInv, CurInv, QuitInv, ReaderInv, Started
<1>9. LifeInv'
  BY <1>0, <1>1, <1>6, WriterServes DEF Moved, LifeInv
<1>10. QED
  BY <1>1, <1>7, <1>8, <1>9 DEF IInv, NilOnlyAfterTwice

\* What Load makes of a text is some list of addresses (store.go:170-181).
LEMMA DecodedIsData ==
    ASSUME TypeOK
    PROVE  Decoded(file) \subseteq Data
<1>1. file \in Data /\ Fragment \in Addr
  BY OutputsAssumption DEF TypeOK
<1>2. CASE file.out \cap Dashed = {}
  BY <1>1, <1>2 DEF Decoded
<1>3. CASE file.out \cap Dashed # {}
  <2>1. file.out \in SUBSET Addr /\ file.user \in BOOLEAN
    BY <1>1 DEF Data
  <2>2. {before \cup {Fragment} : before \in SUBSET (file.out \ Dashed)} \subseteq SUBSET Addr
    BY <1>1, <2>1
  <2>3. QED
    BY <1>3, <2>1, <2>2 DEF Decoded, Data
<1>4. QED
  BY <1>2, <1>3

\* The file is loaded before anything else runs (store.go:156-186).
LEMMA LoadOK ==
    ASSUME IInv, Up, Load
    PROVE  IInv'
<1> USE Sentinels DEF linkVars, storeVars, lifeVars
<1>0. TypeOK /\ mode = "up"
  BY DEF IInv, Up
<1>1. CASE readable /\ Fits(file)
  <2>1. /\ pc[Boot] = "load" /\ mem' \in Decoded(file)
        /\ sure' = (sure /\ file.out \cap Dashed = {})
        /\ Moved(Boot, {"dial", "list", "done"})
        /\ UNCHANGED <<links, lock, addr, reader, waits, closed, file, readable, mode, stops,
                       kept, twice, clashed>>
    BY <1>0, <1>1, Moves DEF Load
  <2>2. \A r \in Req : pc[r] \in {"idle", "done"}
    BY <2>1 DEF IInv, LifeInv
  <2>3. mem' \in Data
    BY <1>0, <2>1, DecodedIsData
  <2>4. TypeOK'
    BY <1>0, <2>1, <2>3 DEF Moved, TypeOK
  <2>5. (LockInv /\ DialInv /\ CurInv /\ QuitInv /\ ReaderInv)'
    BY <1>0, <2>1 DEF Moved, IInv, LockInv, DialInv, CurInv, QuitInv, ReaderInv, Started
  <2>6. LifeInv' /\ NilOnlyAfterTwice'
    BY <1>0, <2>1, <2>2 DEF Moved, IInv, LifeInv, NilOnlyAfterTwice
  <2>7. QED
    BY <2>4, <2>5, <2>6 DEF IInv
<1>2. CASE ~(readable /\ Fits(file))
  <2>1. /\ mode' = "unreadable" /\ pc[Boot] = "load"
        /\ UNCHANGED <<links, lock, addr, reader, waits, closed, pc, op, cur, todo, conn, got,
                       mem, file, readable, stops, kept, sure, twice, clashed>>
    BY <1>2 DEF Load, taskVars
  <2>2. TypeOK' /\ (LockInv /\ DialInv /\ CurInv /\ QuitInv /\ ReaderInv)'
    BY <1>0, <2>1 DEF IInv, TypeOK, LockInv, DialInv, CurInv, QuitInv, ReaderInv, Started
  <2>3. LifeInv' /\ NilOnlyAfterTwice'
    BY <2>1 DEF IInv, LifeInv, NilOnlyAfterTwice
  <2>4. QED
    BY <2>2, <2>3 DEF IInv
<1>3. QED
  BY <1>1, <1>2

\* A new life begins with what the stop left.
LEMMA RestartOK ==
    ASSUME IInv, Restart \/ UNCHANGED vars
    PROVE  IInv'
<1> USE Sentinels DEF vars, linkVars, taskVars, storeVars, lifeVars
<1>1. CASE UNCHANGED vars
  BY <1>1 DEF IInv, TypeOK, LockInv, DialInv, CurInv, QuitInv, ReaderInv, Started, LifeInv,
              NilOnlyAfterTwice
<1>2. CASE Restart
  <2>0. TypeOK
    BY DEF IInv
  <2>1. TypeOK'
    <3>1. stops \in 0..MaxStop /\ stops < MaxStop /\ stops' = stops + 1
      BY <1>2, <2>0 DEF Restart, TypeOK
    <3>2. stops' \in 0..MaxStop
      BY <3>1
    <3>3. QED
      BY <1>2, <2>0, <3>2 DEF Restart, TypeOK
  <2>2. (LockInv /\ DialInv /\ CurInv)' /\ NilOnlyAfterTwice'
    BY <1>2 DEF Restart, IInv, LockInv, DialInv, CurInv, NilOnlyAfterTwice
  <2>3. QuitInv' /\ ReaderInv' /\ LifeInv'
    BY <1>2, OutputsAssumption DEF Restart, IInv, LifeInv, QuitInv, ReaderInv, Started, Task, Req, Boot
  <2>4. QED
    BY <2>1, <2>2, <2>3 DEF IInv
<1>3. QED
  BY <1>1, <1>2

\* Every step keeps the invariant.
LEMMA StepOK ==
    ASSUME IInv, [Next]_vars
    PROVE  IInv'
<1>1. CASE Up /\ \E r \in Req : Begin(r)
  BY <1>1, BeginOK
<1>2. ASSUME Up, NEW t \in Task, TaskStep(t) PROVE IInv'
  <2>1. CASE DialFails(t) \/ Dial(t) \/ LockToAdd(t) \/ Insert(t)
    BY <1>2, <2>1, AddOK
  <2>2. CASE LockToRemove(t) \/ Delete(t) \/ \E c \in Conn : TakeQuit(t, c)
    BY <1>2, <2>2, RemoveOK
  <2>3. CASE StoreStep(t)
    BY <1>2, <2>3, StoreOK
  <2>4. CASE Load
    BY <1>2, <2>4, LoadOK
  <2>5. QED
    BY <1>2, <2>1, <2>2, <2>3, <2>4 DEF TaskStep, StoreStep
<1>3. CASE Up /\ \E c \in Conn : ReaderStep(c) \/ ReadPacket(c) \/ MapRace(c)
  BY <1>3, ReaderOK
<1>4. CASE Crash
  BY <1>4, StopOK DEF Crash
<1>5. CASE Restart \/ UNCHANGED vars
  BY <1>5, RestartOK
<1>6. QED
  BY <1>1, <1>2, <1>3, <1>4, <1>5 DEF Next

-----------------------------------------------------------------------------
\* The inductive invariant of OutputManager and Store.
THEOREM InductiveInvariant == Spec => []IInv
BY InitOK, StepOK, PTL DEF Spec

\* Links, readers, tasks and the store keep their types.
THEOREM TypeCorrect == Spec => []TypeOK
<1>1. IInv => TypeOK
  BY DEF IInv
<1>2. QED
  BY <1>1, InductiveInvariant, PTL

\* The unlocked look-up of a reader (output.go:99) finds no link only after an
\* address was added while it was linked.
THEOREM NilAfterTwice == Spec => []NilOnlyAfterTwice
<1>1. IInv => NilOnlyAfterTwice
  BY DEF IInv
<1>2. QED
  BY <1>1, InductiveInvariant, PTL

\* Remove (output.go:108) can reach every reader, unless an address was added
\* while it was linked.
THEOREM ReadersAreLinked == Spec => []OpenIsLinked
<1>1. IInv => OpenIsLinked
  BY DEF IInv, ReaderInv, OpenIsLinked, Started
<1>2. QED
  BY <1>1, InductiveInvariant, PTL

-----------------------------------------------------------------------------
(* The list and the links.                                                 *)

\* The other tasks stay as they are.
Frame(t) ==
    \A u \in Task \ {t} : /\ pc'[u] = pc[u] /\ op'[u] = op[u]
                          /\ cur'[u] = cur[u] /\ todo'[u] = todo[u]

\* The task stays with its request, or has ended it.
Stays(t) == op'[t] = op[t] /\ cur'[t] = cur[t] /\ todo'[t] = todo[t]
Ended(t) == pc'[t] = "done" /\ op'[t] = "none"

\* Goto (any handler going on): the task and nobody else is elsewhere.
LEMMA GoesOn ==
    ASSUME TypeOK, NEW t \in Task, NEW where, Goto(t, where), UNCHANGED <<op, cur, todo>>
    PROVE  Frame(t) /\ Stays(t) /\ pc'[t] = where
BY DEF TypeOK, Goto, Frame, Stays

\* A handler that returns touches its task only.
LEMMA Ends ==
    ASSUME TypeOK, NEW t \in Task, Finish(t), ~(t = Boot /\ op[t] = "cmdline")
    PROVE  Frame(t) /\ Ended(t)
BY DEF TypeOK, Finish, Goto, Frame, Ended

\* Adding a list (outputs of the command line, of the store): the first address, or
\* the end of the list.
LEMMA EachStep ==
    ASSUME TypeOK, NEW t \in Task, NEW list \in SUBSET Addr, AddEach(t, list)
    PROVE  /\ Frame(t)
           /\ \/ /\ list # {} /\ pc'[t] = "dial" /\ op'[t] = op[t]
                 /\ cur'[t] \in list /\ todo'[t] = list \ {cur'[t]}
              \/ list = {} /\ t = Boot /\ op[t] = "cmdline" /\ pc'[t] = "list" /\ op'[t] = "stored"
              \/ list = {} /\ ~(t = Boot /\ op[t] = "cmdline") /\ Ended(t)
<1>1. CASE list # {}
  <2>1. PICK a \in list :
          /\ cur' = [cur EXCEPT ![t] = a]
          /\ todo' = [todo EXCEPT ![t] = list \ {a}]
          /\ pc' = [pc EXCEPT ![t] = "dial"]
          /\ UNCHANGED op
    BY <1>1 DEF AddEach, Goto
  <2>2. QED
    BY <1>1, <2>1 DEF TypeOK, Frame
<1>2. CASE list = {} /\ t = Boot /\ op[t] = "cmdline"
  BY <1>2 DEF TypeOK, AddEach, Finish, Goto, Frame
<1>3. CASE list = {} /\ ~(t = Boot /\ op[t] = "cmdline")
  BY <1>3, Ends DEF AddEach
<1>4. QED
  BY <1>1, <1>2, <1>3

\* While a request runs, the start is over.
LEMMA StartIsOver ==
    ASSUME OpInv, AloneInv, NEW t \in Task, t # Boot, Busy(t)
    PROVE  ~Busy(Boot) /\ op[Boot] = "none"
<1>1. Boot \in Task /\ (Busy(Boot) => op[Boot] \in {"add", "delete"})
  BY Sentinels DEF AloneInv
<1>2. OpAt(Boot)
  BY <1>1 DEF OpInv
<1>3. QED
  BY <1>1, <1>2 DEF OpAt

\* Before Load no request runs and nothing is linked.
LEMMA LoadIsClean ==
    ASSUME IInv, OpInv, pc[Boot] = "load"
    PROVE  Clean
<1> USE Sentinels
<1>1. Busy(Boot) /\ (\A t \in Task : t # Boot => ~Busy(t)) /\ \A a \in Addr : links[a] = NoConn
  BY OutputsAssumption DEF IInv, LifeInv, Busy, OpInv, Task, Req, Boot
<1>2. op[Boot] \notin {"none", "stored"} /\ \A t \in Task : t # Boot => op[t] = "none"
  BY <1>1 DEF OpInv, OpAt
<1>3. op[Boot] \notin {"add", "delete", "login", "logout"}
  BY DEF OpInv, OpAt
<1>4. AloneInv /\ SettledInv
  BY <1>1 DEF AloneInv, SettledInv
<1>5. DebtInv
  BY <1>2, <1>3 DEF DebtInv, OwesList, OwesLink
<1>6. BootInv
  BY <1>1, <1>2 DEF BootInv, Adding, Plain
<1>7. QED
  BY <1>4, <1>5, <1>6 DEF Clean

-----------------------------------------------------------------------------
\* Operations stay where they belong: it is enough to look at the task that moves.
LEMMA OpKept ==
    ASSUME IInv, OpInv, NEW t \in Task, Frame(t), pc'[t] # "load", OpAt(t)',
           t = Boot \/ Busy(t)
    PROVE  OpInv'
<1>1. ASSUME NEW u \in Task PROVE OpAt(u)'
  <2>1. CASE u = t
    BY <2>1
  <2>2. CASE u # t
    BY <2>2 DEF OpInv, OpAt, Frame, Busy
  <2>3. QED
    BY <2>1, <2>2
<1>2. pc'[Boot] # "load"
  <2>1. CASE t = Boot
    BY <2>1
  <2>2. CASE t # Boot /\ Busy(t)
    <3>1. pc[Boot] # "load"
      BY <2>2, WriterServes, OutputsAssumption DEF Busy, IInv, LifeInv, Task, Req, Boot
    <3>2. QED
      BY <2>2, <3>1, Sentinels DEF Frame
  <2>3. QED
    BY <2>1, <2>2
<1>3. QED
  BY <1>1, <1>2 DEF OpInv

\* So does whoever is alone.
LEMMA AloneKept ==
    ASSUME AloneInv, NEW t \in Task, Frame(t), Busy(t),
           op[t] \in {"add", "delete"} => (Stays(t) \/ Ended(t))
    PROVE  AloneInv'
<1> SUFFICES ASSUME NEW u \in Task, NEW v \in Task, u # v, Busy(u)', Busy(v)'
             PROVE  /\ op'[u] \in {"add", "delete"} /\ op'[v] \in {"add", "delete"}
                    /\ cur'[u] # cur'[v]
  BY DEF AloneInv
<1>1. Busy(u) /\ Busy(v)
  BY DEF Frame, Busy
<1>2. op[u] \in {"add", "delete"} /\ op[v] \in {"add", "delete"} /\ cur[u] # cur[v]
  BY <1>1 DEF AloneInv
<1>3. \A w \in {u, v} : op'[w] = op[w] /\ cur'[w] = cur[w]
  BY <1>2 DEF Frame, Stays, Ended, Busy
<1>4. QED
  BY <1>2, <1>3

\* Steps between which list and links do not change, and nobody's debt.
LEMMA QuietKept ==
    ASSUME TypeOK, OpInv, Clean, NEW t \in Task, Frame(t), Stays(t), Busy(t), Busy(t)',
           links' = links, mem'.out = mem.out,
           Adding(t)' <=> Adding(t), t = Boot => Adding(t),
           OwesList(t)' <=> OwesList(t), OwesLink(t)' <=> OwesLink(t)
    PROVE  Clean'
<1> USE Sentinels
<1>1. AloneInv'
  BY AloneKept DEF Clean
<1>2. /\ \A u \in Task : op'[u] = op[u] /\ cur'[u] = cur[u] /\ todo'[u] = todo[u]
      /\ \A u \in Task : (Adding(u)' <=> Adding(u)) /\ (Busy(u)' <=> Busy(u))
                         /\ (OwesList(u)' <=> OwesList(u)) /\ (OwesLink(u)' <=> OwesLink(u))
  BY DEF Frame, Stays, Adding, Busy, OwesList, OwesLink
<1>3. DebtInv'
  BY <1>2 DEF Clean, DebtInv
<1>4. SettledInv'
  BY <1>2 DEF Clean, SettledInv
<1>5. BootInv'
  <2>1. pc'[Boot] = "list" => pc[Boot] = "list"
    BY <1>2 DEF Frame, Adding
  <2>2. QED
    BY <1>2, <2>1 DEF Clean, BootInv
<1>6. QED
  BY <1>1, <1>3, <1>4, <1>5 DEF Clean

\* A request leaves the start alone, which is over.
LEMMA RequestKept ==
    ASSUME OpInv, Clean, NEW t \in Task, t # Boot, Frame(t), Busy(t),
           op[t] \in {"add", "delete"} => (Stays(t) \/ Ended(t))
    PROVE  AloneInv' /\ BootInv' /\ ~Busy(Boot)
<1>1. AloneInv'
  BY AloneKept DEF Clean
<1>2. ~Busy(Boot) /\ op[Boot] = "none"
  BY StartIsOver DEF Clean
<1>3. pc'[Boot] = pc[Boot] /\ op'[Boot] = "none"
  BY <1>2, Sentinels DEF Frame
<1>4. BootInv'
  BY <1>2, <1>3 DEF BootInv, Busy
<1>5. QED
  BY <1>1, <1>2, <1>4

\* Add (output.go:74-106), of a request: the link is there before the list has it.
LEMMA AddAgrees ==
    ASSUME IInv, AgreeInv, NEW t \in Task, Dial(t) \/ DialFails(t) \/ LockToAdd(t)
    PROVE  AgreeInv'
<1> USE DEF linkVars, taskVars, storeVars, lifeVars
<1>0. TypeOK /\ OpInv /\ OpAt(t)
  BY DEF IInv, AgreeInv, OpInv
<1>1. pc[t] \in {"dial", "lock"} /\ Busy(t) /\ Adding(t)
  BY DEF Dial, DialFails, LockToAdd, Busy, Adding
<1>2. links' = links /\ mem' = mem /\ UNCHANGED <<op, cur, todo>>
  BY DEF Dial, DialFails, LockToAdd
<1>3. CASE Dial(t) \/ LockToAdd(t)
  <2>1. PICK where \in {"lock", "insert"} : Goto(t, where)
    BY <1>3 DEF Dial, LockToAdd
  <2>2. Frame(t) /\ Stays(t) /\ pc'[t] = where
    BY <1>0, <1>2, <2>1, GoesOn
  <2>3. OpAt(t)'
    BY <1>0, <1>1, <2>2 DEF OpAt, Stays, Busy
  <2>4. OpInv'
    BY <1>0, <1>1, <2>2, <2>3, OpKept
  <2>5. clashed' = clashed
    BY <1>3 DEF Dial, LockToAdd
  <2>6. Clean => Clean'
    BY <1>0, <1>1, <1>2, <2>2, QuietKept DEF Stays, Busy, Adding, OwesList, OwesLink
  <2>7. QED
    BY <2>4, <2>5, <2>6 DEF AgreeInv
<1>4. CASE DialFails(t)
  <2>1. Frame(t) /\ Stays(t) /\ pc'[t] = "get" /\ op[t] = "add"
    BY <1>0, <1>2, <1>4, GoesOn DEF DialFails
  <2>2. OpAt(t)' /\ t # Boot
    BY <1>0, <1>1, <2>1 DEF OpAt, Stays, Busy
  <2>3. OpInv'
    BY <1>0, <1>1, <2>1, <2>2, OpKept
  <2>4. ~clashed' => Clean /\ cur[t] \in BadAddr
    BY <1>4 DEF DialFails, AgreeInv
  <2>5. ASSUME Clean, cur[t] \in BadAddr PROVE Clean'
    <3>1. AloneInv' /\ BootInv' /\ ~Busy(Boot)
      BY <1>0, <1>1, <2>1, <2>2, <2>5, RequestKept
    <3>2. DebtInv'
      BY <1>2, <2>1, <2>5 DEF Clean, DebtInv, Frame, Stays, OwesList, OwesLink, Adding, Plain
    <3>3. SettledInv'
      BY <1>2, <2>1, <2>5, <3>1 DEF Clean, SettledInv, Frame, Stays, OwesList, OwesLink, Plain
    <3>4. QED
      BY <3>1, <3>2, <3>3 DEF Clean
  <2>6. QED
    BY <2>3, <2>4, <2>5 DEF AgreeInv
<1>5. QED
  BY <1>3, <1>4

\* Add's last part (output.go:97-106): the address that is linked is a request's
\* own, the store's, or the command line's.
LEMMA InsertAgrees ==
    ASSUME IInv, AgreeInv, NEW t \in Task, Insert(t)
    PROVE  AgreeInv'
<1> USE DEF linkVars, taskVars, storeVars, lifeVars
<1>0. TypeOK /\ OpInv /\ OpAt(t)
  BY DEF IInv, AgreeInv, OpInv
<1>1. pc[t] = "insert" /\ Busy(t) /\ Adding(t) /\ mem' = mem /\ clashed' = clashed
  BY DEF Insert, Busy, Adding
<1>2. cur[t] \in Addr /\ conn[t] \in Conn
  BY <1>1 DEF IInv, CurInv, DialInv
<1>3. /\ \A a \in Addr : a # cur[t] => links'[a] = links[a]
      /\ links'[cur[t]] # NoConn
  BY <1>0, <1>2, Sentinels DEF TypeOK, Insert
<1>4. CASE op[t] = "add"
  <2>1. Frame(t) /\ Stays(t) /\ pc'[t] = "get"
    BY <1>0, <1>4, GoesOn DEF Insert
  <2>2. OpAt(t)' /\ t # Boot
    BY <1>0, <1>1, <1>4, <2>1 DEF OpAt, Stays, Busy
  <2>3. OpInv'
    BY <1>0, <1>1, <2>1, <2>2, OpKept
  <2>4. ASSUME Clean PROVE Clean'
    <3>1. AloneInv' /\ BootInv' /\ ~Busy(Boot)
      BY <1>0, <1>1, <2>1, <2>2, <2>4, RequestKept
    <3>2. DebtInv'
      <4>1. ASSUME NEW u \in Task, OwesList(u)', cur'[u] \in Plain PROVE links'[cur'[u]] # NoConn
        <5>1. CASE cur'[u] = cur[t]
          BY <1>3, <5>1
        <5>2. CASE cur'[u] # cur[t]
          <6>1. u # t /\ OwesList(u) /\ cur'[u] = cur[u]
            BY <2>1, <4>1, <5>2 DEF Frame, Stays, OwesList
          <6>2. QED
            BY <1>3, <2>4, <4>1, <5>2, <6>1 DEF Clean, DebtInv, Plain
        <5>3. QED
          BY <5>1, <5>2
      <4>2. ASSUME NEW u \in Task
            PROVE  /\ OwesLink(u)' => cur'[u] \notin mem'.out
                   /\ op'[u] \in {"login", "logout"} /\ Adding(u)'
                        => {cur'[u]} \cup todo'[u] \subseteq mem'.out
        BY <1>1, <1>4, <2>1, <2>4 DEF Clean, DebtInv, Frame, Stays, OwesLink, Adding
      <4>3. QED
        BY <4>1, <4>2 DEF DebtInv
    <3>3. SettledInv'
      <4>1. OwesList(t)' /\ cur'[t] = cur[t]
        BY <1>4, <2>1 DEF OwesList, Stays
      <4>2. ASSUME NEW a \in Plain, a # cur[t]
            PROVE  \/ a \in mem'.out <=> links'[a] # NoConn
                   \/ \E u \in Task : cur'[u] = a /\ (OwesList(u)' \/ OwesLink(u)')
        <5>1. links'[a] = links[a]
          BY <1>3, <4>2 DEF Plain
        <5>2. CASE \E u \in Task : cur[u] = a /\ (OwesList(u) \/ OwesLink(u))
          BY <2>1, <4>2, <5>2 DEF Frame, OwesList, OwesLink
        <5>3. CASE a \in mem.out <=> links[a] # NoConn
          BY <1>1, <5>1, <5>3
        <5>4. QED
          BY <2>4, <3>1, <5>2, <5>3 DEF Clean, SettledInv
      <4>3. QED
        BY <4>1, <4>2 DEF SettledInv
    <3>4. QED
      BY <3>1, <3>2, <3>3 DEF Clean
  <2>5. QED
    BY <1>1, <2>3, <2>4 DEF AgreeInv
<1>5. CASE op[t] # "add"
  <2>0. todo[t] \in SUBSET Addr /\ AddEach(t, todo[t])
    BY <1>0, <1>5 DEF Insert, TypeOK
  <2>1. /\ Frame(t)
        /\ \/ /\ todo[t] # {} /\ pc'[t] = "dial" /\ op'[t] = op[t]
              /\ cur'[t] \in todo[t] /\ todo'[t] = todo[t] \ {cur'[t]}
           \/ /\ todo[t] = {} /\ t = Boot /\ op[t] = "cmdline"
              /\ pc'[t] = "list" /\ op'[t] = "stored"
           \/ todo[t] = {} /\ ~(t = Boot /\ op[t] = "cmdline") /\ Ended(t)
    BY <1>0, <2>0, EachStep
  <2>2. op[t] \in {"login", "logout", "cmdline", "stored"}
    BY <1>0, <1>1, <1>5 DEF OpAt, TypeOK
  <2>3. OpAt(t)' /\ pc'[t] # "load"
    BY <1>0, <1>1, <2>1, <2>2 DEF OpAt, Ended, Busy
  <2>4. OpInv'
    BY <1>0, <1>1, <2>1, <2>3, OpKept
  <2>5. ASSUME Clean, t # Boot PROVE Clean'
    <3>1. AloneInv' /\ BootInv' /\ ~Busy(Boot)
      BY <1>0, <1>1, <2>1, <2>2, <2>5, RequestKept
    <3>2. {cur[t]} \cup todo[t] \subseteq mem.out
      BY <1>0, <1>1, <2>2, <2>5 DEF Clean, DebtInv, OpAt
    <3>3. \A u \in Task : u # t => ~Busy(u)
      BY <1>1, <2>2, <2>5 DEF Clean, AloneInv
    <3>4. \A u \in Task : u # t => op'[u] = "none"
      BY <1>0, <2>1, <3>3 DEF OpInv, OpAt, Frame
    <3>5. \A u \in Task : ~OwesList(u)' /\ ~OwesLink(u)'
      BY <2>1, <2>2, <3>4 DEF OwesList, OwesLink, Ended
    <3>6. \A u \in Task : ~OwesList(u) /\ ~OwesLink(u)
      BY <1>0, <2>2, <3>3 DEF OwesList, OwesLink, OpInv, OpAt
    <3>7. DebtInv'
      BY <1>1, <2>1, <3>2, <3>4, <3>5 DEF DebtInv, Ended
    <3>8. SettledInv'
      BY <1>1, <1>3, <2>5, <3>1, <3>2, <3>6 DEF Clean, SettledInv, Plain
    <3>9. QED
      BY <3>1, <3>7, <3>8 DEF Clean
  <2>6. ASSUME Clean, t = Boot PROVE Clean'
    <3>1. AloneInv'
      BY <1>1, <2>1, <2>2, <2>6, AloneKept DEF Clean
    <3>2. \A u \in Task : u # Boot => ~Busy(u)
      BY <1>1, <2>2, <2>6 DEF Clean, AloneInv
    <3>3. \A u \in Task : u # Boot => op'[u] = "none"
      BY <1>0, <2>1, <2>6, <3>2 DEF OpInv, OpAt, Frame
    <3>4. op[t] \in {"cmdline", "stored"} /\ op'[t] \in {"cmdline", "stored", "none"}
      BY <1>0, <2>1, <2>2, <2>6 DEF OpAt, Ended
    <3>5. DebtInv'
      BY <2>6, <3>3, <3>4 DEF DebtInv, OwesList, OwesLink
    <3>6. CASE op[t] = "cmdline"
      <4>1. cur[t] \in CmdLine /\ todo[t] \subseteq CmdLine /\ \A a \in Plain : links[a] = NoConn
        BY <1>1, <2>6, <3>6 DEF Clean, BootInv
      <4>2. \A a \in Plain : links'[a] = NoConn
        BY <1>3, <4>1 DEF Plain
      <4>3. Busy(Boot)'
        BY <2>1, <2>6, <3>6 DEF Busy
      <4>4. BootInv'
        BY <2>1, <2>6, <3>6, <4>1, <4>2 DEF BootInv, Adding
      <4>5. QED
        BY <3>1, <3>5, <4>3, <4>4 DEF Clean, SettledInv
    <3>7. CASE op[t] = "stored"
      <4>1. \A a \in Plain : a \in mem'.out <=> (links'[a] # NoConn \/ a \in todo[t])
        BY <1>1, <1>3, <2>6, <3>7 DEF Clean, BootInv, Plain
      <4>2. CASE todo[t] # {}
        <5>1. BootInv'
          BY <2>1, <2>6, <3>7, <4>1, <4>2 DEF BootInv, Adding, Ended
        <5>2. Busy(Boot)'
          BY <2>1, <2>6, <4>2 DEF Busy, Ended
        <5>3. QED
          BY <3>1, <3>5, <5>1, <5>2 DEF Clean, SettledInv
      <4>3. CASE todo[t] = {}
        <5>1. BootInv'
          BY <2>1, <2>6, <3>7, <4>3 DEF BootInv, Ended
        <5>2. SettledInv'
          BY <4>1, <4>3 DEF SettledInv
        <5>3. QED
          BY <3>1, <3>5, <5>1, <5>2 DEF Clean
      <4>4. QED
        BY <4>2, <4>3
    <3>8. QED
      BY <3>4, <3>6, <3>7
  <2>7. QED
    BY <1>1, <2>4, <2>5, <2>6 DEF AgreeInv
<1>6. QED
  BY <1>4, <1>5

\* A request that ends has brought its own address's link and listing together.
LEMMA EndKept ==
    ASSUME OpInv, Clean, NEW t \in Task, op[t] \in {"add", "delete"}, Busy(t),
           Frame(t), Ended(t), mem'.out = mem.out,
           \A a \in Addr : a # cur[t] => links'[a] = links[a],
           cur[t] \in Plain => (cur[t] \in mem.out <=> links'[cur[t]] # NoConn)
    PROVE  Clean'
<1>0. t # Boot
  BY DEF OpInv, OpAt
<1>1. AloneInv' /\ BootInv' /\ ~Busy(Boot)
  BY <1>0, RequestKept
<1>2. DebtInv'
  <2>1. ASSUME NEW u \in Task, OwesList(u)', cur'[u] \in Plain PROVE links'[cur'[u]] # NoConn
    <3>1. u # t /\ OwesList(u) /\ cur'[u] = cur[u]
      BY <2>1 DEF Frame, Ended, OwesList
    <3>2. cur[u] # cur[t]
      BY <3>1 DEF Clean, AloneInv, OwesList, Busy
    <3>3. QED
      BY <2>1, <3>1, <3>2 DEF Clean, DebtInv, Plain
  <2>2. ASSUME NEW u \in Task
        PROVE  /\ OwesLink(u)' => cur'[u] \notin mem'.out
               /\ op'[u] \in {"login", "logout"} /\ Adding(u)'
                    => {cur'[u]} \cup todo'[u] \subseteq mem'.out
    BY DEF Clean, DebtInv, Frame, Ended, OwesLink, Adding
  <2>3. QED
    BY <2>1, <2>2 DEF DebtInv
<1>3. SettledInv'
  <2>1. SUFFICES ASSUME NEW a \in Plain, a # cur[t]
                 PROVE  \/ a \in mem'.out <=> links'[a] # NoConn
                        \/ \E u \in Task : cur'[u] = a /\ (OwesList(u)' \/ OwesLink(u)')
    BY DEF SettledInv
  <2>2. CASE \E u \in Task : cur[u] = a /\ (OwesList(u) \/ OwesLink(u))
    BY <2>1, <2>2 DEF Frame, OwesList, OwesLink
  <2>3. CASE a \in mem.out <=> links[a] # NoConn
    BY <2>1, <2>3 DEF Plain
  <2>4. QED
    BY <1>1, <2>2, <2>3 DEF Clean, SettledInv
<1>4. QED
  BY <1>1, <1>2, <1>3 DEF Clean

\* Remove (output.go:108-119): the list has lost the address before the link goes.
LEMMA RemoveAgrees ==
    ASSUME IInv, AgreeInv, NEW t \in Task,
           LockToRemove(t) \/ Delete(t) \/ \E c \in Conn : TakeQuit(t, c)
    PROVE  AgreeInv'
<1> USE DEF linkVars, taskVars, storeVars, lifeVars
<1>0. TypeOK /\ OpInv /\ OpAt(t)
  BY DEF IInv, AgreeInv, OpInv
<1>1. /\ pc[t] \in {"unlink", "quit", "delete"} /\ Busy(t)
      /\ mem' = mem /\ clashed' = clashed
  BY DEF LockToRemove, Delete, TakeQuit, Busy
<1>2. op[t] = "delete" /\ t # Boot /\ OwesLink(t) /\ ~Adding(t) /\ ~OwesList(t)
  BY <1>0, <1>1 DEF OpAt, TypeOK, OwesLink, OwesList, Adding
<1>3. CASE Finish(t)
  <2>1. Frame(t) /\ Ended(t)
    BY <1>0, <1>2, <1>3, Ends
  <2>2. OpAt(t)' /\ pc'[t] # "load"
    BY <2>1 DEF Ended, OpAt, Busy
  <2>3. OpInv'
    BY <1>0, <1>1, <2>1, <2>2, OpKept
  <2>4. /\ \A a \in Addr : a # cur[t] => links'[a] = links[a]
        /\ cur[t] \in Addr => links'[cur[t]] = NoConn
    <3>1. CASE Delete(t)
      BY <1>0, <3>1 DEF Delete, TypeOK
    <3>2. CASE LockToRemove(t) /\ links[cur[t]] = NoConn
      BY <3>2 DEF LockToRemove
    <3>3. CASE (LockToRemove(t) /\ links[cur[t]] # NoConn) \/ \E c \in Conn : TakeQuit(t, c)
      <4>1. pc'[t] \in {"quit", "delete"}
        BY <1>0, <3>3 DEF LockToRemove, TakeQuit, Goto, TypeOK
      <4>2. QED
        BY <2>1, <4>1 DEF Ended
    <3>4. QED
      BY <3>1, <3>2, <3>3
  <2>5. Clean => Clean'
    <3>1. Clean => cur[t] \notin mem.out
      BY <1>2 DEF Clean, DebtInv
    <3>2. QED
      BY <1>0, <1>1, <1>2, <2>1, <2>4, <3>1, EndKept DEF Plain
  <2>6. QED
    BY <1>1, <2>3, <2>5 DEF AgreeInv
<1>4. CASE (LockToRemove(t) /\ links[cur[t]] # NoConn) \/ \E c \in Conn : TakeQuit(t, c)
  <2>1. PICK where \in {"quit", "delete"} : Goto(t, where)
    BY <1>4 DEF LockToRemove, TakeQuit
  <2>2. UNCHANGED <<op, cur, todo, links>>
    BY <1>4 DEF LockToRemove, TakeQuit
  <2>3. Frame(t) /\ Stays(t) /\ pc'[t] = where
    BY <1>0, <2>1, <2>2, GoesOn
  <2>4. OpAt(t)' /\ Busy(t)' /\ OwesLink(t)' /\ ~Adding(t)' /\ ~OwesList(t)'
    BY <1>0, <1>2, <2>3 DEF OpAt, Stays, Busy, OwesLink, OwesList, Adding
  <2>5. OpInv'
    BY <1>0, <1>1, <2>3, <2>4, OpKept
  <2>6. Clean => Clean'
    BY <1>0, <1>1, <1>2, <2>2, <2>3, <2>4, QuietKept
  <2>7. QED
    BY <1>1, <2>5, <2>6 DEF AgreeInv
<1>5. QED
  BY <1>3, <1>4 DEF LockToRemove, Delete

\* SetOutput and DelOutput (store.go:105-154): they read the list, go back with it
\* changed, and the address is theirs while they do.
LEMMA GetAgrees ==
    ASSUME IInv, AgreeInv, NEW t \in Task, GetList(t)
    PROVE  AgreeInv'
<1> USE DEF linkVars, taskVars, storeVars, lifeVars
<1>0. TypeOK /\ OpInv /\ OpAt(t)
  BY DEF IInv, AgreeInv, OpInv
<1>1. pc[t] = "get" /\ Busy(t) /\ links' = links /\ mem' = mem /\ clashed' = clashed
  BY DEF GetList, Busy
<1>2. op[t] \in {"add", "delete"} /\ t # Boot
  BY <1>0, <1>1 DEF OpAt, TypeOK
<1>3. CASE op[t] = "add" /\ cur[t] \in mem.out /\ Finish(t)
  <2>1. Frame(t) /\ Ended(t)
    BY <1>0, <1>2, <1>3, Ends
  <2>2. OpAt(t)' /\ pc'[t] # "load"
    BY <2>1 DEF Ended, OpAt, Busy
  <2>3. OpInv'
    BY <1>0, <1>1, <2>1, <2>2, OpKept
  <2>4. Clean => Clean'
    <3>1. Clean /\ cur[t] \in Plain => links[cur[t]] # NoConn
      BY <1>1, <1>3 DEF Clean, DebtInv, OwesList
    <3>2. QED
      BY <1>0, <1>1, <1>2, <1>3, <2>1, <3>1, EndKept
  <2>5. QED
    BY <1>1, <2>3, <2>4 DEF AgreeInv
<1>4. CASE op[t] = "delete" /\ mem.out = {} /\ Goto(t, "unlink") /\ UNCHANGED <<op, cur, todo>>
  <2>1. Frame(t) /\ Stays(t) /\ pc'[t] = "unlink"
    BY <1>0, <1>4, GoesOn
  <2>2. OpAt(t)'
    BY <1>0, <1>4, <2>1 DEF OpAt, Stays, Busy
  <2>3. OpInv'
    BY <1>0, <1>1, <2>1, <2>2, OpKept
  <2>4. ASSUME Clean PROVE Clean'
    <3>1. AloneInv' /\ BootInv' /\ ~Busy(Boot)
      BY <1>0, <1>1, <1>2, <2>1, <2>4, RequestKept
    <3>2. DebtInv'
      BY <1>1, <1>4, <2>1, <2>4 DEF Clean, DebtInv, Frame, Stays, OwesList, OwesLink, Adding
    <3>3. SettledInv'
      BY <1>1, <1>4, <2>1, <2>4, <3>1 DEF Clean, SettledInv, Frame, Stays, OwesList, OwesLink
    <3>4. QED
      BY <3>1, <3>2, <3>3 DEF Clean
  <2>5. QED
    BY <1>1, <2>3, <2>4 DEF AgreeInv
<1>5. CASE Goto(t, "set") /\ UNCHANGED <<op, cur, todo>>
  <2>1. Frame(t) /\ Stays(t) /\ pc'[t] = "set"
    BY <1>0, <1>5, GoesOn
  <2>2. OpAt(t)' /\ Busy(t)'
    BY <1>0, <1>1, <1>2, <2>1 DEF OpAt, Stays, Busy
  <2>3. OpInv'
    BY <1>0, <1>1, <2>1, <2>2, OpKept
  <2>4. Clean => Clean'
    BY <1>0, <1>1, <1>2, <2>1, <2>2, QuietKept DEF Stays, OwesList, OwesLink, Adding
  <2>5. QED
    BY <1>1, <2>3, <2>4 DEF AgreeInv
<1>6. QED
  BY <1>3, <1>4, <1>5 DEF GetList

\* Set (store.go:105-127): what is set is the list that was read, and the address.
LEMMA SetAgrees ==
    ASSUME IInv, AgreeInv, NEW t \in Task, SetBegin(t)
    PROVE  AgreeInv'
<1> USE DEF linkVars, taskVars, storeVars, lifeVars
<1>0. TypeOK /\ OpInv /\ OpAt(t)
  BY DEF IInv, AgreeInv, OpInv
<1>1. pc[t] = "set" /\ Busy(t) /\ links' = links /\ UNCHANGED <<op, cur, todo>>
  BY DEF SetBegin, Busy
<1>2. Frame(t) /\ Stays(t) /\ pc'[t] = "file"
  BY <1>0, <1>1, GoesOn DEF SetBegin
<1>3. op[t] \in {"add", "delete", "login"} /\ t # Boot
  BY <1>0, <1>1 DEF OpAt, TypeOK
<1>4. OpAt(t)'
  BY <1>0, <1>2, <1>3 DEF OpAt, Stays, Busy
<1>5. OpInv'
  BY <1>0, <1>1, <1>2, <1>4, OpKept
<1>6. mem \in Data /\ mem.out \in SUBSET Addr
  BY <1>0 DEF TypeOK, Data
<1>7. CASE op[t] = "login"
  <2>1. mem'.out = mem.out /\ clashed' = clashed
    BY <1>6, <1>7 DEF SetBegin, Data
  <2>2. Clean => Clean'
    BY <1>0, <1>1, <1>2, <1>3, <1>7, <2>1, QuietKept
       DEF Stays, Busy, OwesList, OwesLink, Adding
  <2>3. QED
    BY <1>5, <2>1, <2>2 DEF AgreeInv
<1>8. CASE op[t] \in {"add", "delete"}
  <2>1. ~clashed' => Clean /\ got[t] = mem.out
    BY <1>8 DEF SetBegin, AgreeInv
  <2>2. ASSUME Clean, got[t] = mem.out PROVE Clean'
    <3>1. AloneInv' /\ BootInv' /\ ~Busy(Boot)
      BY <1>0, <1>1, <1>2, <1>3, <2>2, RequestKept
    <3>2. mem'.out = NewList(t)
      BY <1>6, <1>8 DEF SetBegin, Data
    <3>3. /\ \A a \in Addr : a # cur[t] => (a \in mem'.out <=> a \in mem.out)
          /\ op[t] = "add" => cur[t] \in mem'.out
          /\ op[t] = "delete" => cur[t] \notin mem'.out
      BY <1>8, <2>2, <3>2 DEF NewList
    <3>4. \A u \in Task : u # t /\ Busy(u) => op[u] \in {"add", "delete"} /\ cur[u] # cur[t]
      BY <1>1, <2>2 DEF Clean, AloneInv
    <3>5. \A u \in Task : u # t /\ op[u] # "none" => op[u] \in {"add", "delete"} /\ cur[u] # cur[t]
      BY <1>0, <3>4 DEF OpInv, OpAt
    <3>6. DebtInv'
      <4>1. ASSUME NEW u \in Task, OwesList(u)', cur'[u] \in Plain PROVE links'[cur'[u]] # NoConn
        BY <1>1, <1>2, <2>2, <4>1 DEF Clean, DebtInv, Frame, Stays, OwesList
      <4>2. ASSUME NEW u \in Task, OwesLink(u)' PROVE cur'[u] \notin mem'.out
        <5>1. CASE u = t
          BY <1>2, <3>3, <4>2, <5>1 DEF Stays, OwesLink
        <5>2. CASE u # t
          <6>1. OwesLink(u) /\ cur'[u] = cur[u] /\ cur[u] # cur[t]
            BY <1>2, <3>5, <4>2, <5>2 DEF Frame, OwesLink
          <6>2. cur[u] \in Addr /\ cur[u] \notin mem.out
            BY <2>2, <6>1 DEF Clean, DebtInv, OwesLink, IInv, CurInv
          <6>3. QED
            BY <3>3, <6>1, <6>2
        <5>3. QED
          BY <5>1, <5>2
      <4>3. ASSUME NEW u \in Task PROVE op'[u] \notin {"login", "logout"}
        BY <1>2, <1>8, <3>5 DEF Frame, Stays
      <4>4. QED
        BY <4>1, <4>2, <4>3 DEF DebtInv
    <3>7. SettledInv'
      <4>1. ASSUME NEW a \in Plain
            PROVE  \/ a \in mem'.out <=> links'[a] # NoConn
                   \/ \E u \in Task : cur'[u] = a /\ (OwesList(u)' \/ OwesLink(u)')
        <5>1. CASE a = cur[t] /\ op[t] = "add"
          BY <1>1, <2>2, <3>3, <5>1 DEF Clean, DebtInv, OwesList
        <5>2. CASE a = cur[t] /\ op[t] = "delete"
          BY <1>2, <5>2 DEF Stays, OwesLink
        <5>3. CASE a # cur[t]
          BY <1>1, <1>2, <2>2, <3>1, <3>3, <5>3
             DEF Clean, SettledInv, Frame, OwesList, OwesLink, Plain
        <5>4. QED
          BY <1>8, <5>1, <5>2, <5>3
      <4>2. QED
        BY <4>1 DEF SettledInv
    <3>8. QED
      BY <3>1, <3>6, <3>7 DEF Clean
  <2>3. QED
    BY <1>5, <2>1, <2>2 DEF AgreeInv
<1>9. QED
  BY <1>3, <1>7, <1>8

\* The file is written and Set returns: to its request, or the login goes on.
LEMMA FileAgrees ==
    ASSUME IInv, AgreeInv, NEW t \in Task, SetEnd(t)
    PROVE  AgreeInv'
<1> USE DEF linkVars, taskVars, storeVars, lifeVars
<1>0. TypeOK /\ OpInv /\ OpAt(t)
  BY DEF IInv, AgreeInv, OpInv
<1>1. pc[t] = "file" /\ Busy(t) /\ links' = links /\ mem' = mem /\ clashed' = clashed
  BY DEF SetEnd, Busy
<1>2. op[t] \in {"add", "delete", "login"} /\ t # Boot
  BY <1>0, <1>1 DEF OpAt, TypeOK
<1>3. CASE op[t] = "add"
  <2>1. Frame(t) /\ Ended(t)
    BY <1>0, <1>2, <1>3, Ends DEF SetEnd
  <2>2. OpAt(t)' /\ pc'[t] # "load"
    BY <2>1 DEF Ended, OpAt, Busy
  <2>3. OpInv'
    BY <1>0, <1>1, <2>1, <2>2, OpKept
  <2>4. ASSUME Clean PROVE Clean'
    <3>1. ~Busy(Boot)
      BY <1>0, <1>1, <1>2, <2>4, StartIsOver DEF Clean
    <3>2. \A u \in Task : u # t /\ (OwesList(u) \/ OwesLink(u)) => cur[u] # cur[t]
      BY <1>1, <2>4 DEF Clean, AloneInv, OwesList, OwesLink, Busy
    <3>3. ~OwesList(t) /\ ~OwesLink(t)
      BY <1>1, <1>3 DEF OwesList, OwesLink
    <3>4. cur[t] \in Plain => (cur[t] \in mem.out <=> links[cur[t]] # NoConn)
      BY <2>4, <3>1, <3>2, <3>3 DEF Clean, SettledInv
    <3>5. QED
      BY <1>0, <1>1, <1>3, <2>1, <2>4, <3>4, EndKept
  <2>5. QED
    BY <1>1, <2>3, <2>4 DEF AgreeInv
<1>4. CASE op[t] \in {"delete", "login"}
  <2>1. /\ UNCHANGED <<op, cur, todo>>
        /\ \E where \in {"unlink", "list", "forget"} :
              Goto(t, where) /\ (op[t] = "delete" <=> where = "unlink")
    BY <1>4 DEF SetEnd, Online
  <2>2. PICK where \in {"unlink", "list", "forget"} :
              Goto(t, where) /\ (op[t] = "delete" <=> where = "unlink")
    BY <2>1
  <2>3. Frame(t) /\ Stays(t) /\ pc'[t] = where
    BY <1>0, <2>1, <2>2, GoesOn
  <2>4. OpAt(t)' /\ Busy(t)'
    BY <1>0, <1>2, <1>4, <2>2, <2>3 DEF OpAt, Stays, Busy
  <2>5. OpInv'
    BY <1>0, <1>1, <2>3, <2>4, OpKept DEF OpAt, Busy
  <2>6. Clean => Clean'
    <3>1. /\ Adding(t)' <=> Adding(t)
          /\ OwesList(t)' <=> OwesList(t)
          /\ OwesLink(t)' <=> OwesLink(t)
      BY <1>1, <1>4, <2>2, <2>3 DEF Stays, OwesList, OwesLink, Adding
    <3>2. QED
      BY <1>0, <1>1, <1>2, <2>3, <2>4, <3>1, QuietKept
  <2>7. QED
    BY <1>1, <2>5, <2>6 DEF AgreeInv
<1>5. QED
  BY <1>2, <1>3, <1>4

\* A Set that fails (store.go:109-114, 133-136) counts as a clash.
LEMMA FailAgrees ==
    ASSUME IInv, AgreeInv, NEW t \in Task, OpenFails(t) \/ SetFails(t)
    PROVE  AgreeInv'
<1>0. TypeOK /\ OpInv /\ OpAt(t)
  BY DEF IInv, AgreeInv, OpInv
<1>1. pc[t] \in {"set", "file"} /\ Busy(t) /\ links' = links /\ clashed' = TRUE /\ SetFailed(t)
  BY DEF OpenFails, SetFails, Busy, linkVars
<1>2. op[t] \in {"add", "delete", "login"} /\ t # Boot
  BY <1>0, <1>1 DEF OpAt, TypeOK
<1>3. Frame(t) /\ (Ended(t) \/ (op[t] = "delete" /\ Stays(t) /\ pc'[t] = "unlink"))
  <2>1. CASE op[t] = "delete"
    BY <1>0, <1>1, <2>1, GoesOn DEF SetFailed
  <2>2. CASE op[t] # "delete"
    <3>1. Finish(t) /\ ~(t = Boot /\ op[t] = "cmdline")
      BY <1>1, <1>2, <2>2 DEF SetFailed
    <3>2. QED
      BY <1>0, <3>1, Ends
  <2>3. QED
    BY <2>1, <2>2
<1>4. OpAt(t)' /\ pc'[t] # "load"
  BY <1>0, <1>2, <1>3 DEF OpAt, Ended, Stays, Busy
<1>5. OpInv'
  BY <1>0, <1>1, <1>3, <1>4, OpKept
<1>6. QED
  BY <1>1, <1>5 DEF AgreeInv

\* Del (store.go:141-154) finds the list empty, or counts as a clash.
LEMMA ForgetAgrees ==
    ASSUME IInv, AgreeInv, NEW t \in Task, Forget(t) \/ ForgetFails(t)
    PROVE  AgreeInv'
<1> USE DEF linkVars, taskVars, storeVars, lifeVars
<1>0. TypeOK /\ OpInv /\ OpAt(t)
  BY DEF IInv, AgreeInv, OpInv
<1>1. pc[t] = "forget" /\ Busy(t) /\ links' = links /\ mem'.out = {}
  BY DEF Forget, ForgetFails, Busy, NoData
<1>2. op[t] \in {"login", "logout"} /\ t # Boot
  BY <1>0, <1>1 DEF OpAt, TypeOK
<1>3. ~clashed' => Clean /\ mem.out = {}
  BY DEF Forget, ForgetFails, AgreeInv
<1>4. CASE Forget(t) /\ op[t] = "logout"
  <2>1. Frame(t) /\ Stays(t) /\ pc'[t] = "list"
    BY <1>0, <1>4, GoesOn DEF Forget
  <2>2. OpAt(t)' /\ Busy(t)'
    BY <1>0, <1>4, <2>1 DEF OpAt, Stays, Busy
  <2>3. OpInv'
    BY <1>0, <1>1, <2>1, <2>2, OpKept
  <2>4. Clean /\ mem.out = {} => Clean'
    BY <1>0, <1>1, <1>2, <2>1, <2>2, QuietKept DEF Stays, OwesList, OwesLink, Adding
  <2>5. QED
    BY <1>3, <2>3, <2>4 DEF AgreeInv
<1>5. CASE Finish(t)
  <2>1. Frame(t) /\ Ended(t)
    BY <1>0, <1>2, <1>5, Ends
  <2>2. OpAt(t)' /\ pc'[t] # "load"
    BY <2>1 DEF Ended, OpAt, Busy
  <2>3. OpInv'
    BY <1>0, <1>1, <2>1, <2>2, OpKept
  <2>4. ASSUME Clean, mem.out = {} PROVE Clean'
    <3>1. AloneInv' /\ BootInv' /\ ~Busy(Boot)
      BY <1>0, <1>1, <1>2, <2>1, <2>4, RequestKept
    <3>2. DebtInv'
      BY <1>1, <2>1, <2>4 DEF Clean, DebtInv, Frame, Ended, OwesList, OwesLink, Adding
    <3>3. SettledInv'
      BY <1>1, <1>5, <2>1, <2>4, <3>1 DEF Clean, SettledInv, Frame, OwesList, OwesLink
    <3>4. QED
      BY <3>1, <3>2, <3>3 DEF Clean
  <2>5. QED
    BY <1>3, <2>3, <2>4 DEF AgreeInv
<1>6. QED
  BY <1>2, <1>4, <1>5 DEF Forget, ForgetFails

\* initTemplates (statusServer.go) adds what the list has, and nothing else.
LEMMA RestoreAgrees ==
    ASSUME IInv, AgreeInv, NEW t \in Task, Restore(t)
    PROVE  AgreeInv'
<1> USE DEF linkVars, taskVars, storeVars, lifeVars
<1>0. TypeOK /\ OpInv /\ OpAt(t)
  BY DEF IInv, AgreeInv, OpInv
<1>1. pc[t] = "list" /\ Busy(t) /\ links' = links /\ mem' = mem /\ clashed' = clashed
  BY DEF Restore, Busy
<1>2. op[t] \in {"login", "logout", "stored"}
  BY <1>0, <1>1 DEF OpAt, TypeOK
<1>3. mem.out \in SUBSET Addr /\ AddEach(t, mem.out)
  BY <1>0 DEF TypeOK, Data, Restore
<1>4. /\ Frame(t)
      /\ \/ /\ mem.out # {} /\ pc'[t] = "dial" /\ op'[t] = op[t]
            /\ cur'[t] \in mem.out /\ todo'[t] = mem.out \ {cur'[t]}
         \/ mem.out = {} /\ Ended(t)
  BY <1>0, <1>2, <1>3, EachStep
<1>5. OpAt(t)' /\ pc'[t] # "load"
  BY <1>0, <1>1, <1>2, <1>4 DEF OpAt, Ended, Busy
<1>6. OpInv'
  BY <1>0, <1>1, <1>4, <1>5, OpKept
<1>7. ASSUME Clean, t # Boot PROVE Clean'
  <2>1. AloneInv' /\ BootInv' /\ ~Busy(Boot)
    BY <1>0, <1>1, <1>2, <1>4, <1>7, RequestKept
  <2>2. DebtInv'
    BY <1>1, <1>2, <1>4, <1>7 DEF Clean, DebtInv, Frame, Ended, OwesList, OwesLink, Adding
  <2>3. SettledInv'
    BY <1>1, <1>2, <1>4, <1>7, <2>1 DEF Clean, SettledInv, Frame, OwesList, OwesLink
  <2>4. QED
    BY <2>1, <2>2, <2>3 DEF Clean
<1>8. ASSUME Clean, t = Boot PROVE Clean'
  <2>1. AloneInv'
    BY <1>1, <1>2, <1>4, <1>8, AloneKept DEF Clean
  <2>2. \A u \in Task : u # Boot => op'[u] = "none"
    BY <1>0, <1>1, <1>2, <1>4, <1>8 DEF Clean, AloneInv, OpInv, OpAt, Frame
  <2>3. op[t] = "stored" /\ op'[t] \in {"stored", "none"}
    BY <1>0, <1>2, <1>4, <1>8 DEF OpAt, Ended
  <2>4. DebtInv'
    BY <1>8, <2>2, <2>3 DEF DebtInv, OwesList, OwesLink
  <2>5. \A a \in Plain : links'[a] = NoConn
    BY <1>1, <1>8 DEF Clean, BootInv
  <2>6. CASE mem.out # {}
    <3>1. BootInv'
      BY <1>1, <1>4, <1>8, <2>3, <2>5, <2>6 DEF BootInv, Adding
    <3>2. Busy(Boot)'
      BY <1>4, <1>8, <2>6 DEF Busy
    <3>3. QED
      BY <2>1, <2>4, <3>1, <3>2 DEF Clean, SettledInv
  <2>7. CASE mem.out = {}
    <3>1. BootInv'
      BY <1>4, <1>8, <2>7 DEF BootInv, Ended
    <3>2. SettledInv'
      BY <1>1, <2>5, <2>7 DEF SettledInv
    <3>3. QED
      BY <2>1, <2>4, <3>1, <3>2 DEF Clean
  <2>8. QED
    BY <2>6, <2>7
<1>9. QED
  BY <1>1, <1>6, <1>7, <1>8 DEF AgreeInv

-----------------------------------------------------------------------------
\* Load (store.go:156-186) brings the list, with nothing linked.
LEMMA LoadAgrees ==
    ASSUME IInv, AgreeInv, Load
    PROVE  AgreeInv'
<1> USE Sentinels DEF linkVars, taskVars, storeVars, lifeVars
<1>0. TypeOK /\ OpInv /\ pc[Boot] = "load" /\ OpAt(Boot)
  BY DEF IInv, AgreeInv, OpInv, Load
<1>1. Clean
  BY <1>0, LoadIsClean
<1>2. \A a \in Addr : links'[a] = NoConn
  BY <1>0 DEF OpInv, Load
<1>3. op[Boot] = "cmdline" /\ Busy(Boot)
  BY <1>0 DEF OpAt, TypeOK, Busy
<1>4. CASE readable /\ Fits(file)
  <2>1. AddEach(Boot, CmdLine)
    BY <1>4 DEF Load
  <2>2. /\ Frame(Boot)
        /\ \/ /\ pc'[Boot] = "dial" /\ op'[Boot] = "cmdline"
              /\ {cur'[Boot]} \cup todo'[Boot] \subseteq CmdLine
           \/ pc'[Boot] = "list" /\ op'[Boot] = "stored"
    BY <1>0, <1>3, <2>1, EachStep
  <2>3. OpAt(Boot)'
    BY <2>2 DEF OpAt, Busy
  <2>4. OpInv'
    BY <1>0, <1>3, <2>2, <2>3, OpKept
  <2>5. AloneInv'
    BY <1>1, <1>3, <2>2, AloneKept DEF Clean
  <2>6. \A u \in Task : u # Boot => op'[u] = "none"
    BY <1>0, <1>1, <1>3, <2>2 DEF Clean, AloneInv, OpInv, OpAt, Frame
  <2>7. DebtInv'
    BY <2>2, <2>6 DEF DebtInv, OwesList, OwesLink
  <2>8. BootInv' /\ Busy(Boot)'
    BY <1>2, <2>2 DEF BootInv, Adding, Busy, Plain
  <2>9. QED
    BY <2>4, <2>5, <2>7, <2>8 DEF AgreeInv, Clean, SettledInv
<1>5. CASE ~(readable /\ Fits(file))
  <2>1. UNCHANGED <<pc, op, cur, todo, links, mem, clashed>>
    BY <1>5 DEF Load
  <2>2. QED
    BY <1>0, <1>1, <2>1
       DEF AgreeInv, OpInv, OpAt, Busy, Clean, AloneInv, DebtInv, BootInv, SettledInv, Adding,
           OwesList, OwesLink
<1>6. QED
  BY <1>4, <1>5

\* A request that begins (statusServer.go:149-270, initTemplates) is alone with its
\* address, or counts as a clash.
LEMMA BeginAgrees ==
    ASSUME IInv, AgreeInv, NEW r \in Req, Begin(r)
    PROVE  AgreeInv'
<1> USE Sentinels DEF linkVars, taskVars, storeVars, lifeVars
<1>0. TypeOK /\ OpInv /\ r \in Task /\ r # Boot
  BY DEF IInv, AgreeInv
<1>1. PICK what \in {"add", "delete", "login", "logout"},
           where \in {"dial", "get", "set", "forget"}, whose \in Addr \cup {NoAddr} :
        /\ op' = [op EXCEPT ![r] = what] /\ pc' = [pc EXCEPT ![r] = where]
        /\ cur' = [cur EXCEPT ![r] = whose]
        /\ what = "add" <=> where = "dial"
        /\ what = "delete" <=> where = "get"
        /\ what = "login" <=> where = "set"
        /\ \/ what \in {"add", "delete"} /\ (~clashed' => ~clashed /\ ~Overlaps(whose))
           \/ what \in {"login", "logout"} /\ (~clashed' => ~clashed /\ \A q \in Req : ~Busy(q))
  <2>1. ASSUME NEW a \in Addr, BeginAdd(r, a) \/ BeginDelete(r, a)
        PROVE  \E what \in {"add", "delete"}, where \in {"dial", "get"} :
                 /\ op' = [op EXCEPT ![r] = what] /\ pc' = [pc EXCEPT ![r] = where]
                 /\ cur' = [cur EXCEPT ![r] = a]
                 /\ what = "add" <=> where = "dial"
                 /\ ~clashed' => ~clashed /\ ~Overlaps(a)
    BY <2>1 DEF BeginAdd, BeginDelete, Goto
  <2>2. ASSUME BeginLogin(r) \/ BeginLogout(r)
        PROVE  \E what \in {"login", "logout"}, where \in {"set", "forget"} :
                 /\ op' = [op EXCEPT ![r] = what] /\ pc' = [pc EXCEPT ![r] = where]
                 /\ cur' = [cur EXCEPT ![r] = cur[r]] /\ cur[r] \in Addr \cup {NoAddr}
                 /\ what = "login" <=> where = "set"
                 /\ ~clashed' => ~clashed /\ \A q \in Req : ~Busy(q)
    <3>1. cur' = cur /\ cur' = [cur EXCEPT ![r] = cur[r]] /\ cur[r] \in Addr \cup {NoAddr}
      BY <1>0, <2>2 DEF BeginLogin, BeginLogout, TypeOK
    <3>2. QED
      BY <2>2, <3>1 DEF BeginLogin, BeginLogout, Goto
  <2>3. QED
    BY <2>1, <2>2 DEF Begin
<1>2. /\ pc[Boot] = "done" /\ pc[r] = "idle"
      /\ UNCHANGED <<links, todo, mem>>
  BY DEF Begin, BeginAdd, BeginDelete, BeginLogin, BeginLogout, Arrives, Serving
<1>3. op[r] = "none" /\ op[Boot] = "none" /\ ~Busy(Boot)
  BY <1>0, <1>2 DEF OpInv, OpAt, Busy
<1>4. Frame(r) /\ op'[r] = what /\ pc'[r] = where /\ cur'[r] = whose
  BY <1>0, <1>1, <1>2 DEF Frame, TypeOK
<1>5. OpAt(r)'
  BY <1>0, <1>1, <1>4 DEF OpAt, Busy
<1>6. pc'[Boot] = "done" /\ op'[Boot] = "none"
  BY <1>0, <1>2, <1>3, <1>4 DEF Frame
<1>7. OpInv'
  <2>1. ASSUME NEW u \in Task, u # r PROVE OpAt(u)'
    BY <1>0, <1>4, <2>1 DEF OpInv, OpAt, Frame, Busy
  <2>2. QED
    BY <1>5, <1>6, <2>1 DEF OpInv
<1>8. ASSUME ~clashed' PROVE Clean'
  <2>1. Clean
    BY <1>1, <1>8 DEF AgreeInv
  <2>2. ASSUME NEW u \in Task, u # r, Busy(u)
        PROVE  /\ what \in {"add", "delete"} /\ op[u] \in {"add", "delete"} /\ cur[u] # whose
    <3>1. u \in Req
      BY <1>3, <2>2, OutputsAssumption DEF Task, Req, Boot
    <3>2. what \in {"add", "delete"} /\ ~Overlaps(whose)
      BY <1>1, <1>8, <2>2, <3>1
    <3>3. op[u] \notin {"login", "logout"} /\ cur[u] # whose
      BY <2>2, <3>2 DEF Overlaps
    <3>4. op[u] \in {"add", "delete"}
      BY <1>0, <2>2, <3>1, <3>3 DEF OpInv, OpAt, TypeOK
    <3>5. QED
      BY <3>2, <3>3, <3>4
  <2>3. AloneInv'
    <3>1. ASSUME NEW u \in Task, NEW v \in Task, u # v, Busy(u)', Busy(v)'
          PROVE  /\ op'[u] \in {"add", "delete"} /\ op'[v] \in {"add", "delete"}
                 /\ cur'[u] # cur'[v]
      <4>1. \A w \in {u, v} : w # r => /\ Busy(w) /\ op'[w] = op[w] /\ cur'[w] = cur[w]
        BY <1>4, <3>1 DEF Frame, Busy
      <4>2. CASE u = r
        BY <1>4, <2>2, <3>1, <4>1, <4>2
      <4>3. CASE v = r
        BY <1>4, <2>2, <3>1, <4>1, <4>3
      <4>4. CASE u # r /\ v # r
        BY <2>1, <3>1, <4>1, <4>4 DEF Clean, AloneInv
      <4>5. QED
        BY <4>2, <4>3, <4>4
    <3>2. QED
      BY <3>1 DEF AloneInv
  <2>4. DebtInv'
    BY <1>1, <1>2, <1>4, <2>1 DEF Clean, DebtInv, Frame, OwesList, OwesLink, Adding
  <2>5. BootInv'
    BY <1>6 DEF BootInv
  <2>6. SettledInv'
    BY <1>2, <1>3, <1>4, <2>1 DEF Clean, SettledInv, Frame, OwesList, OwesLink
  <2>7. QED
    BY <2>3, <2>4, <2>5, <2>6 DEF Clean
<1>9. QED
  BY <1>7, <1>8 DEF AgreeInv

\* After a stop nothing is linked and nothing runs.
LEMMA StopAgrees ==
    ASSUME IInv, NEW why, Stop(why)
    PROVE  AgreeInv'
<1> USE Sentinels
<1>1. /\ \A t \in Task : pc'[t] = IF t = Boot THEN "load" ELSE IF pc[t] = "idle" THEN "idle" ELSE "done"
      /\ \A t \in Task : op'[t] = IF t = Boot THEN "cmdline" ELSE "none"
      /\ \A a \in Addr : links'[a] = NoConn
  BY DEF Stop
<1>2. OpInv'
  BY <1>1 DEF OpInv, OpAt, Busy
<1>3. AloneInv' /\ SettledInv'
  BY <1>1 DEF AloneInv, SettledInv, Busy
<1>4. DebtInv' /\ BootInv'
  BY <1>1 DEF DebtInv, BootInv, OwesList, OwesLink, Adding, Plain
<1>5. QED
  BY <1>2, <1>3, <1>4 DEF AgreeInv, Clean

\* A new life begins in order, clashed as the last one may have been.
LEMMA RestartAgrees ==
    ASSUME IInv, AgreeInv, Restart
    PROVE  AgreeInv'
<1> USE DEF linkVars, taskVars, storeVars, lifeVars
<1>1. Clean /\ OpInv
  BY LoadIsClean DEF Restart, IInv, LifeInv, AgreeInv
<1>2. UNCHANGED <<pc, op, cur, todo, links, mem>>
  BY DEF Restart
<1>3. QED
  BY <1>1, <1>2 DEF AgreeInv, OpInv, OpAt, Busy, Clean, AloneInv, DebtInv, BootInv, SettledInv,
                    Adding, OwesList, OwesLink

\* The readers touch neither the list nor the links.
LEMMA ReaderAgrees ==
    ASSUME IInv, AgreeInv, NEW c \in Conn, ReaderStep(c) \/ ReadPacket(c) \/ MapRace(c)
    PROVE  AgreeInv'
<1> USE DEF linkVars, taskVars, storeVars, lifeVars
<1>1. CASE NilLink(c) \/ MapRace(c)
  BY <1>1, StopAgrees DEF NilLink, MapRace
<1>2. CASE EnterSelect(c) \/ Tick(c) \/ ReadFails(c) \/ TakeInput(c) \/ ReadPacket(c)
  <2>1. UNCHANGED <<pc, op, cur, todo, links, mem, clashed>>
    BY <1>2 DEF EnterSelect, Tick, ReadFails, TakeInput, ReadPacket
  <2>2. QED
    BY <2>1 DEF AgreeInv, OpInv, OpAt, Busy, Clean, AloneInv, DebtInv, BootInv, SettledInv,
                Adding, OwesList, OwesLink
<1>3. QED
  BY <1>1, <1>2 DEF ReaderStep

\* Every step keeps list and links together, debts apart.
LEMMA StepAgrees ==
    ASSUME IInv, AgreeInv, [Next]_vars
    PROVE  AgreeInv'
<1>1. ASSUME NEW t \in Task, TaskStep(t) PROVE AgreeInv'
  BY <1>1, AddAgrees, InsertAgrees, RemoveAgrees, GetAgrees, SetAgrees, FileAgrees,
     FailAgrees, ForgetAgrees, RestoreAgrees, LoadAgrees DEF TaskStep
<1>2. CASE Crash
  BY <1>2, StopAgrees DEF Crash
<1>3. CASE UNCHANGED vars
  BY <1>3 DEF vars, linkVars, taskVars, storeVars, lifeVars, AgreeInv, OpInv, OpAt, Busy, Clean,
              AloneInv, DebtInv, BootInv, SettledInv, Adding, OwesList, OwesLink
<1>4. QED
  BY <1>1, <1>2, <1>3, BeginAgrees, ReaderAgrees, RestartAgrees DEF Next

\* The program starts with an empty list and no link.
LEMMA InitAgrees == Init => AgreeInv
<1> SUFFICES ASSUME Init PROVE AgreeInv
  OBVIOUS
<1>1. OpInv
  BY Sentinels DEF Init, OpInv, OpAt, Busy
<1>2. Clean
  BY <1>1, InitOK, LoadIsClean, Sentinels DEF Init
<1>3. QED
  BY <1>1, <1>2 DEF AgreeInv

-----------------------------------------------------------------------------
\* What the list and the links owe each other (output.go:74-119 against
\* store.go:105-154, which no lock holds together).
THEOREM AgreementInvariant == Spec => []AgreeInv
<1>1. IInv /\ AgreeInv /\ [Next]_vars => AgreeInv'
  BY StepAgrees
<1>2. QED
  BY <1>1, InitAgrees, InductiveInvariant, PTL DEF Spec

\* When nothing is in progress, what runs is what the list shows (statusServer.go's
\* add and delete requests), unless requests for one address, or a login, crossed.
THEOREM ListMatchesLinks == Spec => []ListAgrees
<1>1. IInv /\ AgreeInv => ListAgrees
  <2> SUFFICES ASSUME IInv, AgreeInv, Serving, ~clashed, \A r \in Req : ~Busy(r),
                      NEW a \in Plain
               PROVE  a \in mem.out <=> links[a] # NoConn
    BY DEF ListAgrees, Plain
  <2>1. \A t \in Task : ~Busy(t)
    BY OutputsAssumption DEF Serving, Busy, Task, Req, Boot
  <2>2. \A t \in Task : ~OwesList(t) /\ ~OwesLink(t)
    BY <2>1 DEF Busy, OwesList, OwesLink
  <2>3. QED
    BY <2>1, <2>2, Sentinels DEF AgreeInv, Clean, SettledInv
<1>2. QED
  BY <1>1, InductiveInvariant, AgreementInvariant, PTL

-----------------------------------------------------------------------------
(* Remove's wait under the lock.                                           *)

\* Every handler touches its own task only.
LEMMA TaskFrame ==
    ASSUME IInv, NEW t \in Task, TaskStep(t)
    PROVE  Frame(t) /\ Busy(t)
<1> USE DEF linkVars, taskVars, storeVars, lifeVars
<1>0. TypeOK
  BY DEF IInv
<1>1. ASSUME NEW where, Goto(t, where), UNCHANGED <<op, cur, todo>> PROVE Frame(t)
  BY <1>0, <1>1, GoesOn
<1>2. ASSUME Finish(t) PROVE Frame(t)
  BY <1>0, <1>2 DEF TypeOK, Finish, Goto, Frame
<1>3. ASSUME AddEach(t, todo[t]) \/ AddEach(t, mem.out) PROVE Frame(t)
  <2>1. todo[t] \in SUBSET Addr /\ mem.out \in SUBSET Addr
    BY <1>0 DEF TypeOK, Data
  <2>2. QED
    BY <1>0, <1>3, <2>1, EachStep
<1>4. ASSUME t = Boot, Load PROVE Frame(t)
  <2>1. CmdLine \in SUBSET Addr
    BY Sentinels
  <2>2. CASE readable /\ Fits(file)
    BY <1>0, <1>4, <2>1, <2>2, EachStep DEF Load
  <2>3. CASE ~(readable /\ Fits(file))
    BY <1>4, <2>3 DEF Load, Frame
  <2>4. QED
    BY <2>2, <2>3
<1>5. Busy(t)
  BY DEF TaskStep, DialFails, Dial, LockToAdd, Insert, LockToRemove, Delete, TakeQuit, GetList,
         SetBegin, OpenFails, SetEnd, SetFails, Forget, ForgetFails, Restore, Load, Busy
<1>6. Frame(t)
  <2>1. CASE DialFails(t) \/ Dial(t) \/ LockToAdd(t) \/ Insert(t)
    BY <1>1, <1>3, <2>1 DEF DialFails, Dial, LockToAdd, Insert
  <2>2. CASE LockToRemove(t) \/ Delete(t) \/ \E c \in Conn : TakeQuit(t, c)
    BY <1>1, <1>2, <2>2 DEF LockToRemove, Delete, TakeQuit
  <2>3. CASE GetList(t) \/ SetBegin(t)
    BY <1>1, <1>2, <2>3 DEF GetList, SetBegin
  <2>4. CASE SetEnd(t) \/ Forget(t) \/ Restore(t)
    BY <1>1, <1>2, <1>3, <2>4 DEF SetEnd, Online, Forget, Restore
  <2>5. CASE OpenFails(t) \/ SetFails(t) \/ ForgetFails(t)
    BY <1>1, <1>2, <2>5 DEF OpenFails, SetFails, SetFailed, ForgetFails
  <2>6. QED
    BY <1>4, <2>1, <2>2, <2>3, <2>4, <2>5 DEF TaskStep
<1>7. QED
  BY <1>5, <1>6

\* The requests begin when the start is over, which comes only with a stop.
LEMMA ServeOK ==
    ASSUME IInv, ServeInv, [Next]_vars
    PROVE  ServeInv'
<1> USE Sentinels DEF linkVars, taskVars, storeVars, lifeVars, vars
<1>1. ASSUME NEW t \in Task, TaskStep(t) PROVE ServeInv'
  <2>1. Frame(t) /\ Busy(t)
    BY <1>1, TaskFrame
  <2>2. CASE t = Boot
    BY <2>1, <2>2 DEF Frame, ServeInv, Serving, Busy
  <2>3. CASE t # Boot
    <3>1. t \in Req /\ Serving
      BY <2>1, <2>3, OutputsAssumption DEF ServeInv, Task, Req, Boot
    <3>2. QED
      BY <2>1, <2>3, <3>1 DEF Frame, ServeInv, Serving, Busy
  <2>4. QED
    BY <2>2, <2>3
<1>2. ASSUME NEW r \in Req, Begin(r) PROVE ServeInv'
  <2>1. Serving /\ \E where : pc' = [pc EXCEPT ![r] = where]
    BY <1>2 DEF Begin, BeginAdd, BeginDelete, BeginLogin, BeginLogout, Arrives, Goto
  <2>2. Serving'
    BY <2>1 DEF Serving, IInv, TypeOK
  <2>3. QED
    BY <2>2 DEF ServeInv
<1>3. ASSUME NEW why, Stop(why) PROVE ServeInv'
  BY <1>3 DEF Stop, ServeInv, Busy
<1>4. CASE UNCHANGED pc
  BY <1>4 DEF ServeInv, Serving, Busy
<1>5. QED
  BY <1>1, <1>2, <1>3, <1>4
     DEF Next, Crash, ReaderStep, NilLink, MapRace, EnterSelect, Tick, ReadFails, TakeInput,
         ReadPacket, Restart

\* Steps of a task that leave links and goroutines alone, and do not begin to wait.
LEMMA NoLinkStep ==
    ASSUME LinkInv, ClosedInv, UNCHANGED <<links, addr, reader, waits, closed>>,
           NEW t \in Task, Frame(t), pc[t] # "delete", pc'[t] # "quit"
    PROVE  LinkInv' /\ ClosedInv'
<1>1. LinkInv'
  <2>1. \A u \in Task : pc[u] = "delete" => pc'[u] = "delete" /\ cur'[u] = cur[u]
    BY DEF Frame
  <2>2. QED
    BY <2>1 DEF LinkInv, Started
<1>2. ClosedInv'
  BY DEF ClosedInv, Frame
<1>3. QED
  BY <1>1, <1>2

\* Add opens a socket that is nobody's, and links it when no link is being deleted.
LEMMA AddLinks ==
    ASSUME IInv, LinkInv, ClosedInv, NEW t \in Task,
           Dial(t) \/ DialFails(t) \/ LockToAdd(t) \/ Insert(t)
    PROVE  LinkInv' /\ ClosedInv'
<1> USE DEF linkVars, taskVars, storeVars, lifeVars
<1>0. TypeOK /\ Frame(t)
  BY TaskFrame DEF IInv, TaskStep
<1>1. CASE DialFails(t) \/ LockToAdd(t)
  <2>1. pc[t] # "delete" /\ pc'[t] # "quit" /\ UNCHANGED <<links, addr, reader, waits, closed>>
    BY <1>0, <1>1 DEF DialFails, LockToAdd, Goto, TypeOK
  <2>2. QED
    BY <1>0, <2>1, NoLinkStep
<1>2. CASE Dial(t)
  <2>1. PICK c \in FreeConns : /\ reader' = [reader EXCEPT ![c] = "new"]
                               /\ addr' = [addr EXCEPT ![c] = cur[t]]
    BY <1>2 DEF Dial
  <2>2. /\ c \in Conn /\ reader[c] = "free" /\ pc[t] = "dial" /\ pc'[t] = "lock"
        /\ UNCHANGED <<links, waits, closed, cur>>
    BY <1>0, <1>2 DEF Dial, FreeConns, Goto, TypeOK
  <2>3. \A u \in Task : pc[u] = "delete" => pc'[u] = "delete"
    BY <1>0, <2>2 DEF Frame
  <2>4. \A d \in Conn : Started(d) => (reader'[d] = reader[d] /\ addr'[d] = addr[d])
    BY <1>0, <2>1, <2>2 DEF Started, TypeOK
  <2>5. \A a \in Addr : links[a] # NoConn => links[a] \in Conn
    BY <1>0 DEF TypeOK
  <2>6. LinkInv'
    BY <2>2, <2>3, <2>4, <2>5 DEF LinkInv, Started
  <2>7. ClosedInv'
    BY <1>0, <2>2 DEF ClosedInv, Frame
  <2>8. QED
    BY <2>6, <2>7
<1>3. CASE Insert(t)
  <2>1. /\ pc[t] = "insert" /\ links' = [links EXCEPT ![cur[t]] = conn[t]]
        /\ reader' = [reader EXCEPT ![conn[t]] = "loop"] /\ UNCHANGED <<addr, waits, closed>>
    BY <1>3 DEF Insert
  <2>2. /\ cur[t] \in Addr /\ conn[t] \in Conn
        /\ reader[conn[t]] = "new" /\ addr[conn[t]] = cur[t] /\ lock = t
    BY <2>1 DEF IInv, CurInv, DialInv, LockInv
  <2>3. \A u \in Task : pc[u] \notin {"quit", "delete"}
    BY <2>1, <2>2 DEF IInv, LockInv
  <2>4. LinkInv'
    <3>1. SUFFICES ASSUME NEW a \in Addr, links'[a] # NoConn
                   PROVE  /\ reader'[links'[a]] \in {"loop", "wait", "read", "input"}
                          /\ addr'[links'[a]] = a
                          /\ reader'[links'[a]] = "wait" => waits'[links'[a]] = links'[a]
      BY DEF LinkInv, Started
    <3>2. CASE a = cur[t]
      BY <1>0, <2>1, <2>2, <3>2 DEF TypeOK, Started
    <3>3. CASE a # cur[t]
      <4>1. links'[a] = links[a] /\ links[a] \in Conn
        BY <1>0, <2>1, <3>1, <3>3 DEF TypeOK
      <4>2. /\ Started(links[a]) /\ addr[links[a]] = a
            /\ reader[links[a]] = "wait" => waits[links[a]] = links[a]
        BY <2>3, <3>1, <4>1 DEF LinkInv
      <4>3. links[a] # conn[t]
        BY <2>2, <4>2 DEF Started
      <4>4. reader'[links[a]] = reader[links[a]]
        BY <1>0, <2>1, <4>1, <4>3 DEF TypeOK
      <4>5. QED
        BY <2>1, <4>1, <4>2, <4>4 DEF Started
    <3>4. QED
      BY <3>2, <3>3
  <2>5. ClosedInv'
    <3>1. pc'[t] # "quit"
      <4>1. CASE op[t] = "add"
        BY <1>0, <1>3, <4>1 DEF Insert, Goto, TypeOK
      <4>2. CASE op[t] # "add"
        <5>1. todo[t] \in SUBSET Addr /\ AddEach(t, todo[t])
          BY <1>0, <1>3, <4>2 DEF Insert, TypeOK
        <5>2. QED
          BY <1>0, <5>1, EachStep DEF Ended
      <4>3. QED
        BY <4>1, <4>2
    <3>2. QED
      BY <1>0, <2>3, <3>1 DEF ClosedInv, Frame
  <2>6. QED
    BY <2>4, <2>5
<1>4. QED
  BY <1>1, <1>2, <1>3

\* Remove closes the socket before it sends; who takes the Quit is the goroutine of
\* that link, or of one that it has replaced.
LEMMA RemoveLinks ==
    ASSUME IInv, LinkInv, ClosedInv, NEW t \in Task,
           LockToRemove(t) \/ Delete(t) \/ \E c \in Conn : TakeQuit(t, c)
    PROVE  LinkInv' /\ ClosedInv'
<1> USE DEF linkVars, taskVars, storeVars, lifeVars
<1>0. TypeOK /\ Frame(t)
  BY TaskFrame DEF IInv, TaskStep
<1>1. pc[t] \in {"quit", "delete"} => \A u \in Task : u # t => pc[u] \notin {"quit", "delete"}
  BY DEF IInv, LockInv
<1>2. CASE LockToRemove(t)
  <2>1. CASE links[cur[t]] = NoConn
    <3>1. Finish(t) /\ pc[t] = "unlink" /\ UNCHANGED <<links, addr, reader, waits, closed>>
      BY <1>2, <2>1 DEF LockToRemove
    <3>2. pc'[t] # "quit"
      BY <1>0, <3>1 DEF Finish, Goto, TypeOK
    <3>3. QED
      BY <1>0, <3>1, <3>2, NoLinkStep
  <2>2. CASE links[cur[t]] # NoConn
    <3>1. /\ pc[t] = "unlink" /\ closed' = closed \cup {links[cur[t]]}
          /\ UNCHANGED <<links, addr, reader, waits, cur>>
      BY <1>2, <2>2 DEF LockToRemove
    <3>2. LinkInv'
      <4>1. \A u \in Task : pc[u] = "delete" => pc'[u] = "delete" /\ cur'[u] = cur[u]
        BY <1>0, <3>1 DEF Frame
      <4>2. QED
        BY <3>1, <4>1 DEF LinkInv, Started
    <3>3. ClosedInv'
      BY <1>0, <3>1 DEF ClosedInv, Frame
    <3>4. QED
      BY <3>2, <3>3
  <2>3. QED
    BY <2>1, <2>2
<1>3. CASE Delete(t)
  <2>1. /\ pc[t] = "delete" /\ links' = [links EXCEPT ![cur[t]] = NoConn] /\ Finish(t)
        /\ UNCHANGED <<addr, reader, waits, closed>>
    BY <1>3 DEF Delete
  <2>2. pc'[t] # "quit"
    BY <1>0, <2>1 DEF Finish, Goto, TypeOK
  <2>3. \A a \in Addr : links'[a] # NoConn => a # cur[t] /\ links'[a] = links[a]
    BY <1>0, <2>1 DEF TypeOK
  <2>4. LinkInv'
    BY <1>1, <2>1, <2>3 DEF LinkInv, Started
  <2>5. ClosedInv'
    BY <1>0, <1>1, <2>1, <2>2 DEF ClosedInv, Frame
  <2>6. QED
    BY <2>4, <2>5
<1>4. ASSUME NEW c \in Conn, TakeQuit(t, c) PROVE LinkInv' /\ ClosedInv'
  <2>1. /\ pc[t] = "quit" /\ reader[c] = "wait" /\ waits[c] = links[cur[t]]
        /\ reader' = [reader EXCEPT ![c] = "free"] /\ addr' = [addr EXCEPT ![c] = NoAddr]
        /\ waits' = [d \in Conn |-> IF c \in {d, waits[d]} THEN NoConn ELSE waits[d]]
        /\ closed' = closed \ {c} /\ UNCHANGED <<links, cur>>
    BY <1>4 DEF TakeQuit
  <2>2. pc'[t] = "delete"
    BY <1>0, <1>4 DEF TakeQuit, Goto, TypeOK
  <2>3. cur[t] \in Addr /\ links[cur[t]] # NoConn
    BY <2>1 DEF IInv, CurInv, QuitInv
  <2>4. ASSUME NEW a \in Addr, links[a] # NoConn, a # cur[t]
        PROVE  /\ reader'[links[a]] \in {"loop", "wait", "read", "input"}
               /\ addr'[links[a]] = a
               /\ reader'[links[a]] = "wait" => waits'[links[a]] = links[a]
    <3>1. \A b \in {a, cur[t]} :
             /\ links[b] \in Conn /\ Started(links[b]) /\ addr[links[b]] = b
             /\ reader[links[b]] = "wait" => waits[links[b]] = links[b]
      BY <1>0, <1>1, <2>1, <2>3, <2>4 DEF LinkInv, TypeOK
    <3>2. links[a] # c
      BY <2>1, <2>4, <3>1
    <3>3. reader'[links[a]] = reader[links[a]] /\ addr'[links[a]] = addr[links[a]]
      BY <1>0, <2>1, <3>1, <3>2 DEF TypeOK
    <3>4. waits[links[a]] = links[a] => waits'[links[a]] = links[a]
      BY <2>1, <3>1, <3>2
    <3>5. QED
      BY <3>1, <3>3, <3>4 DEF Started
  <2>5. LinkInv'
    BY <2>1, <2>2, <2>4 DEF LinkInv, Started
  <2>6. ClosedInv'
    BY <1>0, <1>1, <2>1, <2>2 DEF ClosedInv, Frame
  <2>7. QED
    BY <2>5, <2>6
<1>5. QED
  BY <1>2, <1>3, <1>4

\* The store's steps, and Load, leave the links alone.
LEMMA StoreLinks ==
    ASSUME IInv, LinkInv, ClosedInv, NEW t \in Task,
           StoreStep(t) \/ (t = Boot /\ Load)
    PROVE  LinkInv' /\ ClosedInv'
<1> USE DEF linkVars, taskVars, storeVars, lifeVars
<1>0. TypeOK /\ Frame(t)
  BY TaskFrame DEF IInv, TaskStep, StoreStep
<1>1. pc[t] # "delete" /\ UNCHANGED <<links, addr, reader, waits, closed>>
  BY DEF StoreStep, GetList, SetBegin, OpenFails, SetEnd, SetFails, Forget, ForgetFails, Restore,
         Load
<1>2. ASSUME Finish(t) PROVE pc'[t] # "quit"
  BY <1>0, <1>2 DEF Finish, Goto, TypeOK
<1>3. ASSUME NEW list \in SUBSET Addr, AddEach(t, list) PROVE pc'[t] # "quit"
  BY <1>0, <1>3, EachStep DEF Ended
<1>4. pc'[t] # "quit"
  <2>1. CASE GetList(t)
    BY <1>0, <1>2, <2>1 DEF GetList, Goto, TypeOK
  <2>2. CASE SetBegin(t)
    BY <1>0, <2>2 DEF SetBegin, Goto, TypeOK
  <2>3. CASE SetEnd(t)
    BY <1>0, <1>2, <2>3 DEF SetEnd, Online, Goto, TypeOK
  <2>4. CASE Forget(t) \/ ForgetFails(t) \/ OpenFails(t) \/ SetFails(t)
    BY <1>0, <1>2, <2>4 DEF Forget, ForgetFails, OpenFails, SetFails, SetFailed, Goto, TypeOK
  <2>5. CASE Restore(t)
    BY <1>0, <1>3, <2>5 DEF Restore, TypeOK, Data
  <2>6. CASE t = Boot /\ Load
    <3>1. CmdLine \in SUBSET Addr
      BY Sentinels
    <3>2. QED
      BY <1>3, <2>6, <3>1 DEF Load
  <2>7. QED
    BY <2>1, <2>2, <2>3, <2>4, <2>5, <2>6 DEF StoreStep
<1>5. QED
  BY <1>0, <1>1, <1>4, NoLinkStep

\* A reader keeps its socket; the Quit that it waits for is its link's.
LEMMA ReaderLinks ==
    ASSUME IInv, LinkInv, ClosedInv, NEW c \in Conn,
           EnterSelect(c) \/ Tick(c) \/ ReadFails(c) \/ TakeInput(c) \/ ReadPacket(c)
    PROVE  LinkInv' /\ ClosedInv'
<1> USE DEF linkVars, taskVars, storeVars, lifeVars
<1>0. TypeOK
  BY DEF IInv
<1>1. /\ UNCHANGED <<links, addr, closed, pc, cur>>
      /\ \E where \in {"loop", "wait", "read", "input"} : reader' = [reader EXCEPT ![c] = where]
      /\ Started(c)
      /\ \/ reader'[c] = "wait" /\ waits' = [waits EXCEPT ![c] = links[addr[c]]]
         \/ reader'[c] # "wait" /\ waits' = waits
  BY <1>0 DEF EnterSelect, Tick, ReadFails, TakeInput, ReadPacket, Started, TypeOK
<1>2. ClosedInv'
  BY <1>1 DEF ClosedInv
<1>3. LinkInv'
  <2>1. SUFFICES ASSUME NEW a \in Addr, links[a] # NoConn,
                        ~\E t \in Task : pc[t] = "delete" /\ cur[t] = a
                 PROVE  /\ reader'[links[a]] \in {"loop", "wait", "read", "input"}
                        /\ addr'[links[a]] = a
                        /\ reader'[links[a]] = "wait" => waits'[links[a]] = links[a]
    BY <1>1 DEF LinkInv, Started
  <2>2. /\ links[a] \in Conn /\ Started(links[a]) /\ addr[links[a]] = a
        /\ reader[links[a]] = "wait" => waits[links[a]] = links[a]
    BY <1>0, <2>1 DEF LinkInv, TypeOK
  <2>3. QED
    BY <1>0, <1>1, <2>2 DEF TypeOK, Started
<1>4. QED
  BY <1>2, <1>3

\* Every step keeps a goroutine for each link, and the start over.
LEMMA StepWaits ==
    ASSUME IInv, WaitInv, [Next]_vars
    PROVE  WaitInv'
<1> USE Sentinels DEF linkVars, taskVars, storeVars, lifeVars
<1>0. LinkInv /\ ClosedInv /\ ServeInv /\ ServeInv'
  BY ServeOK DEF WaitInv
<1>1. ASSUME NEW t \in Task, TaskStep(t) PROVE LinkInv' /\ ClosedInv'
  BY <1>0, <1>1, AddLinks, RemoveLinks, StoreLinks DEF TaskStep, StoreStep
<1>2. ASSUME NEW r \in Req, Begin(r) PROVE LinkInv' /\ ClosedInv'
  <2>1. /\ Arrives(r) /\ UNCHANGED <<links, addr, reader, waits, closed>>
        /\ \E where \in {"dial", "get", "set", "forget"} : pc' = [pc EXCEPT ![r] = where]
        /\ \A u \in Task \ {r} : cur'[u] = cur[u]
    <3>1. ASSUME NEW a \in Addr, BeginAdd(r, a) \/ BeginDelete(r, a)
          PROVE  \A u \in Task \ {r} : cur'[u] = cur[u]
      BY <3>1 DEF BeginAdd, BeginDelete, IInv, TypeOK
    <3>2. QED
      BY <1>2, <3>1 DEF Begin, BeginAdd, BeginDelete, BeginLogin, BeginLogout, Goto
  <2>2. pc[r] = "idle" /\ pc'[r] # "quit" /\ \A u \in Task \ {r} : pc'[u] = pc[u]
    BY <2>1 DEF Arrives, IInv, TypeOK
  <2>3. \A u \in Task : pc[u] = "delete" => pc'[u] = "delete" /\ cur'[u] = cur[u]
    BY <2>1, <2>2
  <2>4. UNCHANGED <<links, addr, reader, waits, closed>>
    BY <2>1
  <2>5. LinkInv'
    BY <1>0, <2>3, <2>4 DEF LinkInv, Started
  <2>6. ClosedInv'
    <3>1. \A u \in Task : pc'[u] = "quit" => pc[u] = "quit" /\ cur'[u] = cur[u]
      BY <2>1, <2>2
    <3>2. QED
      BY <1>0, <2>4, <3>1 DEF ClosedInv
  <2>7. QED
    BY <2>5, <2>6
<1>3. ASSUME NEW why, Stop(why) PROVE LinkInv' /\ ClosedInv'
  BY <1>3 DEF Stop, LinkInv, ClosedInv
<1>4. ASSUME UNCHANGED <<linkVars, pc, cur>> PROVE LinkInv' /\ ClosedInv'
  BY <1>0, <1>4 DEF LinkInv, ClosedInv, Started
<1>5. LinkInv' /\ ClosedInv'
  <2>1. CASE Restart \/ UNCHANGED vars
    BY <1>4, <2>1 DEF Restart, vars
  <2>2. ASSUME NEW c \in Conn, ReaderStep(c) \/ ReadPacket(c) \/ MapRace(c)
        PROVE  LinkInv' /\ ClosedInv'
    BY <1>0, <1>3, <2>2, ReaderLinks DEF ReaderStep, NilLink, MapRace
  <2>3. QED
    BY <1>1, <1>2, <1>3, <2>1, <2>2 DEF Next, Crash
<1>6. QED
  BY <1>0, <1>5 DEF WaitInv

\* What Remove waits for, and who may wait.
THEOREM WaitInvariant == Spec => []WaitInv
<1>1. Init => WaitInv
  BY OutputsAssumption DEF Init, WaitInv, LinkInv, ClosedInv, ServeInv, Busy, Req, Task, Boot
<1>2. IInv /\ WaitInv /\ [Next]_vars => WaitInv'
  BY StepWaits
<1>3. QED
  BY <1>1, <1>2, InductiveInvariant, PTL DEF Spec

\* Remove (output.go:108-119) sends on Quit with the lock held: the goroutine of that
\* link can come to its select, so that the lock is free again.
THEOREM RemoveCanEnd == Spec => []QuitIsTaken
<1>1. IInv /\ AgreeInv /\ WaitInv => QuitIsTaken
  <2> SUFFICES ASSUME IInv, AgreeInv, WaitInv, NEW t \in Task, pc[t] = "quit"
               PROVE  \E c \in Conn :
                        /\ c = links[cur[t]]
                        /\ \/ reader[c] = "wait" /\ waits[c] = c
                           \/ reader[c] = "loop" /\ links[addr[c]] # NoConn
                           \/ reader[c] = "read" /\ c \in closed
                           \/ reader[c] = "input" /\ op[Boot] # "cmdline"
    BY DEF QuitIsTaken
  <2>1. cur[t] \in Addr /\ links[cur[t]] # NoConn /\ links[cur[t]] \in Conn
    BY DEF IInv, TypeOK, CurInv, QuitInv
  <2>2. \A u \in Task : pc[u] # "delete"
    BY DEF IInv, LockInv
  <2>3. /\ Started(links[cur[t]]) /\ addr[links[cur[t]]] = cur[t]
        /\ reader[links[cur[t]]] = "wait" => waits[links[cur[t]]] = links[cur[t]]
    BY <2>1, <2>2 DEF WaitInv, LinkInv
  <2>4. links[cur[t]] \in closed
    BY DEF WaitInv, ClosedInv
  <2>5. op[Boot] # "cmdline"
    <3>1. op[Boot] = "cmdline" => t # Boot /\ Busy(Boot)
      BY Sentinels DEF AgreeInv, OpInv, OpAt
    <3>2. t # Boot => t \in Req /\ Busy(t)
      BY OutputsAssumption DEF Task, Req, Boot, Busy
    <3>3. QED
      BY <3>1, <3>2 DEF WaitInv, ServeInv, Serving, Busy
  <2>6. QED
    BY <2>1, <2>3, <2>4, <2>5 DEF Started
<1>2. QED
  BY <1>1, InductiveInvariant, AgreementInvariant, WaitInvariant, PTL

-----------------------------------------------------------------------------
(* What a start brings back.                                               *)

\* Whoever is not the start does nothing before the start is over, and the start
\* neither writes the store nor clashes (fmulink.Serve, initTemplates).
LEMMA StartIsQuiet ==
    ASSUME IInv, OpInv, ServeInv, NEW t \in Task, TaskStep(t), ~Serving, pc[Boot] # "load"
    PROVE  t = Boot /\ UNCHANGED <<mem, file, sure, kept, clashed>>
<1> USE DEF storeVars, lifeVars
<1>1. Busy(t)
  BY TaskFrame
<1>2. t = Boot
  BY <1>1, OutputsAssumption DEF ServeInv, Task, Req, Boot
<1>3. op[Boot] \in {"cmdline", "stored"} /\ pc[Boot] \in {"list", "dial", "lock", "insert"}
  BY <1>1, <1>2, Sentinels DEF OpInv, OpAt, IInv, TypeOK
<1>4. DialFails(t) \/ Dial(t) \/ LockToAdd(t) \/ Insert(t) \/ Restore(t)
  BY <1>2, <1>3 DEF TaskStep, LockToRemove, Delete, TakeQuit, GetList, SetBegin, OpenFails, SetEnd,
                    SetFails, Forget, ForgetFails, Load
<1>5. QED
  BY <1>2, <1>3, <1>4 DEF DialFails, Dial, LockToAdd, Insert, Restore

\* One Set at a time writes the file: the step of a task changes that only by
\* SetBegin, which finds nobody writing; and only Load stays where the start begins.
LEMMA OneWriter ==
    ASSUME IInv, PastInv, NEW t \in Task, TaskStep(t)
    PROVE  /\ \A u, v \in Task : pc'[u] = "file" /\ pc'[v] = "file" => u = v
           /\ pc'[t] = "load" => Load
           /\ pc[t] # "file" /\ ~SetBegin(t) => (Writing' <=> Writing)
<1> USE DEF taskVars
<1>0. TypeOK /\ Frame(t)
  BY TaskFrame DEF IInv
<1>1. \A u, v \in Task : pc[u] = "file" /\ pc[v] = "file" => u = v
  BY DEF PastInv
<1>2. ASSUME Finish(t) PROVE pc'[t] \notin {"file", "load"}
  BY <1>0, <1>2 DEF Finish, Goto, TypeOK
<1>3. ASSUME NEW list \in SUBSET Addr, AddEach(t, list) PROVE pc'[t] \notin {"file", "load"}
  BY <1>0, <1>3, EachStep DEF Ended
<1>4. ASSUME ~SetBegin(t) PROVE pc'[t] # "file" /\ (pc'[t] = "load" => Load)
  <2>1. CASE DialFails(t) \/ Dial(t) \/ LockToAdd(t) \/ Insert(t)
    BY <1>0, <1>3, <2>1 DEF DialFails, Dial, LockToAdd, Insert, Goto, TypeOK
  <2>2. CASE LockToRemove(t) \/ Delete(t) \/ \E c \in Conn : TakeQuit(t, c)
    BY <1>0, <1>2, <2>2 DEF LockToRemove, Delete, TakeQuit, Goto, TypeOK
  <2>3. CASE GetList(t) \/ SetEnd(t) \/ Forget(t)
    BY <1>0, <1>2, <2>3 DEF GetList, SetEnd, Online, Forget, Goto, TypeOK
  <2>4. CASE OpenFails(t) \/ SetFails(t) \/ ForgetFails(t)
    BY <1>0, <1>2, <2>4 DEF OpenFails, SetFails, SetFailed, ForgetFails, Goto, TypeOK
  <2>5. CASE Restore(t)
    BY <1>0, <1>3, <2>5 DEF Restore, TypeOK, Data
  <2>6. CASE t = Boot /\ Load
    <3>1. CmdLine \in SUBSET Addr /\ pc[t] = "load"
      BY <2>6, Sentinels DEF Load
    <3>2. QED
      BY <1>3, <2>6, <3>1 DEF Load
  <2>7. QED
    BY <1>4, <2>1, <2>2, <2>3, <2>4, <2>5, <2>6 DEF TaskStep
<1>5. SetBegin(t) => ~Writing /\ pc'[t] = "file"
  BY <1>0 DEF SetBegin, Goto, TypeOK
<1>6. QED
  BY <1>0, <1>1, <1>4, <1>5 DEF Frame, Writing

\* The step of a task: Set and Del leave in the file what is in memory, or doubt.
LEMMA TaskPast ==
    ASSUME IInv, AgreeInv, ServeInv, PastInv, Up, NEW t \in Task, TaskStep(t)
    PROVE  PastInv'
<1> USE DEF linkVars, storeVars, lifeVars
<1>0. TypeOK /\ OpInv /\ Frame(t) /\ Busy(t)
  BY TaskFrame DEF IInv, AgreeInv
<1>1. \A u, v \in Task : pc'[u] = "file" /\ pc'[v] = "file" => u = v
  BY OneWriter
<1>2. CASE t = Boot /\ Load
  <2>1. pc[Boot] = "load" /\ kept' = kept /\ file' = file /\ clashed' = clashed
    BY <1>2 DEF Load
  <2>2. ~clashed
    BY <2>1 DEF PastInv, Serving
  <2>3. CASE readable /\ Fits(file)
    <3>1. sure' => sure /\ mem' = file
      BY <1>2, <2>3 DEF Load, Decoded
    <3>2. sure' => mem'.out = kept' /\ file'.out = mem'.out
      BY <2>1, <3>1 DEF PastInv
    <3>3. pc'[Boot] # "load"
      <4>1. AddEach(Boot, CmdLine) /\ CmdLine \in SUBSET Addr
        BY <1>2, <2>3, Sentinels DEF Load
      <4>2. QED
        BY <1>0, <1>2, <4>1, EachStep DEF Ended
    <3>4. QED
      BY <1>1, <2>1, <2>2, <3>2, <3>3 DEF PastInv
  <2>4. CASE ~(readable /\ Fits(file))
    BY <1>2, <2>1, <2>2, <2>4 DEF Load, taskVars, PastInv, Writing, Serving
  <2>5. QED
    BY <2>3, <2>4
<1>3. CASE ~(t = Boot /\ Load)
  <2>1. pc[Boot] # "load"
    <3>1. t # Boot => Serving
      BY <1>0, OutputsAssumption DEF ServeInv, Task, Req, Boot
    <3>2. t = Boot => pc[Boot] # "load"
      BY <1>3 DEF TaskStep, DialFails, Dial, LockToAdd, Insert, LockToRemove, Delete, TakeQuit,
                  GetList, SetBegin, OpenFails, SetEnd, SetFails, Forget, ForgetFails, Restore
    <3>3. QED
      BY <3>1, <3>2 DEF Serving
  <2>2. pc'[Boot] # "load"
    <3>1. t = Boot => pc'[t] # "load"
      BY <1>3, OneWriter
    <3>2. QED
      BY <1>0, <2>1, <3>1, Sentinels DEF Frame
  <2>3. sure' /\ ~Writing' => file'.out = mem'.out
    <3>1. CASE SetBegin(t)
      BY <1>0, <3>1 DEF SetBegin, Goto, Writing, TypeOK
    <3>2. CASE SetEnd(t) \/ Forget(t)
      BY <3>2 DEF SetEnd, Forget
    <3>3. CASE SetFails(t) \/ ForgetFails(t)
      BY <3>3 DEF SetFails, ForgetFails
    <3>4. CASE ~SetBegin(t) /\ ~SetEnd(t) /\ ~Forget(t) /\ ~SetFails(t) /\ ~ForgetFails(t)
      <4>1. UNCHANGED <<mem, file, sure>> /\ pc[t] # "file"
        BY <1>3, <3>4 DEF TaskStep, DialFails, Dial, LockToAdd, Insert, LockToRemove, Delete,
                          TakeQuit, GetList, OpenFails, Restore
      <4>2. Writing' <=> Writing
        BY <3>4, <4>1, OneWriter
      <4>3. QED
        BY <2>1, <4>1, <4>2 DEF PastInv
    <3>5. QED
      BY <3>1, <3>2, <3>3, <3>4
  <2>4. CASE Serving
    <3>1. t # Boot /\ Serving'
      BY <1>0, <2>4, Sentinels DEF Serving, Busy, Frame
    <3>2. QED
      BY <1>1, <2>2, <2>3, <3>1 DEF PastInv, Serving
  <2>5. CASE ~Serving
    <3>1. UNCHANGED <<mem, sure, kept, clashed>>
      BY <1>0, <2>1, <2>5, StartIsQuiet
    <3>2. QED
      BY <1>1, <2>1, <2>2, <2>3, <2>5, <3>1 DEF PastInv, Serving
  <2>6. QED
    BY <2>4, <2>5
<1>4. QED
  BY <1>2, <1>3

\* A stop at any step: what the file has is what the list showed, unless a Set was
\* writing it (store.go:105-139).
LEMMA StopPast ==
    ASSUME IInv, PastInv, NEW why \in {"off", "nil", "race"}, Stop(why)
    PROVE  PastInv'
<1>1. /\ pc'[Boot] = "load" /\ \A u \in Task : pc'[u] # "file"
      /\ mode' # "up"
  BY Sentinels DEF Stop
<1>2. ASSUME sure' PROVE file'.out = kept'
  <2>1. CASE pc[Boot] = "load"
    <3>1. ~Writing
      BY <2>1, OutputsAssumption DEF IInv, LifeInv, Writing, Task, Req, Boot
    <3>2. QED
      BY <1>2, <2>1, <3>1 DEF Stop, PastInv
  <2>2. CASE pc[Boot] # "load"
    BY <1>2, <2>2 DEF Stop, PastInv
  <2>3. QED
    BY <2>1, <2>2
<1>3. QED
  BY <1>1, <1>2 DEF PastInv, Up

\* Every step keeps what a start can rely on.
LEMMA StepPast ==
    ASSUME IInv, AgreeInv, ServeInv, PastInv, [Next]_vars
    PROVE  PastInv'
<1> USE Sentinels DEF linkVars, taskVars, storeVars, lifeVars, vars
<1>1. ASSUME Up, NEW t \in Task, TaskStep(t) PROVE PastInv'
  BY <1>1, TaskPast
<1>2. ASSUME NEW r \in Req, Begin(r) PROVE PastInv'
  <2>1. /\ UNCHANGED <<mem, file, kept, sure, mode>> /\ Serving
        /\ \E where \in {"dial", "get", "set", "forget"} : pc' = [pc EXCEPT ![r] = where]
    BY <1>2 DEF Begin, BeginAdd, BeginDelete, BeginLogin, BeginLogout, Arrives, Goto
  <2>2. pc \in [Task -> {"load", "idle", "dial", "lock", "insert", "get", "set", "file", "unlink",
                         "quit", "delete", "forget", "list", "done"}] /\ pc[r] = "idle"
    BY <1>2 DEF IInv, TypeOK, Begin, BeginAdd, BeginDelete, BeginLogin, BeginLogout, Arrives
  <2>3. /\ pc'[Boot] = "done" /\ \A u \in Task : pc'[u] = "file" <=> pc[u] = "file"
    BY <2>1, <2>2 DEF Serving
  <2>4. QED
    BY <2>1, <2>3 DEF PastInv, Serving, Writing
<1>3. CASE Crash \/ \E c \in Conn : NilLink(c) \/ MapRace(c)
  BY <1>3, StopPast DEF Crash, NilLink, MapRace
<1>4. ASSUME NEW c \in Conn,
             EnterSelect(c) \/ Tick(c) \/ ReadFails(c) \/ TakeInput(c) \/ ReadPacket(c)
      PROVE  PastInv'
  <2>1. UNCHANGED <<pc, mem, file, kept, sure, mode, clashed>>
    BY <1>4 DEF EnterSelect, Tick, ReadFails, TakeInput, ReadPacket
  <2>2. QED
    BY <2>1 DEF PastInv, Writing, Serving, Up
<1>5. CASE Restart
  BY <1>5 DEF Restart, PastInv, Writing, Serving
<1>6. CASE UNCHANGED vars
  BY <1>6 DEF PastInv, Writing, Serving, Up
<1>7. QED
  BY <1>1, <1>2, <1>3, <1>4, <1>5, <1>6 DEF Next, ReaderStep

\* The memory, the file and the list of the last stop, whatever requests, failures
\* and stops there were (store.go:105-186).
THEOREM PastInvariant == Spec => []PastInv
<1>1. Init => PastInv
  BY Sentinels DEF Init, PastInv, NoData, Serving
<1>2. IInv /\ AgreeInv /\ WaitInv /\ PastInv /\ [Next]_vars => PastInv'
  BY StepPast DEF WaitInv
<1>3. QED
  BY <1>1, <1>2, InductiveInvariant, AgreementInvariant, WaitInvariant, PTL DEF Spec

\* A start that ends has linked what the list showed when the program stopped, and
\* nothing else that is listed (store.go:156-186, statusServer.go:197).
THEOREM StartsRestore == Spec => StartRestores
<1>1. ASSUME IInv, AgreeInv, WaitInv, PastInv, [Next]_vars,
             pc[Boot] # "done", pc'[Boot] = "done", sure, NEW a \in Plain
      PROVE  a \in kept <=> links'[a] # NoConn
  <2> USE Sentinels
  <2>1. ServeInv /\ OpInv /\ ~Serving
    BY <1>1 DEF WaitInv, AgreeInv, Serving
  <2>2. PICK t \in Task : Up /\ TaskStep(t)
    <3>1. ASSUME NEW r \in Req, Begin(r) PROVE FALSE
      BY <2>1, <3>1 DEF Begin, BeginAdd, BeginDelete, BeginLogin, BeginLogout, Arrives
    <3>2. ASSUME NEW why, Stop(why) PROVE FALSE
      BY <1>1, <3>2 DEF Stop
    <3>3. pc' # pc
      BY <1>1
    <3>4. QED
      BY <1>1, <3>1, <3>2, <3>3
         DEF Next, Crash, ReaderStep, NilLink, MapRace, EnterSelect, Tick, ReadFails, TakeInput,
             ReadPacket, Restart, vars, taskVars
  <2>3. t = Boot
    <3>1. Busy(t)
      BY <1>1, <2>2, TaskFrame
    <3>2. QED
      BY <2>1, <3>1, OutputsAssumption DEF ServeInv, Task, Req, Boot
  <2>4. pc[Boot] # "load"
    <3>1. SUFFICES ASSUME pc[Boot] = "load" PROVE FALSE
      OBVIOUS
    <3>2. Load
      BY <2>2, <2>3, <3>1 DEF TaskStep, DialFails, Dial, LockToAdd, Insert, LockToRemove, Delete,
         TakeQuit, GetList, SetBegin, OpenFails, SetEnd, SetFails, Forget, ForgetFails, Restore
    <3>3. op[Boot] = "cmdline" /\ TypeOK
      BY <1>1, <2>1, <3>1 DEF OpInv, OpAt, IInv, TypeOK, Busy
    <3>4. CASE readable /\ Fits(file)
      <4>1. AddEach(Boot, CmdLine) /\ CmdLine \in SUBSET Addr
        BY <3>2, <3>4 DEF Load
      <4>2. QED
        BY <1>1, <3>3, <4>1, EachStep
    <3>5. CASE ~(readable /\ Fits(file))
      BY <1>1, <3>2, <3>5 DEF Load, taskVars
    <3>6. QED
      BY <3>4, <3>5
  <2>5. UNCHANGED <<mem, clashed>> /\ mem.out = kept /\ ~clashed
    BY <1>1, <2>1, <2>2, <2>4, StartIsQuiet DEF PastInv, Serving
  <2>6. OpInv' /\ SettledInv'
    BY <1>1, <2>5, StepAgrees DEF AgreeInv, Clean
  <2>7. ~Busy(Boot)'
    BY <1>1 DEF Busy
  <2>8. ASSUME NEW u \in Task PROVE ~OwesList(u)' /\ ~OwesLink(u)'
    <3>1. CASE u = Boot
      BY <1>1, <3>1 DEF OwesList, OwesLink
    <3>2. CASE u # Boot
      <4>1. pc'[u] = pc[u]
        BY <1>1, <2>2, <2>3, <3>2, TaskFrame DEF Frame
      <4>2. ~Busy(u)
        BY <2>1, <3>2, OutputsAssumption DEF ServeInv, Task, Req, Boot
      <4>3. QED
        BY <4>1, <4>2 DEF Busy, OwesList, OwesLink
    <3>3. QED
      BY <3>1, <3>2
  <2>9. QED
    BY <2>5, <2>6, <2>7, <2>8 DEF SettledInv
<1>2. IInv /\ AgreeInv /\ WaitInv /\ PastInv /\ [Next]_vars =>
        [(pc[Boot] # "done" /\ pc'[Boot] = "done" /\ sure) =>
            \A a \in Plain : a \in kept <=> links'[a] # NoConn]_vars
  BY <1>1
<1>3. QED
  BY <1>2, InductiveInvariant, AgreementInvariant, WaitInvariant, PastInvariant, PTL
     DEF Spec, StartRestores

=============================================================================
