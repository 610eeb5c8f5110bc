------------------------------ MODULE UdpOutputs ------------------------------
(***************************************************************************)
(* The UDP outputs: fmulink/output.go keeps a link and a goroutine for     *)
(* each ground station, statusServer.go serves the requests that add and   *)
(* remove them, and cloudlink/store.go keeps the list of them in a file    *)
(* from which the links are made again after a restart or a login.         *)
(*                                                                         *)
(* Goroutines: one per HTTP request, the start-up, one reader per socket.  *)
(* `links` is guarded by the manager's mutex, but the readers look their   *)
(* own link up without it, each time they enter their select.  The FMU     *)
(* loop's Send reaches every link under the read lock and changes nothing, *)
(* so it is no step here: it goes on whenever `lock` is Free.              *)
(***************************************************************************)
EXTENDS Integers, FiniteSets

CONSTANTS
    Addr,               \* addresses of outputs
    BadAddr,            \* those that net.Dial refuses
    CmdLine,            \* the outputs of the command line
    Dashed,             \* those whose text has the separator "-" in it
    Fragment,           \* what Load leaves of such a text: it has no port
    Room,               \* bound: entries whose text is within Load's 512 bytes
    Conn,               \* sockets; when none is left, Dial fails too
    NoConn, NoAddr,
    MaxReq,             \* bound: HTTP requests, in the order they come
    MaxStop             \* bound: how often the program stops

Req == 1..MaxReq        \* each has a goroutine of its own
Boot == 0               \* the goroutine that starts the program
Task == 0..MaxReq
Free == -1

ASSUME OutputsAssumption ==
    /\ BadAddr \subseteq Addr /\ CmdLine \subseteq Addr
    /\ Dashed \subseteq Addr /\ Fragment \in BadAddr \ Dashed /\ Room \in Nat
    /\ NoConn \notin Conn /\ NoAddr \notin Addr
    /\ MaxReq \in Nat /\ MaxStop \in Nat

VARIABLES
    links,              \* OutputManager.links: the socket of each address
    lock,               \* OutputManager.mut: Free, or the task that has it for writing
    addr, reader,       \* each socket's address, and where its goroutine is
    waits,              \* the link whose Quit that goroutine's select waits on
    closed,             \* sockets that Remove has closed
    pc, op, cur, todo, conn, got, \* each task: its request, what it has read
    mem, file, readable, \* Store.data, and what Load would find in the file
    mode,               \* "up", or why the program is down
    stops,              \* how often it has stopped
    twice, clashed,     \* history, see below
    kept, sure          \* history: the list when the program stopped, and whether
                        \* every write of the file has come to its end since the last Set

Data == [out : SUBSET Addr, user : BOOLEAN]
NoData == [out |-> {}, user |-> FALSE]

linkVars == <<links, lock, addr, reader, waits, closed>>
taskVars == <<pc, op, cur, todo, conn, got>>
storeVars == <<mem, file, readable>>
lifeVars == <<mode, stops, kept, sure>>
vars == <<linkVars, taskVars, storeVars, lifeVars, twice, clashed>>

Serving == pc[Boot] = "done"
Busy(t) == pc[t] \notin {"idle", "done"}
FreeConns == {c \in Conn : reader[c] = "free"}
\* Dial fails on such an address, and when there are no sockets left.
Refused(a) == a \in BadAddr \/ FreeConns = {}
\* Load reads 512 bytes, once: it finds no whole block in a longer text.
Fits(data) == Cardinality(data.out) + (IF data.user THEN 1 ELSE 0) <= Room
\* Load splits each entry at "-" and takes the second piece: the list ends in the
\* first name with a "-".  The order of the list is left out: what comes before
\* that name is any part of the rest.
Decoded(data) ==
    IF data.out \cap Dashed = {} THEN {data}
    ELSE [out : {before \cup {Fragment} : before \in SUBSET (data.out \ Dashed)},
          user : {data.user}]
\* Store.Set holds the store's mutex while it writes the file.
Writing == \E t \in Task : pc[t] = "file"
\* the map is being written
MapWrite == \E t \in Task : pc[t] \in {"insert", "delete"}

-----------------------------------------------------------------------------
(* Nothing is running yet; the file is what an earlier life left.          *)

Init ==
    /\ links = [a \in Addr |-> NoConn] /\ lock = Free
    /\ addr = [c \in Conn |-> NoAddr] /\ reader = [c \in Conn |-> "free"]
    /\ waits = [c \in Conn |-> NoConn] /\ closed = {}
    /\ pc = [t \in Task |-> IF t = Boot THEN "load" ELSE "idle"]
    /\ op = [t \in Task |-> IF t = Boot THEN "cmdline" ELSE "none"]
    /\ cur = [t \in Task |-> NoAddr] /\ todo = [t \in Task |-> {}]
    /\ conn = [t \in Task |-> NoConn] /\ got = [t \in Task |-> {}]
    /\ mem = NoData
    /\ mode = "up"
    /\ twice = FALSE /\ clashed = FALSE
    /\ file = NoData /\ readable = TRUE
    /\ stops = 0
    /\ kept = {} /\ sure = TRUE

-----------------------------------------------------------------------------
\* Set overwrites the old text in place: when its writing is cut short the file
\* has the old text, the new one, a mix of both in which keys may be lost, or no
\* whole PEM block.
CutShort ==
    \/ /\ file' \in [out : {file.out, mem.out, {}}, user : {file.user, mem.user, FALSE}]
       /\ readable' = TRUE
    \/ /\ file' = NoData
       /\ readable' = FALSE

\* The program stops and its memory is lost.
Stop(why) ==
    /\ mode' = why
    /\ IF Writing THEN CutShort ELSE UNCHANGED <<file, readable>>
    /\ IF pc[Boot] = "load" THEN UNCHANGED <<kept, sure>>
       ELSE kept' = mem.out /\ sure' = (sure /\ ~Writing)
    /\ links' = [a \in Addr |-> NoConn] /\ lock' = Free
    /\ addr' = [c \in Conn |-> NoAddr] /\ reader' = [c \in Conn |-> "free"]
    /\ waits' = [c \in Conn |-> NoConn] /\ closed' = {}
    /\ pc' = [t \in Task |-> IF t = Boot THEN "load" ELSE IF pc[t] = "idle" THEN "idle" ELSE "done"]
    /\ op' = [t \in Task |-> IF t = Boot THEN "cmdline" ELSE "none"]
    /\ cur' = [t \in Task |-> NoAddr] /\ todo' = [t \in Task |-> {}]
    /\ conn' = [t \in Task |-> NoConn] /\ got' = [t \in Task |-> {}]
    /\ mem' = NoData
    /\ UNCHANGED <<stops, twice, clashed>>

\* A signal, or os.Exit in the wifi set-up.
Crash == stops < MaxStop /\ Stop("off")

-----------------------------------------------------------------------------
(* What a task does next: `Goto` is for a step that only moves it on.      *)

Goto(t, where) == pc' = [pc EXCEPT ![t] = where]

\* The task has no address left to add, or no more to do.
Finish(t) ==
    /\ IF t = Boot /\ op[t] = "cmdline"
       THEN Goto(t, "list") /\ op' = [op EXCEPT ![t] = "stored"]
       ELSE Goto(t, "done") /\ op' = [op EXCEPT ![t] = "none"]
    /\ cur' = [cur EXCEPT ![t] = NoAddr]
    /\ todo' = [todo EXCEPT ![t] = {}]
    /\ conn' = [conn EXCEPT ![t] = NoConn]
    /\ got' = [got EXCEPT ![t] = {}]

\* Add the addresses of a list, one after the other.
AddEach(t, list) ==
    IF list = {} THEN Finish(t)
    ELSE \E a \in list :
            /\ cur' = [cur EXCEPT ![t] = a]
            /\ todo' = [todo EXCEPT ![t] = list \ {a}]
            /\ conn' = [conn EXCEPT ![t] = NoConn]
            /\ Goto(t, "dial")
            /\ UNCHANGED <<op, got>>

-----------------------------------------------------------------------------
(* Requests.  `clashed` becomes TRUE when two of them may undo each        *)
(* other's work, or when the list is wiped or an address refused.          *)

Arrives(r) ==
    /\ Serving /\ pc[r] = "idle"
    /\ \A q \in Req : q < r => pc[q] # "idle"

Overlaps(a) ==
    \E t \in Task : Busy(t) /\ (cur[t] = a \/ op[t] \in {"login", "logout"})

BeginAdd(r, a) ==
    /\ Arrives(r)
    /\ op' = [op EXCEPT ![r] = "add"]
    /\ cur' = [cur EXCEPT ![r] = a]
    /\ Goto(r, "dial")
    /\ clashed' = (clashed \/ Overlaps(a))
    /\ UNCHANGED <<linkVars, todo, conn, got, storeVars, lifeVars, twice>>

BeginDelete(r, a) ==
    /\ Arrives(r)
    /\ op' = [op EXCEPT ![r] = "delete"]
    /\ cur' = [cur EXCEPT ![r] = a]
    /\ Goto(r, "get")
    /\ clashed' = (clashed \/ Overlaps(a))
    /\ UNCHANGED <<linkVars, todo, conn, got, storeVars, lifeVars, twice>>

\* setupResponse: refused ("Already activated.") while there is a user.
BeginLogin(r) ==
    /\ Arrives(r) /\ ~mem.user
    /\ op' = [op EXCEPT ![r] = "login"]
    /\ Goto(r, "set")
    /\ clashed' = (clashed \/ \E q \in Req : Busy(q))
    /\ UNCHANGED <<linkVars, cur, todo, conn, got, storeVars, lifeVars, twice>>

BeginLogout(r) ==
    /\ Arrives(r)
    /\ op' = [op EXCEPT ![r] = "logout"]
    /\ Goto(r, "forget")
    /\ clashed' = (clashed \/ \E q \in Req : Busy(q))
    /\ UNCHANGED <<linkVars, cur, todo, conn, got, storeVars, lifeVars, twice>>

-----------------------------------------------------------------------------
(* OutputManager.Add                                                       *)

Dial(t) ==
    /\ pc[t] = "dial" /\ ~Refused(cur[t])
    /\ \E c \in FreeConns :
          /\ reader' = [reader EXCEPT ![c] = "new"]
          /\ addr' = [addr EXCEPT ![c] = cur[t]]
          /\ conn' = [conn EXCEPT ![t] = c]
    /\ Goto(t, "lock")
    /\ UNCHANGED <<links, lock, waits, closed, op, cur, todo, got, storeVars,
                   lifeVars, twice, clashed>>

\* A request goes on to store the address all the same; the lists of the
\* command line and of the store are tried again, each second, for ever.
DialFails(t) ==
    /\ pc[t] = "dial" /\ Refused(cur[t])
    /\ op[t] = "add"
    /\ Goto(t, "get")
    /\ clashed' = (clashed \/ cur[t] \notin BadAddr)
    /\ UNCHANGED <<linkVars, op, cur, todo, conn, got, storeVars, lifeVars, twice>>

LockToAdd(t) ==
    /\ pc[t] = "lock" /\ lock = Free
    /\ lock' = t
    /\ Goto(t, "insert")
    /\ UNCHANGED <<links, addr, reader, waits, closed, op, cur, todo, conn, got, storeVars,
                   lifeVars, twice, clashed>>

\* A link that was there is replaced: its socket stays open, and its
\* goroutine goes on.  `twice` remembers it.
Insert(t) ==
    /\ pc[t] = "insert"
    /\ links' = [links EXCEPT ![cur[t]] = conn[t]]
    /\ lock' = Free
    /\ reader' = [reader EXCEPT ![conn[t]] = "loop"]
    /\ twice' = (twice \/ links[cur[t]] # NoConn)
    /\ IF op[t] = "add"
       THEN Goto(t, "get") /\ UNCHANGED <<op, cur, todo, conn, got>>
       ELSE AddEach(t, todo[t])
    /\ UNCHANGED <<addr, waits, closed, storeVars, lifeVars, clashed>>

-----------------------------------------------------------------------------
(* OutputManager.Remove                                                    *)

\* MUTANT: Remove neither looks whether there is a link nor waits for its
\* goroutine to take the Quit.
LockAndDelete(t) ==
    /\ pc[t] = "unlink" /\ lock = Free
    /\ lock' = t
    /\ closed' = closed \cup {links[cur[t]]}
    /\ Goto(t, "delete")
    /\ UNCHANGED <<links, addr, reader, waits, op, cur, todo, conn, got, storeVars, lifeVars,
                   twice, clashed>>

\* MUTANT: Remove does not close the socket before it sends on Quit.
LockWithoutClose(t) ==
    /\ pc[t] = "unlink" /\ lock = Free
    /\ IF links[cur[t]] = NoConn
       THEN Finish(t) /\ UNCHANGED lock
       ELSE /\ lock' = t
            /\ Goto(t, "quit")
            /\ UNCHANGED <<op, cur, todo, conn, got>>
    /\ UNCHANGED <<links, addr, reader, waits, closed, storeVars, lifeVars, twice, clashed>>

LockToRemove(t) ==
    /\ pc[t] = "unlink" /\ lock = Free
    /\ IF links[cur[t]] = NoConn
       THEN Finish(t) /\ UNCHANGED <<lock, closed>>
       ELSE /\ lock' = t
            /\ closed' = closed \cup {links[cur[t]]}
            /\ Goto(t, "quit")
            /\ UNCHANGED <<op, cur, todo, conn, got>>
    /\ UNCHANGED <<links, addr, reader, waits, storeVars, lifeVars, twice, clashed>>

\* The goroutine that takes the Quit ends; its socket's number is used again, and
\* nobody will send on its own Quit, if that is another one.
TakeQuit(t, c) ==
    /\ pc[t] = "quit"
    /\ reader[c] = "wait" /\ waits[c] = links[cur[t]]
    /\ reader' = [reader EXCEPT ![c] = "free"]
    /\ addr' = [addr EXCEPT ![c] = NoAddr]
    /\ waits' = [d \in Conn |-> IF c \in {d, waits[d]} THEN NoConn ELSE waits[d]]
    /\ closed' = closed \ {c}
    /\ Goto(t, "delete")
    /\ UNCHANGED <<links, lock, op, cur, todo, conn, got, storeVars, lifeVars, twice,
                   clashed>>

Delete(t) ==
    /\ pc[t] = "delete"
    /\ links' = [links EXCEPT ![cur[t]] = NoConn]
    /\ lock' = Free
    /\ Finish(t)
    /\ UNCHANGED <<addr, reader, waits, closed, storeVars, lifeVars, twice, clashed>>

-----------------------------------------------------------------------------
(* The reader of a socket: each 100 ms it reads, unless its Quit comes.    *)

\* o.links[addr].Quit, evaluated without the lock: nil when there is no link.
EnterSelect(c) ==
    /\ reader[c] = "loop" /\ links[addr[c]] # NoConn
    /\ waits' = [waits EXCEPT ![c] = links[addr[c]]]
    /\ reader' = [reader EXCEPT ![c] = "wait"]
    /\ UNCHANGED <<links, lock, addr, closed, taskVars, storeVars, lifeVars, twice, clashed>>

NilLink(c) == reader[c] = "loop" /\ links[addr[c]] = NoConn /\ Stop("nil")

\* "concurrent map read and map write": Go ends the program when it sees one.
MapRace(c) == reader[c] = "loop" /\ MapWrite /\ Stop("race")

Tick(c) ==
    /\ reader[c] = "wait"
    /\ reader' = [reader EXCEPT ![c] = "read"]
    /\ UNCHANGED <<links, lock, addr, waits, closed, taskVars, storeVars, lifeVars,
                   twice, clashed>>

\* Read waits for a datagram, without a limit.
ReadPacket(c) ==
    /\ reader[c] = "read" /\ c \notin closed
    /\ reader' = [reader EXCEPT ![c] = "input"]
    /\ UNCHANGED <<links, lock, addr, waits, closed, taskVars, storeVars, lifeVars,
                   twice, clashed>>

\* It fails on a closed socket.
ReadFails(c) ==
    /\ reader[c] = "read" /\ c \in closed
    /\ reader' = [reader EXCEPT ![c] = "loop"]
    /\ UNCHANGED <<links, lock, addr, waits, closed, taskVars, storeVars, lifeVars,
                   twice, clashed>>

\* Input is unbuffered; a goroutine of the FMU link takes from it.
TakeInput(c) ==
    /\ reader[c] = "input" /\ op[Boot] # "cmdline"
    /\ reader' = [reader EXCEPT ![c] = "loop"]
    /\ UNCHANGED <<links, lock, addr, waits, closed, taskVars, storeVars, lifeVars,
                   twice, clashed>>

-----------------------------------------------------------------------------
(* Store: SetOutput and DelOutput read the list, change it and set it, in  *)
(* two critical sections; Set writes the file under the mutex.             *)

GetList(t) ==
    /\ pc[t] = "get" /\ ~Writing
    /\ \/ /\ op[t] = "add" /\ cur[t] \in mem.out
          /\ Finish(t)
       \/ /\ op[t] = "delete" /\ mem.out = {}
          /\ Goto(t, "unlink") /\ UNCHANGED <<op, cur, todo, conn, got>>
       \/ /\ IF op[t] = "add" THEN cur[t] \notin mem.out ELSE mem.out # {}
          /\ got' = [got EXCEPT ![t] = mem.out]
          /\ Goto(t, "set") /\ UNCHANGED <<op, cur, todo, conn>>
    /\ UNCHANGED <<linkVars, storeVars, lifeVars, twice, clashed>>

\* MUTANT: DelOutput empties the list instead of taking one name out.
EmptyList(t) == IF op[t] = "add" THEN got[t] \cup {cur[t]} ELSE {}

NewList(t) ==
    IF op[t] = "add" THEN got[t] \cup {cur[t]} ELSE got[t] \ {cur[t]}

\* `clashed` when the list has changed since it was read.
SetBegin(t) ==
    /\ pc[t] = "set" /\ ~Writing
    /\ IF op[t] = "login"
       THEN mem' = [mem EXCEPT !.user = TRUE] /\ UNCHANGED clashed
       ELSE /\ mem' = [mem EXCEPT !.out = NewList(t)]
            /\ clashed' = (clashed \/ got[t] # mem.out)
    /\ Goto(t, "file")
    /\ UNCHANGED <<linkVars, op, cur, todo, conn, got, file, readable, lifeVars, twice>>

\* setupResponse then waits up to five seconds for a session.
Online(t) == Goto(t, "list") \/ Goto(t, "forget")

SetEnd(t) ==
    /\ pc[t] = "file"
    /\ file' = mem /\ readable' = TRUE /\ sure' = TRUE
    /\ CASE op[t] = "add" -> Finish(t)
         [] op[t] = "delete" -> Goto(t, "unlink") /\ UNCHANGED <<op, cur, todo, conn, got>>
         [] OTHER -> Online(t) /\ UNCHANGED <<op, cur, todo, conn, got>>
    /\ UNCHANGED <<linkVars, mem, mode, stops, kept, twice, clashed>>

\* outResponse does not look at Set's error; a login ends with it.
SetFailed(t) ==
    IF op[t] = "delete"
    THEN Goto(t, "unlink") /\ UNCHANGED <<op, cur, todo, conn, got>>
    ELSE Finish(t)

\* The file can be neither opened nor created: nothing is set.
OpenFails(t) ==
    /\ pc[t] = "set" /\ ~Writing
    /\ SetFailed(t)
    /\ clashed' = TRUE
    /\ UNCHANGED <<linkVars, storeVars, lifeVars, twice>>

\* A write fails: Set takes the key out of the map, with the value it had before.
\* A login sets two keys, of which one may stay.
SetFails(t) ==
    /\ pc[t] = "file"
    /\ IF op[t] = "login"
       THEN \E user \in BOOLEAN : mem' = [mem EXCEPT !.user = user]
       ELSE mem' = [mem EXCEPT !.out = {}]
    /\ CutShort
    /\ sure' = FALSE /\ clashed' = TRUE
    /\ SetFailed(t)
    /\ UNCHANGED <<linkVars, mode, stops, kept, twice>>

\* MUTANT: Del empties the map and not the file.
ForgetMemory(t) ==
    /\ pc[t] = "forget" /\ ~Writing
    /\ mem' = NoData /\ sure' = TRUE
    /\ clashed' = (clashed \/ mem.out # {})
    /\ IF op[t] = "logout"
       THEN Goto(t, "list") /\ UNCHANGED <<op, cur, todo, conn, got>>
       ELSE Finish(t)
    /\ UNCHANGED <<linkVars, file, readable, mode, stops, kept, twice>>

\* Del empties the store, outputs included; the links stay.
Forget(t) ==
    /\ pc[t] = "forget" /\ ~Writing
    /\ mem' = NoData /\ file' = NoData /\ readable' = TRUE /\ sure' = TRUE
    /\ clashed' = (clashed \/ mem.out # {})
    /\ IF op[t] = "logout"
       THEN Goto(t, "list") /\ UNCHANGED <<op, cur, todo, conn, got>>
       ELSE Finish(t)
    /\ UNCHANGED <<linkVars, mode, stops, kept, twice>>

\* The file cannot be created anew: it stays, and the next start finds it.
ForgetFails(t) ==
    /\ pc[t] = "forget" /\ ~Writing
    /\ mem' = NoData /\ sure' = FALSE
    /\ clashed' = (clashed \/ mem.out # {})
    /\ Finish(t)
    /\ UNCHANGED <<linkVars, file, readable, mode, stops, kept, twice>>

\* initTemplates adds every output of the store (again).
Restore(t) ==
    /\ pc[t] = "list" /\ ~Writing
    /\ AddEach(t, mem.out)
    /\ UNCHANGED <<linkVars, storeVars, lifeVars, twice, clashed>>

-----------------------------------------------------------------------------
(* Start-up: the file, then the outputs of the command line (fmulink.Serve)*)
(* and of the store (initTemplates), then the requests.                    *)

\* Without a whole PEM block in what it has read, Load takes a field of nil.
Load ==
    /\ pc[Boot] = "load"
    /\ IF readable /\ Fits(file)
       THEN /\ mem' \in Decoded(file)
            /\ sure' = (sure /\ file.out \cap Dashed = {})
            /\ AddEach(Boot, CmdLine)
            /\ UNCHANGED mode
       ELSE mode' = "unreadable" /\ UNCHANGED <<mem, sure, taskVars>>
    /\ UNCHANGED <<linkVars, file, readable, stops, kept, twice, clashed>>

\* The program is started again.
Restart ==
    /\ mode \in {"off", "nil", "race"}
    /\ stops < MaxStop /\ stops' = stops + 1
    /\ mode' = "up"
    /\ twice' = FALSE /\ clashed' = FALSE
    /\ UNCHANGED <<linkVars, taskVars, storeVars, kept, sure>>

-----------------------------------------------------------------------------
\* What a task does once it has begun; all of it but Begin is scheduled.
TaskStep(t) ==
    \/ DialFails(t) \/ Dial(t) \/ LockToAdd(t) \/ Insert(t)
    \/ LockToRemove(t) \/ Delete(t)
    \/ \E c \in Conn : TakeQuit(t, c)
    \/ GetList(t) \/ SetBegin(t) \/ OpenFails(t) \/ SetEnd(t) \/ SetFails(t)
    \/ Forget(t) \/ ForgetFails(t) \/ Restore(t)
    \/ t = Boot /\ Load

ReaderStep(c) == EnterSelect(c) \/ NilLink(c) \/ Tick(c) \/ ReadFails(c) \/ TakeInput(c)

Begin(r) ==
    \/ \E a \in Addr : BeginAdd(r, a) \/ BeginDelete(r, a)
    \/ BeginLogin(r) \/ BeginLogout(r)

Up == mode = "up"

Next ==
    \/ /\ Up
       /\ \/ \E r \in Req : Begin(r)
          \/ \E t \in Task : TaskStep(t)
          \/ \E c \in Conn : ReaderStep(c) \/ ReadPacket(c) \/ MapRace(c)
          \/ Crash
    \/ Restart

\* Tasks and readers are scheduled.  Go's mutex and its
\* select are fair: a task that waits for the lock or in Quit gets its turn.
Fairness ==
    /\ \A t \in Task : SF_vars(Up /\ TaskStep(t))
    /\ \A c \in Conn : WF_vars(Up /\ ReaderStep(c))

Spec == Init /\ [][Next]_vars /\ Fairness

-----------------------------------------------------------------------------
TypeOK ==
    /\ links \in [Addr -> Conn \cup {NoConn}]
    /\ lock \in Task \cup {Free}
    /\ addr \in [Conn -> Addr \cup {NoAddr}]
    /\ reader \in [Conn -> {"free", "new", "loop", "wait", "read", "input"}]
    /\ waits \in [Conn -> Conn \cup {NoConn}]
    /\ closed \subseteq Conn
    /\ pc \in [Task -> {"load", "idle", "dial", "lock", "insert", "get", "set", "file", "unlink",
                        "quit", "delete", "forget", "list", "done"}]
    /\ op \in [Task -> {"none", "add", "delete", "login", "logout", "cmdline", "stored"}]
    /\ cur \in [Task -> Addr \cup {NoAddr}]
    /\ todo \in [Task -> SUBSET Addr]
    /\ conn \in [Task -> Conn \cup {NoConn}]
    /\ got \in [Task -> SUBSET Addr]
    /\ mem \in Data /\ file \in Data /\ readable \in BOOLEAN
    /\ mode \in {"up", "off", "nil", "race", "unreadable"}
    /\ stops \in 0..MaxStop
    /\ twice \in BOOLEAN /\ clashed \in BOOLEAN
    /\ kept \subseteq Addr /\ sure \in BOOLEAN

\* The unlocked look-up of the readers (output.go:99) finds no link, which
\* ends the program, only when an address had been added while it was linked:
\* otherwise Remove's Quit reaches the goroutine before the link goes.
NilOnlyAfterTwice == mode = "nil" => twice

\* Every socket whose goroutine runs can be reached by Remove: none is left
\* over by a Remove, an Add of another request or a login that ran meanwhile,
\* unless an address was added while it was linked.
OpenIsLinked ==
    ~twice => \A c \in Conn :
        reader[c] \in {"loop", "wait", "read", "input"} => links[addr[c]] = c

\* When nothing is in progress, what runs is what the list shows, for any
\* requests whose addresses differ and whose store updates did not cross.
\* The outputs of the command line are not listed and a bad address is
\* listed without a link.
ListAgrees ==
    (Up /\ Serving /\ ~clashed /\ \A r \in Req : ~Busy(r)) =>
        \A a \in Addr \ (BadAddr \cup CmdLine) : a \in mem.out <=> links[a] # NoConn

(* The inductive invariant behind the first two of these.                  *)
Started(c) == reader[c] \in {"loop", "wait", "read", "input"}

LockInv == \A t \in Task : pc[t] \in {"insert", "quit", "delete"} => lock = t

\* A socket that Add has opened belongs to its task until it is in the map.
DialInv ==
    \A t \in Task : pc[t] \in {"lock", "insert"} =>
        /\ conn[t] \in Conn /\ reader[conn[t]] = "new" /\ addr[conn[t]] = cur[t]
        /\ \A u \in Task : (pc[u] \in {"lock", "insert"} /\ conn[u] = conn[t]) => u = t

CurInv ==
    \A t \in Task :
        (pc[t] \in {"dial", "lock", "insert", "unlink", "quit", "delete"} \/ op[t] \in {"add", "delete"})
            => cur[t] \in Addr

\* Between the Quit and the delete the link is there and its goroutine is gone.
QuitInv ==
    \A t \in Task :
        /\ pc[t] \in {"quit", "delete"} => links[cur[t]] # NoConn
        /\ pc[t] = "delete" /\ ~twice => reader[links[cur[t]]] \in {"free", "new"}

ReaderInv ==
    \A c \in Conn : Started(c) =>
        /\ addr[c] \in Addr
        /\ ~twice => links[addr[c]] = c /\ (reader[c] = "wait" => waits[c] = c)

\* Before Load nothing runs; whoever is down is before Load.
LifeInv ==
    /\ mode # "up" => pc[Boot] = "load"
    /\ pc[Boot] = "load" => /\ \A r \in Req : pc[r] \in {"idle", "done"}
                           /\ \A c \in Conn : reader[c] = "free"

IInv ==
    /\ TypeOK /\ LockInv /\ DialInv /\ CurInv /\ QuitInv /\ ReaderInv /\ LifeInv
    /\ NilOnlyAfterTwice

(* The inductive invariant behind ListAgrees, beside the one above.        *)

\* Which operation is where; Boot's are not the requests'.
OpAt(t) ==
    /\ Busy(t) <=> op[t] # "none"
    /\ op[t] \in {"cmdline", "stored"} => t = Boot
    /\ op[t] \in {"add", "delete", "login", "logout"} => t # Boot
    /\ op[t] = "add" => pc[t] \in {"dial", "lock", "insert", "get", "set", "file"}
    /\ op[t] = "delete" => pc[t] \in {"get", "set", "file", "unlink", "quit", "delete"}
    /\ op[t] = "login" => pc[t] \in {"set", "file", "forget", "list", "dial", "lock", "insert"}
    /\ op[t] = "logout" => pc[t] \in {"forget", "list", "dial", "lock", "insert"}
    /\ op[t] = "cmdline" => pc[t] \in {"load", "dial", "lock", "insert"}
    /\ op[t] = "stored" => pc[t] \in {"list", "dial", "lock", "insert"}

OpInv ==
    /\ \A t \in Task : OpAt(t)
    /\ pc[Boot] = "load" => \A a \in Addr : links[a] = NoConn

\* Unless requests clashed, whoever is not alone adds or deletes an address of its own.
AloneInv ==
    \A t, u \in Task : (t # u /\ Busy(t) /\ Busy(u)) =>
        /\ op[t] \in {"add", "delete"} /\ op[u] \in {"add", "delete"}
        /\ cur[t] # cur[u]

\* An output that is listed when it is linked.
Plain == Addr \ (BadAddr \cup CmdLine)

Adding(t) == pc[t] \in {"dial", "lock", "insert"}

\* The task has changed the links, or the list, and not yet the other.
OwesList(t) == op[t] = "add" /\ pc[t] \in {"get", "set"}
OwesLink(t) == op[t] = "delete" /\ pc[t] \in {"file", "unlink", "quit", "delete"}

DebtInv ==
    \A t \in Task :
        /\ OwesList(t) /\ cur[t] \in Plain => links[cur[t]] # NoConn
        /\ OwesLink(t) => cur[t] \notin mem.out
        /\ op[t] \in {"login", "logout"} /\ Adding(t) => {cur[t]} \cup todo[t] \subseteq mem.out

\* The start links the command line's addresses and then those of the list.
BootInv ==
    /\ op[Boot] = "cmdline" /\ Adding(Boot) => {cur[Boot]} \cup todo[Boot] \subseteq CmdLine
    /\ op[Boot] = "cmdline" \/ pc[Boot] = "list" => \A a \in Plain : links[a] = NoConn
    /\ op[Boot] = "stored" /\ Adding(Boot) =>
          \A a \in Plain :
              a \in mem.out <=> (links[a] # NoConn \/ a \in {cur[Boot]} \cup todo[Boot])

SettledInv ==
    ~Busy(Boot) =>
        \A a \in Plain :
            \/ a \in mem.out <=> links[a] # NoConn
            \/ \E t \in Task : cur[t] = a /\ (OwesList(t) \/ OwesLink(t))

Clean == AloneInv /\ DebtInv /\ BootInv /\ SettledInv

AgreeInv == OpInv /\ (~clashed => Clean)

(* The inductive invariant behind Remove's wait for a goroutine.           *)

\* A link that nobody deletes has its goroutine, which waits for that link's Quit.
LinkInv ==
    \A a \in Addr : links[a] # NoConn =>
        \/ \E t \in Task : pc[t] = "delete" /\ cur[t] = a
        \/ /\ Started(links[a]) /\ addr[links[a]] = a
           /\ reader[links[a]] = "wait" => waits[links[a]] = links[a]

\* Whoever sends on a Quit under the lock has closed the socket.
ClosedInv == \A t \in Task : pc[t] = "quit" => links[cur[t]] \in closed

\* The start is over when requests come.
ServeInv == \A r \in Req : Busy(r) => Serving

WaitInv == LinkInv /\ ClosedInv /\ ServeInv

\* Remove holds the lock while it waits: the goroutine of the link is in its select
\* or can go on to it, whatever it does and however often the address was added.
QuitIsTaken ==
    \A t \in Task : pc[t] = "quit" =>
        \E c \in Conn :
            /\ c = links[cur[t]]
            /\ \/ reader[c] = "wait" /\ waits[c] = c
               \/ reader[c] = "loop" /\ links[addr[c]] # NoConn
               \/ reader[c] = "read" /\ c \in closed
               \/ reader[c] = "input" /\ op[Boot] # "cmdline"

(* The inductive invariant behind StartRestores, beside the three above.   *)

\* Set and Del write the whole map, one at a time; the start changes nothing in it.
PastInv ==
    /\ \A t, u \in Task : pc[t] = "file" /\ pc[u] = "file" => t = u
    /\ sure /\ pc[Boot] = "load" => file.out = kept
    /\ sure /\ pc[Boot] # "load" /\ ~Writing => file.out = mem.out
    /\ sure /\ pc[Boot] \notin {"load", "done"} => mem.out = kept
    /\ Up /\ ~Serving => ~clashed

\* A start brings back what the list showed when the program stopped, whatever
\* requests and failures had come before: nothing is lost and nothing that was
\* deleted, or emptied by Del, comes back.  It holds of a start that ends (a bad
\* address is tried for ever, and a text too long for Load's buffer stops the
\* program), unless a Set was cut short, Del could not create the file or a
\* name has the separator in it (store.go:105-186, statusServer.go:197).
StartRestores ==
    [][(pc[Boot] # "done" /\ pc'[Boot] = "done" /\ sure) =>
           \A a \in Plain : a \in kept <=> links'[a] # NoConn]_vars

\* A request, and the start, come to an end: Remove waits under the lock for a
\* goroutine that reads or hands on a datagram, and the lists are locked by
\* others; the exceptions are the addresses that Dial refuses and that are
\* tried for ever, and the end of the program.
TasksEnd ==
    \A t \in Task : Busy(t) ~> (~Busy(t) \/ ~Up \/ (pc[t] = "dial" /\ Refused(cur[t])))

=============================================================================
