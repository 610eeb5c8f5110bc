--------------------------- MODULE StatusFeed_proofs --------------------------
(***************************************************************************)
(* For any number of sockets: the FMU loop writes no map of the state that *)
(* a browser's goroutine encodes and waits only for browsers that are being*)
(* written to, and each tick serves the sockets that waited for it, but for*)
(* as many as were closing; and the goroutines never all wait for each     *)
(* other, but in one way.  For any clients of the event stream, which      *)
(* EventStream models: how old what is handed to them can be.              *)
(***************************************************************************)
EXTENDS StatusFeed, EventStream, FiniteSetTheorems, SequenceTheorems, TLAPS

-----------------------------------------------------------------------------
\* The goroutines are different ones.
LEMMA Names ==
    /\ IsFiniteSet(Socket) /\ Cardinality(Socket) \in Nat /\ Seconds \in Nat
    /\ Socket \subseteq Process /\ Periodic \in Process /\ FmuLoop \in Process
    /\ Periodic \notin Socket /\ FmuLoop \notin Socket /\ Nobody \notin Process
    /\ Periodic # FmuLoop
<1>1. Cardinality(Socket) \in Nat
  BY FeedAssumption, FS_CardinalityType
<1>2. QED
  BY <1>1, FeedAssumption DEF Process

\* Any set of sockets is finite, and a part of it is no larger.
LEMMA Sockets ==
    ASSUME NEW S \in SUBSET Socket, NEW T \in SUBSET S
    PROVE  /\ IsFiniteSet(S) /\ Cardinality(S) \in 0..Cardinality(Socket)
           /\ Cardinality(T) <= Cardinality(S)
<1>1. IsFiniteSet(S) /\ Cardinality(S) <= Cardinality(Socket)
  BY Names, FS_Subset
<1>2. IsFiniteSet(T) /\ Cardinality(T) <= Cardinality(S)
  BY <1>1, FS_Subset
<1>3. Cardinality(S) \in Nat
  BY <1>1, FS_CardinalityType
<1>4. QED
  BY <1>1, <1>2, <1>3, Names

\* What the operations of a lock do.
LEMMA RLocked ==
    ASSUME NEW l \in Lock, NEW p \in Process
    PROVE  /\ RLock(l, p) \in Lock /\ RLock(l, p).writer = l.writer
           /\ l.writer = Nobody => /\ RLock(l, p).readers = l.readers \cup {p}
                                   /\ RLock(l, p).blocked = l.blocked
           /\ l.writer # Nobody => /\ RLock(l, p).readers = l.readers
                                   /\ RLock(l, p).blocked = l.blocked \cup {p}
  BY DEF Lock, RLock

LEMMA RUnlocked ==
    ASSUME NEW l \in Lock, NEW p \in Process
    PROVE  /\ RUnlock(l, p) \in Lock /\ RUnlock(l, p).writer = l.writer
           /\ RUnlock(l, p).readers = l.readers \ {p} /\ RUnlock(l, p).blocked = l.blocked
  BY DEF Lock, RUnlock

LEMMA Announced ==
    ASSUME NEW l \in Lock, NEW p \in Process
    PROVE  /\ Announce(l, p) \in Lock /\ Announce(l, p).writer = p
           /\ Announce(l, p).readers = l.readers /\ Announce(l, p).blocked = l.blocked
  BY DEF Lock, Announce

LEMMA Unlocked ==
    ASSUME NEW l \in Lock
    PROVE  /\ Unlock(l) \in Lock /\ Unlock(l).writer = Nobody
           /\ Unlock(l).readers = l.blocked /\ Unlock(l).blocked = {}
  BY DEF Lock, Unlock

\* A receiver goes to the end of the queue,
LEMMA Appended ==
    ASSUME NEW q \in Seq(Socket), NEW s \in Socket
    PROVE  /\ Append(q, s) \in Seq(Socket) /\ Len(q) \in Nat
           /\ Len(Append(q, s)) = Len(q) + 1 /\ Append(q, s)[Len(q) + 1] = s
           /\ \A i \in 1..Len(q) : Append(q, s)[i] = q[i]
  OBVIOUS

\* or leaves from its head,
LEMMA Served ==
    ASSUME NEW q \in Seq(Socket), q # <<>>
    PROVE  /\ Tail(q) \in Seq(Socket) /\ Head(q) \in Socket /\ Head(q) = q[1]
           /\ Len(q) \in Nat /\ Len(q) >= 1 /\ Len(Tail(q)) = Len(q) - 1
           /\ \A i \in 1..Len(Tail(q)) : Tail(q)[i] = q[i + 1]
  OBVIOUS

\* or from within.
LEMMA Removed ==
    ASSUME NEW q \in Seq(Socket), NEW i \in 1..Len(q)
    PROVE  /\ RemoveAt(q, i) \in Seq(Socket) /\ Len(q) \in Nat
           /\ Len(RemoveAt(q, i)) = Len(q) - 1
           /\ \A k \in 1..Len(q) - 1 : RemoveAt(q, i)[k] = IF k < i THEN q[k] ELSE q[k + 1]
<1> DEFINE a == SubSeq(q, 1, i - 1)  b == SubSeq(q, i + 1, Len(q))
<1>1. i \in Nat /\ 1 <= i /\ i <= Len(q) /\ Len(q) \in Nat
  OBVIOUS
<1>2. a \in Seq(Socket) /\ Len(a) = i - 1 /\ \A k \in 1..i - 1 : a[k] = q[k]
  BY <1>1
<1>3. b \in Seq(Socket) /\ Len(b) = Len(q) - i /\ \A k \in 1..Len(q) - i : b[k] = q[i + k]
  BY <1>1
<1>4. RemoveAt(q, i) = a \o b
  BY DEF RemoveAt
<1> HIDE DEF a, b
<1>5. /\ a \o b \in Seq(Socket) /\ Len(a \o b) = Len(q) - 1
      /\ \A k \in 1..Len(q) - 1 : (a \o b)[k] = IF k <= Len(a) THEN a[k] ELSE b[k - Len(a)]
  <2>1. /\ a \o b \in Seq(Socket) /\ Len(a \o b) = Len(a) + Len(b)
        /\ \A k \in 1..Len(a) + Len(b) : (a \o b)[k] = IF k <= Len(a) THEN a[k] ELSE b[k - Len(a)]
    BY <1>2, <1>3, ConcatProperties
  <2>2. Len(a) + Len(b) = Len(q) - 1
    BY <1>1, <1>2, <1>3
  <2>3. QED
    BY <2>1, <2>2
<1>6. ASSUME NEW k \in 1..Len(q) - 1
      PROVE  (a \o b)[k] = IF k < i THEN q[k] ELSE q[k + 1]
  <2>1. CASE k < i
    <3>1. k <= Len(a) /\ k \in 1..i - 1
      BY <2>1, <1>1, <1>2
    <3>2. QED
      BY <3>1, <2>1, <1>2, <1>5
  <2>2. CASE k >= i
    <3>1. k - Len(a) \in 1..Len(q) - i /\ i + (k - Len(a)) = k + 1 /\ ~(k <= Len(a)) /\ ~(k < i)
      BY <2>2, <1>1, <1>2
    <3>2. b[k - Len(a)] = q[i + (k - Len(a))]
      BY <3>1, <1>3
    <3>3. (a \o b)[k] = b[k - Len(a)]
      BY <3>1, <1>5
    <3>4. QED
      BY <3>1, <3>2, <3>3
  <2>3. k < i \/ k >= i
    BY <1>1
  <2>4. QED
    BY <2>1, <2>2, <2>3
<1>7. QED
  BY <1>1, <1>4, <1>5, <1>6

-----------------------------------------------------------------------------
\* The part of the invariant from which the rest follows.
Core == TypeOK /\ LockInv /\ FeedInv /\ TickInv /\ FmuWaitsForBrowsers

\* What the sets of sockets are made of.
LEMMA Sets ==
    ASSUME Core
    PROVE  /\ Counted \in SUBSET Socket /\ Closing \in SUBSET Socket
           /\ Left \in SUBSET Socket /\ ToSet(recvq) \in SUBSET Socket
           /\ \A s \in Socket : s \in ToSet(recvq) <=> receiver[s] = "select"
           /\ \A s \in Socket : s \in ToSet(recvq) <=> \E i \in 1..Len(recvq) : recvq[i] = s
           /\ \A i \in 1..Len(recvq) : recvq[i] \in Socket /\ recvq[i] \in ToSet(recvq)
           /\ Len(recvq) \in Nat
<1>1. recvq \in Seq(Socket) /\ DOMAIN recvq = 1..Len(recvq) /\ Len(recvq) \in Nat
  BY DEF Core, TypeOK
<1>2. \A i \in 1..Len(recvq) : recvq[i] \in Socket
  BY <1>1
<1>3. /\ Counted \in SUBSET Socket /\ Closing \in SUBSET Socket /\ Left \in SUBSET Socket
  BY DEF Core, TypeOK, Counted, Closing, Left
<1>4. \A s : s \in ToSet(recvq) <=> \E i \in 1..Len(recvq) : recvq[i] = s
  BY <1>1 DEF ToSet
<1>5. \A s \in Socket : (\E i \in 1..Len(recvq) : recvq[i] = s) <=> receiver[s] = "select"
  BY DEF Core, FeedInv
<1>6. ToSet(recvq) \in SUBSET Socket
  BY <1>2, <1>4
<1>7. QED
  BY <1>1, <1>2, <1>3, <1>4, <1>5, <1>6

\* Half a packet is nowhere to be read.
LEMMA CoreNoWrite == Core => NoWriteDuringEmit
  BY DEF Core, LockInv, NoWriteDuringEmit

\* What the tick owes at its end: all that it sent went to sockets that waited, or
\* of those that waited only closed ones are left.
LEMMA CoreTick == Core => TickSucceeds
<1> SUFFICES ASSUME Core, tick = "next", sends >= cnt
             PROVE  Cardinality(Left) <= leaving
  BY DEF TickSucceeds, Left
<1>1. InTick /\ sends = cnt /\ cnt \in Nat /\ leaving \in Nat
  BY Names DEF Core, TickInv, InTick, TypeOK
<1>2. waiting \in SUBSET Socket /\ served \in SUBSET Socket /\ Left \in SUBSET Socket
  BY DEF Core, TypeOK, Left
<1>3. CASE served \subseteq waiting /\ Cardinality(served) = sends
  <2>1. IsFiniteSet(waiting) /\ Cardinality(waiting) \in Nat
    BY <1>2, Sockets, Names
  <2>2. Cardinality(Left) = Cardinality(waiting) - Cardinality(waiting \cap served)
    BY <2>1, FS_Difference DEF Left
  <2>3. waiting \cap served = served
    BY <1>3
  <2>4. Cardinality(waiting) <= cnt + leaving
    BY <1>1 DEF Core, TickInv
  <2>5. Cardinality(waiting \cap served) = cnt
    BY <1>1, <1>3, <2>3
  <2>6. QED
    BY <1>1, <2>1, <2>2, <2>4, <2>5
<1>4. CASE ToSet(recvq) \cap Left = {}
  <2>1. Left \in SUBSET (Closing \cup (Left \ ToSet(recvq)))
    BY <1>4
  <2>2. Closing \cup (Left \ ToSet(recvq)) \in SUBSET Socket
    BY <1>2 DEF Closing
  <2>3. Cardinality(Left) <= Cardinality(Closing \cup (Left \ ToSet(recvq)))
    BY <2>1, <2>2, Sockets
  <2>4. Cardinality(Closing \cup (Left \ ToSet(recvq))) <= leaving
    BY <1>1 DEF Core, TickInv
  <2>5. Cardinality(Left) \in Nat /\ Cardinality(Closing \cup (Left \ ToSet(recvq))) \in Nat
    BY <1>2, <2>2, Sockets, Names
  <2>6. QED
    BY <2>3, <2>4, <2>5, <1>1
<1>5. QED
  BY <1>1, <1>3, <1>4 DEF Core, TickInv

LEMMA CoreIsIInv == Core <=> IInv
BY CoreNoWrite, CoreTick DEF Core, IInv

-----------------------------------------------------------------------------
\* Nobody is there.
LEMMA InitOK == Init => Core
<1> SUFFICES ASSUME Init PROVE Core
  OBVIOUS
<1> USE Names DEF Init
<1>1. TypeOK
  <2>1. Free \in Lock
    BY DEF Free, Lock
  <2>2. recvq \in Seq(Socket)
    OBVIOUS
  <2>3. 0 \in 0..Cardinality(Socket) /\ timeOutCnt \in [Socket -> 0..Seconds + 1]
    OBVIOUS
  <2>4. QED
    BY <2>1, <2>2, <2>3 DEF TypeOK
<1>2. LockInv /\ FmuWaitsForBrowsers
  BY DEF LockInv, FmuWaitsForBrowsers, Free, InTick
<1>3. FeedInv
  <2>1. Counted = {}
    BY DEF Counted
  <2>2. Cardinality(Counted) = 0
    BY <2>1, FS_EmptySet
  <2>3. QED
    BY <2>2 DEF FeedInv
<1>4. TickInv
  BY DEF TickInv, InTick
<1>5. QED
  BY <1>1, <1>2, <1>3, <1>4 DEF Core

\* Steps that change neither the sockets' handlers nor the queue nor the tick keep
\* what is said of them.
LEMMA StillOK ==
    ASSUME Core, UNCHANGED <<handler, recvq, cnt, tick, sends, waiting, served, leaving>>
    PROVE  TickInv'
  BY DEF Core, TickInv, InTick, Left, Closing, ToSet

\* Steps of the FMU loop.
LEMMA LoopOK ==
    ASSUME Core, ReadPacket \/ LoopStep
    PROVE  Core'
<1> USE DEF LoopStep
<1>0. TypeOK /\ LockInv /\ FeedInv /\ FmuWaitsForBrowsers
  BY DEF Core
<1>1. /\ UNCHANGED <<sockLock, handler, receiver, recvq, cnt, tick, sends, waiting, served,
                     leaving, timeOutCnt>>
      /\ fmuLock \in Lock
  BY <1>0 DEF ReadPacket, LockStatus, WriteStatus, locks, feedVars, tickVars, TypeOK
<1>2. TickInv'
  BY <1>1, StillOK
<1>3. FeedInv'
  BY <1>0, <1>1 DEF FeedInv, Counted
<1>4. CASE ReadPacket
  <2>1. /\ fmuLock' \in Lock /\ fmuLock'.writer = FmuLoop /\ fmuLock'.readers = fmuLock.readers
        /\ fmuLock'.blocked = fmuLock.blocked /\ loop' = "lock"
    BY <1>1, <1>4, Announced, Names DEF ReadPacket
  <2>2. TypeOK'
    <3>1. loop' \in {"read", "lock", "write"} /\ sockLock' \in Lock
      BY <1>0, <1>1, <1>4, <2>1 DEF TypeOK
    <3>2. QED
      BY <1>0, <1>1, <2>1, <3>1 DEF TypeOK
  <2>3. LockInv' /\ FmuWaitsForBrowsers'
    BY <1>0, <1>1, <2>1 DEF LockInv, FmuWaitsForBrowsers, InTick
  <2>4. QED
    BY <1>2, <1>3, <2>2, <2>3 DEF Core
<1>5. CASE LockStatus
  <2>1. fmuLock' = fmuLock /\ fmuLock.readers = {} /\ loop' = "write" /\ fmuLock.writer = FmuLoop
    BY <1>5 DEF LockStatus, locks, Holds
  <2>2. TypeOK'
    <3>1. loop' \in {"read", "lock", "write"} /\ sockLock' \in Lock
      BY <1>0, <1>1, <1>4, <2>1 DEF TypeOK
    <3>2. QED
      BY <1>0, <1>1, <2>1, <3>1 DEF TypeOK
  <2>3. LockInv' /\ FmuWaitsForBrowsers'
    BY <1>0, <1>1, <2>1 DEF LockInv, FmuWaitsForBrowsers, InTick
  <2>4. QED
    BY <1>2, <1>3, <2>2, <2>3 DEF Core
<1>6. CASE WriteStatus
  <2>1. /\ fmuLock' \in Lock /\ fmuLock'.readers = fmuLock.blocked /\ fmuLock'.blocked = {}
        /\ loop = "write" /\ loop' = "read" /\ fmuLock.readers = {}
    BY <1>0, <1>1, <1>6, Unlocked DEF WriteStatus, LockInv
  <2>2. TypeOK'
    <3>1. loop' \in {"read", "lock", "write"} /\ sockLock' \in Lock
      BY <1>0, <1>1, <1>4, <2>1 DEF TypeOK
    <3>2. QED
      BY <1>0, <1>1, <2>1, <3>1 DEF TypeOK
  <2>3. LockInv' /\ FmuWaitsForBrowsers'
    BY <1>0, <1>1, <2>1 DEF LockInv, FmuWaitsForBrowsers, InTick
  <2>4. QED
    BY <1>2, <1>3, <2>2, <2>3 DEF Core
<1>7. QED
  BY <1>4, <1>5, <1>6

\* A page's timer.
LEMMA IntervalOK ==
    ASSUME Core, NEW s \in Socket, Interval(s)
    PROVE  Core'
<1>1. UNCHANGED <<sockLock, fmuLock, handler, receiver, recvq, cnt, tick, sends, waiting,
                  leaving, served, loop>>
  BY DEF Interval, locks, feedVars, tickVars
<1>2. timeOutCnt' \in [Socket -> 0..Seconds + 1]
  BY Names DEF Core, TypeOK, Interval
<1>3. TypeOK'
  BY <1>1, <1>2 DEF Core, TypeOK
<1>4. LockInv' /\ FeedInv' /\ FmuWaitsForBrowsers'
  BY <1>1 DEF Core, LockInv, FeedInv, FmuWaitsForBrowsers, InTick, Counted
<1>5. QED
  BY <1>1, <1>3, <1>4, StillOK DEF Core

\* A goroutine of a socket goes on while it has something to write.
LEMMA ReceiveOK ==
    ASSUME Core, NEW s \in Socket, LockSockets(s) \/ LockFmu(s) \/ StartEmit(s)
    PROVE  Core'
<1>0. TypeOK /\ LockInv /\ FeedInv /\ FmuWaitsForBrowsers /\ s \in Process /\ s # Periodic
  BY Names DEF Core
<1>1. /\ UNCHANGED <<handler, recvq, cnt, tick, sends, waiting, served, leaving, loop, timeOutCnt>>
      /\ sockLock \in Lock /\ fmuLock \in Lock
      /\ receiver[s] \in {"got", "sockets", "fmu"}
      /\ receiver' = [receiver EXCEPT ![s] = receiver'[s]]
      /\ receiver'[s] \in {"sockets", "fmu", "emit"}
      /\ \A r \in Socket \ {s} : receiver'[r] = receiver[r]
  BY <1>0 DEF LockSockets, LockFmu, StartEmit, Receiver, locks, tickVars, TypeOK
<1>2. TickInv'
  BY <1>1, StillOK
<1>3. FeedInv'
  <2>1. \A i \in 1..Len(recvq) : recvq[i] # s
    BY <1>0, <1>1 DEF FeedInv
  <2>2. \A i \in 1..Len(recvq) : recvq[i] \in Socket
    BY Sets
  <2>3. \A i \in 1..Len(recvq) : receiver'[recvq[i]] = receiver[recvq[i]]
    BY <1>1, <2>1, <2>2
  <2>4. \A r \in Socket : /\ receiver'[r] = "select" => receiver[r] = "select"
                          /\ receiver'[r] # "off" => receiver[r] # "off"
    BY <1>1
  <2>5. Counted' = Counted
    BY <1>1 DEF Counted
  <2>6. QED
    BY <1>0, <1>1, <2>3, <2>4, <2>5 DEF FeedInv
<1>4. CASE LockSockets(s)
  <2>1. /\ sockLock' \in Lock /\ fmuLock' = fmuLock
        /\ sockLock.readers \subseteq sockLock'.readers
        /\ sockLock.blocked \subseteq sockLock'.blocked
        /\ receiver[s] = "got" /\ receiver'[s] = "sockets"
    BY <1>0, <1>1, <1>4, RLocked DEF LockSockets, Receiver, TypeOK
  <2>2. TypeOK'
    BY <1>0, <1>1, <2>1 DEF TypeOK
  <2>3. LockInv' /\ FmuWaitsForBrowsers'
    BY <1>0, <1>1, <2>1 DEF LockInv, FmuWaitsForBrowsers, InTick
  <2>4. QED
    BY <1>2, <1>3, <2>2, <2>3 DEF Core
<1>5. CASE LockFmu(s)
  <2>1. /\ fmuLock' = RLock(fmuLock, s) /\ sockLock' = sockLock
        /\ receiver[s] = "sockets" /\ receiver'[s] = "fmu"
    BY <1>0, <1>5 DEF LockFmu, Receiver, TypeOK
  <2>2. /\ fmuLock' \in Lock /\ fmuLock'.writer = fmuLock.writer
        /\ fmuLock.writer = Nobody => /\ fmuLock'.readers = fmuLock.readers \cup {s}
                                      /\ fmuLock'.blocked = fmuLock.blocked
        /\ fmuLock.writer # Nobody => /\ fmuLock'.readers = fmuLock.readers
                                      /\ fmuLock'.blocked = fmuLock.blocked \cup {s}
    BY <1>0, <1>1, <2>1, RLocked
  <2>3. s \notin fmuLock.readers \cup fmuLock.blocked
    BY <1>0, <2>1 DEF LockInv, FmuWaitsForBrowsers
  <2>4. TypeOK'
    BY <1>0, <1>1, <2>1, <2>2 DEF TypeOK
  <2>5. LockInv'
    <3>1. loop # "read" => fmuLock.writer # Nobody
      BY <1>0, Names DEF LockInv
    <3>2. QED
      BY <1>0, <1>1, <2>1, <2>2, <2>3, <3>1 DEF LockInv, InTick
  <2>6. FmuWaitsForBrowsers'
    BY <1>0, <1>1, <2>1, <2>2 DEF FmuWaitsForBrowsers
  <2>7. QED
    BY <1>2, <1>3, <2>4, <2>5, <2>6 DEF Core
<1>6. CASE StartEmit(s)
  <2>1. UNCHANGED <<sockLock, fmuLock>> /\ receiver'[s] = "emit" /\ s \in fmuLock.readers
    BY <1>0, <1>6 DEF StartEmit, Receiver, TypeOK, locks
  <2>2. TypeOK'
    BY <1>0, <1>1, <2>1 DEF TypeOK
  <2>3. LockInv' /\ FmuWaitsForBrowsers'
    BY <1>0, <1>1, <2>1 DEF LockInv, FmuWaitsForBrowsers, InTick
  <2>4. QED
    BY <1>2, <1>3, <2>2, <2>3 DEF Core
<1>7. QED
  BY <1>4, <1>5, <1>6

\* A receiver that comes (back) to its select stands behind those that wait.
LEMMA QueueOK ==
    ASSUME Core, NEW s \in Socket, receiver[s] # "select",
           recvq' = Append(recvq, s), UNCHANGED <<cnt, tick, sends, waiting, served, leaving>>,
           receiver' = [receiver EXCEPT ![s] = "select"],
           \/ handler' = handler /\ receiver[s] = "emit"
           \/ handler[s] = "start" /\ handler' = [handler EXCEPT ![s] = "on"]
    PROVE  FeedInv' /\ TickInv' /\ recvq' \in Seq(Socket)
<1>0. TypeOK /\ FeedInv /\ TickInv
  BY DEF Core
<1>1. /\ recvq' \in Seq(Socket) /\ Len(recvq) \in Nat
      /\ Len(recvq') = Len(recvq) + 1 /\ recvq'[Len(recvq) + 1] = s
      /\ \A i \in 1..Len(recvq) : recvq'[i] = recvq[i]
  BY <1>0, Appended DEF TypeOK
<1>2. \A i \in 1..Len(recvq') : i \in 1..Len(recvq) \/ i = Len(recvq) + 1
  BY <1>1
<1>3. \A i \in 1..Len(recvq) : recvq[i] # s /\ recvq[i] \in Socket
  BY Sets, <1>0 DEF FeedInv
<1>4. s \notin Left \/ ~InTick
  BY Sets, <1>0 DEF FeedInv, TickInv
<1>5. Counted' = Counted /\ Closing' = Closing /\ Left' = Left /\ (InTick' <=> InTick)
  BY <1>0 DEF Counted, Closing, Left, InTick, TypeOK
<1>6. ToSet(recvq)' = ToSet(recvq) \cup {s}
  <2>1. recvq \in Seq(Socket) /\ DOMAIN recvq = 1..Len(recvq) /\ DOMAIN recvq' = 1..Len(recvq')
    BY <1>0, <1>1 DEF TypeOK
  <2>2. Len(recvq) + 1 \in 1..Len(recvq') /\ 1..Len(recvq) \subseteq 1..Len(recvq')
    BY <1>1
  <2>3. QED
    BY <1>1, <1>2, <2>1, <2>2 DEF ToSet
<1>7. FeedInv'
  <2>1. cnt' = Cardinality(Counted')
    BY <1>0, <1>5 DEF FeedInv
  <2>2. \A i, j \in 1..Len(recvq') : recvq'[i] = recvq'[j] => i = j
    BY <1>0, <1>1, <1>2, <1>3 DEF FeedInv
  <2>3. receiver'[s] = "select" /\ \A r \in Socket \ {s} : receiver'[r] = receiver[r]
    BY <1>0 DEF TypeOK
  <2>4. \A i \in 1..Len(recvq') : receiver'[recvq'[i]] = "select"
    BY <1>0, <1>1, <1>2, <1>3, <2>3 DEF FeedInv
  <2>5. ASSUME NEW r \in Socket, receiver'[r] = "select"
        PROVE  \E i \in 1..Len(recvq') : recvq'[i] = r
    <3>1. CASE r = s
      BY <3>1, <1>1
    <3>2. CASE r # s
      <4>1. PICK i \in 1..Len(recvq) : recvq[i] = r
        BY <3>2, <2>3, <2>5, <1>0 DEF FeedInv
      <4>2. i \in 1..Len(recvq') /\ recvq'[i] = r
        BY <4>1, <1>1
      <4>3. QED
        BY <4>2
    <3>3. QED
      BY <3>1, <3>2
  <2>6. \A r \in Socket : receiver'[r] # "off" => handler'[r] \in {"on", "disconnect", "quit"}
    BY <1>0, <2>3 DEF FeedInv, TypeOK
  <2>7. QED
    BY <2>1, <2>2, <2>4, <2>5, <2>6 DEF FeedInv
<1>8. TickInv'
  <2> SUFFICES ASSUME InTick PROVE TickInv'
    BY <1>0, <1>5 DEF TickInv, InTick
  <2>1. ASSUME NEW i \in 1..Len(recvq'), NEW j \in 1..Len(recvq'), i < j, recvq'[j] \in Left
        PROVE  recvq'[i] \in Left
    <3>1. j \in 1..Len(recvq)
      BY <2>1, <1>1, <1>2, <1>4
    <3>2. i \in 1..Len(recvq)
      BY <2>1, <3>1, <1>1
    <3>3. recvq'[j] = recvq[j] /\ recvq'[i] = recvq[i]
      BY <3>1, <3>2, <1>1
    <3>4. QED
      BY <2>1, <3>1, <3>2, <3>3, <1>0 DEF TickInv
  <2>2. ASSUME NEW r \in Left
        PROVE  r \in ToSet(recvq)' \/ handler'[r] \in {"off", "connect"}
    <3>1. r # s /\ r \in Socket
      BY <1>4, Sets
    <3>2. handler'[r] = handler[r]
      BY <3>1, <1>0 DEF TypeOK
    <3>3. r \in ToSet(recvq) \/ handler[r] \in {"off", "connect"}
      BY <1>0 DEF TickInv
    <3>4. QED
      BY <3>2, <3>3, <1>6
  <2>3. \/ served \subseteq waiting /\ Cardinality(served) = sends
        \/ ToSet(recvq)' \cap Left = {}
    BY <1>0, <1>4, <1>6 DEF TickInv
  <2>4. Left \ ToSet(recvq)' = Left \ ToSet(recvq)
    BY <1>4, <1>6
  <2>5. Cardinality(Closing \cup (Left \ ToSet(recvq)')) <= leaving
    BY <1>0, <2>4 DEF TickInv
  <2>6. QED
    BY <1>0, <1>5, <2>1, <2>2, <2>3, <2>5 DEF TickInv, InTick
<1>9. QED
  BY <1>1, <1>7, <1>8

LEMMA EndEmitOK ==
    ASSUME Core, NEW s \in Socket, EndEmit(s)
    PROVE  Core'
<1>0. TypeOK /\ LockInv /\ FmuWaitsForBrowsers /\ s \in Process /\ s # Periodic
  BY Names DEF Core
<1>1. /\ receiver[s] = "emit" /\ receiver' = [receiver EXCEPT ![s] = "select"]
      /\ recvq' = Append(recvq, s)
      /\ fmuLock' = RUnlock(fmuLock, s) /\ sockLock' = RUnlock(sockLock, s)
      /\ timeOutCnt' = [timeOutCnt EXCEPT ![s] = 0]
      /\ UNCHANGED <<handler, cnt, tick, sends, waiting, served, leaving, loop>>
      /\ sockLock \in Lock /\ fmuLock \in Lock
  BY <1>0 DEF EndEmit, Receiver, tickVars, TypeOK
<1>2. FeedInv' /\ TickInv' /\ recvq' \in Seq(Socket)
  BY <1>1, QueueOK
<1>3. /\ fmuLock' \in Lock /\ fmuLock'.writer = fmuLock.writer
      /\ fmuLock'.readers = fmuLock.readers \ {s} /\ fmuLock'.blocked = fmuLock.blocked
  BY <1>0, <1>1, RUnlocked
<1>4. /\ sockLock' \in Lock /\ sockLock'.writer = sockLock.writer
      /\ sockLock'.readers = sockLock.readers \ {s} /\ sockLock'.blocked = sockLock.blocked
  BY <1>0, <1>1, RUnlocked
<1>5. timeOutCnt' \in [Socket -> 0..Seconds + 1] /\ receiver' \in [Socket -> {"off", "select", "got", "sockets", "fmu", "emit"}]
  BY <1>0, <1>1, Names DEF TypeOK
<1>6. TypeOK'
  BY <1>0, <1>1, <1>2, <1>3, <1>4, <1>5 DEF TypeOK
<1>7. s \in fmuLock.readers /\ s \notin fmuLock.blocked
  BY <1>0, <1>1 DEF LockInv
<1>8. receiver'[s] = "select" /\ \A r \in Socket \ {s} : receiver'[r] = receiver[r]
  BY <1>0, <1>1 DEF TypeOK
<1>9. LockInv' /\ FmuWaitsForBrowsers'
  BY <1>0, <1>1, <1>3, <1>4, <1>7, <1>8 DEF LockInv, FmuWaitsForBrowsers, InTick
<1>10. QED
  BY <1>2, <1>6, <1>9 DEF Core

-----------------------------------------------------------------------------
\* Handlers that come and go, without the lock.
LEMMA HandlerOK ==
    ASSUME Core, NEW s \in Socket, Connect(s) \/ Disconnect(s) \/ Ask(s)
    PROVE  Core'
<1>0. TypeOK /\ LockInv /\ FeedInv /\ TickInv /\ FmuWaitsForBrowsers /\ s \in Process
  BY Names DEF Core
<1>1. /\ UNCHANGED <<fmuLock, receiver, recvq, cnt, tick, sends, waiting, served, leaving, loop>>
      /\ sockLock' \in Lock /\ sockLock'.readers = sockLock.readers
      /\ sockLock'.blocked = sockLock.blocked
      /\ timeOutCnt' \in [Socket -> 0..Seconds + 1]
  <2>1. CASE Connect(s) \/ Disconnect(s)
    BY <2>1, <1>0, Names DEF Connect, Disconnect, locks, tickVars, TypeOK
  <2>2. CASE Ask(s)
    BY <2>2, <1>0, Announced DEF Ask, feedVars, tickVars, TypeOK
  <2>3. QED
    BY <2>1, <2>2
<1>2. \/ handler' = handler
      \/ handler[s] = "off" /\ handler' = [handler EXCEPT ![s] = "connect"]
      \/ handler[s] = "on" /\ handler' = [handler EXCEPT ![s] = "disconnect"]
  BY DEF Connect, Disconnect, Ask, Handler, feedVars
<1>3. TypeOK'
  <2>1. handler' \in [Socket -> {"off", "connect", "start", "on", "disconnect", "quit"}]
    BY <1>0, <1>2 DEF TypeOK
  <2>2. QED
    BY <2>1, <1>0, <1>1 DEF TypeOK
<1>4. LockInv' /\ FmuWaitsForBrowsers'
  BY <1>0, <1>1 DEF LockInv, FmuWaitsForBrowsers, InTick
<1>5. Counted' = Counted /\ Closing' = Closing /\ Left' = Left
  BY <1>0, <1>1, <1>2 DEF Counted, Closing, Left, TypeOK
<1>6. \A r \in Socket : \/ handler'[r] = handler[r]
                        \/ handler[r] = "off" /\ handler'[r] = "connect"
                        \/ handler[r] = "on" /\ handler'[r] = "disconnect"
  BY <1>0, <1>2 DEF TypeOK
<1>7. FeedInv'
  BY <1>0, <1>1, <1>5, <1>6 DEF FeedInv
<1>8. TickInv'
  <2>1. InTick => \A r \in Left : r \in ToSet(recvq) \/ handler'[r] \in {"off", "connect"}
    BY <1>0, <1>6, Sets DEF TickInv
  <2>2. QED
    BY <1>0, <1>1, <1>5, <2>1 DEF TickInv, InTick, ToSet
<1>9. QED
  BY <1>3, <1>4, <1>7, <1>8 DEF Core

\* A socket that is counted in or out holds the lock: there is no tick.
LEMMA CountOK ==
    ASSUME Core, NEW s \in Socket, CountIn(s) \/ CountOut(s)
    PROVE  Core'
<1>0. TypeOK /\ LockInv /\ FeedInv /\ TickInv /\ FmuWaitsForBrowsers /\ s \in Process
  BY Names DEF Core
<1>1. /\ UNCHANGED <<fmuLock, receiver, recvq, tick, sends, waiting, served, leaving, loop,
                     timeOutCnt>>
      /\ sockLock \in Lock /\ sockLock.readers = {} /\ sockLock' = Unlock(sockLock)
      /\ \/ /\ handler[s] = "connect" /\ handler' = [handler EXCEPT ![s] = "start"]
            /\ cnt' = cnt + 1
         \/ /\ handler[s] = "disconnect" /\ handler' = [handler EXCEPT ![s] = "quit"]
            /\ cnt' = cnt - 1
  BY <1>0 DEF CountIn, CountOut, Handler, Holds, tickVars, TypeOK
<1>2. sockLock' \in Lock /\ sockLock'.readers = sockLock.blocked /\ ~InTick
  BY <1>0, <1>1, Unlocked DEF LockInv
<1>3. handler' \in [Socket -> {"off", "connect", "start", "on", "disconnect", "quit"}]
      /\ \A r \in Socket \ {s} : handler'[r] = handler[r]
  BY <1>0, <1>1 DEF TypeOK
<1>4. cnt' = Cardinality(Counted')
  <2>1. Counted \in SUBSET Socket /\ IsFiniteSet(Counted) /\ cnt = Cardinality(Counted)
    BY <1>0, Sets, Sockets DEF FeedInv
  <2>2. CASE handler[s] = "connect" /\ handler' = [handler EXCEPT ![s] = "start"] /\ cnt' = cnt + 1
    <3>1. Counted' = Counted \cup {s} /\ s \notin Counted
      BY <2>2, <1>0 DEF Counted, TypeOK
    <3>2. QED
      BY <3>1, <2>1, <2>2, FS_AddElement
  <2>3. CASE handler[s] = "disconnect" /\ handler' = [handler EXCEPT ![s] = "quit"] /\ cnt' = cnt - 1
    <3>1. Counted' = Counted \ {s} /\ s \in Counted
      BY <2>3, <1>0 DEF Counted, TypeOK
    <3>2. QED
      BY <3>1, <2>1, <2>3, FS_RemoveElement
  <2>4. QED
    BY <2>2, <2>3, <1>1
<1>5. cnt' \in 0..Cardinality(Socket)
  <2>1. Counted' \in SUBSET Socket
    BY DEF Counted
  <2>2. QED
    BY <1>4, <2>1, Sockets
<1>6. TypeOK'
  BY <1>0, <1>1, <1>2, <1>3, <1>5 DEF TypeOK
<1>7. LockInv' /\ FmuWaitsForBrowsers'
  BY <1>0, <1>1, <1>2 DEF LockInv, FmuWaitsForBrowsers, InTick
<1>8. FeedInv'
  <2>1. \A r \in Socket : receiver[r] # "off" => handler'[r] \in {"on", "disconnect", "quit"}
    BY <1>0, <1>1, <1>3 DEF FeedInv, TypeOK
  <2>2. QED
    BY <2>1, <1>0, <1>1, <1>4 DEF FeedInv
<1>9. TickInv'
  <2>1. tick \notin {"next", "data", "send"} /\ tick' = tick /\ sends' = 0 /\ served' = {}
    BY <1>0, <1>1, <1>2 DEF TickInv, InTick
  <2>2. 0 <= cnt'
    BY <1>5, Names
  <2>3. QED
    BY <2>1, <2>2 DEF TickInv, InTick
<1>10. QED
  BY <1>6, <1>7, <1>8, <1>9 DEF Core

LEMMA StartOK ==
    ASSUME Core, NEW s \in Socket, Start(s)
    PROVE  Core'
<1>0. TypeOK /\ LockInv /\ FmuWaitsForBrowsers
  BY DEF Core
<1>1. /\ UNCHANGED <<sockLock, fmuLock, cnt, tick, sends, waiting, served, leaving, loop, timeOutCnt>>
      /\ handler[s] = "start" /\ handler' = [handler EXCEPT ![s] = "on"]
      /\ receiver' = [receiver EXCEPT ![s] = "select"] /\ recvq' = Append(recvq, s)
  BY DEF Start, Handler, locks, tickVars
<1>2. receiver[s] = "off"
  BY <1>1 DEF Core, FeedInv
<1>3. FeedInv' /\ TickInv' /\ recvq' \in Seq(Socket)
  BY <1>1, <1>2, QueueOK
<1>4. TypeOK'
  <2>1. /\ handler' \in [Socket -> {"off", "connect", "start", "on", "disconnect", "quit"}]
        /\ receiver' \in [Socket -> {"off", "select", "got", "sockets", "fmu", "emit"}]
    BY <1>0, <1>1 DEF TypeOK
  <2>2. QED
    BY <2>1, <1>0, <1>1, <1>3 DEF TypeOK
<1>5. LockInv' /\ FmuWaitsForBrowsers'
  <2>1. receiver'[s] = "select" /\ \A r \in Socket \ {s} : receiver'[r] = receiver[r]
    BY <1>0, <1>1 DEF TypeOK
  <2>2. QED
    BY <1>0, <1>1, <1>2, <2>1 DEF LockInv, FmuWaitsForBrowsers, InTick
<1>6. QED
  BY <1>3, <1>4, <1>5 DEF Core

-----------------------------------------------------------------------------
\* A receiver that leaves the queue leaves the others in their order: f says where
\* each of them was.
LEMMA LeaveQueue ==
    ASSUME Core, NEW s \in Socket, recvq' \in Seq(Socket),
           NEW f \in [1..Len(recvq') -> 1..Len(recvq)],
           \A i, j \in 1..Len(recvq') : i < j => f[i] < f[j],
           \A i \in 1..Len(recvq') : recvq'[i] = recvq[f[i]] /\ recvq[f[i]] # s,
           \A k \in 1..Len(recvq) : recvq[k] = s \/ \E i \in 1..Len(recvq') : f[i] = k
    PROVE  /\ \A i, j \in 1..Len(recvq') : recvq'[i] = recvq'[j] => i = j
           /\ \A i \in 1..Len(recvq') : recvq'[i] \in Socket \ {s} /\ receiver[recvq'[i]] = "select"
           /\ \A r \in Socket \ {s} :
                 receiver[r] = "select" => \E i \in 1..Len(recvq') : recvq'[i] = r
           /\ ToSet(recvq)' = ToSet(recvq) \ {s}
           /\ InTick => \A i, j \in 1..Len(recvq') :
                           i < j /\ recvq'[j] \in Left => recvq'[i] \in Left
<1>0. FeedInv /\ TickInv
  BY DEF Core
<1>1. /\ Len(recvq') \in Nat /\ Len(recvq) \in Nat
      /\ \A i \in 1..Len(recvq) : recvq[i] \in Socket
  BY Sets
<1>2. ASSUME NEW i \in 1..Len(recvq'), NEW j \in 1..Len(recvq'), recvq'[i] = recvq'[j]
      PROVE  i = j
  <2>0. f[i] \in 1..Len(recvq) /\ f[j] \in 1..Len(recvq) /\ recvq[f[i]] = recvq[f[j]]
    BY <1>2
  <2>1. f[i] = f[j]
    BY <2>0, <1>0 DEF FeedInv
  <2>2. ~(i < j) /\ ~(j < i)
    BY <2>1, <1>1
  <2>3. QED
    BY <2>2, <1>1
<1>3. \A i \in 1..Len(recvq') : recvq'[i] \in Socket \ {s} /\ receiver[recvq'[i]] = "select"
  BY <1>0, <1>1 DEF FeedInv
<1>4. ASSUME NEW r \in Socket \ {s}, receiver[r] = "select"
      PROVE  \E i \in 1..Len(recvq') : recvq'[i] = r
  <2>1. PICK k \in 1..Len(recvq) : recvq[k] = r
    BY <1>4, <1>0 DEF FeedInv
  <2>2. PICK i \in 1..Len(recvq') : f[i] = k
    BY <2>1
  <2>3. recvq'[i] = recvq[f[i]]
    OBVIOUS
  <2>4. QED
    BY <2>1, <2>2, <2>3
<1>5. ToSet(recvq)' = ToSet(recvq) \ {s}
  <2>1. /\ ToSet(recvq)' = {recvq'[i] : i \in 1..Len(recvq')}
        /\ ToSet(recvq) = {recvq[i] : i \in 1..Len(recvq)}
    <3>1. DOMAIN recvq' = 1..Len(recvq') /\ DOMAIN recvq = 1..Len(recvq)
      BY DEF Core, TypeOK
    <3>2. QED
      BY <3>1 DEF ToSet
  <2>2. ASSUME NEW i \in 1..Len(recvq')
        PROVE  recvq'[i] \in {recvq[k] : k \in 1..Len(recvq)} \ {s}
    OBVIOUS
  <2>3. ASSUME NEW k \in 1..Len(recvq), recvq[k] # s
        PROVE  \E i \in 1..Len(recvq') : recvq'[i] = recvq[k]
    BY <2>3
  <2>4. ToSet(recvq)' \subseteq ToSet(recvq) \ {s}
    BY <2>1, <2>2
  <2>5. ToSet(recvq) \ {s} \subseteq ToSet(recvq)'
    BY <2>1, <2>3
  <2>6. QED
    BY <2>4, <2>5
<1>6. ASSUME InTick, NEW i \in 1..Len(recvq'), NEW j \in 1..Len(recvq'), i < j,
             recvq'[j] \in Left
      PROVE  recvq'[i] \in Left
  <2>1. f[i] < f[j] /\ recvq[f[j]] \in Left /\ f[i] \in 1..Len(recvq) /\ f[j] \in 1..Len(recvq)
    BY <1>6
  <2>2. QED
    BY <2>1, <1>0, <1>6 DEF TickInv
<1>7. QED
  BY <1>2, <1>3, <1>4, <1>5, <1>6

LEMMA QuitOK ==
    ASSUME Core, NEW s \in Socket, Quit(s)
    PROVE  Core'
<1>0. TypeOK /\ LockInv /\ FeedInv /\ TickInv /\ FmuWaitsForBrowsers
  BY DEF Core
<1>1. /\ UNCHANGED <<sockLock, fmuLock, cnt, tick, sends, waiting, served, leaving, loop, timeOutCnt>>
      /\ handler[s] = "quit" /\ handler' = [handler EXCEPT ![s] = "off"]
      /\ receiver[s] = "select" /\ receiver' = [receiver EXCEPT ![s] = "off"]
  BY DEF Quit, Handler, locks, tickVars
<1>2. PICK k \in 1..Len(recvq) : recvq[k] = s /\ recvq' = RemoveAt(recvq, k)
  BY DEF Quit
<1>3. /\ recvq' \in Seq(Socket) /\ Len(recvq) \in Nat /\ Len(recvq') = Len(recvq) - 1
      /\ \A i \in 1..Len(recvq) - 1 : recvq'[i] = IF i < k THEN recvq[i] ELSE recvq[i + 1]
  BY <1>0, <1>2, Removed DEF TypeOK
<1> DEFINE f == [i \in 1..Len(recvq') |-> IF i < k THEN i ELSE i + 1]
<1>4. /\ f \in [1..Len(recvq') -> 1..Len(recvq)]
      /\ \A i, j \in 1..Len(recvq') : i < j => f[i] < f[j]
      /\ \A i \in 1..Len(recvq') : recvq'[i] = recvq[f[i]] /\ f[i] # k
  BY <1>3
<1>5. \A i \in 1..Len(recvq') : recvq[f[i]] # s
  BY <1>0, <1>2, <1>4 DEF FeedInv
<1>6. ASSUME NEW m \in 1..Len(recvq)
      PROVE  recvq[m] = s \/ \E i \in 1..Len(recvq') : f[i] = m
  <2>1. CASE m < k
    <3>1. m \in 1..Len(recvq') /\ f[m] = m
      BY <2>1, <1>3
    <3>2. QED
      BY <3>1
  <2>2. CASE m > k
    <3>1. m - 1 \in 1..Len(recvq') /\ f[m - 1] = m
      BY <2>2, <1>3
    <3>2. QED
      BY <3>1
  <2>3. CASE m = k
    BY <2>3, <1>2
  <2>4. QED
    BY <2>1, <2>2, <2>3, <1>3
<1> HIDE DEF f
<1>6a. /\ recvq' \in Seq(Socket) /\ f \in [1..Len(recvq') -> 1..Len(recvq)]
       /\ \A i, j \in 1..Len(recvq') : i < j => f[i] < f[j]
       /\ \A i \in 1..Len(recvq') : recvq'[i] = recvq[f[i]] /\ recvq[f[i]] # s
       /\ \A m \in 1..Len(recvq) : recvq[m] = s \/ \E i \in 1..Len(recvq') : f[i] = m
  BY <1>3, <1>4, <1>5, <1>6
<1>7. /\ \A i, j \in 1..Len(recvq') : recvq'[i] = recvq'[j] => i = j
      /\ \A i \in 1..Len(recvq') : recvq'[i] \in Socket \ {s} /\ receiver[recvq'[i]] = "select"
      /\ \A r \in Socket \ {s} :
            receiver[r] = "select" => \E i \in 1..Len(recvq') : recvq'[i] = r
      /\ ToSet(recvq)' = ToSet(recvq) \ {s}
      /\ InTick => \A i, j \in 1..Len(recvq') :
                      i < j /\ recvq'[j] \in Left => recvq'[i] \in Left
  BY ONLY Core, <1>6a, LeaveQueue, s \in Socket
<1>8. /\ handler'[s] = "off" /\ receiver'[s] = "off"
      /\ \A r \in Socket \ {s} : handler'[r] = handler[r] /\ receiver'[r] = receiver[r]
  BY <1>0, <1>1 DEF TypeOK
<1>9. TypeOK'
  <2>1. /\ handler' \in [Socket -> {"off", "connect", "start", "on", "disconnect", "quit"}]
        /\ receiver' \in [Socket -> {"off", "select", "got", "sockets", "fmu", "emit"}]
    BY <1>0, <1>1 DEF TypeOK
  <2>2. QED
    BY <2>1, <1>0, <1>1, <1>3 DEF TypeOK
<1>10. LockInv' /\ FmuWaitsForBrowsers'
  BY <1>0, <1>1, <1>8 DEF LockInv, FmuWaitsForBrowsers, InTick
<1>11. Counted' = Counted /\ Closing' = Closing \ {s} /\ Left' = Left
  BY <1>0, <1>1 DEF Counted, Closing, Left, TypeOK
<1>12. FeedInv'
  <2>1. cnt' = Cardinality(Counted')
    BY <1>0, <1>1, <1>11 DEF FeedInv
  <2>2. \A i \in 1..Len(recvq') : receiver'[recvq'[i]] = "select"
    BY <1>7, <1>8
  <2>3. \A r \in Socket : receiver'[r] = "select" => \E i \in 1..Len(recvq') : recvq'[i] = r
    BY <1>7, <1>8
  <2>4. \A r \in Socket : receiver'[r] # "off" => handler'[r] \in {"on", "disconnect", "quit"}
    BY <1>0, <1>8 DEF FeedInv
  <2>5. QED
    BY <2>1, <2>2, <2>3, <2>4, <1>7 DEF FeedInv
<1>13. TickInv'
  <2> SUFFICES ASSUME InTick PROVE TickInv'
    BY <1>0, <1>1 DEF TickInv, InTick
  <2>1. \A r \in Left : r \in ToSet(recvq)' \/ handler'[r] \in {"off", "connect"}
    BY <1>0, <1>7, <1>8, Sets DEF TickInv
  <2>2. \/ served \subseteq waiting /\ Cardinality(served) = sends
        \/ ToSet(recvq)' \cap Left = {}
    BY <1>0, <1>7 DEF TickInv
  <2>3. Cardinality(Closing' \cup (Left \ ToSet(recvq)')) <= leaving
    <3>1. s \in Closing
      BY <1>1 DEF Closing
    <3>2. Closing' \cup (Left \ ToSet(recvq)') \in SUBSET (Closing \cup (Left \ ToSet(recvq)))
      BY <3>1, <1>7, <1>11
    <3>3. Closing \cup (Left \ ToSet(recvq)) \in SUBSET Socket
      BY Sets
    <3>4. Closing' \cup (Left \ ToSet(recvq)') \in SUBSET Socket
      BY <3>2, <3>3
    <3>5. Cardinality(Closing' \cup (Left \ ToSet(recvq)'))
            <= Cardinality(Closing \cup (Left \ ToSet(recvq)))
      BY <3>2, <3>3, Sockets
    <3>6. /\ Cardinality(Closing' \cup (Left \ ToSet(recvq)')) \in Nat
          /\ Cardinality(Closing \cup (Left \ ToSet(recvq))) \in Nat
      BY <3>3, <3>4, Sockets, Names
    <3>7. Cardinality(Closing \cup (Left \ ToSet(recvq))) <= leaving /\ leaving \in Nat
      BY <1>0, Names DEF TickInv, TypeOK
    <3>8. QED
      BY <3>5, <3>6, <3>7
  <2>4. QED
    BY <1>0, <1>1, <1>7, <1>11, <2>1, <2>2, <2>3 DEF TickInv, InTick
<1>14. QED
  BY <1>9, <1>10, <1>12, <1>13 DEF Core

-----------------------------------------------------------------------------
\* The periodic goroutine asks for socketLock, and lets it go.
LEMMA TickOK ==
    ASSUME Core, Tick
    PROVE  Core'
<1>0. TypeOK /\ LockInv /\ FeedInv /\ TickInv /\ FmuWaitsForBrowsers
  BY DEF Core
<1>1. /\ tick = "idle" /\ tick' = "sockets" /\ sockLock' = RLock(sockLock, Periodic)
      /\ UNCHANGED <<fmuLock, handler, receiver, recvq, cnt, sends, waiting, leaving, served,
                     loop, timeOutCnt>>
  BY DEF Tick, feedVars
<1>2. sockLock' \in Lock /\ Periodic \in sockLock'.readers \cup sockLock'.blocked
  <2>1. sockLock \in Lock /\ Periodic \in Process
    BY <1>0, Names DEF TypeOK
  <2>2. /\ RLock(sockLock, Periodic) \in Lock
        /\ Periodic \in RLock(sockLock, Periodic).readers \cup RLock(sockLock, Periodic).blocked
    BY <2>1, RLocked
  <2>3. QED
    BY <1>1, <2>2
<1>3. TypeOK'
  BY <1>0, <1>1, <1>2 DEF TypeOK
<1>4. LockInv' /\ FmuWaitsForBrowsers'
  BY <1>0, <1>1, <1>2 DEF LockInv, FmuWaitsForBrowsers, InTick
<1>5. FeedInv' /\ TickInv'
  BY <1>0, <1>1 DEF FeedInv, Counted, TickInv, InTick
<1>6. QED
  BY <1>3, <1>4, <1>5 DEF Core

LEMMA EndOK ==
    ASSUME Core, End
    PROVE  Core'
<1>0. TypeOK /\ LockInv /\ FeedInv /\ TickInv /\ FmuWaitsForBrowsers
  BY DEF Core
<1>1. /\ tick = "next" /\ tick' = "idle" /\ sockLock' = RUnlock(sockLock, Periodic)
      /\ sends' = 0 /\ waiting' = {} /\ served' = {} /\ leaving' = 0
      /\ UNCHANGED <<fmuLock, handler, receiver, recvq, cnt, loop, timeOutCnt>>
  BY DEF End, feedVars
<1>2. sockLock' \in Lock
  BY <1>0, <1>1, RUnlocked, Names DEF TypeOK
<1>3. TypeOK'
  <2>1. 0 \in 0..Cardinality(Socket)
    BY Names
  <2>2. QED
    BY <2>1, <1>0, <1>1, <1>2 DEF TypeOK
<1>4. LockInv' /\ FmuWaitsForBrowsers'
  BY <1>0, <1>1, <1>2 DEF LockInv, FmuWaitsForBrowsers, InTick
<1>5. FeedInv'
  BY <1>0, <1>1 DEF FeedInv, Counted
<1>6. TickInv'
  <2>1. 0 <= cnt
    BY <1>0, Names DEF TypeOK
  <2>2. QED
    BY <2>1, <1>1 DEF TickInv, InTick
<1>7. QED
  BY <1>3, <1>4, <1>5, <1>6 DEF Core

\* The tick begins: no more sockets wait than are counted, or are being closed.
LEMMA BeginOK ==
    ASSUME Core, Begin
    PROVE  Core'
<1>0. TypeOK /\ LockInv /\ FeedInv /\ TickInv /\ FmuWaitsForBrowsers
  BY DEF Core
<1>1. /\ tick = "sockets" /\ tick' = "next" /\ Periodic \in sockLock.readers
      /\ waiting' = ToSet(recvq) /\ leaving' = Cardinality(Closing)
      /\ UNCHANGED <<sockLock, fmuLock, handler, receiver, recvq, cnt, sends, served, loop,
                     timeOutCnt>>
  BY DEF Begin, Closing, locks, feedVars
<1>2. /\ sends = 0 /\ served = {} /\ Left' = ToSet(recvq) /\ ToSet(recvq) \in SUBSET Socket
      /\ Closing \in SUBSET Socket /\ Counted \in SUBSET Socket
  BY <1>0, <1>1, Sets DEF TickInv, InTick, Left
<1>3. leaving' \in 0..Cardinality(Socket)
  BY <1>1, <1>2, Sockets
<1>4. TypeOK'
  BY <1>0, <1>1, <1>2, <1>3 DEF TypeOK
<1>5. LockInv' /\ FmuWaitsForBrowsers'
  BY <1>0, <1>1 DEF LockInv, FmuWaitsForBrowsers, InTick
<1>6. FeedInv'
  BY <1>0, <1>1 DEF FeedInv, Counted
<1>7. Cardinality(waiting') <= cnt + leaving'
  <2>1. ToSet(recvq) \in SUBSET (Counted \cup Closing)
    BY <1>0, Sets DEF FeedInv, Counted, Closing
  <2>2. Counted \cap Closing = {}
    BY DEF Counted, Closing
  <2>3. IsFiniteSet(Counted) /\ IsFiniteSet(Closing)
        /\ Cardinality(Counted) \in Nat /\ Cardinality(Closing) \in Nat
    BY <1>2, Sockets, Names
  <2>4. Cardinality(Counted \cup Closing) = Cardinality(Counted) + Cardinality(Closing)
    <3>1. Cardinality(Counted \cap Closing) = 0
      BY <2>2, FS_EmptySet
    <3>2. Cardinality(Counted \cup Closing)
            = Cardinality(Counted) + Cardinality(Closing) - Cardinality(Counted \cap Closing)
      BY <2>3, FS_Union
    <3>3. QED
      BY <2>3, <3>1, <3>2
  <2>5. Counted \cup Closing \in SUBSET Socket
    BY <1>2
  <2>6. Cardinality(ToSet(recvq)) <= Cardinality(Counted \cup Closing)
    BY <2>1, <2>5, Sockets
  <2>7. QED
    BY <2>4, <2>6, <1>0, <1>1 DEF FeedInv
<1>8. TickInv'
  <2>1. Closing' = Closing /\ ToSet(recvq)' = ToSet(recvq)
    BY <1>1 DEF Closing, ToSet
  <2>2. \A i \in 1..Len(recvq') : recvq'[i] \in Left'
    BY <1>1, <1>2, Sets
  <2>3. Closing' \cup (Left' \ ToSet(recvq)') = Closing
    BY <1>2, <2>1
  <2>4. Cardinality(Closing' \cup (Left' \ ToSet(recvq)')) <= leaving'
    BY <2>3, <1>1, <1>3, Names
  <2>5. served' \subseteq waiting' /\ Cardinality(served') = sends'
    BY <1>1, <1>2, FS_EmptySet
  <2>6. 0 <= cnt
    BY <1>0, Names DEF TypeOK
  <2>7. QED
    BY <1>1, <1>2, <1>7, <2>1, <2>2, <2>4, <2>5, <2>6 DEF TickInv, InTick
<1>9. QED
  BY <1>4, <1>5, <1>6, <1>8 DEF Core

\* GetData, under the state's lock.
LEMMA DataOK ==
    ASSUME Core, AskData \/ GetData
    PROVE  Core'
<1>0. TypeOK /\ LockInv /\ FeedInv /\ TickInv /\ FmuWaitsForBrowsers
  BY DEF Core
<1>1. /\ \/ tick = "next" /\ sends < cnt /\ tick' = "data" /\ fmuLock' = RLock(fmuLock, Periodic)
         \/ tick = "data" /\ tick' = "send" /\ fmuLock' = RUnlock(fmuLock, Periodic)
            /\ Periodic \in fmuLock.readers
      /\ UNCHANGED <<sockLock, handler, receiver, recvq, cnt, sends, waiting, leaving, served,
                     loop, timeOutCnt>>
      /\ fmuLock \in Lock
  BY <1>0 DEF AskData, GetData, feedVars, TypeOK
<1>2. FeedInv'
  BY <1>0, <1>1 DEF FeedInv, Counted
<1>3. TickInv'
  BY <1>0, <1>1 DEF TickInv, InTick, Left, Closing, ToSet
<1>4. CASE tick = "next" /\ sends < cnt /\ tick' = "data" /\ fmuLock' = RLock(fmuLock, Periodic)
  <2>1. /\ fmuLock' \in Lock /\ fmuLock'.writer = fmuLock.writer
        /\ fmuLock.writer = Nobody => /\ fmuLock'.readers = fmuLock.readers \cup {Periodic}
                                      /\ fmuLock'.blocked = fmuLock.blocked
        /\ fmuLock.writer # Nobody => /\ fmuLock'.readers = fmuLock.readers
                                      /\ fmuLock'.blocked = fmuLock.blocked \cup {Periodic}
    BY <1>1, <1>4, RLocked, Names
  <2>2. Periodic \notin fmuLock.readers \cup fmuLock.blocked
    BY <1>0, <1>4, Names DEF LockInv, FmuWaitsForBrowsers
  <2>3. TypeOK'
    BY <1>0, <1>1, <1>4, <2>1 DEF TypeOK
  <2>4. LockInv'
    <3>1. loop # "read" => fmuLock.writer # Nobody
      BY <1>0, Names DEF LockInv
    <3>2. QED
      BY <1>0, <1>1, <1>4, <2>1, <2>2, <3>1 DEF LockInv, InTick
  <2>5. FmuWaitsForBrowsers'
    BY <1>0, <1>1, <1>4, <2>1 DEF FmuWaitsForBrowsers
  <2>6. QED
    BY <1>2, <1>3, <2>3, <2>4, <2>5 DEF Core
<1>5. CASE /\ tick = "data" /\ tick' = "send" /\ fmuLock' = RUnlock(fmuLock, Periodic)
           /\ Periodic \in fmuLock.readers
  <2>1. /\ fmuLock' \in Lock /\ fmuLock'.writer = fmuLock.writer
        /\ fmuLock'.readers = fmuLock.readers \ {Periodic} /\ fmuLock'.blocked = fmuLock.blocked
    BY <1>1, <1>5, RUnlocked, Names
  <2>2. Periodic \notin fmuLock.blocked
    BY <1>0, <1>5 DEF LockInv
  <2>3. TypeOK'
    BY <1>0, <1>1, <1>5, <2>1 DEF TypeOK
  <2>4. LockInv'
    BY <1>0, <1>1, <1>5, <2>1, <2>2, Names DEF LockInv, InTick
  <2>5. FmuWaitsForBrowsers'
    BY <1>0, <1>1, <1>5, <2>1 DEF FmuWaitsForBrowsers
  <2>6. QED
    BY <1>2, <1>3, <2>3, <2>4, <2>5 DEF Core
<1>6. QED
  BY <1>1, <1>4, <1>5

\* A send goes to the first in the queue: to one that waits since the tick began,
\* if there is any left.
LEMMA SendOK ==
    ASSUME Core, Send
    PROVE  Core'
<1>0. TypeOK /\ LockInv /\ FeedInv /\ TickInv /\ FmuWaitsForBrowsers
  BY DEF Core
<1>1. /\ tick = "send" /\ tick' = "next" /\ recvq # <<>> /\ sends' = sends + 1
      /\ receiver' = [receiver EXCEPT ![Head(recvq)] = "got"]
      /\ recvq' = Tail(recvq) /\ served' = served \cup {Head(recvq)}
      /\ UNCHANGED <<sockLock, fmuLock, handler, cnt, waiting, leaving, loop, timeOutCnt>>
  BY DEF Send, locks
<1>2. /\ recvq' \in Seq(Socket) /\ Head(recvq) \in Socket /\ Head(recvq) = recvq[1]
      /\ Len(recvq) \in Nat /\ Len(recvq) >= 1 /\ Len(recvq') = Len(recvq) - 1
      /\ \A i \in 1..Len(recvq') : recvq'[i] = recvq[i + 1]
  BY <1>0, <1>1, Served DEF TypeOK
<1>3. PICK s \in Socket : s = Head(recvq)
  BY <1>2
<1> DEFINE f == [i \in 1..Len(recvq') |-> i + 1]
<1>4. /\ f \in [1..Len(recvq') -> 1..Len(recvq)]
      /\ \A i, j \in 1..Len(recvq') : i < j => f[i] < f[j]
      /\ \A i \in 1..Len(recvq') : recvq'[i] = recvq[f[i]] /\ f[i] # 1
  BY <1>2
<1>5. \A i \in 1..Len(recvq') : recvq[f[i]] # s
  BY <1>0, <1>2, <1>3, <1>4 DEF FeedInv
<1>6. ASSUME NEW m \in 1..Len(recvq)
      PROVE  recvq[m] = s \/ \E i \in 1..Len(recvq') : f[i] = m
  <2>1. CASE m = 1
    BY <2>1, <1>2, <1>3
  <2>2. CASE m > 1
    <3>1. m - 1 \in 1..Len(recvq') /\ f[m - 1] = m
      BY <2>2, <1>2
    <3>2. QED
      BY <3>1
  <2>3. QED
    BY <2>1, <2>2
<1> HIDE DEF f
<1>7. /\ recvq' \in Seq(Socket) /\ f \in [1..Len(recvq') -> 1..Len(recvq)]
      /\ \A i, j \in 1..Len(recvq') : i < j => f[i] < f[j]
      /\ \A i \in 1..Len(recvq') : recvq'[i] = recvq[f[i]] /\ recvq[f[i]] # s
      /\ \A m \in 1..Len(recvq) : recvq[m] = s \/ \E i \in 1..Len(recvq') : f[i] = m
  BY <1>2, <1>4, <1>5, <1>6
<1>8. /\ \A i, j \in 1..Len(recvq') : recvq'[i] = recvq'[j] => i = j
      /\ \A i \in 1..Len(recvq') : recvq'[i] \in Socket \ {s} /\ receiver[recvq'[i]] = "select"
      /\ \A r \in Socket \ {s} :
            receiver[r] = "select" => \E i \in 1..Len(recvq') : recvq'[i] = r
      /\ ToSet(recvq)' = ToSet(recvq) \ {s}
      /\ InTick => \A i, j \in 1..Len(recvq') :
                      i < j /\ recvq'[j] \in Left => recvq'[i] \in Left
  BY ONLY Core, <1>7, LeaveQueue, s \in Socket
<1>9. /\ receiver[s] = "select" /\ receiver'[s] = "got" /\ s \in ToSet(recvq)
      /\ \A r \in Socket \ {s} : receiver'[r] = receiver[r]
      /\ receiver' \in [Socket -> {"off", "select", "got", "sockets", "fmu", "emit"}]
  BY <1>0, <1>1, <1>2, <1>3, Sets DEF FeedInv, TypeOK
<1>10. /\ InTick /\ InTick' /\ sends < cnt /\ sends \in Nat /\ cnt \in Nat
       /\ Closing' = Closing /\ Counted' = Counted /\ Left' = Left \ {s}
       /\ served' = served \cup {s} /\ served \in SUBSET Socket
  BY <1>0, <1>1, <1>3, Names DEF TickInv, TypeOK, InTick, Closing, Counted, Left
<1>11. TypeOK'
  <2>1. sends' \in 0..Cardinality(Socket)
    BY <1>0, <1>1, <1>10, Names DEF TypeOK
  <2>2. QED
    BY <2>1, <1>0, <1>1, <1>2, <1>9, <1>10 DEF TypeOK
<1>12. LockInv' /\ FmuWaitsForBrowsers'
  BY <1>0, <1>1, <1>9, Names DEF LockInv, FmuWaitsForBrowsers, InTick
<1>13. FeedInv'
  <2>1. cnt' = Cardinality(Counted')
    BY <1>0, <1>1, <1>10 DEF FeedInv
  <2>2. \A i \in 1..Len(recvq') : receiver'[recvq'[i]] = "select"
    BY <1>8, <1>9
  <2>3. \A r \in Socket : receiver'[r] = "select" => \E i \in 1..Len(recvq') : recvq'[i] = r
    BY <1>8, <1>9
  <2>4. \A r \in Socket : receiver'[r] # "off" => handler'[r] \in {"on", "disconnect", "quit"}
    BY <1>0, <1>1, <1>9 DEF FeedInv
  <2>5. QED
    BY <2>1, <2>2, <2>3, <2>4, <1>8 DEF FeedInv
<1>14. TickInv'
  <2>1. \A i, j \in 1..Len(recvq') : i < j /\ recvq'[j] \in Left' => recvq'[i] \in Left'
    BY <1>8, <1>10
  <2>2. \A r \in Left' : r \in ToSet(recvq)' \/ handler'[r] \in {"off", "connect"}
    BY <1>0, <1>1, <1>8, <1>10 DEF TickInv
  <2>3. \/ served' \subseteq waiting /\ Cardinality(served') = sends'
        \/ ToSet(recvq)' \cap Left' = {}
    <3>1. CASE ToSet(recvq) \cap Left = {}
      BY <3>1, <1>8, <1>10
    <3>2. CASE /\ ToSet(recvq) \cap Left # {}
               /\ served \subseteq waiting /\ Cardinality(served) = sends
      <4>1. PICK r \in Socket : r \in ToSet(recvq) /\ r \in Left
        BY <3>2, Sets
      <4>2. PICK k \in 1..Len(recvq) : recvq[k] = r
        BY <4>1, Sets
      <4>3. s \in Left
        <5>1. CASE k = 1
          BY <5>1, <4>1, <4>2, <1>2, <1>3
        <5>2. CASE 1 < k
          <6>1. 1 \in 1..Len(recvq)
            BY <1>2
          <6>2. recvq[1] \in Left
            BY <5>2, <6>1, <4>1, <4>2, <1>0, <1>10 DEF TickInv
          <6>3. QED
            BY <6>2, <1>2, <1>3
        <5>3. QED
          BY <5>1, <5>2
      <4>4. s \in waiting /\ s \notin served
        BY <4>3 DEF Left
      <4>5. IsFiniteSet(served)
        BY <1>10, Sockets
      <4>6. Cardinality(served') = sends'
        BY <1>1, <1>10, <3>2, <4>4, <4>5, FS_AddElement
      <4>7. QED
        BY <3>2, <4>4, <4>6, <1>10
    <3>3. QED
      BY <3>1, <3>2, <1>0, <1>10 DEF TickInv
  <2>4. Left' \ ToSet(recvq)' = Left \ ToSet(recvq)
    BY <1>8, <1>9, <1>10
  <2>5. Cardinality(Closing' \cup (Left' \ ToSet(recvq)')) <= leaving
    BY <2>4, <1>0, <1>10 DEF TickInv
  <2>6. sends' <= cnt /\ tick' \notin {"data", "send"}
    BY <1>1, <1>10
  <2>7. Cardinality(waiting) <= cnt + leaving
    BY <1>0, <1>10 DEF TickInv
  <2>8. QED
    BY <1>1, <1>10, <2>1, <2>2, <2>3, <2>5, <2>6, <2>7 DEF TickInv
<1>15. QED
  BY <1>11, <1>12, <1>13, <1>14 DEF Core

-----------------------------------------------------------------------------
LEMMA StutterOK ==
    ASSUME Core, UNCHANGED vars
    PROVE  Core'
<1>1. UNCHANGED <<sockLock, fmuLock, handler, receiver, recvq, cnt, tick, sends, waiting,
                  leaving, served, loop, timeOutCnt>>
  BY DEF vars, locks, feedVars, tickVars
<1>2. TypeOK'
  BY <1>1 DEF Core, TypeOK
<1>3. LockInv' /\ FeedInv' /\ FmuWaitsForBrowsers'
  BY <1>1 DEF Core, LockInv, FeedInv, FmuWaitsForBrowsers, InTick, Counted
<1>4. QED
  BY <1>1, <1>2, <1>3, StillOK DEF Core

LEMMA StepOK == Core /\ [Next]_vars => Core'
<1> SUFFICES ASSUME Core, [Next]_vars PROVE Core'
  OBVIOUS
<1>1. ASSUME NEW s \in Socket,
             Connect(s) \/ Disconnect(s) \/ HandlerStep(s) \/ ReceiverStep(s) \/ Interval(s)
      PROVE  Core'
  <2>1. CASE Connect(s) \/ Disconnect(s) \/ HandlerStep(s)
    BY <2>1, HandlerOK, CountOK, StartOK, QuitOK DEF HandlerStep
  <2>2. CASE ReceiverStep(s) \/ Interval(s)
    BY <2>2, ReceiveOK, EndEmitOK, IntervalOK DEF ReceiverStep
  <2>3. QED
    BY <1>1, <2>1, <2>2
<1>2. CASE PeriodicStep
  BY <1>2, TickOK, BeginOK, DataOK, SendOK, EndOK DEF PeriodicStep
<1>3. CASE ReadPacket \/ LoopStep
  BY <1>3, LoopOK
<1>4. CASE UNCHANGED vars
  BY <1>4, StutterOK
<1>5. QED
  BY <1>1, <1>2, <1>3, <1>4 DEF Next

-----------------------------------------------------------------------------
\* The inductive invariant of the feed.
THEOREM InductiveInvariant == Spec => []IInv
BY InitOK, StepOK, CoreIsIInv, PTL DEF Spec

\* Locks, counts and queue keep their types; socketCnt counts no more than there are.
THEOREM TypeCorrect == Spec => []TypeOK
<1>1. IInv => TypeOK
  BY DEF IInv
<1>2. QED
  BY <1>1, InductiveInvariant, PTL

\* The loop writes no map while an Emit (statusServer.go:141-144) encodes it.
THEOREM EmitsAreUndisturbed == Spec => []NoWriteDuringEmit
<1>1. IInv => NoWriteDuringEmit
  BY DEF IInv
<1>2. QED
  BY <1>1, InductiveInvariant, PTL

\* The FMU loop (fmulink.go:432) waits for a copy or an Emit, never for the feed.
THEOREM LoopWaitsForBrowsers == Spec => []FmuWaitsForBrowsers
<1>1. IInv => FmuWaitsForBrowsers
  BY DEF IInv
<1>2. QED
  BY <1>1, InductiveInvariant, PTL

\* periodicFmuStatus (statusServer.go:281-297) counts its events out to those that
\* wait for them, but for as many as are closing.
THEOREM TicksServe == Spec => []TickSucceeds
<1>1. IInv => TickSucceeds
  BY DEF IInv
<1>2. QED
  BY <1>1, InductiveInvariant, PTL

-----------------------------------------------------------------------------
(* Who waits for whom.                                                     *)

\* At first nobody asks for a lock.
LEMMA InitWaits == Init => WaitInv
BY Names DEF Init, WaitInv, Reading, AskingFmu, Free

\* The handlers of a socket (statusServer.go:117-134).
LEMMA HandlerWaits ==
    ASSUME Core, WaitInv, NEW s \in Socket, Connect(s) \/ Disconnect(s) \/ HandlerStep(s)
    PROVE  WaitInv'
<1> USE Names DEF tickVars, feedVars, locks
<1>0. TypeOK /\ sockLock \in Lock /\ fmuLock \in Lock
  BY DEF Core, TypeOK
<1>1. CASE Connect(s) \/ Disconnect(s) \/ Start(s) \/ Quit(s)
  <2>1. /\ UNCHANGED <<sockLock, fmuLock, tick, loop>>
        /\ \A t \in Socket : t # s => handler'[t] = handler[t] /\ receiver'[t] = receiver[t]
        /\ receiver[s] \in {"off", "select"} => receiver'[s] \in {"off", "select"}
        /\ receiver[s] \notin {"off", "select"} => receiver'[s] = receiver[s]
        /\ handler'[s] \in {"on", "disconnect", "quit"} => receiver'[s] # "off"
        /\ handler[s] \notin {"connect", "disconnect"} \/ handler'[s] = handler[s]
    BY <1>0, <1>1 DEF Connect, Disconnect, Start, Quit, Handler, TypeOK, WaitInv, Core, FeedInv
  <2>2. Reading' = Reading /\ AskingFmu' = AskingFmu
    BY <2>1 DEF Reading, AskingFmu
  <2>3. QED
    BY <2>1, <2>2 DEF WaitInv
<1>2. CASE Ask(s)
  <2>1. /\ handler[s] \in {"connect", "disconnect"} /\ sockLock.writer = Nobody
        /\ sockLock' = Announce(sockLock, s)
        /\ UNCHANGED <<fmuLock, handler, receiver, tick, loop>>
    BY <1>2 DEF Ask
  <2>2. /\ sockLock'.writer = s /\ s # Nobody
        /\ sockLock'.readers = sockLock.readers /\ sockLock'.blocked = sockLock.blocked
    BY <1>0, <2>1, Announced
  <2>3. Reading' = Reading /\ AskingFmu' = AskingFmu
    BY <2>1 DEF Reading, AskingFmu
  <2>4. QED
    BY <2>1, <2>2, <2>3 DEF WaitInv
<1>3. CASE CountIn(s) \/ CountOut(s)
  <2>1. /\ sockLock.writer = s /\ sockLock.readers = {} /\ sockLock' = Unlock(sockLock)
        /\ UNCHANGED <<fmuLock, receiver, tick, loop>>
        /\ \A t \in Socket : t # s => handler'[t] = handler[t]
        /\ handler[s] \in {"connect", "disconnect"}
        /\ handler[s] = "connect" => handler'[s] = "start"
    BY <1>0, <1>3 DEF CountIn, CountOut, Handler, Holds, TypeOK
  <2>2. /\ sockLock'.writer = Nobody /\ sockLock'.readers = sockLock.blocked
        /\ sockLock'.blocked = {}
    BY <1>0, <2>1, Unlocked
  <2>3. Reading' = Reading /\ AskingFmu' = AskingFmu
    BY <2>1 DEF Reading, AskingFmu
  <2>4. \A t \in Socket : handler'[t] \in {"on", "disconnect", "quit"} => receiver'[t] # "off"
    BY <2>1 DEF WaitInv
  <2>5. QED
    BY <2>1, <2>2, <2>3, <2>4 DEF WaitInv
<1>4. QED
  BY <1>1, <1>2, <1>3 DEF HandlerStep

\* The goroutine of a socket reads under both locks (statusServer.go:139-146).
LEMMA ReceiverWaits ==
    ASSUME Core, WaitInv, NEW s \in Socket, ReceiverStep(s)
    PROVE  WaitInv'
<1> USE Names DEF tickVars, feedVars, locks
<1>0. TypeOK /\ sockLock \in Lock /\ fmuLock \in Lock /\ s \in Process
  BY DEF Core, TypeOK
<1>1. /\ UNCHANGED <<handler, tick, loop>>
      /\ \A t \in Socket : t # s => receiver'[t] = receiver[t]
  BY <1>0 DEF ReceiverStep, LockSockets, LockFmu, StartEmit, EndEmit, Receiver, TypeOK
<1>2. handler[s] \in {"on", "disconnect", "quit"} => receiver'[s] # "off"
  BY <1>0 DEF ReceiverStep, LockSockets, LockFmu, StartEmit, EndEmit, Receiver, TypeOK
<1>3. \A t \in Socket : handler'[t] \in {"on", "disconnect", "quit"} => receiver'[t] # "off"
  BY <1>1, <1>2 DEF WaitInv
<1>4. CASE LockSockets(s)
  <2>1. /\ receiver[s] = "got" /\ receiver'[s] = "sockets"
        /\ sockLock' = RLock(sockLock, s) /\ fmuLock' = fmuLock
    BY <1>0, <1>4 DEF LockSockets, Receiver, TypeOK
  <2>2. Reading' = Reading \cup {s} /\ AskingFmu' = AskingFmu /\ s \notin Reading
    BY <1>1, <2>1 DEF Reading, AskingFmu
  <2>3. s \notin sockLock.readers \cup sockLock.blocked
    BY <2>2 DEF WaitInv
  <2>4. CASE sockLock.writer = Nobody
    <3>1. /\ sockLock'.writer = Nobody /\ sockLock'.readers = sockLock.readers \cup {s}
          /\ sockLock'.blocked = sockLock.blocked
      BY <1>0, <2>1, <2>4, RLocked
    <3>2. sockLock'.readers \cup sockLock'.blocked = Reading' \cup {p \in {Periodic} : tick' # "idle"}
      BY <1>1, <2>2, <3>1 DEF WaitInv
    <3>3. sockLock'.readers \cap sockLock'.blocked = {} /\ sockLock'.blocked = {}
      BY <2>3, <2>4, <3>1 DEF WaitInv
    <3>4. QED
      BY <1>1, <1>3, <2>1, <2>2, <3>1, <3>2, <3>3 DEF WaitInv
  <2>5. CASE sockLock.writer # Nobody
    <3>1. /\ sockLock'.writer = sockLock.writer /\ sockLock'.readers = sockLock.readers
          /\ sockLock'.blocked = sockLock.blocked \cup {s}
      BY <1>0, <2>1, <2>5, RLocked
    <3>2. sockLock'.readers \cup sockLock'.blocked = Reading' \cup {p \in {Periodic} : tick' # "idle"}
      BY <1>1, <2>2, <3>1 DEF WaitInv
    <3>3. sockLock'.readers \cap sockLock'.blocked = {}
      BY <2>3, <3>1 DEF WaitInv
    <3>4. sockLock'.blocked \cap Socket \subseteq {t \in Socket : receiver'[t] = "sockets"}
      BY <1>1, <2>1, <3>1 DEF WaitInv
    <3>5. QED
      BY <1>1, <1>3, <2>1, <2>2, <2>5, <3>1, <3>2, <3>3, <3>4 DEF WaitInv
  <2>6. QED
    BY <2>4, <2>5
<1>5. CASE LockFmu(s) \/ StartEmit(s)
  <2>1. /\ receiver[s] \in {"sockets", "fmu"} /\ receiver'[s] \in {"fmu", "emit"}
        /\ sockLock' = sockLock /\ (receiver[s] = "sockets" => s \in sockLock.readers)
    BY <1>0, <1>5 DEF LockFmu, StartEmit, Receiver, TypeOK
  <2>2. Reading' = Reading
    BY <1>1, <2>1 DEF Reading
  <2>3. sockLock'.blocked \cap Socket \subseteq {t \in Socket : receiver'[t] = "sockets"}
    BY <1>1, <2>1 DEF WaitInv
  <2>4. /\ AskingFmu' \subseteq fmuLock'.readers \cup fmuLock'.blocked
        /\ fmuLock'.writer = fmuLock.writer
        /\ fmuLock'.writer = Nobody => fmuLock'.blocked = {}
    <3>1. CASE LockFmu(s)
      <4>1. fmuLock' = RLock(fmuLock, s) /\ AskingFmu' = AskingFmu \cup {s}
        BY <1>0, <1>1, <3>1 DEF LockFmu, Receiver, TypeOK, AskingFmu
      <4>2. /\ fmuLock'.writer = fmuLock.writer
            /\ fmuLock.writer = Nobody => /\ fmuLock'.readers = fmuLock.readers \cup {s}
                                          /\ fmuLock'.blocked = fmuLock.blocked
            /\ fmuLock.writer # Nobody => /\ fmuLock'.readers = fmuLock.readers
                                          /\ fmuLock'.blocked = fmuLock.blocked \cup {s}
        BY <1>0, <4>1, RLocked
      <4>3. QED
        BY <4>1, <4>2 DEF WaitInv
    <3>2. CASE StartEmit(s)
      <4>1. fmuLock' = fmuLock /\ AskingFmu' \subseteq AskingFmu
        BY <1>0, <1>1, <3>2 DEF StartEmit, Receiver, TypeOK, AskingFmu
      <4>2. QED
        BY <4>1 DEF WaitInv
    <3>3. QED
      BY <1>5, <3>1, <3>2
  <2>5. QED
    BY <1>1, <1>3, <2>1, <2>2, <2>3, <2>4 DEF WaitInv
<1>6. CASE EndEmit(s)
  <2>1. /\ receiver[s] = "emit" /\ receiver'[s] = "select"
        /\ sockLock' = RUnlock(sockLock, s) /\ fmuLock' = RUnlock(fmuLock, s)
    BY <1>0, <1>6 DEF EndEmit, Receiver, TypeOK
  <2>2. Reading' = Reading \ {s} /\ AskingFmu' = AskingFmu /\ s \notin AskingFmu
    BY <1>1, <2>1 DEF Reading, AskingFmu
  <2>3. /\ sockLock'.writer = sockLock.writer /\ sockLock'.readers = sockLock.readers \ {s}
        /\ sockLock'.blocked = sockLock.blocked
        /\ fmuLock'.writer = fmuLock.writer /\ fmuLock'.readers = fmuLock.readers \ {s}
        /\ fmuLock'.blocked = fmuLock.blocked
    BY <1>0, <2>1, RUnlocked
  <2>4. s \notin sockLock.blocked
    BY <2>1 DEF WaitInv
  <2>5. sockLock'.blocked \cap Socket \subseteq {t \in Socket : receiver'[t] = "sockets"}
    BY <1>1, <2>1, <2>3, <2>4 DEF WaitInv
  <2>6. sockLock'.readers \cup sockLock'.blocked = Reading' \cup {p \in {Periodic} : tick' # "idle"}
    BY <1>1, <2>2, <2>3, <2>4 DEF WaitInv
  <2>7. QED
    BY <1>1, <1>3, <2>2, <2>3, <2>5, <2>6 DEF WaitInv
<1>7. QED
  BY <1>4, <1>5, <1>6 DEF ReceiverStep

\* The tick holds socketLock, and the state's lock for a copy (statusServer.go:281-289).
LEMMA TickWaits ==
    ASSUME Core, WaitInv, PeriodicStep
    PROVE  WaitInv'
<1> USE Names DEF tickVars, feedVars, locks
<1>0. TypeOK /\ sockLock \in Lock /\ fmuLock \in Lock
  BY DEF Core, TypeOK
<1>1. UNCHANGED <<handler, loop>>
  BY DEF PeriodicStep, Tick, Begin, AskData, GetData, Send, End
<1>2. \A t \in Socket : \/ receiver'[t] = receiver[t]
                        \/ Send /\ receiver[t] = "select" /\ receiver'[t] = "got"
  <2>1. CASE Send
    <3>1. Head(recvq) \in Socket /\ receiver[Head(recvq)] = "select"
      BY <1>0, <2>1, Served DEF Send, Core, FeedInv, TypeOK
    <3>2. QED
      BY <1>0, <2>1, <3>1 DEF Send, TypeOK
  <2>2. CASE ~Send
    BY <2>2 DEF PeriodicStep, Tick, Begin, AskData, GetData, End
  <2>3. QED
    BY <2>1, <2>2
<1>3. /\ Reading' = Reading
      /\ {s \in Socket : receiver'[s] = "fmu"} = {s \in Socket : receiver[s] = "fmu"}
      /\ {s \in Socket : receiver'[s] = "sockets"} = {s \in Socket : receiver[s] = "sockets"}
      /\ \A t \in Socket : handler'[t] \in {"on", "disconnect", "quit"} => receiver'[t] # "off"
  BY <1>1, <1>2 DEF Reading, WaitInv
<1>4. CASE Tick
  <2>1. tick = "idle" /\ tick' = "sockets" /\ sockLock' = RLock(sockLock, Periodic) /\ fmuLock' = fmuLock
    BY <1>4 DEF Tick
  <2>2. /\ sockLock'.writer = sockLock.writer
        /\ sockLock.writer = Nobody => /\ sockLock'.readers = sockLock.readers \cup {Periodic}
                                       /\ sockLock'.blocked = sockLock.blocked
        /\ sockLock.writer # Nobody => /\ sockLock'.readers = sockLock.readers
                                       /\ sockLock'.blocked = sockLock.blocked \cup {Periodic}
    BY <1>0, <2>1, RLocked
  <2>3. AskingFmu' = AskingFmu
    BY <1>3, <2>1 DEF AskingFmu
  <2>4. Periodic \notin sockLock.readers \cup sockLock.blocked
    BY <2>1 DEF WaitInv, Reading
  <2>5. sockLock'.readers \cup sockLock'.blocked = Reading' \cup {p \in {Periodic} : tick' # "idle"}
    BY <1>3, <2>1, <2>2 DEF WaitInv
  <2>6. sockLock'.readers \cap sockLock'.blocked = {}
    BY <2>2, <2>4 DEF WaitInv
  <2>7. sockLock'.blocked \cap Socket = sockLock.blocked \cap Socket
    BY <2>2
  <2>8. QED
    BY <1>1, <1>3, <2>1, <2>2, <2>3, <2>5, <2>6, <2>7 DEF WaitInv
<1>5. CASE Begin \/ Send
  <2>1. UNCHANGED <<sockLock, fmuLock>> /\ tick \notin {"idle", "data"} /\ tick' \notin {"idle", "data"}
    BY <1>5 DEF Begin, Send
  <2>2. AskingFmu' = AskingFmu
    BY <1>3, <2>1 DEF AskingFmu
  <2>3. QED
    BY <1>1, <1>3, <2>1, <2>2 DEF WaitInv
<1>6. CASE AskData
  <2>1. tick = "next" /\ tick' = "data" /\ sockLock' = sockLock /\ fmuLock' = RLock(fmuLock, Periodic)
    BY <1>6 DEF AskData
  <2>2. /\ fmuLock'.writer = fmuLock.writer
        /\ fmuLock.writer = Nobody => /\ fmuLock'.readers = fmuLock.readers \cup {Periodic}
                                      /\ fmuLock'.blocked = fmuLock.blocked
        /\ fmuLock.writer # Nobody => /\ fmuLock'.readers = fmuLock.readers
                                      /\ fmuLock'.blocked = fmuLock.blocked \cup {Periodic}
    BY <1>0, <2>1, RLocked
  <2>3. AskingFmu' \subseteq AskingFmu \cup {Periodic}
    BY <1>3 DEF AskingFmu
  <2>4. AskingFmu' \subseteq fmuLock'.readers \cup fmuLock'.blocked
    BY <2>2, <2>3 DEF WaitInv
  <2>5. QED
    BY <1>1, <1>3, <2>1, <2>2, <2>4 DEF WaitInv
<1>7. CASE GetData
  <2>1. tick = "data" /\ tick' = "send" /\ sockLock' = sockLock /\ fmuLock' = RUnlock(fmuLock, Periodic)
    BY <1>7 DEF GetData
  <2>2. /\ fmuLock'.writer = fmuLock.writer /\ fmuLock'.readers = fmuLock.readers \ {Periodic}
        /\ fmuLock'.blocked = fmuLock.blocked
    BY <1>0, <2>1, RUnlocked
  <2>3. AskingFmu' \subseteq AskingFmu \ {Periodic}
    BY <1>3, <2>1 DEF AskingFmu
  <2>4. QED
    BY <1>1, <1>3, <2>1, <2>2, <2>3 DEF WaitInv
<1>8. CASE End
  <2>1. tick = "next" /\ tick' = "idle" /\ fmuLock' = fmuLock /\ sockLock' = RUnlock(sockLock, Periodic)
    BY <1>8 DEF End
  <2>2. /\ sockLock'.writer = sockLock.writer /\ sockLock'.readers = sockLock.readers \ {Periodic}
        /\ sockLock'.blocked = sockLock.blocked
    BY <1>0, <2>1, RUnlocked
  <2>3. AskingFmu' = AskingFmu
    BY <1>3, <2>1 DEF AskingFmu
  <2>4. Periodic \in sockLock.readers /\ Periodic \notin sockLock.blocked /\ Periodic \notin Reading
    BY <2>1 DEF WaitInv, Core, LockInv, InTick, Reading
  <2>5. sockLock'.readers \cup sockLock'.blocked = Reading' \cup {p \in {Periodic} : tick' # "idle"}
    BY <1>3, <2>1, <2>2, <2>4 DEF WaitInv
  <2>6. QED
    BY <1>1, <1>3, <2>1, <2>2, <2>3, <2>5 DEF WaitInv
<1>9. QED
  BY <1>4, <1>5, <1>6, <1>7, <1>8 DEF PeriodicStep

\* The FMU loop asks for the state's lock and writes (fmulink.go:431-433, 728-731).
LEMMA LoopWaits ==
    ASSUME Core, WaitInv, ReadPacket \/ LoopStep
    PROVE  WaitInv'
<1> USE Names DEF tickVars, feedVars, locks
<1>0. TypeOK /\ sockLock \in Lock /\ fmuLock \in Lock /\ FmuLoop \in Process
  BY DEF Core, TypeOK
<1>1. UNCHANGED <<sockLock, handler, receiver, tick>>
  BY DEF ReadPacket, LoopStep, LockStatus, WriteStatus
<1>2. Reading' = Reading /\ AskingFmu' = AskingFmu
  BY <1>1 DEF Reading, AskingFmu
<1>3. CASE ReadPacket
  <2>1. loop' = "lock" /\ fmuLock' = Announce(fmuLock, FmuLoop)
    BY <1>3 DEF ReadPacket
  <2>2. /\ fmuLock'.writer = FmuLoop
        /\ fmuLock'.readers = fmuLock.readers /\ fmuLock'.blocked = fmuLock.blocked
    BY <1>0, <2>1, Announced
  <2>3. QED
    BY <1>1, <1>2, <2>1, <2>2 DEF WaitInv
<1>4. CASE LockStatus
  <2>1. loop' = "write" /\ fmuLock' = fmuLock
    BY <1>4 DEF LockStatus
  <2>2. QED
    BY <1>1, <1>2, <2>1 DEF WaitInv
<1>5. CASE WriteStatus
  <2>1. loop = "write" /\ fmuLock' = Unlock(fmuLock) /\ fmuLock.readers = {}
    BY <1>5 DEF WriteStatus, Core, LockInv
  <2>2. /\ fmuLock'.writer = Nobody /\ fmuLock'.readers = fmuLock.blocked /\ fmuLock'.blocked = {}
    BY <1>0, <2>1, Unlocked
  <2>3. QED
    BY <1>1, <1>2, <2>1, <2>2 DEF WaitInv
<1>6. QED
  BY <1>3, <1>4, <1>5 DEF LoopStep

LEMMA StepWaits == Core /\ WaitInv /\ [Next]_vars => WaitInv'
<1> SUFFICES ASSUME Core, WaitInv, [Next]_vars PROVE WaitInv'
  OBVIOUS
<1>1. ASSUME NEW s \in Socket, Connect(s) \/ Disconnect(s) \/ HandlerStep(s)
      PROVE  WaitInv'
  BY <1>1, HandlerWaits
<1>2. ASSUME NEW s \in Socket, ReceiverStep(s)
      PROVE  WaitInv'
  BY <1>2, ReceiverWaits
<1>3. CASE (\E s \in Socket : Interval(s)) \/ UNCHANGED vars
  <2>1. UNCHANGED <<sockLock, fmuLock, handler, receiver, tick, loop>>
    BY <1>3 DEF Interval, vars, locks, feedVars, tickVars
  <2>2. Reading' = Reading /\ AskingFmu' = AskingFmu
    BY <2>1 DEF Reading, AskingFmu
  <2>3. QED
    BY <2>1, <2>2 DEF WaitInv
<1>4. CASE PeriodicStep
  BY <1>4, TickWaits
<1>5. CASE ReadPacket \/ LoopStep
  BY <1>5, LoopWaits
<1>6. QED
  BY <1>1, <1>2, <1>3, <1>4, <1>5 DEF Next

\* Whoever has asked for one of the two locks to read holds it, or waits for a writer
\* that is at the place in the code where it asked (statusServer.go:118-131,
\* fmulink.go:432-433): no lock is forgotten, by its holder or by who waits for it.
THEOREM WaitInvariant == Spec => []WaitInv
<1>1. Init => WaitInv
  BY InitWaits
<1>2. IInv /\ WaitInv /\ [Next]_vars => WaitInv'
  BY StepWaits, CoreIsIInv
<1>3. QED
  BY <1>1, <1>2, InductiveInvariant, PTL DEF Spec

\* A loop of the FMU that cannot go on waits for a goroutine that reads the state,
\* and that one can.
LEMMA LoopIsFree ==
    ASSUME IInv, WaitInv, ~CanGoOn
    PROVE  loop = "read" /\ fmuLock.writer = Nobody /\ AskingFmu = {}
<1> USE Names
<1>0. TypeOK /\ fmuLock \in Lock
  BY DEF IInv, TypeOK
<1>1. ASSUME NEW p \in fmuLock.readers
      PROVE  FALSE
  <2>1. \/ p = Periodic /\ tick = "data"
        \/ p \in Socket /\ receiver[p] \in {"fmu", "emit"}
    BY <1>1 DEF IInv, FmuWaitsForBrowsers
  <2>2. QED
    BY <1>1, <2>1 DEF CanGoOn
<1>2. loop # "lock"
  <2>1. SUFFICES ASSUME loop = "lock" PROVE FALSE
    OBVIOUS
  <2>2. fmuLock.writer = FmuLoop
    BY <2>1 DEF IInv, LockInv
  <2>3. fmuLock.readers = {}
    BY <1>1
  <2>4. QED
    BY <2>1, <2>2, <2>3 DEF CanGoOn, Holds
<1>3. loop = "read"
  BY <1>0, <1>2 DEF CanGoOn, TypeOK
<1>4. fmuLock.writer = Nobody /\ fmuLock.blocked = {}
  BY <1>3 DEF WaitInv
<1>5. AskingFmu = {}
  BY <1>1, <1>4 DEF WaitInv
<1>6. QED
  BY <1>3, <1>4, <1>5

\* So the goroutines that are left wait for socketLock, at their select, or in the send.
LEMMA WhereTheyWait ==
    ASSUME IInv, WaitInv, ~CanGoOn
    PROVE  /\ \A s \in Socket : receiver[s] \in {"off", "select", "sockets"}
           /\ \A s \in Socket : receiver[s] = "sockets" => s \in sockLock.blocked
           /\ \A s \in Socket : handler[s] \in {"off", "on", "connect", "disconnect", "quit"}
           /\ tick \in {"idle", "sockets", "send"}
           /\ tick = "sockets" => Periodic \in sockLock.blocked
           /\ tick = "send" => recvq = <<>>
<1> USE Names
<1>0. TypeOK /\ AskingFmu = {}
  BY LoopIsFree DEF IInv
<1>1. ASSUME NEW s \in Socket
      PROVE  /\ receiver[s] \in {"off", "select", "sockets"}
             /\ receiver[s] = "sockets" => s \in sockLock.blocked
             /\ handler[s] \in {"off", "on", "connect", "disconnect", "quit"}
  <2>1. receiver[s] # "fmu" /\ receiver[s] \notin {"got", "emit"} /\ handler[s] # "start"
    BY <1>0 DEF AskingFmu, CanGoOn
  <2>2. receiver[s] \in {"off", "select", "got", "sockets", "fmu", "emit"}
        /\ handler[s] \in {"off", "connect", "start", "on", "disconnect", "quit"}
    BY <1>0 DEF TypeOK
  <2>3. receiver[s] = "sockets" => s \in sockLock.readers \cup sockLock.blocked
    BY DEF WaitInv, Reading
  <2>4. QED
    BY <2>1, <2>2, <2>3 DEF CanGoOn
<1>2. tick \in {"idle", "sockets", "send"}
  BY <1>0 DEF TypeOK, AskingFmu, CanGoOn
<1>3. tick = "sockets" => Periodic \in sockLock.blocked
  BY DEF CanGoOn, IInv, LockInv
<1>4. tick = "send" => recvq = <<>>
  BY DEF CanGoOn
<1>5. QED
  BY <1>1, <1>2, <1>3, <1>4

\* A send that no receiver takes waits for a socket that has been counted in.
LEMMA SendNeedsCounted ==
    ASSUME IInv, tick = "send"
    PROVE  Counted # {}
<1>1. sends < cnt /\ cnt = Cardinality(Counted) /\ sends \in Nat /\ cnt \in Nat
  BY Names DEF IInv, TickInv, FeedInv, TypeOK
<1>2. QED
  BY <1>1, FS_EmptySet

\* When nobody can go on and nobody has socketLock or asks for it, all are at rest.
LEMMA NobodyAsks ==
    ASSUME IInv, WaitInv, ~CanGoOn, sockLock.writer = Nobody
    PROVE  AtRest
<1> USE Names
<1>0. TypeOK /\ loop = "read"
  BY LoopIsFree DEF IInv
<1>1. sockLock.blocked = {}
  BY DEF WaitInv
<1>2. \A s \in Socket : receiver[s] \in {"off", "select"}
  BY <1>1, WhereTheyWait
<1>3. \A s \in Socket : handler[s] \in {"off", "on", "quit"}
  BY WhereTheyWait DEF CanGoOn
<1>4. \A s \in Socket : handler[s] # "off" => receiver[s] = "select"
  BY <1>2, <1>3 DEF WaitInv
<1>5. \A s \in Socket : handler[s] # "quit"
  BY <1>4 DEF CanGoOn
<1>6. tick # "send"
  <2>1. SUFFICES ASSUME tick = "send" PROVE FALSE
    OBVIOUS
  <2>2. PICK s \in Socket : handler[s] = "on"
    BY <2>1, <1>3, SendNeedsCounted DEF Counted
  <2>3. receiver[s] = "select"
    BY <1>4, <2>2
  <2>4. \E i \in 1..Len(recvq) : recvq[i] = s
    BY <2>3 DEF IInv, FeedInv
  <2>5. recvq = <<>>
    BY <2>1, WhereTheyWait
  <2>6. QED
    BY <2>4, <2>5
<1>7. tick = "idle"
  BY <1>1, <1>6, WhereTheyWait
<1>8. QED
  BY <1>0, <1>2, <1>3, <1>5, <1>7 DEF AtRest

\* When nobody can go on and a handler asks for socketLock, the periodic goroutine is
\* in its send, and no goroutine of a socket comes to take it.
LEMMA HandlerAsks ==
    ASSUME IInv, WaitInv, ~CanGoOn, sockLock.writer # Nobody
    PROVE  Jammed
<1> USE Names
<1>0. TypeOK
  BY DEF IInv
<1>1. sockLock.writer \in Socket /\ handler[sockLock.writer] \in {"connect", "disconnect"}
  BY DEF WaitInv
<1>2. sockLock.readers # {}
  BY <1>1 DEF CanGoOn, Holds
<1>3. \A s \in Socket : s \notin sockLock.readers
  <2>1. SUFFICES ASSUME NEW s \in Socket, s \in sockLock.readers PROVE FALSE
    OBVIOUS
  <2>2. s \in Reading /\ s \notin sockLock.blocked
    BY <2>1 DEF WaitInv
  <2>3. QED
    BY <2>2, WhereTheyWait DEF Reading
<1>4. sockLock.readers \subseteq Reading \cup {p \in {Periodic} : tick # "idle"}
  BY DEF WaitInv
<1>5. Periodic \in sockLock.readers /\ tick # "idle"
  BY <1>2, <1>3, <1>4 DEF Reading
<1>6. tick = "send" /\ recvq = <<>>
  BY <1>5, WhereTheyWait DEF CanGoOn
<1>7. sends < cnt
  BY <1>6 DEF IInv, TickInv
<1>8. \A s \in Socket : receiver[s] # "select"
  <2>1. SUFFICES ASSUME NEW s \in Socket, receiver[s] = "select" PROVE FALSE
    OBVIOUS
  <2>2. \E i \in 1..Len(recvq) : recvq[i] = s
    BY <2>1 DEF IInv, FeedInv
  <2>3. QED
    BY <1>6, <2>2
<1>9. \A s \in Socket : (receiver[s] \in {"off", "got"} \/ s \in sockLock.blocked)
                        /\ handler[s] # "start"
  BY <1>8, WhereTheyWait
<1>10. QED
  BY <1>5, <1>6, <1>7, <1>9 DEF Jammed

\* If no goroutine of the status server can go on, either all are at rest, or the
\* periodic goroutine waits for a receiver while a handler waits for it and the
\* receivers wait for the handler (statusServer.go:117-147, 281-289): the jam is the
\* only deadlock of the two locks and the two channels.
THEOREM OnlyTheJamStopsTheFeed == Spec => []OnlyJam
<1>1. IInv /\ WaitInv => OnlyJam
  BY NobodyAsks, HandlerAsks DEF OnlyJam
<1>2. QED
  BY <1>1, InductiveInvariant, WaitInvariant, PTL

-----------------------------------------------------------------------------
(* The status server's other goroutine, which feeds the event stream.      *)

\* The clients are finite in number, and so are those of a round.
LEMMA Rounds ==
    /\ Cardinality(Client) \in Nat /\ Cardinality({}) = 0
    /\ \A S \in SUBSET Client :
          /\ Cardinality(S) \in Nat /\ Cardinality(S) <= Cardinality(Client)
          /\ \A c \in S : Cardinality(S \ {c}) = Cardinality(S) - 1
<1>1. Cardinality(Client) \in Nat
  BY StreamAssumption, FS_CardinalityType
<1>2. ASSUME NEW S \in SUBSET Client
      PROVE  /\ Cardinality(S) \in Nat /\ Cardinality(S) <= Cardinality(Client)
             /\ \A c \in S : Cardinality(S \ {c}) = Cardinality(S) - 1
  <2>1. IsFiniteSet(S) /\ Cardinality(S) <= Cardinality(Client)
    BY StreamAssumption, FS_Subset
  <2>2. QED
    BY <2>1, FS_CardinalityType, FS_RemoveElement
<1>3. QED
  BY <1>1, <1>2, FS_EmptySet

\* AgeInv, told apart by whether Notifier is full.
LEMMA Ages ==
    ASSUME StreamTypeOK
    PROVE  /\ Round \in Nat /\ Round <= Cardinality(Client)
           /\ \A s \in Slot : age[s] \in Nat
           /\ notifier => Ahead = Round + Cardinality(Client)
           /\ ~notifier => Ahead = Round
<1>1. rest \in SUBSET Client /\ \A s \in Slot : age[s] \in Nat
  BY DEF StreamTypeOK
<1>2. Round \in Nat /\ Round <= Cardinality(Client)
  BY <1>1, Rounds DEF Round
<1>3. QED
  BY <1>1, <1>2 DEF Ahead

\* No event has been made.
LEMMA StreamInitOK ==
    ASSUME StreamInit PROVE StreamInv
<1> USE StreamAssumption DEF StreamInit
<1>1. /\ expired \in BOOLEAN /\ (expired => at # NoClient)
      /\ here \in [Client -> BOOLEAN] /\ notifier \in BOOLEAN
  OBVIOUS
<1>2. StreamTypeOK
  BY <1>1 DEF StreamTypeOK
<1>3. age["maker"] = 0 /\ Ahead = 0
  BY Rounds DEF Ahead, Round, Slot
<1>4. AgeInv
  BY <1>3, Rounds DEF AgeInv
<1>5. QED
  BY <1>2, <1>4 DEF StreamInv

\* The maker (statusServer.go:97-115) takes telemetry only when it has got rid of
\* its last event.
LEMMA MakerOK ==
    ASSUME StreamInv, MakerStep
    PROVE  StreamInv'
<1>0. StreamTypeOK /\ AgeInv
  BY DEF StreamInv
<1>1. UNCHANGED <<broker, clients, rest, at, expired, pc, here>>
  BY DEF MakerStep, TakeTelem, Encoded, Refused, Notify, brokerVars, clientVars
<1>2. StreamTypeOK'
  <2>1. (expired \in BOOLEAN /\ (expired => at # NoClient) /\ here \in [Client -> BOOLEAN])'
    BY <1>0, <1>1 DEF StreamTypeOK
  <2>2. notifier' \in BOOLEAN
    BY <1>0 DEF StreamTypeOK, MakerStep, TakeTelem, Encoded, Refused, Notify
  <2>3. age' \in [Slot -> Nat] /\ maker' \in {"sleep", "encode", "send"}
    BY <1>0 DEF StreamTypeOK, MakerStep, TakeTelem, Encoded, Refused, Notify, Slot
  <2>4. QED
    BY <1>0, <1>1, <2>1, <2>2, <2>3 DEF StreamTypeOK
<1>3. AgeInv'
  <2>1. Round' = Round
    BY <1>1 DEF Round
  <2>2. CASE TakeTelem \/ Encoded
    <3>1. /\ age' = age /\ Ahead' = Ahead /\ (notifier' <=> notifier)
          /\ maker' # "sleep"
      BY <2>1, <2>2 DEF TakeTelem, Encoded, Ahead
    <3>2. QED
      BY <3>1, <2>1, <1>0, <1>1 DEF AgeInv
  <2>3. CASE Refused
    <3>1. /\ age'["maker"] = 0 /\ age'["notifier"] = age["notifier"] /\ age'["broker"] = age["broker"]
          /\ Ahead' = Ahead /\ (notifier' <=> notifier)
      BY <2>1, <2>3, <1>0 DEF Refused, Ahead, StreamTypeOK, Slot
    <3>2. 0 + Ahead <= 2 * Cardinality(Client)
      BY <1>0, Ages, Rounds
    <3>3. QED
      BY <3>1, <3>2, <2>1, <1>0, <1>1 DEF AgeInv
  <2>4. CASE Notify
    <3>1. /\ age'["maker"] = 0 /\ age'["notifier"] = age["maker"] /\ age'["broker"] = age["broker"]
          /\ ~notifier /\ Ahead' = Round + Cardinality(Client)
      BY <2>1, <2>4, <1>0 DEF Notify, Ahead, StreamTypeOK, Slot
    <3>2. age["maker"] + Round <= 2 * Cardinality(Client)
      BY <3>1, <1>0, Ages DEF AgeInv
    <3>3. 0 + (Round + Cardinality(Client)) <= 2 * Cardinality(Client)
      BY <1>0, Ages, Rounds
    <3>4. QED
      BY <3>1, <3>2, <3>3, <2>1, <1>0, <1>1 DEF AgeInv
  <2>5. QED
    BY <2>2, <2>3, <2>4 DEF MakerStep
<1>4. QED
  BY <1>2, <1>3 DEF StreamInv

\* A client (streamservice.go:45-78) comes, goes and is served without a word to
\* the maker.
LEMMA ClientOK ==
    ASSUME StreamInv, NEW c \in Client,
           \/ Request(c) \/ Close(c) \/ Look(c) \/ Written(c)
           \/ Register(c) \/ Unregister(c)
    PROVE  StreamInv'
<1> USE StreamAssumption DEF eventVars, brokerVars
<1>0. StreamTypeOK /\ AgeInv
  BY DEF StreamInv
<1>1. UNCHANGED <<maker, notifier, age, broker, rest, at, expired>>
  BY DEF Request, Close, Look, Written, Register, Unregister
<1>2. here' \in [Client -> BOOLEAN]
  BY <1>0 DEF StreamTypeOK, Request, Close, Look, Written, Register, Unregister
<1>3. /\ pc' \in [Client -> {"none", "register", "look", "receive", "write", "leave"}]
      /\ clients' \subseteq Client
  BY <1>0 DEF StreamTypeOK, Request, Close, Look, Written, Register, Unregister
<1>4. StreamTypeOK'
  <2>1. (notifier \in BOOLEAN /\ expired \in BOOLEAN /\ (expired => at # NoClient))'
    BY <1>0, <1>1 DEF StreamTypeOK
  <2>2. QED
    BY <1>0, <1>1, <1>2, <1>3, <2>1 DEF StreamTypeOK
<1>5. AgeInv'
  BY <1>0, <1>1 DEF AgeInv, Ahead, Round
<1>6. QED
  BY <1>4, <1>5 DEF StreamInv

\* The broker (streamservice.go:80-103) takes the next event when it has handed out
\* the last one, and waits for each client once.
LEMMA BrokerOK ==
    ASSUME StreamInv, BrokerStep
    PROVE  StreamInv'
<1>0. StreamTypeOK /\ AgeInv
  BY DEF StreamInv
<1>1. UNCHANGED <<maker, clients, here>>
  BY DEF BrokerStep, TakeEvent, Reach, Hand, Expire, Skip, Done, eventVars, clientVars
<1>2. expired' \in BOOLEAN /\ (expired' => at' # NoClient)
  <2>0. expired \in BOOLEAN /\ (expired => at # NoClient)
    BY <1>0 DEF StreamTypeOK
  <2>1. CASE TakeEvent \/ Done
    BY <2>0, <2>1 DEF TakeEvent, Done
  <2>2. CASE \E c \in Client : Reach(c)
    <3>1. at = NoClient /\ expired' = expired
      BY <2>2 DEF Reach
    <3>2. QED
      BY <2>0, <3>1
  <2>3. CASE Hand \/ Skip
    BY <2>3 DEF Hand, Skip
  <2>4. CASE Expire
    BY <2>4 DEF Expire
  <2>5. QED
    BY <2>1, <2>2, <2>3, <2>4 DEF BrokerStep
<1>3. /\ broker' \in {"select", "hand"} /\ rest' \subseteq Client /\ at' \in Client \cup {NoClient}
      /\ pc' \in [Client -> {"none", "register", "look", "receive", "write", "leave"}]
  BY <1>0 DEF StreamTypeOK, BrokerStep, TakeEvent, Reach, Hand,
              Expire, Skip, Done, clientVars
<1>4. age' \in [Slot -> Nat] /\ notifier' \in BOOLEAN /\ AgeInv'
  <2> USE DEF Slot
  <2>0. age \in [Slot -> Nat] /\ notifier \in BOOLEAN
    BY <1>0 DEF StreamTypeOK
  <2>1. CASE TakeEvent
    <3>1. /\ broker = "select" /\ notifier /\ notifier' = FALSE /\ rest' = clients
          /\ age' = [age EXCEPT !["broker"] = age["notifier"], !["notifier"] = 0]
      BY <2>1 DEF TakeEvent
    <3>2. /\ age' \in [Slot -> Nat] /\ age'["maker"] = age["maker"]
          /\ age'["broker"] = age["notifier"]
      BY <2>0, <3>1
    <3>3. Round = 0 /\ Round' \in Nat /\ Round' <= Cardinality(Client) /\ Ahead' = Round'
      <4>1. rest = {} /\ rest' \in SUBSET Client
        BY <3>1, <1>0 DEF AgeInv, StreamTypeOK
      <4>2. Round = 0 /\ Round' \in Nat /\ Round' <= Cardinality(Client)
        BY <4>1, Rounds DEF Round
      <4>3. Ahead' = Round'
        BY <3>1, <4>2 DEF Ahead
      <4>4. QED
        BY <4>2, <4>3
    <3>4. /\ age["maker"] + Cardinality(Client) <= 2 * Cardinality(Client)
          /\ age["notifier"] <= 2 * Cardinality(Client)
      BY <3>1, <3>3, <1>0, Ages, Rounds DEF AgeInv
    <3>5. /\ age["maker"] + Round' <= 2 * Cardinality(Client)
          /\ age["notifier"] + Round' <= 3 * Cardinality(Client)
      BY <3>3, <3>4, <1>0, Ages, Rounds
    <3>6. broker' = "hand"
      BY <2>1 DEF TakeEvent
    <3>7. QED
      BY <3>1, <3>2, <3>3, <3>5, <3>6, <1>0, <1>1 DEF AgeInv
  <2>2. ASSUME NEW c \in Client, Reach(c)
        PROVE  age' \in [Slot -> Nat] /\ notifier' \in BOOLEAN /\ AgeInv'
    <3>1. /\ broker = "hand" /\ c \in rest /\ rest' = rest \ {c}
          /\ broker' = broker /\ notifier' = notifier /\ Older
      BY <2>2 DEF Reach
    <3>2. Round' = Round - 1
      BY <3>1, <1>0, Rounds DEF Round, StreamTypeOK
    <3>3. /\ age'["maker"] = IF maker # "sleep" THEN age["maker"] + 1 ELSE age["maker"]
          /\ age'["notifier"] = IF notifier THEN age["notifier"] + 1 ELSE age["notifier"]
          /\ age'["broker"] = age["broker"] + 1
      BY <3>1 DEF Older, Occupied
    <3>4. age' \in [Slot -> Nat]
      BY <2>0, <3>1 DEF Older
    <3>5. Ahead' = Ahead - 1
      BY <3>1, <3>2, <1>0, Ages, Rounds DEF Ahead
    <3>6. age'["maker"] + Ahead' <= 2 * Cardinality(Client)
      <4>1. age["maker"] + Ahead <= 2 * Cardinality(Client) /\ Ahead \in Nat /\ age["maker"] \in Nat
        BY <1>0, Ages, Rounds DEF AgeInv
      <4>2. age'["maker"] = age["maker"] \/ age'["maker"] = age["maker"] + 1
        BY <3>3
      <4>3. QED
        BY <4>1, <4>2, <3>5, Rounds
    <3>7. notifier => age'["notifier"] + Round' <= 2 * Cardinality(Client)
      <4>1. Round \in Nat /\ age["notifier"] \in Nat
        BY <1>0, Ages
      <4>2. notifier => age["notifier"] + Round <= 2 * Cardinality(Client)
        BY <1>0 DEF AgeInv
      <4>3. QED
        BY <4>1, <4>2, <3>2, <3>3, Rounds
    <3>8. age'["broker"] + Round' <= 3 * Cardinality(Client)
      <4>1. Round \in Nat /\ age["broker"] \in Nat
        BY <1>0, Ages
      <4>2. age["broker"] + Round <= 3 * Cardinality(Client)
        BY <3>1, <1>0 DEF AgeInv
      <4>3. QED
        BY <4>1, <4>2, <3>2, <3>3, Rounds
    <3>9. maker' = "sleep" => age'["maker"] = 0
      BY <3>3, <1>0, <1>1 DEF AgeInv
    <3>10. QED
      BY <2>0, <3>1, <3>4, <3>6, <3>7, <3>8, <3>9 DEF AgeInv
  <2>3. CASE Hand \/ Expire \/ Skip
    <3>1. UNCHANGED <<age, notifier, rest, broker>>
      BY <2>3 DEF Hand, Expire, Skip, eventVars
    <3>2. QED
      BY <3>1, <2>0, <1>0, <1>1 DEF AgeInv, Ahead, Round
  <2>4. CASE Done
    <3>1. /\ broker' = "select" /\ rest = {} /\ rest' = {} /\ notifier' = notifier
          /\ age' = [age EXCEPT !["broker"] = 0]
      BY <2>4 DEF Done
    <3>2. /\ age' \in [Slot -> Nat] /\ age'["maker"] = age["maker"]
          /\ age'["notifier"] = age["notifier"] /\ Round' = Round /\ Ahead' = Ahead
      BY <2>0, <3>1 DEF Round, Ahead
    <3>3. QED
      BY <2>0, <3>1, <3>2, <1>0, <1>1 DEF AgeInv
  <2>5. QED
    BY <2>1, <2>2, <2>3, <2>4 DEF BrokerStep
<1>5. StreamTypeOK'
  <2>1. here' \in [Client -> BOOLEAN]
    BY <1>0, <1>1 DEF StreamTypeOK
  <2>2. QED
    BY <1>0, <1>1, <1>2, <1>3, <1>4, <2>1 DEF StreamTypeOK
<1>6. QED
  BY <1>4, <1>5 DEF StreamInv

\* Every step of the stream keeps the invariant.
LEMMA StreamStepOK ==
    ASSUME StreamInv, [StreamNext]_streamVars PROVE StreamInv'
<1>1. CASE UNCHANGED streamVars
  <2>1. AgeInv'
    BY <1>1 DEF streamVars, eventVars, brokerVars, clientVars, StreamInv, AgeInv, Ahead, Round
  <2>2. StreamTypeOK'
    BY <1>1 DEF streamVars, eventVars, brokerVars, clientVars, StreamInv, StreamTypeOK
  <2>3. QED
    BY <2>1, <2>2 DEF StreamInv
<1>2. CASE StreamNext
  BY <1>2, MakerOK, ClientOK, BrokerOK DEF StreamNext
<1>3. QED
  BY <1>1, <1>2

\* The inductive invariant of the stream.
THEOREM StreamInvariant == StreamSpec => []StreamInv
BY StreamInitOK, StreamStepOK, PTL DEF StreamSpec

\* What the broker hands out (streamservice.go:91-100) was taken from the vehicle
\* at most three rounds of waiting before, for any number of clients.
THEOREM AgeIsBounded == StreamSpec => []ThreeRounds
<1>1. StreamInv => ThreeRounds
  <2> SUFFICES ASSUME StreamInv, broker = "hand"
               PROVE  age["broker"] <= 3 * Cardinality(Client)
    BY DEF ThreeRounds
  <2>1. age["broker"] + Round <= 3 * Cardinality(Client)
    BY DEF StreamInv, AgeInv
  <2>2. age["broker"] \in Nat /\ Round \in Nat
    BY Ages DEF StreamInv, Slot
  <2>3. QED
    BY <2>1, <2>2, Rounds
<1>2. QED
  BY <1>1, StreamInvariant, PTL

=============================================================================
