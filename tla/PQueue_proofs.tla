---------------------------- MODULE PQueue_proofs ----------------------------
(***************************************************************************)
(* The heap of utils/pqueue.go is always a heap when its lock is free, and *)
(* it implements the abstract priority queue, for every set of items and   *)
(* every assignment of priorities.                                         *)
(***************************************************************************)
EXTENDS PQueue, WellFoundedInduction, TLAPS

USE PQueueAssumption

-----------------------------------------------------------------------------
\* Indices: a cell's parent, k/2 in the source, is a smaller cell.
LEMMA ParentIndex ==
    ASSUME NEW i \in Nat, i > 1
    PROVE  /\ i \div 2 \in Nat
           /\ 1 <= i \div 2
           /\ i \div 2 < i
           /\ i = 2 * (i \div 2) \/ i = 2 * (i \div 2) + 1
  BY SMT

\* The cells under k are 2k and 2k+1 and no other.
LEMMA ChildIndex ==
    ASSUME NEW i \in Nat, NEW j \in Nat, i > 1, i \div 2 = j
    PROVE  i = 2 * j \/ i = 2 * j + 1
  BY ParentIndex

\* Every non-empty set of indices has a least one.
LEMMA LeastIndex ==
    ASSUME NEW T \in SUBSET Nat, T # {}
    PROVE  \E i \in T : \A j \in T : i <= j
<1>1. PICK i \in T : \A j \in T : ~(<<j, i>> \in OpToRel(<, Nat))
  BY WFMin, NatLessThanWellFounded
<1>2. \A j \in T : ~(j < i)
  BY <1>1 DEF OpToRel
<1>3. QED
  BY <1>2

\* A function on an initial segment of the naturals is a sequence.
LEMMA FcnIsSeq ==
    ASSUME NEW S, NEW n \in Nat, NEW f \in [1..n -> S]
    PROVE  f \in Seq(S) /\ Len(f) = n
  OBVIOUS

\* An exchange (line 153) swaps two cells and touches no other.
LEMMA ExchCells ==
    ASSUME heap \in Seq(Item), NEW i \in Cells, NEW j \in Cells,
           NEW h, h = Exch(heap, i, j)
    PROVE  /\ h \in Seq(Item)
           /\ Len(h) = Len(heap)
           /\ h[i] = heap[j]
           /\ h[j] = heap[i]
           /\ \A c \in Cells \ {i, j} : h[c] = heap[c]
<1> DEFINE n == Len(heap)
<1>1. n \in Nat /\ heap \in [1..n -> Item] /\ i \in 1..n /\ j \in 1..n
  BY DEF Cells
<1>2. /\ h \in [1..n -> Item]
      /\ h[i] = heap[j] /\ h[j] = heap[i]
      /\ \A c \in (1..n) \ {i, j} : h[c] = heap[c]
  BY <1>1 DEF Exch
<1>3. h \in Seq(Item) /\ Len(h) = n
  <2> HIDE DEF n
  <2>1. QED
    BY <1>1, <1>2, FcnIsSeq
<1>4. QED
  BY <1>2, <1>3 DEF Cells

\* An exchange of two cells of a queue without duplicates makes none.
LEMMA ExchDistinct ==
    ASSUME heap \in Seq(Item), NoDuplicate, NEW i \in Cells, NEW j \in Cells,
           NEW a \in Cells, NEW b \in Cells,
           NEW h, h = Exch(heap, i, j), h[a] = h[b]
    PROVE  a = b
<1> DEFINE sw(c) == IF c = i THEN j ELSE IF c = j THEN i ELSE c
<1>1. \A c \in Cells : h[c] = heap[sw(c)] /\ sw(c) \in Cells
  <2>1. heap \in Seq(Item) /\ h = Exch(heap, i, j)
    OBVIOUS
  <2>2. /\ h[i] = heap[j] /\ h[j] = heap[i]
        /\ \A c \in Cells \ {i, j} : h[c] = heap[c]
    BY ONLY i \in Cells, j \in Cells, <2>1, ExchCells
  <2>3. QED
    BY <2>2
<1>2. heap[sw(a)] = heap[sw(b)]
  BY <1>1
<1>3. sw(a) = sw(b)
  BY <1>1, <1>2 DEF NoDuplicate
<1>4. QED
  BY <1>3

\* A heap whose every cell is in order with its parent has its first item in
\* cell 1: the least cell that should precede it would have a parent that
\* does not.
LEMMA RootGoesFirst ==
    ASSUME heap \in Seq(Item),
           \A i \in Cells : i > 1 => InOrder(i \div 2, i)
    PROVE  \A i \in Cells : InOrder(1, i)
<1> DEFINE T == {i \in Cells : ~InOrder(1, i)}
<1>1. \A i \in Cells : Priority[heap[i]] \in Int
  BY DEF Cells
<1>2. SUFFICES ASSUME T # {} PROVE FALSE
  OBVIOUS
<1>3. T \subseteq Nat
  BY DEF Cells
<1>4. PICK i \in T : \A j \in T : i <= j
  BY <1>2, <1>3, LeastIndex
<1>5. i > 1
  <2>1. i \in Cells /\ ~InOrder(1, i)
    OBVIOUS
  <2>2. 1 \in Cells
    BY <2>1 DEF Cells
  <2>3. InOrder(1, 1)
    BY <1>1, <2>2 DEF InOrder, Less, Comparator
  <2>4. QED
    BY <2>1, <2>3 DEF Cells
<1>6. i \div 2 \in Cells /\ i \div 2 < i /\ 1 \in Cells
  BY <1>5, ParentIndex DEF Cells
<1>7. InOrder(1, i \div 2)
  <2>1. i \div 2 \notin T
    BY <1>3, <1>4, <1>6
  <2>2. QED
    BY <2>1, <1>6
<1>8. InOrder(i \div 2, i)
  BY <1>5
<1>9. InOrder(1, i)
  BY <1>1, <1>6, <1>7, <1>8 DEF InOrder, Less, Comparator
<1>10. QED
  BY <1>9

-----------------------------------------------------------------------------
\* Type correctness and distinctness are kept by every step.
LEMMA InitIInv == Init => IInv
  BY DEF Init, IInv, TypeOK, NoDuplicate, Displaced, HeadGoesFirst, LocalsOK, Cells

LEMMA PushBeginIInv ==
    ASSUME IInv, NEW x \in Item, PushBegin(x)
    PROVE  IInv'
<1> USE DEF IInv, PushBegin
<1> DEFINE n == Len(heap)
<1>1. /\ heap' \in Seq(Item) /\ Len(heap') = n + 1 /\ heap'[n+1] = x
      /\ \A i \in 1..n : heap'[i] = heap[i]
      /\ n \in Nat /\ k' = n + 1 /\ arg' = x /\ op' = "push"
  BY DEF TypeOK
<1>2. TypeOK'
  BY <1>1 DEF TypeOK, HeadItem
<1>3. NoDuplicate'
  BY <1>1 DEF TypeOK, NoDuplicate, Cells, ItemsIn
<1>4. Displaced'
  <2>1. ASSUME NEW i \in 1..n+1, i > 1, i # n + 1
        PROVE  InOrder(i \div 2, i)'
    <3>1. i \in Cells /\ i \div 2 \in 1..n
      BY <1>1, <2>1, ParentIndex DEF Cells
    <3>2. InOrder(i \div 2, i)
      BY <2>1, <3>1 DEF Displaced
    <3>3. QED
      BY <1>1, <3>1, <3>2 DEF InOrder, Less, Cells
  <2>2. ASSUME NEW i \in 1..n+1, i \div 2 = n + 1, i > 1
        PROVE  FALSE
    BY <1>1, <2>2, ParentIndex
  <2>3. ASSUME NEW i \in 1..n+1, i \div 2 = n + 1, n + 1 > 1
        PROVE  FALSE
    <3>1. i > 1
      BY <1>1, <2>3
    <3>2. QED
      BY <2>2, <2>3, <3>1
  <2>4. QED
    BY <1>1, <2>1, <2>3 DEF Displaced, Cells
<1>5. HeadGoesFirst'
  BY <1>1 DEF HeadGoesFirst
<1>6. LocalsOK'
  BY <1>1 DEF LocalsOK, Cells, HeadItem, TypeOK
<1>7. QED
  BY <1>2, <1>3, <1>4, <1>5, <1>6

LEMMA SwimStepIInv ==
    ASSUME IInv, SwimStep
    PROVE  IInv'
<1> USE DEF IInv, SwimStep
<1>0. PICK p \in Nat : p = k \div 2
  BY ParentIndex DEF Rises, TypeOK
<1>1. /\ k \in Cells /\ p \in Cells /\ k > 1 /\ p < k /\ k \in Nat
      /\ 1 \in Cells /\ op = "push" /\ op' = "push" /\ k' = p
      /\ Less(p, k) /\ heap' = Exch(heap, p, k)
  BY <1>0, ParentIndex DEF Rises, LocalsOK, Cells, TypeOK
<1>2. /\ heap' \in Seq(Item) /\ Len(heap') = Len(heap)
      /\ heap'[p] = heap[k] /\ heap'[k] = heap[p]
      /\ \A c \in Cells \ {p, k} : heap'[c] = heap[c]
      /\ Cells' = Cells
  <2>1. heap \in Seq(Item)
    BY DEF TypeOK
  <2>2. /\ heap' \in Seq(Item) /\ Len(heap') = Len(heap)
        /\ heap'[p] = heap[k] /\ heap'[k] = heap[p]
        /\ \A c \in Cells \ {p, k} : heap'[c] = heap[c]
    BY ONLY <1>1, <2>1, ExchCells
  <2>3. QED
    BY <2>2 DEF Cells
<1>3. \A i \in Cells : Priority[heap[i]] \in Int
  BY DEF TypeOK, Cells
<1>5. TypeOK'
  BY <1>1, <1>2 DEF TypeOK, Cells
<1>6. NoDuplicate'
  <2>1. heap \in Seq(Item) /\ NoDuplicate
    BY DEF TypeOK
  <2>2. \A a, b \in Cells : heap'[a] = heap'[b] => a = b
    BY ONLY <1>1, <2>1, ExchDistinct
  <2>3. QED
    BY <1>2, <2>2 DEF NoDuplicate
<1>7. ASSUME NEW i \in Cells, i > 1, i # p
      PROVE  InOrder(i \div 2, i)'
  <2>1. i \div 2 \in Cells /\ i \div 2 < i
    BY <1>7, ParentIndex DEF Cells
  <2>2. CASE i = k
    BY <1>0, <1>1, <1>2, <1>3, <2>2 DEF InOrder, Less, Comparator
  <2>3. CASE i # k /\ i \div 2 = p
    <3>1. InOrder(p, i)
      BY <1>1, <1>7, <2>3 DEF Displaced
    <3>2. QED
      BY <1>1, <1>2, <1>3, <1>7, <2>3, <3>1 DEF InOrder, Less, Comparator
  <2>4. CASE i # k /\ i \div 2 = k
    <3>1. InOrder(p, i)
      BY <1>0, <1>1, <2>4 DEF Displaced
    <3>2. QED
      BY <1>1, <1>2, <1>7, <2>4, <3>1 DEF InOrder, Less
  <2>5. CASE i # k /\ i \div 2 # p /\ i \div 2 # k
    <3>1. InOrder(i \div 2, i)
      BY <1>1, <1>7, <2>5 DEF Displaced
    <3>2. QED
      BY <1>2, <1>7, <2>1, <2>5, <3>1 DEF InOrder, Less
  <2>6. QED
    BY <2>2, <2>3, <2>4, <2>5
<1>8. ASSUME NEW i \in Cells, i \div 2 = p, p > 1
      PROVE  InOrder(p \div 2, i)'
  <2>1. i > 1 /\ i # p
    BY <1>8, ParentIndex DEF Cells
  <2>2. p \div 2 \in Cells /\ p \div 2 # p /\ p \div 2 # k
    BY <1>1, <1>8, ParentIndex DEF Cells
  <2>3. InOrder(p \div 2, p)
    BY <1>1, <1>8 DEF Displaced
  <2>4. i # k => InOrder(p, i)
    BY <1>1, <1>8, <2>1 DEF Displaced
  <2>5. CASE i = k
    BY <1>1, <1>2, <2>2, <2>3, <2>5 DEF InOrder, Less
  <2>6. CASE i # k
    <3>1. InOrder(p \div 2, i)
      BY <1>1, <1>3, <2>2, <2>3, <2>4, <2>6 DEF InOrder, Less, Comparator
    <3>2. QED
      BY <1>2, <2>1, <2>2, <2>6, <3>1 DEF InOrder, Less
  <2>7. QED
    BY <2>5, <2>6
<1>9. Displaced'
  BY <1>1, <1>2, <1>7, <1>8 DEF Displaced
<1>10. HeadGoesFirst'
  BY <1>1 DEF HeadGoesFirst
<1>11. LocalsOK'
  <2>1. k' > 1 => oldHead' = heap'[1]
    BY <1>1, <1>2 DEF LocalsOK
  <2>2. k' = 1 /\ Len(heap') > 1 => Comparator(Priority[oldHead'], Priority[arg'])
    BY <1>1, <1>2 DEF LocalsOK, Less
  <2>3. QED
    BY <1>1, <1>2, <2>1, <2>2 DEF LocalsOK
<1>12. QED
  BY <1>5, <1>6, <1>9, <1>10, <1>11

LEMMA PushEndIInv ==
    ASSUME IInv, PushEnd
    PROVE  IInv'
<1> USE DEF IInv, PushEnd
<1>1. \A i \in Cells : i > 1 => InOrder(i \div 2, i)
  BY DEF Displaced, Rises, InOrder, LocalsOK
<1>2. HeadGoesFirst'
  BY <1>1, RootGoesFirst DEF HeadGoesFirst, TypeOK, Cells, InOrder, Less
<1>3. Displaced'
  BY <1>1 DEF Displaced, Cells, InOrder, Less
<1>4. TypeOK' /\ NoDuplicate' /\ LocalsOK'
  BY DEF TypeOK, NoDuplicate, LocalsOK, Cells
<1>5. QED
  BY <1>2, <1>3, <1>4

LEMMA PopBeginIInv ==
    ASSUME IInv, PopBegin
    PROVE  IInv'
<1> USE DEF IInv, PopBegin
<1>0. PICK n \in Nat : n = elemsCount
  BY DEF TypeOK
<1>1. /\ n = Len(heap) /\ n >= 1 /\ heap \in Seq(Item) /\ op = "none" /\ k' = 1
      /\ arg' = heap[1] /\ oldHead' = heap[1] /\ op' = "pop" /\ elemsCount' = n - 1
      /\ 1 \in Cells /\ n \in Cells /\ heap[1] \in Item
      /\ heap' = SubSeq(Exch(heap, 1, n), 1, n - 1)
  BY <1>0 DEF TypeOK, Cells, HeadItem
<1>2. PICK h : h = Exch(heap, 1, n)
  OBVIOUS
<1>3. /\ h \in Seq(Item) /\ Len(h) = n
      /\ h[1] = heap[n] /\ h[n] = heap[1]
      /\ \A c \in Cells \ {1, n} : h[c] = heap[c]
  <2>1. heap \in Seq(Item) /\ 1 \in Cells /\ n \in Cells /\ Len(heap) = n
    BY ONLY <1>1
  <2>2. QED
    BY ONLY <2>1, <1>2, ExchCells
<1>4. /\ heap' \in Seq(Item) /\ Len(heap') = n - 1
      /\ \A c \in 1..n-1 : heap'[c] = h[c]
  BY ONLY <1>1, <1>2, <1>3, n \in Nat
<1>5. Cells' = 1..n-1 /\ Cells = 1..n
  BY <1>1, <1>4 DEF Cells
<1>6. \A a, b \in Cells : h[a] = h[b] => a = b
  <2>1. NoDuplicate
    OBVIOUS
  <2>2. QED
    BY ONLY <1>1, <1>2, <2>1, ExchDistinct
<1>7. TypeOK'
  BY <1>1, <1>4 DEF TypeOK
<1>8. NoDuplicate'
  BY <1>4, <1>5, <1>6 DEF NoDuplicate
<1>9. Displaced'
  <2>1. ASSUME NEW i \in 1..n-1, i > 1, i \div 2 # 1
        PROVE  InOrder(i \div 2, i)'
    <3>1. i \div 2 \in 2..n-1 /\ i \in Cells
      BY <1>5, <2>1, ParentIndex
    <3>2. InOrder(i \div 2, i)
      BY <1>1, <2>1, <3>1 DEF Displaced
    <3>3. heap'[i] = heap[i] /\ heap'[i \div 2] = heap[i \div 2]
      BY <1>3, <1>4, <1>5, <2>1, <3>1
    <3>4. QED
      BY <3>2, <3>3 DEF InOrder, Less
  <2>2. QED
    BY <1>1, <1>5, <2>1 DEF Displaced
<1>10. HeadGoesFirst'
  BY <1>1 DEF HeadGoesFirst
<1>11. LocalsOK'
  <2>1. heap[1] \notin ItemsIn'
    <3>1. \A c \in 1..n-1 : heap'[c] # heap[1]
      BY <1>1, <1>3, <1>4, <1>5, <1>6
    <3>2. QED
      BY <1>5, <3>1 DEF ItemsIn
  <2>2. QED
    BY <1>1, <2>1 DEF LocalsOK
<1>12. QED
  BY <1>7, <1>8, <1>9, <1>10, <1>11

\* The cell sink goes down to: a child of k that its sibling should not precede.
LEMMA ChildFirst ==
    ASSUME TypeOK, k >= 1, 2 * k <= elemsCount
    PROVE  /\ Child \in Cells /\ Child \in Nat /\ Child > k /\ Child \div 2 = k
           /\ \A i \in Cells : i > 1 /\ i \div 2 = k => InOrder(Child, i)
<1>1. k \in Nat /\ elemsCount = Len(heap) /\ Len(heap) \in Nat
  BY DEF TypeOK
<1>2. \A i \in Cells : Priority[heap[i]] \in Int
  BY DEF TypeOK, Cells
<1>3. Child \in {2 * k, 2 * k + 1} /\ Child <= elemsCount /\ Child \in Nat
  BY <1>1 DEF Child
<1>4. Child \in Cells /\ Child > k /\ Child \div 2 = k
  BY <1>1, <1>3 DEF Cells
<1>5. ASSUME NEW i \in Cells, i > 1, i \div 2 = k
      PROVE  InOrder(Child, i)
  <2>1. i \in {2 * k, 2 * k + 1}
    BY <1>1, <1>5, ChildIndex DEF Cells
  <2>2. CASE i = Child
    BY <1>2, <2>2 DEF InOrder, Less, Comparator
  <2>3. CASE i = 2 * k + 1 /\ Child = 2 * k
    <3>1. 2 * k < elemsCount /\ Child # 2 * k + 1
      BY <1>1, <1>5, <2>3 DEF Cells
    <3>2. ~Less(2 * k, 2 * k + 1)
      BY <3>1 DEF Child
    <3>3. QED
      BY <2>3, <3>2 DEF InOrder
  <2>4. CASE i = 2 * k /\ Child = 2 * k + 1
    <3>1. Less(2 * k, 2 * k + 1)
      BY <1>1, <2>4 DEF Child
    <3>2. 2 * k \in Cells /\ 2 * k + 1 \in Cells
      BY <1>4, <2>4, <1>5
    <3>3. QED
      BY <1>2, <2>4, <3>1, <3>2 DEF InOrder, Less, Comparator
  <2>5. QED
    BY <1>3, <2>1, <2>2, <2>3, <2>4
<1>6. QED
  BY <1>3, <1>4, <1>5

LEMMA SinkStepIInv ==
    ASSUME IInv, SinkStep
    PROVE  IInv'
<1> USE DEF IInv, SinkStep
<1>0. PICK c \in Nat, j \in Nat : c = Child /\ j = k
  BY ChildFirst DEF Sinks, LocalsOK, TypeOK
<1>1. /\ j >= 1 /\ c \in Cells /\ c > j /\ c \div 2 = j
      /\ op = "pop" /\ op' = "pop" /\ k = j /\ k' = c /\ Less(j, c)
      /\ heap' = Exch(heap, j, c) /\ heap \in Seq(Item)
      /\ \A i \in Cells : i > 1 /\ i \div 2 = j => InOrder(c, i)
  BY <1>0, ChildFirst DEF Sinks, LocalsOK, TypeOK
<1>2. j \in Cells
  BY <1>1 DEF Cells
<1>3. /\ heap' \in Seq(Item) /\ Len(heap') = Len(heap)
      /\ heap'[j] = heap[c] /\ heap'[c] = heap[j]
      /\ \A i \in Cells \ {j, c} : heap'[i] = heap[i]
  BY ONLY <1>1, <1>2, ExchCells
<1>4. Cells' = Cells
  BY <1>3 DEF Cells
<1>5. \A i \in Cells : Priority[heap[i]] \in Int
  BY DEF TypeOK, Cells
<1>6. TypeOK'
  BY <1>1, <1>3 DEF TypeOK
<1>7. NoDuplicate'
  <2>1. NoDuplicate
    OBVIOUS
  <2>2. \A a, b \in Cells : heap'[a] = heap'[b] => a = b
    BY ONLY <1>1, <1>2, <2>1, ExchDistinct
  <2>3. QED
    BY <1>4, <2>2 DEF NoDuplicate
<1>8. ASSUME NEW i \in Cells, i > 1, i \div 2 # c
      PROVE  InOrder(i \div 2, i)'
  <2>1. PICK q \in Cells : q = i \div 2 /\ q < i
    BY <1>8, ParentIndex DEF Cells
  <2>2. CASE i = c
    <3>1. q = j /\ Less(q, i)
      BY <1>1, <2>1, <2>2
    <3>2. heap'[q] = heap[i] /\ heap'[i] = heap[q]
      BY <1>3, <2>2, <3>1
    <3>3. InOrder(q, i)'
      BY <1>5, <2>1, <3>1, <3>2 DEF InOrder, Less, Comparator
    <3>4. QED
      BY <2>1, <3>3
  <2>3. CASE i # c /\ q = j
    <3>1. InOrder(c, i)
      BY <1>1, <1>8, <2>1, <2>3
    <3>2. QED
      BY <1>3, <2>1, <2>3, <3>1 DEF InOrder, Less
  <2>4. CASE i = j
    <3>1. InOrder(q, c)
      BY <1>1, <1>8, <2>1, <2>4 DEF Displaced
    <3>2. QED
      BY <1>1, <1>3, <1>8, <2>1, <2>4, <3>1 DEF InOrder, Less
  <2>5. CASE i # c /\ i # j /\ q # j
    <3>1. InOrder(q, i)
      BY <1>1, <1>8, <2>1, <2>5 DEF Displaced
    <3>2. QED
      BY <1>3, <1>8, <2>1, <2>5, <3>1 DEF InOrder, Less
  <2>6. QED
    BY <2>2, <2>3, <2>4, <2>5
<1>9. ASSUME NEW i \in Cells, i \div 2 = c
      PROVE  InOrder(j, i)'
  <2>1. i > 1 /\ i # c /\ i # j
    BY <1>1, <1>9, ParentIndex DEF Cells
  <2>2. InOrder(c, i)
    BY <1>1, <1>9, <2>1 DEF Displaced
  <2>3. heap'[j] = heap[c] /\ heap'[i] = heap[i]
    BY <1>3, <2>1
  <2>4. InOrder(j, i)'
    BY <2>2, <2>3 DEF InOrder, Less
  <2>5. QED
    BY <2>4
<1>10. Displaced'
  BY <1>1, <1>4, <1>8, <1>9 DEF Displaced
<1>11. HeadGoesFirst'
  BY <1>1 DEF HeadGoesFirst
<1>12. LocalsOK'
  <2>1. ItemsIn' = ItemsIn
    BY <1>1, <1>2, <1>3, <1>4 DEF ItemsIn
  <2>2. QED
    BY <1>1, <2>1 DEF LocalsOK
<1>13. QED
  BY <1>6, <1>7, <1>10, <1>11, <1>12

LEMMA PopEndIInv ==
    ASSUME IInv, PopEnd
    PROVE  IInv'
<1> USE DEF IInv, PopEnd
<1>1. \A i \in Cells : i > 1 => InOrder(i \div 2, i)
  <2>1. ASSUME NEW i \in Cells, i > 1, i \div 2 = k
        PROVE  InOrder(k, i)
    <3>1. k \in Cells /\ k \in Nat /\ k >= 1 /\ 2 * k <= elemsCount
      BY <2>1, ParentIndex DEF Cells, TypeOK
    <3>2. Child \in Cells /\ InOrder(Child, i) /\ ~Less(k, Child)
      BY <2>1, <3>1, ChildFirst DEF Sinks
    <3>3. \A j \in Cells : Priority[heap[j]] \in Int
      BY DEF TypeOK, Cells
    <3>4. QED
      BY <2>1, <3>1, <3>2, <3>3 DEF InOrder, Less, Comparator
  <2>2. QED
    BY <2>1 DEF Displaced
<1>2. HeadGoesFirst'
  BY <1>1, RootGoesFirst DEF HeadGoesFirst, TypeOK, Cells, InOrder, Less
<1>3. Displaced'
  BY <1>1 DEF Displaced, Cells, InOrder, Less
<1>4. TypeOK' /\ NoDuplicate' /\ LocalsOK'
  BY DEF TypeOK, NoDuplicate, LocalsOK, Cells
<1>5. QED
  BY <1>2, <1>3, <1>4

\* The inductive step, one action at a time.
LEMMA NextIInv == IInv /\ [Next]_vars => IInv'
<1> SUFFICES ASSUME IInv, [Next]_vars PROVE IInv'
  OBVIOUS
<1>1. ASSUME NEW x \in Item, PushBegin(x) PROVE IInv'
  BY <1>1, PushBeginIInv
<1>2. CASE PopEmpty
  BY <1>2 DEF PopEmpty, IInv, TypeOK, NoDuplicate, Displaced, HeadGoesFirst, LocalsOK,
              Cells, ItemsIn, InOrder, Less
<1>3. CASE PopBegin
  BY <1>3, PopBeginIInv
<1>4. CASE SwimStep
  BY <1>4, SwimStepIInv
<1>5. CASE PushEnd
  BY <1>5, PushEndIInv
<1>6. CASE SinkStep
  BY <1>6, SinkStepIInv
<1>7. CASE PopEnd
  BY <1>7, PopEndIInv
<1>8. CASE UNCHANGED vars
  BY <1>8 DEF vars, IInv, TypeOK, NoDuplicate, Displaced, HeadGoesFirst, LocalsOK,
              Cells, ItemsIn, InOrder, Less
<1>9. QED
  BY <1>1, <1>2, <1>3, <1>4, <1>5, <1>6, <1>7, <1>8 DEF Next, Step

\* The heap order and the bookkeeping of pqueue.go are an invariant.
THEOREM InductiveInvariant == Spec => []IInv
  BY InitIInv, NextIInv, PTL DEF Spec

\* The variables keep their types; elemsCount is the length of the slice
\* (pqueue.go:82, pqueue.go:101).
THEOREM TypeCorrect == Spec => []TypeOK
<1>1. IInv => TypeOK
  BY DEF IInv
<1>2. QED
  BY <1>1, InductiveInvariant, PTL

\* Whenever the lock is free, cell 1, which Head and Pop return, holds an item
\* that no item in the queue goes ahead of (pqueue.go:89-121).
THEOREM HeadIsFirst == Spec => []HeadGoesFirst
<1>1. IInv => HeadGoesFirst
  BY DEF IInv
<1>2. QED
  BY <1>1, InductiveInvariant, PTL

-----------------------------------------------------------------------------
\* The refinement.  An exchange changes no abstract state; the abstract
\* operation happens when the lock is released.
Contents(h, S) == {h[c] : c \in S}

LEMMA ContentsItems == ItemsIn = Contents(heap, Cells)
  BY DEF ItemsIn, Contents

LEMMA ExchItems ==
    ASSUME heap \in Seq(Item), NEW i \in Cells, NEW j \in Cells,
           NEW h, h = Exch(heap, i, j)
    PROVE  Contents(h, Cells) = Contents(heap, Cells)
<1>1. heap \in Seq(Item) /\ i \in Cells /\ j \in Cells /\ h = Exch(heap, i, j)
  OBVIOUS
<1>2. /\ h[i] = heap[j] /\ h[j] = heap[i]
      /\ \A c \in Cells \ {i, j} : h[c] = heap[c]
  BY ONLY <1>1, ExchCells
<1>3. ASSUME NEW c \in Cells PROVE h[c] \in Contents(heap, Cells)
  BY <1>1, <1>2 DEF Contents
<1>4. ASSUME NEW c \in Cells PROVE heap[c] \in Contents(h, Cells)
  BY <1>1, <1>2 DEF Contents
<1>5. QED
  BY <1>3, <1>4 DEF Contents

LEMMA InitRefines == Init => Abs!Init
  BY DEF Init, Abs!Init, AbsItems, AbsHead, HeadItem, ItemsIn, Cells

LEMMA PushBeginRefines ==
    ASSUME IInv, NEW x \in Item, PushBegin(x)
    PROVE  UNCHANGED Abs!vars
<1> USE DEF PushBegin
<1>1. PICK n \in Nat : n = Len(heap)
  BY DEF IInv, TypeOK
<1>2. /\ Cells = 1..n /\ Cells' = 1..n+1 /\ heap'[n+1] = x
      /\ \A i \in 1..n : heap'[i] = heap[i]
  BY <1>1 DEF IInv, TypeOK, Cells
<1>3. ItemsIn' = ItemsIn \cup {x}
  <2>1. \A i \in 1..n+1 : i \in 1..n \/ i = n + 1
    OBVIOUS
  <2>2. \A i \in 1..n+1 : heap'[i] \in ItemsIn \cup {x}
    BY <1>2, <2>1 DEF ItemsIn
  <2>3. \A i \in 1..n : heap[i] \in ItemsIn'
    <3>1. \A i \in 1..n : i \in 1..n+1
      OBVIOUS
    <3>2. QED
      BY <1>2, <3>1 DEF ItemsIn
  <2>4. x \in ItemsIn'
    <3>1. n + 1 \in Cells' /\ x = heap'[n + 1]
      BY <1>2
    <3>2. QED
      BY <3>1 DEF ItemsIn
  <2>5. QED
    BY <1>2, <2>2, <2>3, <2>4 DEF ItemsIn
<1>4. AbsItems' = AbsItems
  BY <1>3 DEF AbsItems
<1>5. QED
  BY <1>4 DEF Abs!vars, AbsHead

LEMMA SwimStepRefines ==
    ASSUME IInv, SwimStep
    PROVE  UNCHANGED Abs!vars
<1> USE DEF SwimStep
<1>1. k \in Cells /\ k \div 2 \in Cells /\ heap \in Seq(Item)
  BY ParentIndex DEF IInv, TypeOK, LocalsOK, Rises, Cells
<1>2. heap' = Exch(heap, k \div 2, k)
  OBVIOUS
<1>3. Contents(heap', Cells) = Contents(heap, Cells)
  BY ONLY <1>1, <1>2, ExchItems
<1>4. ItemsIn' = ItemsIn
  <2>1. Len(heap') = Len(heap)
    BY ONLY <1>1, <1>2, ExchCells
  <2>2. Cells' = Cells
    BY <2>1 DEF Cells
  <2>3. QED
    BY <1>3, <2>2 DEF ItemsIn, Contents
<1>5. QED
  BY <1>4 DEF Abs!vars, AbsItems, AbsHead

LEMMA SinkStepRefines ==
    ASSUME IInv, SinkStep
    PROVE  UNCHANGED Abs!vars
<1> USE DEF SinkStep
<1>1. k \in Cells /\ Child \in Cells /\ heap \in Seq(Item)
  BY ChildFirst DEF IInv, TypeOK, LocalsOK, Sinks, Cells
<1>2. heap' = Exch(heap, k, Child)
  OBVIOUS
<1>3. Contents(heap', Cells) = Contents(heap, Cells)
  BY ONLY <1>1, <1>2, ExchItems
<1>4. ItemsIn' = ItemsIn
  <2>1. Len(heap') = Len(heap)
    BY ONLY <1>1, <1>2, ExchCells
  <2>2. Cells' = Cells
    BY <2>1 DEF Cells
  <2>3. QED
    BY <1>3, <2>2 DEF ItemsIn, Contents
<1>5. QED
  BY <1>4 DEF Abs!vars, AbsItems, AbsHead

LEMMA PopBeginRefines ==
    ASSUME IInv, PopBegin
    PROVE  UNCHANGED Abs!vars
<1> USE DEF PopBegin
<1>0. PICK n \in Nat : n = elemsCount
  BY DEF IInv, TypeOK
<1>1. /\ n = Len(heap) /\ n >= 1 /\ heap \in Seq(Item) /\ 1 \in Cells /\ n \in Cells
      /\ heap' = SubSeq(Exch(heap, 1, n), 1, n - 1) /\ arg' = heap[1]
  BY <1>0 DEF IInv, TypeOK, Cells
<1>2. PICK h : h = Exch(heap, 1, n)
  OBVIOUS
<1>3. h \in Seq(Item) /\ Len(h) = n /\ h[n] = heap[1]
  BY ONLY <1>1, <1>2, ExchCells
<1>4. Contents(h, Cells) = Contents(heap, Cells)
  BY ONLY <1>1, <1>2, ExchItems
<1>5. Len(heap') = n - 1 /\ \A c \in 1..n-1 : heap'[c] = h[c]
  BY ONLY <1>1, <1>2, <1>3, n \in Nat
<1>6. Cells' = 1..n-1 /\ Cells = 1..n
  BY <1>1, <1>5 DEF Cells
<1>7. ASSUME NEW c \in Cells' PROVE heap'[c] \in ItemsIn
  <2>1. c \in Cells /\ heap'[c] = h[c]
    BY <1>5, <1>6
  <2>2. h[c] \in Contents(h, Cells)
    BY <2>1 DEF Contents
  <2>3. QED
    BY <1>4, <2>1, <2>2, ContentsItems
<1>8. ASSUME NEW x \in ItemsIn PROVE x \in ItemsIn' \cup {heap[1]}
  <2>1. PICK d \in Cells : x = h[d]
    BY <1>4, ContentsItems DEF Contents
  <2>2. CASE d = n
    BY <1>3, <2>1, <2>2
  <2>3. CASE d \in 1..n-1
    BY <1>5, <1>6, <2>1, <2>3 DEF ItemsIn
  <2>4. QED
    BY <1>6, <2>1, <2>2, <2>3
<1>9. ItemsIn = ItemsIn' \cup {heap[1]}
  <2>1. heap[1] \in ItemsIn
    BY <1>1 DEF ItemsIn
  <2>2. ItemsIn' \subseteq ItemsIn
    BY <1>7 DEF ItemsIn
  <2>3. QED
    BY <1>8, <2>1, <2>2
<1>10. QED
  BY <1>1, <1>9 DEF Abs!vars, AbsItems, AbsHead

LEMMA PushEndRefines ==
    ASSUME IInv, PushEnd
    PROVE  \E x \in Item : Abs!Push(x)
<1> USE DEF PushEnd, IInv
<1>1. /\ k \in Cells /\ heap[k] = arg /\ arg \in Item /\ k \in Nat
      /\ op = "push" /\ op' = "none" /\ heap' = heap /\ 1 \in Cells
  BY DEF LocalsOK, TypeOK, Cells
<1>2. arg \in ItemsIn /\ ItemsIn' = ItemsIn
  BY <1>1 DEF ItemsIn, Cells
<1>3. AbsItems = ItemsIn \ {arg} /\ AbsItems' = ItemsIn /\ AbsHead = oldHead
  BY <1>1, <1>2 DEF AbsItems, AbsHead
<1>4. AbsHead' = heap[1]
  BY <1>1 DEF AbsHead, HeadItem, TypeOK, Cells
<1>5. \A i \in Cells : Priority[heap[i]] \in Int
  BY DEF TypeOK, Cells
<1>6. heap[1] = IF oldHead = NoItem \/ Abs!Ahead(arg, oldHead) THEN arg ELSE oldHead
  <2>1. CASE oldHead = NoItem
    <3>1. Len(heap) = 1
      BY <1>1, <2>1 DEF LocalsOK
    <3>2. k = 1
      BY <1>1, <3>1 DEF Cells
    <3>3. QED
      BY <1>1, <2>1, <3>2
  <2>2. CASE oldHead # NoItem /\ k = 1
    <3>1. Comparator(Priority[oldHead], Priority[arg])
      BY <1>1, <2>2 DEF LocalsOK, Cells, TypeOK
    <3>2. Priority[oldHead] \in Int /\ Priority[arg] \in Int
      BY <1>1, <2>2 DEF TypeOK
    <3>3. Abs!Ahead(arg, oldHead)
      BY <3>1, <3>2 DEF Comparator, Abs!Ahead
    <3>4. QED
      BY <1>1, <2>2, <3>3
  <2>3. CASE oldHead # NoItem /\ k > 1
    <3>1. oldHead = heap[1]
      BY <1>1, <2>3 DEF LocalsOK
    <3>2. InOrder(1, k)
      <4>1. HeadGoesFirst'
        BY PushEndIInv
      <4>2. QED
        BY <1>1, <4>1 DEF HeadGoesFirst, Cells, InOrder, Less
    <3>3. ~Abs!Ahead(arg, oldHead)
      BY <1>1, <1>5, <3>1, <3>2 DEF InOrder, Less, Comparator, Abs!Ahead
    <3>4. QED
      BY <2>3, <3>1, <3>3
  <2>4. QED
    BY <1>1, <2>1, <2>2, <2>3 DEF Cells
<1>7. Abs!Push(arg)
  <2>1. arg \notin AbsItems /\ AbsItems' = AbsItems \cup {arg} /\ out' = out
    BY <1>2, <1>3
  <2>2. QED
    BY <1>3, <1>4, <1>6, <2>1 DEF Abs!Push, Abs!Insert
<1>8. QED
  BY <1>1, <1>7

LEMMA PopEndRefines ==
    ASSUME IInv, PopEnd
    PROVE  Abs!Pop
<1> USE DEF PopEnd, IInv
<1>1. /\ arg \in Item \ ItemsIn /\ oldHead = arg /\ out' = arg
      /\ op = "pop" /\ op' = "none" /\ heap' = heap /\ elemsCount' = elemsCount
  BY DEF LocalsOK
<1>2. ItemsIn' = ItemsIn
  BY <1>1 DEF ItemsIn, Cells
<1>3. AbsItems = ItemsIn \cup {arg} /\ AbsItems' = ItemsIn /\ AbsHead = arg
  BY <1>1, <1>2 DEF AbsItems, AbsHead
<1>4. AbsItems \ {AbsHead} = ItemsIn
  BY <1>1, <1>3
<1>5. IF ItemsIn = {} THEN AbsHead' = NoItem ELSE AbsHead' \in Abs!First(ItemsIn)
  <2>1. elemsCount = Len(heap) /\ Len(heap) \in Nat
    BY DEF TypeOK
  <2>2. AbsHead' = IF elemsCount < 1 THEN NoItem ELSE heap[1]
    BY <1>1 DEF AbsHead, HeadItem
  <2>3. CASE Len(heap) = 0
    BY <2>1, <2>2, <2>3 DEF ItemsIn, Cells
  <2>4. CASE Len(heap) > 0
    <3>1. 1 \in Cells
      BY <2>1, <2>4 DEF Cells
    <3>2. \A i \in Cells : InOrder(1, i)
      <4>1. HeadGoesFirst'
        BY PopEndIInv
      <4>2. QED
        BY <1>1, <4>1 DEF HeadGoesFirst, Cells, InOrder, Less
    <3>3. \A i \in Cells : Priority[heap[i]] \in Int
      BY DEF TypeOK, Cells
    <3>4. \A i \in Cells : ~Abs!Ahead(heap[i], heap[1])
      BY <3>1, <3>2, <3>3 DEF InOrder, Less, Comparator, Abs!Ahead
    <3>5. heap[1] \in Abs!First(ItemsIn)
      BY <3>1, <3>4 DEF Abs!First, ItemsIn
    <3>6. heap[1] \in ItemsIn
      BY <3>1 DEF ItemsIn
    <3>7. QED
      BY <2>1, <2>2, <2>4, <3>5, <3>6
  <2>5. QED
    BY <2>1, <2>3, <2>4
<1>6. QED
  BY <1>1, <1>3, <1>4, <1>5 DEF Abs!Pop, Abs!Remove, Abs!PopLeaves

\* Push, Pop and Head of pqueue.go behave as indivisible operations of an
\* abstract priority queue.
THEOREM Refinement == Spec => ImplementsPriorityQueue
<1>1. Init => Abs!Init
  BY InitRefines
<1>2. IInv /\ [Next]_vars => [Abs!Next]_Abs!vars
  <2> SUFFICES ASSUME IInv, [Next]_vars PROVE Abs!Next \/ UNCHANGED Abs!vars
    OBVIOUS
  <2>1. ASSUME NEW x \in Item, PushBegin(x) PROVE UNCHANGED Abs!vars
    BY <2>1, PushBeginRefines
  <2>2. CASE PopEmpty
    BY <2>2 DEF PopEmpty, IInv, TypeOK, Abs!Next, Abs!PopEmpty, AbsItems, AbsHead,
                HeadItem, ItemsIn, Cells
  <2>3. CASE PopBegin
    BY <2>3, PopBeginRefines
  <2>4. CASE SwimStep
    BY <2>4, SwimStepRefines
  <2>5. CASE PushEnd
    BY <2>5, PushEndRefines DEF Abs!Next
  <2>6. CASE SinkStep
    BY <2>6, SinkStepRefines
  <2>7. CASE PopEnd
    BY <2>7, PopEndRefines DEF Abs!Next
  <2>8. CASE UNCHANGED vars
    BY <2>8 DEF vars, Abs!vars, AbsItems, AbsHead, HeadItem, ItemsIn, Cells
  <2>9. QED
    BY <2>1, <2>2, <2>3, <2>4, <2>5, <2>6, <2>7, <2>8 DEF Next, Step
<1>3. QED
  BY <1>1, <1>2, InductiveInvariant, PTL DEF Spec, ImplementsPriorityQueue, Abs!Spec
=============================================================================
