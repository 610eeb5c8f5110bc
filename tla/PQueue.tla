-------------------------------- MODULE PQueue --------------------------------
(***************************************************************************)
(* utils/pqueue.go: the binary heap behind the vehicle's command queue.    *)
(* One exchange of two cells is one step, so every intermediate shape of   *)
(* the array is a state; the RWMutex is held from PushBegin (PopBegin) to  *)
(* PushEnd (PopEnd), during which nobody else reads or writes the array.   *)
(* The source keeps nil in cell 0 and starts the heap at cell 1, which is  *)
(* where a TLA+ sequence starts.                                           *)
(***************************************************************************)
EXTENDS Integers, Sequences

CONSTANTS Item,       \* the heap cells newItem allocates
          Priority,   \* Priority[x]: the priority x was pushed with
          PqType,     \* the ordering NewPQueue was asked for
          NoItem      \* nil

ASSUME PQueueAssumption ==
    /\ Priority \in [Item -> Int]
    /\ PqType \in {"MINPQ", "MAXPQ"}
    /\ NoItem \notin Item

VARIABLES heap,       \* items[1..]
          elemsCount, \* the field of the same name: what size() returns
          op,         \* the operation holding the write lock, or "none"
          arg,        \* Push: the new item.  Pop: the item it will return
          k,          \* the index swim or sink has reached
          out,        \* the item the last Pop() returned
          oldHead     \* history: the head when the lock was taken

vars == <<heap, elemsCount, op, arg, k, out, oldHead>>

Cells == 1..Len(heap)
ItemsIn == {heap[i] : i \in Cells}

\* Mutant: equal priorities are exchanged.
ComparatorOrEqual(p, q) == IF PqType = "MINPQ" THEN p >= q ELSE p <= q

\* max and min, lines 141-147: TRUE when the first argument must go down.
Comparator(p, q) == IF PqType = "MINPQ" THEN p > q ELSE p < q

Less(i, j) == Comparator(Priority[heap[i]], Priority[heap[j]])

Exch(h, i, j) == [h EXCEPT ![i] = h[j], ![j] = h[i]]

HeadItem == IF elemsCount < 1 THEN NoItem ELSE heap[1]

-----------------------------------------------------------------------------

Init ==
    /\ heap = <<>>
    /\ elemsCount = 0
    /\ op = "none"
    /\ arg = NoItem
    /\ k = 0
    /\ out = NoItem
    /\ oldHead = NoItem

\* Push allocates its item, so the item is in no cell yet.
PushBegin(x) ==
    /\ op = "none"
    /\ x \notin ItemsIn
    /\ heap' = Append(heap, x)
    /\ elemsCount' = elemsCount + 1
    /\ op' = "push"
    /\ arg' = x
    /\ k' = elemsCount + 1
    /\ oldHead' = HeadItem
    /\ UNCHANGED out

Rises == k > 1 /\ Less(k \div 2, k)

SwimStep ==
    /\ op = "push"
    /\ Rises
    /\ heap' = Exch(heap, k \div 2, k)
    /\ k' = k \div 2
    /\ UNCHANGED <<elemsCount, op, arg, out, oldHead>>

PushEnd ==
    /\ op = "push"
    /\ ~Rises
    /\ op' = "none"
    /\ UNCHANGED <<heap, elemsCount, arg, k, out, oldHead>>

PopEmpty ==
    /\ op = "none"
    /\ elemsCount < 1
    /\ out' = NoItem
    /\ UNCHANGED <<heap, elemsCount, op, arg, k, oldHead>>

PopBegin ==
    /\ op = "none"
    /\ elemsCount >= 1
    /\ arg' = heap[1]
    /\ heap' = SubSeq(Exch(heap, 1, elemsCount), 1, elemsCount - 1)
    /\ elemsCount' = elemsCount - 1
    /\ op' = "pop"
    /\ k' = 1
    /\ oldHead' = HeadItem
    /\ UNCHANGED out

\* Mutant: the second child is not looked at.
ChildFirstOnly == 2 * k

\* The child sink compares with: the one that goes first.
Child == IF 2 * k < elemsCount /\ Less(2 * k, 2 * k + 1) THEN 2 * k + 1 ELSE 2 * k

Sinks == 2 * k <= elemsCount /\ Less(k, Child)

SinkStep ==
    /\ op = "pop"
    /\ Sinks
    /\ heap' = Exch(heap, k, Child)
    /\ k' = Child
    /\ UNCHANGED <<elemsCount, op, arg, out, oldHead>>

PopEnd ==
    /\ op = "pop"
    /\ ~Sinks
    /\ op' = "none"
    /\ out' = arg
    /\ UNCHANGED <<heap, elemsCount, arg, k, oldHead>>

Step == SwimStep \/ PushEnd \/ SinkStep \/ PopEnd

Next ==
    \/ \E x \in Item : PushBegin(x)
    \/ PopEmpty
    \/ PopBegin
    \/ Step

Spec == Init /\ [][Next]_vars

-----------------------------------------------------------------------------

\* The types of the variables.  elemsCount is kept by hand beside the slice
\* (lines 82 and 101): it is the slice's length, less the nil cell.
TypeOK ==
    /\ heap \in Seq(Item)
    /\ elemsCount = Len(heap)
    /\ op \in {"none", "push", "pop"}
    /\ arg \in Item \cup {NoItem}
    /\ k \in Nat
    /\ out \in Item \cup {NoItem}
    /\ oldHead \in Item \cup {NoItem}

\* Every item is in one cell: the exchanges lose and duplicate none.
NoDuplicate == \A i, j \in Cells : heap[i] = heap[j] => i = j

\* Cell i holds nothing its parent should come after.
InOrder(i, j) == ~Less(i, j)

\* What the heap satisfies in the middle of an operation: the order fails at
\* most between cell k and its parent (swim) or its children (sink), and the
\* parent of k is in order with the children of k.
Displaced ==
    /\ \A i \in Cells : i > 1 /\ (op = "push" => i # k) /\ (op = "pop" => i \div 2 # k)
                           => InOrder(i \div 2, i)
    /\ op # "none" => \A i \in Cells : i \div 2 = k /\ k > 1 => InOrder(k \div 2, i)

\* Whenever the lock is free, Head() (line 109) and Pop() (line 89) return an
\* item that no item of the queue goes ahead of, however the pushes and pops
\* before it were ordered.
HeadGoesFirst ==
    op = "none" => \A i \in Cells : InOrder(1, i)

\* Where the lock holder's locals point.  A new item that has reached the root
\* goes ahead of the head it displaced; an item being popped is in no cell.
LocalsOK ==
    /\ op = "push" => /\ k \in Cells
                      /\ heap[k] = arg
                      /\ oldHead = NoItem <=> Len(heap) = 1
                      /\ k > 1 => oldHead = heap[1]
                      /\ k = 1 /\ Len(heap) > 1 =>
                             Comparator(Priority[oldHead], Priority[arg])
    /\ op = "pop"  => /\ k >= 1
                      /\ arg \in Item \ ItemsIn
                      /\ oldHead = arg

\* The inductive invariant: lines 160-183 keep it at every exchange.
IInv == TypeOK /\ NoDuplicate /\ Displaced /\ HeadGoesFirst /\ LocalsOK

\* The heap implements the abstract queue: with the lock held, the abstract
\* operation has not happened yet.
AbsItems == CASE op = "none" -> ItemsIn
              [] op = "push" -> ItemsIn \ {arg}
              [] op = "pop"  -> ItemsIn \cup {arg}

AbsHead == IF op = "none" THEN HeadItem ELSE oldHead

Abs == INSTANCE PriorityQueue WITH items <- AbsItems, head <- AbsHead

\* Push, Pop and Head behave as one indivisible operation on an abstract
\* priority queue ("synchronized and is safe for concurrent operations",
\* lines 34-36).
ImplementsPriorityQueue == Abs!Spec

=============================================================================
