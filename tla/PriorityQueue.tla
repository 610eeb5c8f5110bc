---------------------------- MODULE PriorityQueue ----------------------------
(***************************************************************************)
(* What utils/pqueue.go promises its users: a set of items, the item that  *)
(* Head() returns and the item the last Pop() returned, each operation one *)
(* indivisible step.  Module PQueue is the binary heap that implements it  *)
(* and VehicleCommands is a user of it.                                    *)
(*                                                                         *)
(* Among items of equal priority the heap gives no order, so Pop leaves    *)
(* the choice of the next head open; Push does not: a new item becomes the *)
(* head only when it goes strictly ahead of the old one.  The modules that *)
(* instantiate this one state the assumptions on its constants.            *)
(***************************************************************************)
EXTENDS Integers

CONSTANTS Item,       \* the heap cells newItem allocates
          Priority,   \* Priority[x]: the priority x was pushed with
          PqType,     \* the ordering NewPQueue was asked for
          NoItem      \* nil

VARIABLES items,      \* the items in the queue
          head,       \* the item Head() returns, NoItem when there is none
          out         \* the item the last Pop() returned

vars == <<items, head, out>>

\* Mutant: the two orderings are swapped.
AheadSwapped(x, y) == IF PqType = "MINPQ" THEN Priority[x] > Priority[y]
                                          ELSE Priority[x] < Priority[y]

\* x leaves the queue before y.
Ahead(x, y) == IF PqType = "MINPQ" THEN Priority[x] < Priority[y]
                                   ELSE Priority[x] > Priority[y]

\* The items of S that nothing in S is ahead of.
First(S) == {x \in S : \A y \in S : ~Ahead(y, x)}

-----------------------------------------------------------------------------

Init ==
    /\ items = {}
    /\ head = NoItem
    /\ out = NoItem

Insert(x) ==
    /\ x \notin items
    /\ items' = items \cup {x}
    /\ head' = IF head = NoItem \/ Ahead(x, head) THEN x ELSE head

Push(x) == Insert(x) /\ UNCHANGED out

PopLeaves(S) ==
    IF S = {} THEN head' = NoItem ELSE head' \in First(S)

\* Pop, by a caller that ignores the item it returns.
Remove ==
    /\ items # {}
    /\ items' = items \ {head}
    /\ PopLeaves(items \ {head})

Pop == Remove /\ out' = head

PopEmpty ==
    /\ items = {}
    /\ out' = NoItem
    /\ UNCHANGED <<items, head>>

Next ==
    \/ \E x \in Item : Push(x)
    \/ Pop
    \/ PopEmpty

Spec == Init /\ [][Next]_vars
=============================================================================
