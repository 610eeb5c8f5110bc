SPECIFICATION Spec
CONSTANTS
    i1 = i1
    i2 = i2
    i3 = i3
    i4 = i4
    i5 = i5
    i6 = i6
    i7 = i7
    Item <- MCItem
    Priority <- MCPriority
    PqType = "MINPQ"
    NoItem = NoItem
INVARIANTS
    HeadGoesFirst
PROPERTIES
    ImplementsPriorityQueue
