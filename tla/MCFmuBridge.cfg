SPECIFICATION Spec
CONSTANTS
    b1 = b1  loop = loop
    Binder = {b1}
    Loop = loop
    SeqMod = 3
    MaxCmd = 2
INVARIANTS
    CommandsAccounted
PROPERTIES
    OnceInOrder
    AloneIsWhole
CHECK_DEADLOCK FALSE
