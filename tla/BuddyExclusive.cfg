SPECIFICATION Spec
CONSTANTS
    MAX_ORDER = 4
    First = 4
    Last = 8
    Orders = {0}
    MaxHeld = 4
INVARIANTS Exclusive
