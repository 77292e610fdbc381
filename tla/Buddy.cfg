SPECIFICATION Spec
CONSTANTS
    MAX_ORDER = 3
    First = 7
    Last = 16
    Orders = {0, 1}
    MaxHeld = 3
CONSTRAINT BeforeStale
INVARIANTS TypeOK Partition Coalesced
PROPERTIES ImplementsPageAlloc
