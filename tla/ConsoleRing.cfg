SPECIFICATION Spec
CONSTANTS
    INPUT_BUF = 3
    IdxMod = 6
    Readers = {p1, p2}
    Counts = {1, 2}
    Glyphs = {"a", "b"}
    None = None
    RacyTyping = FALSE
    Orders = {"store", "load"}
    SyscallMasksIrq = FALSE
INVARIANTS TypeOK IndexOrder
PROPERTIES ImplementsTty
