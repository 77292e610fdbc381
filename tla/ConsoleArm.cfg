SPECIFICATION FairSpec
CONSTANTS
    INPUT_BUF = 3
    IdxMod = 6
    Readers = {p1}
    Counts = {1, 3}
    Glyphs = {"a"}
    None = None
    RacyTyping = TRUE
    Orders = {"store", "load"}
    SyscallMasksIrq = TRUE
INVARIANTS NoLostWakeup
PROPERTIES InputTaken
