SPECIFICATION FairSpec
CONSTANTS
    BLOCK_BUF_NUM = 2
    Blocks = {b1, b2, b3}
    Contents = {x, y}
    Zero = Zero
    NoBlock = NoBlock
    MaxHeld = 2
    CntMod = 4
    Drivers = {"ide", "emmc"}
    MayFail = TRUE
    MayStray = TRUE
INVARIANTS TypeOK ValidIsSynced OneBufferPerBlock RequestMatches ItemsCounted
PROPERTIES IoReturns
CONSTRAINT BeforeStray
CHECK_DEADLOCK FALSE
