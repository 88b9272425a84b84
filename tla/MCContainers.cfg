CONSTANTS
    MAX_RECORDS = 3
    NameLen <- MCNameLen
    Brim <- MCBrim
    Sample <- MCSample
    BYTES = 4
    XOR <- MCXor
    SBOX <- MCSbox
    BLOCK_SIZE = 4
    NUM_ROUNDS = 14
    RK_LEN = 54
    U32 = 64
    PwdKept <- MCPwdKept
    HashOf <- MCHashOf
    BLOCK24 = 3
    MAX_FILE = 7
    MAX_SECTIONS = 5
    INDEX_TABLE_SIZE = 64
    MAX_DECOMPRESSED = 16
    MAX_INPUT = 900
    MAX_FUZZED = 80
    OFFSETS = 1024
    READ_AHEAD = 2
    Benches <- MCBenches
SPECIFICATION Spec
INVARIANTS ReadsBack SuccessIsOriginal CaptureIsSealed SectionsInStep
PROPERTIES TableOnlyGrows
CHECK_DEADLOCK FALSE
