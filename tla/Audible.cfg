SPECIFICATION Spec
CONSTANTS
    Files <- MCFiles
    Argvs <- MCArgvs
    CmdLens = {3, 8}
    DecOf <- MCDecOf
    HexOf <- MCHexOf
    LenOf <- MCLenOf
    MAX_DIGITS = 2
    ALIGN = 4
    HEADER = 12
    ANNOTATION_MAX = 16
    FACTOR_MAX = 4
    WORD = 32
    MULT = 5
    INC = 3
    MOD = 16
INVARIANTS
    SamplesKept
    Readable
CHECK_DEADLOCK FALSE
