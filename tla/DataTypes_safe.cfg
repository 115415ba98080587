SPECIFICATION CallSpec
CONSTANTS
    Byte <- MCByte
    MaxSafe = 500
    MaxLength <- MCMaxLength
    Plus = 330
    UseUTC = FALSE
    HasHeaders = TRUE
    Lists <- MCLists
    MaxRuns = 2
INVARIANTS
    ServerReadsWhatWasGiven
    ExecutesAlike
CHECK_DEADLOCK FALSE
