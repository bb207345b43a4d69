CONSTANTS
    A1 = A1
    A2 = A2
    T1 = T1
    T2 = T2
    NoValue = NoValue
    NoCursor = NoCursor
    None <- MCNone
    Addresses <- MCAddresses
    Topics <- MCTopics
    Bits <- MCBits
    BloomBits <- MCBloomBits
    Blocks <- MCBlocks
    MissingReceipts <- MCNoMissing
    MaxHeight = 3
    InitHeight = 1
    MaxFilters = 2
    Timeout = 2
    PageSize = 1
    CritChoices <- MCCritChoices

SPECIFICATION Spec
PROPERTIES
    CursorOnlyMovesForward
