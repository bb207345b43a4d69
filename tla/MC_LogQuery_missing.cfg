CONSTANTS
    A1 = A1
    A2 = A2
    T1 = T1
    T2 = T2
    NoValue = NoValue
    FetchError = FetchError
    None <- MCNone
    Addresses <- MCAddresses
    Topics <- MCTopics
    Bits <- MCBits
    BloomBits <- MCBloomBits
    Blocks <- MCBlocks
    MissingReceipts <- MCMissing
    MaxHeight = 3
    InitHeight = 1
    Criteria <- MCCriteria

SPECIFICATION Spec
INVARIANTS
    GetLogsIsExact
