\* Go words scaled to 15 and 8 bits: varints of at most 3 bytes, the third
\* keeping one bit, as the tenth of a 64-bit varint does; 200 and 32767
\* take two and three bytes.
CONSTANTS
    WordBits = 15
    Int32Bits = 8
    InputBytes = {0, 1, 8, 10, 12, 26, 106, 121, 122, 123, 124, 126, 128, 255}
    MaxInput = 4
    VarintValues = {5, 200, 32767}
    LongLen = 130
    MaxSetFields = 2
SPECIFICATION Spec
INVARIANTS
    DecodeMatchesWireGrammar
    DecodedReencodes
    MarshalRoundTrip
\* Each harness stops at its bound (MaxInput bytes, MaxSetFields fields).
CHECK_DEADLOCK FALSE
