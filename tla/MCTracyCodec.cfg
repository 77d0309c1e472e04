\* Header round trip and frame packing over all buffers of up to 4 elements
\* drawn from the smallest, two mid-sized and the largest element; enable
\* bodies of up to two names; registered names of 0, 1, 32 and 33 bytes.
CONSTANTS
    Sizes = {8, 2020, 2057, 2088}
    MaxElems = 4
    NameLens = {0, 1, 32, 33}
    MaxNames = 2
    RecNameLens = {1, 32}
    RecDataLens = {1, 2048}
    MaxRecords = 3
INIT Init
NEXT Next
INVARIANT HeaderRoundTrip
INVARIANT PackPreservesOrder
INVARIANT FlushStreamDecodes
INVARIANT SetBodyRoundTrip
INVARIANT RegisteredNameEnableable
