\* send_trace_data frames against the 4096-byte send window of spec.md 4.3:
\* two elements of 2057 and 2020 bytes (one-character names, 2048 and 2011
\* data bytes) pass the size test yet make a 4097-byte frame.
CONSTANTS
    Sizes = {8, 2020, 2057}
    MaxElems = 2
    NameLens = {0, 1, 32, 33}
    MaxNames = 2
    RecNameLens = {1, 32}
    RecDataLens = {1, 2048}
    MaxRecords = 3
INIT Init
NEXT Next
INVARIANT FrameWithinWindow
