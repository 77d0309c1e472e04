\* check_parse_header against the header checks spec.md 4.4 requires.
CONSTANTS
    Sizes = {8}
    MaxElems = 0
    NameLens = {0, 1, 32, 33}
    MaxNames = 2
    RecNameLens = {1, 32}
    RecDataLens = {1, 2048}
    MaxRecords = 3
INIT Init
NEXT Next
INVARIANT HeaderCheckMatchesSpec
