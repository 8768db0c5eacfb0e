SPECIFICATION BodySpec
CONSTANTS
    DATA_PAGE_HEADER_SIZE = 1
    CHECKSUM_OFFSET = 12
    Byte = {1, 2}
    MaxValue = 9
    BitsPerByte = 3
    MaxMarked = 3
INVARIANTS ScanFindsLowest ValuesReadBack
