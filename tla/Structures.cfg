\* A ByteArray of one to three bytes a block; a skip list of three keys.
SPECIFICATION Spec
CONSTANTS
    None = None
    Header = Header
    Bases = {1, 2, 3}
    GroupBits = 3
    Bytes = 2
    Numbers = {8, 200}
    SignedNumbers <- SmallestToLargest
    Strings <- SomeStrings
    MaxSize = 5
    MaxOps = 4
    Key = {1, 2, 3}
    Value = {7, 8}
    MaxLevel = 2
    MaxCount = 5
INVARIANTS TypeOK CurAgrees RoundTrip BuffersAgree ListAgrees
CHECK_DEADLOCK FALSE
