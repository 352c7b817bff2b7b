SPECIFICATION Spec
CONSTANTS
    GroupBits = 6
    Bits32 = 8
    Bits64 = 19
    Fixed64 = 2
    Fixed32 = 1
    RawSize = 4
    StringSize = 3
    Fields <- DeviceFields
    Depth = 3
    BufferSizes <- MCBufferSizes
    Strings <- MCStrings
    Ports <- MCPorts
    Strange <- MCStrange
    Corrupted <- MCCorrupted
    VarintBytes <- MCVarintBytes
    Payloads <- MCPayloads
    Junk <- MCJunk
INVARIANTS
    DecodedFitsC
    BufferRespected
    PartsMerge
    ReencodedTheSame
    UnknownFieldsSkipped
    CutIsNotObeyed
    VarintsAgree
    FramesReadWhole
CHECK_DEADLOCK FALSE
