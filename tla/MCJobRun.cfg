SPECIFICATION FairSpec
CONSTANTS
    j1 = j1
    j2 = j2
    Jobs = {j1, j2}
    Options <- MCOptions
    Responses <- MCResponses
    NoStream = NoStream
    NoItem = NoItem
    NoTrack = NoTrack
    DiskBytes = 5
    MinFree = 1
    MaxBytes = 255
    Backends = {"local", "s3"}
    Muxer = "avformat"
    MaxCrashes = 1
INVARIANTS
    
    
    DoneIsWhole
    SelectionIsBest
PROPERTIES
    CancelFreesSpace
CHECK_DEADLOCK FALSE
