SPECIFICATION RetentionSpec
CONSTANTS
    own1 = own1
    own2 = own2
    in1 = in1
    in2 = in2
    in3 = in3
    Owners = {own1, own2}
    Insts = {in1, in2, in3}
    OwnerOf <- TwoAndOne
    All = All
    Policies <- OneOfEach
    CleanupDays = 1
    MaxDay = 2
    MaxStored = 2
PROPERTIES
    OnlyOldDeleted
CHECK_DEADLOCK FALSE
