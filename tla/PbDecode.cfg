SPECIFICATION FairSpec
CONSTANTS
    MaxLength = 10
    MaxVarint = 2
    OverflowAt = 2
    MaxTag = 6
    StringSize = 2
    BytesSize = 3
    BytesHeader = 1
INVARIANTS TypeOK StreamsAgree WholeInput NoLeftovers DevicePresent
PROPERTIES Returns
