SPECIFICATION Spec
CONSTANTS
    MaxLength = 4
    MaxCommands = 4
    MaxLost = 2
    OwnSizes = {1, 3}
INVARIANTS SizesAgree OneOwner NewestFirst
PROPERTIES GetsLatest
