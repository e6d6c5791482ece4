SPECIFICATION FairSpec
CONSTANTS
    Messages <- AllMessages
    Tags = {1, 2, 5, 65, 129, 1089, 40001, 65537}
INVARIANTS TypeOK IndexesAgree ValuesAreOfTheField
PROPERTIES FoundIfThere RefusedIfAbsent SearchReturns
