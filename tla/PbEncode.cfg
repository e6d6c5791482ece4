SPECIFICATION FairSpec
CONSTANTS
    StringSize = 128
    BytesSize = 1024
    Padding = 2
    IntLengths = {0, 5}
    StringLengths = {0, 1, 127, 128}
    DataLengths = {0, 1, 127, 128, 1024, 1025}
INVARIANTS TypeOK StreamsAgree CountedIsWritten OkIsEncoded RefusedIsOneByte
PROPERTIES Returns
