SPECIFICATION FairSpec
CONSTANTS
    UIntMod = 65536
    Second = 1000
    delay_constant = 100
    HeaderLen = 2
    Sizes = {0, 1, 3}
    Timeouts = {0, 1, 2, 65, 66, 1835}
INVARIANTS TypeOK NeverLonger
PROPERTIES GivesUpInTime Returns
