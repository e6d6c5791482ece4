SPECIFICATION FairSpec
CONSTANTS
    Devices = {d, long, unterminated, zero}
    TooLong = {long}
    Unterminated = {unterminated}
    PartialDevice = partial
    ZeroDevice = zero
    Absent = absent
    Payloads <- Text
    HeaderLen = 2
    ResponseLen = 1
    CommandLen = 2
    MaxSize = 3
    Timeouts = {0, 1}
    ConnectTimeout = 1
    SizeMod = 8
    MaxStatus = 1
    GatewayTypes = {"OK", "ALREADY_CONNECTED", "UNKNOWN"}
    GatewayDevices = {d, absent}
INVARIANTS TypeOK NoLeak WaitBounded ForThisDevice HandleOwnership HandshakeAgreement
PROPERTIES CallReturns
