SPECIFICATION Spec
CONSTANTS
    Devices = {d, long, unterminated}
    TooLong = {long}
    Unterminated = {unterminated}
    PartialDevice = partial
    ZeroDevice = zero
    Absent = absent
    Payloads <- Text
    HeaderLen = 2
    ResponseLen = 1
    CommandLen = 2
    MaxSize = 3
    Timeouts = {0, 1}
    ConnectTimeout = 1
    SizeMod = 8
    MaxStatus = 2
    GatewayTypes = {"OK", "ALREADY_CONNECTED"}
    GatewayDevices = {d, partial}
INVARIANTS StatusOncePerConnection
PROPERTIES CommandsInOrder PairedReplies StaysStranded ImplementsService
