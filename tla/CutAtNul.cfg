SPECIFICATION Spec
CONSTANTS
    Devices = {d}
    TooLong = {}
    Unterminated = {}
    PartialDevice = partial
    ZeroDevice = zero
    Absent = absent
    Payloads <- Binary
    HeaderLen = 2
    ResponseLen = 1
    CommandLen = 2
    MaxSize = 4
    Timeouts = {0, 1}
    ConnectTimeout = 1
    SizeMod = 8
    MaxStatus = 2
    GatewayTypes = {"OK"}
    GatewayDevices = {d, zero}
PROPERTIES CommandDataWhole
