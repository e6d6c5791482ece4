---------------------------- MODULE InternalProtocol ----------------------------
(***************************************************************************)
(* The messages of InternalProtocol.proto, how they are cut into bytes on  *)
(* the TCP stream, and the pure functions of the client that check them:   *)
(* ProtoSerializer::checkConnectResponse, ::checkAndParseCommand and       *)
(* EnumMappers::ConnectResponseToInternalClientCode.                       *)
(*                                                                         *)
(* A device identification (five fields in the code) is one value.  The    *)
(* bytes of a frame are pairs [msg, pos]: they say which message a byte    *)
(* belongs to and where it stands, which is all that framing depends on.   *)
(***************************************************************************)
EXTENDS Integers, Sequences, FiniteSets

CONSTANTS
    Devices,        \* the device_identification values the application uses
    TooLong,        \* those with a string longer than the 128 byte fields
    Unterminated,   \* those with a string of exactly 128 bytes, without NUL
    PartialDevice,  \* what setDevice leaves in device_ when it gives up
    ZeroDevice,     \* InternalProtocol_Device_init_zero
    Absent,         \* has_device = false
    Payloads,       \* the commandData values the gateway sends
    HeaderLen,      \* bytes of the length header (4 in the code)
    ResponseLen,    \* bytes of an encoded deviceConnectResponse
    CommandLen,     \* bytes of an encoded deviceCommand
    MaxSize         \* bound on the length read from bytes that are no header

Identities == Devices \cup {PartialDevice, ZeroDevice}

ASSUME ProtocolAssumption ==
    /\ TooLong \subseteq Devices
    /\ Unterminated \subseteq Devices \ {ZeroDevice}
    /\ PartialDevice \notin Unterminated
    /\ Absent \notin Identities
    /\ Payloads \subseteq Seq(Int)
    /\ HeaderLen \in Nat \ {0}
    /\ ResponseLen \in Nat \ {0}
    /\ CommandLen \in Nat \ {0}
    /\ MaxSize \in Nat

-----------------------------------------------------------------------------
(* Return codes.  The headers that define them belong to the fleet-protocol
   submodule; only OK = 0, NOT_OK = -1 and that no two are equal matter.   *)

OK == 0
NOT_OK == -1
CONTEXT_INCORRECT == -11
UNABLE_TO_CONNECT == -12
COMMAND_INCORRECT == -13
DEVICE_INCORRECT == -14
DEVICE_ALREADY_CONNECTED == -15
MODULE_NOT_SUPPORTED == -16
DEVICE_TYPE_NOT_SUPPORTED == -17
HIGHER_PRIORITY_ALREADY_CONNECTED == -18

ReturnCodes == {OK, NOT_OK, CONTEXT_INCORRECT, UNABLE_TO_CONNECT,
                COMMAND_INCORRECT, DEVICE_INCORRECT, DEVICE_ALREADY_CONNECTED,
                MODULE_NOT_SUPPORTED, DEVICE_TYPE_NOT_SUPPORTED,
                HIGHER_PRIORITY_ALREADY_CONNECTED}

-----------------------------------------------------------------------------
(* Messages of the gateway.  `re` is no field of the protocol: it names the
   status a command answers, so that properties can speak of it.           *)

\* UNKNOWN stands for a number the enumeration does not define.
ResponseTypes == {"OK", "ALREADY_CONNECTED", "MODULE_NOT_SUPPORTED",
                  "DEVICE_NOT_SUPPORTED", "HIGHER_PRIORITY_ALREADY_CONNECTED",
                  "UNKNOWN"}

ConnectResponse ==
    [kind : {"deviceConnectResponse"}, responseType : ResponseTypes,
     device : Identities \cup {Absent}]

DeviceCommand ==
    [kind : {"deviceCommand"}, re : Nat, device : Identities \cup {Absent},
     data : Payloads]

\* No field of the oneof is set: the encoding is empty.
Unset == [kind |-> "none"]

\* What pb_decode rejects: a body over the limits of InternalProtocol.options,
\* or bytes that are no message at all.
Undecodable == [kind |-> "undecodable"]

ServerMessage ==
    ConnectResponse \cup DeviceCommand \cup {Unset, Undecodable}

-----------------------------------------------------------------------------
(* Frames: a header with the length of the body, then the body.            *)

BodyLen(m) == IF m.kind = "deviceConnectResponse" THEN ResponseLen
              ELSE IF m.kind = "none" THEN 0
              ELSE CommandLen

Byte == [msg : ServerMessage, pos : Nat]

Bytes(m, from, n) == [i \in 1..n |-> [msg |-> m, pos |-> from + i]]

Header(m) == Bytes(m, 0, HeaderLen)
Body(m)   == Bytes(m, HeaderLen, BodyLen(m))
Frame(m)  == Bytes(m, 0, HeaderLen + BodyLen(m))

IsHeader(s) == s # <<>> /\ s = Header(Head(s).msg)
IsBody(s)   == s # <<>> /\ s = Body(Head(s).msg)

\* The lengths four bytes can be read as.  Bytes that are not the header of
\* one frame can hold any number.
SizesOf(s) == IF IsHeader(s) THEN {BodyLen(Head(s).msg)} ELSE 0..MaxSize

\* pb_decode of a received String.  Bytes cut across frames do not decode to
\* a message that carries the identity of this device (README, "Assumptions").
Decode(s) == IF IsBody(s) THEN Head(s).msg ELSE Undecodable

-----------------------------------------------------------------------------
(* The checks.  `own` is device_, the identity kept in the Context.        *)

\* strcmp of both strings and equality of the three numbers.  An own string
\* without NUL differs from every decoded one, which ends before its byte 128.
SameDevice(d, own) == d = own /\ own \notin Unterminated

\* mutant: the device is not compared
checkConnectResponse_AnyDevice(s, own) ==
    IF s = <<>> \/ Decode(s).kind # "deviceConnectResponse" THEN NOT_OK
    ELSE OK

checkConnectResponse(s, own) ==
    LET m == Decode(s)
        \* has_device is not looked at: an absent submessage is all zero
        d == IF m.device = Absent THEN ZeroDevice ELSE m.device
    IN  IF s = <<>> \/ m.kind # "deviceConnectResponse" THEN NOT_OK
        ELSE IF SameDevice(d, own) THEN OK ELSE DEVICE_INCORRECT

ConnectResponseToInternalClientCode(s) ==
    LET t == Decode(s).responseType
    IN  CASE t = "OK"                   -> OK
          [] t = "ALREADY_CONNECTED"    -> DEVICE_ALREADY_CONNECTED
          [] t = "MODULE_NOT_SUPPORTED" -> MODULE_NOT_SUPPORTED
          [] t = "DEVICE_NOT_SUPPORTED" -> DEVICE_TYPE_NOT_SUPPORTED
          [] t = "HIGHER_PRIORITY_ALREADY_CONNECTED" ->
                 HIGHER_PRIORITY_ALREADY_CONNECTED
          [] OTHER                      -> NOT_OK

\* mutant: a failed check is reported like a failed connect
connectResponseCode_Unable(s, own) ==
    IF checkConnectResponse(s, own) # OK
    THEN UNABLE_TO_CONNECT
    ELSE ConnectResponseToInternalClientCode(s)

\* `int retCode = checkConnectResponse(...) != OK`: a failed check is 1.
connectResponseCode(s, own) ==
    IF checkConnectResponse(s, own) # OK
    THEN 1
    ELSE ConnectResponseToInternalClientCode(s)

\* mutant: the device is not compared
checkCommand_AnyDevice(s, own) ==
    IF s = <<>> THEN NOT_OK
    ELSE IF Decode(s).kind # "deviceCommand" THEN COMMAND_INCORRECT
    ELSE OK

\* checkAndParseCommand: its return code; the parsed text is CString of the
\* data of the decoded command.
checkCommand(s, own) ==
    LET m == Decode(s)
    IN  IF s = <<>> THEN NOT_OK
        ELSE IF m.kind # "deviceCommand" THEN COMMAND_INCORRECT
        ELSE IF SameDevice(m.device, own) THEN OK ELSE DEVICE_INCORRECT

\* String(tmp): the bytes up to the first NUL.
CString(s) ==
    LET text == {i \in 1..Len(s) : \A j \in 1..i : s[j] # 0}
    IN  SubSeq(s, 1, Cardinality(text))
=============================================================================
