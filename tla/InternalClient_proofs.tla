-------------------------- MODULE InternalClient_proofs --------------------------
(***************************************************************************)
(* Proofs about InternalClient, for every value of its constants.          *)
(***************************************************************************)
EXTENDS InternalClient, FiniteSetTheorems, TLAPS

-----------------------------------------------------------------------------
(* The operators of InternalProtocol.                                      *)

\* The length of a body is a number.
LEMMA BodyLenNat == \A m \in ServerMessage : BodyLen(m) \in Nat
BY ProtocolAssumption DEF BodyLen

\* What a frame is made of.
LEMMA FrameType == \A m \in ServerMessage : Frame(m) \in Seq(Byte)
<1> TAKE m \in ServerMessage
<1>1. HeaderLen + BodyLen(m) \in Nat
  BY BodyLenNat, ProtocolAssumption
<1>2. \A i \in 1..(HeaderLen + BodyLen(m)) : [msg |-> m, pos |-> 0 + i] \in Byte
  BY <1>1 DEF Byte
<1> QED
  BY <1>1, <1>2 DEF Frame, Bytes

\* The first byte of a string that is not empty names a message.
LEMMA HeadType == \A s \in Seq(Byte) : s # <<>> => Head(s).msg \in ServerMessage
<1> TAKE s \in Seq(Byte)
<1> HAVE s # <<>>
<1>1. Head(s) \in Byte
  OBVIOUS
<1> QED
  BY <1>1 DEF Byte

\* The length read from a header is a number.
LEMMA SizesNat == \A s \in Seq(Byte) : SizesOf(s) \subseteq Nat
<1> TAKE s \in Seq(Byte)
<1>1. CASE IsHeader(s)
  <2>1. Head(s).msg \in ServerMessage
    BY <1>1, HeadType DEF IsHeader
  <2> QED
    BY <1>1, <2>1, BodyLenNat DEF SizesOf
<1>2. CASE ~IsHeader(s)
  BY <1>2, ProtocolAssumption DEF SizesOf
<1> QED
  BY <1>1, <1>2

\* Decoding yields a message of the protocol.
LEMMA DecodeType == \A s \in Seq(Byte) : Decode(s) \in ServerMessage
<1> TAKE s \in Seq(Byte)
<1>1. CASE IsBody(s)
  BY <1>1, HeadType DEF Decode, IsBody
<1>2. CASE ~IsBody(s)
  BY <1>2 DEF Decode, ServerMessage
<1> QED
  BY <1>1, <1>2

\* A prefix up to the first NUL is still a sequence of bytes.
LEMMA CStringType == \A s \in Seq(Int) : CString(s) \in Seq(Int)
<1> TAKE s \in Seq(Int)
<1> DEFINE text == {i \in 1..Len(s) : \A j \in 1..i : s[j] # 0}
<1>1. IsFiniteSet(1..Len(s)) /\ Cardinality(1..Len(s)) = Len(s)
  <2> HIDE DEF text
  <2>1. 1 \in Int /\ Len(s) \in Int
    OBVIOUS
  <2>2. /\ IsFiniteSet(1..Len(s))
        /\ Cardinality(1..Len(s)) = IF 1 > Len(s) THEN 0 ELSE Len(s) - 1 + 1
    BY <2>1, FS_Interval, Zenon
  <2> QED
    BY <2>2
<1>2. Cardinality(text) \in 0..Len(s)
  <2>1. text \in SUBSET (1..Len(s))
    OBVIOUS
  <2> HIDE DEF text
  <2>2. IsFiniteSet(text) /\ Cardinality(text) <= Len(s)
    BY <1>1, <2>1, FS_Subset
  <2> QED
    BY <2>2, FS_CardinalityType
<1> HIDE DEF text
<1>3. SubSeq(s, 1, Cardinality(text)) \in Seq(Int)
  BY <1>2
<1> QED
  BY <1>3 DEF CString, text

\* The code of readConnectResponse is one of the table or 1.
LEMMA ConnectCodeType ==
    \A s, own : connectResponseCode(s, own) \in ReturnCodes \cup {1}
BY DEF connectResponseCode, ConnectResponseToInternalClientCode, ReturnCodes

\* A reply that passes the check is a command for this device.
LEMMA CommandChecked ==
    ASSUME NEW s \in Seq(Byte), NEW own, checkCommand(s, own) = OK
    PROVE  /\ Decode(s) \in DeviceCommand
           /\ Decode(s).device = own
           /\ own \notin Unterminated
<1>1. Decode(s) \in ServerMessage
  BY DecodeType
<1>2. Decode(s).kind = "deviceCommand" /\ SameDevice(Decode(s).device, own)
  BY DEF checkCommand, OK, NOT_OK, COMMAND_INCORRECT, DEVICE_INCORRECT
<1> QED
  BY <1>1, <1>2 DEF ServerMessage, ConnectResponse, DeviceCommand, Unset,
     Undecodable, SameDevice

-----------------------------------------------------------------------------
(* Type correctness.                                                       *)

\* What serialization puts into the buffer is a message to the gateway.
LEMMA SerializedType ==
    \A m \in ClientMessage : Serialized(m) \subseteq ClientMessage
BY DEF Serialized, ClientMessage, EmptyMessage, GarbledMessage, IsStatus

\* sendMessage appends at most the message it was given, and what it loses when
\* the connection ends under it is lost whole.
LEMMA SendCases ==
    ASSUME NEW m, NEW r, SendMessage(m, r)
    PROVE  /\ rx' = rx
           /\ link' \in {link, "lost", "fin"}
           /\ wire' = wire \/ wire' = <<>>
           /\ tx' = tx \/ tx' = <<>> \/ (tx' = Append(tx, m) /\ wire' = wire)
<1>1. \/ UNCHANGED <<link, wire, tx>>
      \/ UNCHANGED <<link, wire>> /\ tx' = Append(tx, m)
      \/ Closes
      \/ Dies
  BY DEF SendMessage
<1>2. rx' = rx
  BY DEF SendMessage
<1> QED
  BY <1>1, <1>2, Zenon DEF Closes, Dies

LEMMA SendType ==
    ASSUME NetType, NEW m \in ClientMessage, NEW r, SendMessage(m, r)
    PROVE  NetType'
<1>1. /\ link' \in {link, "lost", "fin"} /\ rx' = rx
      /\ wire' = wire \/ wire' = <<>>
  BY SendCases, Zenon
<1>2. tx' = tx \/ tx' = <<>> \/ tx' = Append(tx, m)
  BY SendCases, Zenon
<1>3. <<>> \in Seq(ClientMessage) /\ <<>> \in Seq(Byte)
  OBVIOUS
<1>4. tx \in Seq(ClientMessage) /\ Append(tx, m) \in Seq(ClientMessage)
  BY DEF NetType
<1>5. tx' \in Seq(ClientMessage)
  BY <1>2, <1>3, <1>4, Zenon
<1>6. wire' \in Seq(Byte) /\ rx' \in Seq(Byte)
  BY <1>1, <1>3, Zenon DEF NetType
<1>7. link' \in {"none", "up", "lost", "fin"}
  BY <1>1 DEF NetType
<1> QED
  BY <1>5, <1>6, <1>7, Zenon DEF NetType

\* It records at most the number of that message.
LEMMA TakenType ==
    ASSUME ConnType, NEW m \in ClientMessage, NEW r, SendMessage(m, r),
           UNCHANGED granted
    PROVE  ConnType'
<1>1. taken' = taken \/ taken' = Append(taken, m.n)
  BY DEF SendMessage
<1>2. m.n \in Nat
  BY DEF ClientMessage
<1> QED
  BY <1>1, <1>2 DEF ConnType

\* Whatever the gateway answers is a message of the protocol.
LEMMA AnswersType ==
    \A m \in ClientMessage : /\ Answers(m) \subseteq ServerMessage
                             /\ \A a \in Answers(m) :
                                  a.kind = "deviceConnectResponse" =>
                                    a.device \in Identities \cup {Absent}
<1> TAKE m \in ClientMessage
<1>1. CASE m.kind = "deviceConnect"
  BY <1>1, ClientAssumption DEF Answers, ServerMessage, ConnectResponse
<1>2. CASE m.kind = "deviceStatus"
  <2>1. m.n \in Nat
    BY DEF ClientMessage
  <2> QED
    BY <1>2, <2>1, ClientAssumption
    DEF Answers, ServerMessage, DeviceCommand, Unset, Undecodable
<1>3. CASE m.kind \notin {"deviceConnect", "deviceStatus"}
  BY <1>3 DEF Answers
<1> QED
  BY <1>1, <1>2, <1>3

\* The initial state is well typed.
LEMMA InitType == Init => TypeOK
<1> SUFFICES ASSUME Init PROVE TypeOK
  OBVIOUS
<1>1. AppType
  <2>1. NoCommand \in SavedCommand
    BY DEF NoCommand, SavedCommand
  <2>2. context \in BOOLEAN /\ device \in Identities /\ saved \in SavedCommand
    BY <2>1 DEF Init, Identities
  <2>3. heap \in Int
    BY DEF Init
  <2> QED
    BY <2>2, <2>3 DEF AppType
<1>2. PcType
  BY DEF Init, PcType, Phases, ReturnCodes, OK, EmptyMessage, ClientMessage
<1>3. ReadType /\ NetType
  BY DEF Init, ReadType, NetType
<1>4. HistType
  <2>1. 0 \in 0..MaxStatus
    BY ClientAssumption
  <2>2. ConnType
    BY DEF Init, ConnType
  <2> QED
    BY <2>1, <2>2 DEF Init, HistType
<1> QED
  BY <1>1, <1>2, <1>3, <1>4 DEF TypeOK

\* Resetting the socket keeps the types.
LEMMA ResetType ==
    ASSUME NEW l \in {"none", "up"}, Reset(l), HistType
    PROVE  NetType' /\ ConnType'
BY DEF Reset, NetType, ConnType

\* The calls of the application keep the types.
LEMMA InitConnectionType ==
    ASSUME TypeOK, NEW d \in Devices, InitConnection(d) PROVE TypeOK'
<1>1. AppType'
  <2>1. context' \in BOOLEAN /\ saved' \in SavedCommand
    BY DEF TypeOK, AppType, InitConnection
  <2>2. heap' \in Int
    BY DEF TypeOK, AppType, InitConnection
  <2>3. device' \in Identities
    BY DEF TypeOK, AppType, InitConnection, SetDevice, Identities
  <2> QED
    BY <2>1, <2>2, <2>3 DEF AppType
<1>2. PcType'
  BY DEF TypeOK, PcType, InitConnection, Phases, ReturnCodes
<1>3. ReadType'
  BY DEF TypeOK, ReadType, InitConnection, read
<1>4. NetType' /\ ConnType'
  <2>1. CASE Reset("up")
    BY <2>1, ResetType DEF TypeOK
  <2>2. CASE UNCHANGED <<net, conn>>
    BY <2>2 DEF TypeOK, NetType, HistType, ConnType, net, conn
  <2> QED
    BY <2>1, <2>2 DEF InitConnection
<1>5. HistType'
  BY <1>4 DEF TypeOK, HistType, InitConnection
<1> QED
  BY <1>1, <1>2, <1>3, <1>4, <1>5 DEF TypeOK

LEMMA SendStatusType ==
    ASSUME TypeOK, NEW t \in Timeouts, SendStatus(t) PROVE TypeOK'
<1> DEFINE status == [kind |-> "deviceStatus", n |-> statusNo + 1,
                      device |-> device]
<1>1. status \in ClientMessage
  BY DEF TypeOK, AppType, HistType, ClientMessage
<1>2. PICK m \in Serialized(status), r \in Sent :
        /\ SendMessage(m, r)
        /\ \/ /\ ToInt(r) <= 0
              /\ rc' = IF ToInt(r) = NOT_OK THEN UNABLE_TO_CONNECT ELSE NOT_OK
              /\ UNCHANGED <<message, timeout, quiet, heap, phase, read>>
           \/ /\ ToInt(r) > 0
              /\ message' = m /\ timeout' = t
              /\ heap' = heap + Blocks(m)
              /\ quiet' = (tx \o wire \o rx = <<>>)
              /\ StartRead("replySize", HeaderLen)
              /\ UNCHANGED rc
  BY DEF SendStatus
<1>3. m \in ClientMessage
  BY <1>1, <1>2, SerializedType
<1>4. NetType'
  BY <1>2, <1>3, SendType DEF TypeOK
<1>5. AppType'
  BY <1>2 DEF SendStatus, TypeOK, AppType, Blocks
<1>6. PcType'
  <2>1. call' = "status"
    BY DEF SendStatus
  <2>2. phase' \in Phases /\ rc' \in ReturnCodes \cup {1}
    BY <1>2 DEF TypeOK, PcType, StartRead, Phases, ReturnCodes
  <2>3. message' \in ClientMessage /\ timeout' \in Timeouts \cup {0}
    BY <1>2, <1>3 DEF TypeOK, PcType
  <2> QED
    BY <2>1, <2>2, <2>3 DEF PcType
<1>7. ReadType'
  <2>1. StartRead("replySize", HeaderLen) \/ UNCHANGED read
    BY <1>2
  <2>2. CASE StartRead("replySize", HeaderLen)
    BY <2>2, ProtocolAssumption DEF ReadType, StartRead
  <2>3. CASE UNCHANGED read
    BY <2>3 DEF TypeOK, ReadType, read
  <2> QED
    BY <2>1, <2>2, <2>3
<1>8. HistType'
  <2>1. quiet' \in BOOLEAN
    BY <1>2 DEF TypeOK, HistType
  <2>2. ConnType'
    BY <1>2, <1>3, TakenType DEF SendStatus, TypeOK, HistType
  <2> QED
    BY <2>1, <2>2, ClientAssumption DEF SendStatus, TypeOK, HistType
<1> QED
  BY <1>4, <1>5, <1>6, <1>7, <1>8 DEF TypeOK

LEMMA RejectStatusType == TypeOK /\ RejectStatus => TypeOK'
BY DEF RejectStatus, TypeOK, AppType, PcType, ReadType, NetType, HistType,
   ConnType, app, read, net, hist, conn, ReturnCodes

LEMMA DestroyConnectionType ==
    ASSUME TypeOK, DestroyConnection PROVE TypeOK'
<1>1. AppType'
  <2>1. NoCommand \in SavedCommand
    BY DEF NoCommand, SavedCommand
  <2>2. context' \in BOOLEAN /\ saved' \in SavedCommand /\ device' \in Identities
    BY <2>1 DEF DestroyConnection, Identities
  <2>3. heap' \in Int
    BY DEF TypeOK, AppType, DestroyConnection
  <2> QED
    BY <2>2, <2>3 DEF AppType
<1>2. PcType'
  BY DEF TypeOK, PcType, DestroyConnection, ReturnCodes
<1>3. ReadType'
  BY DEF TypeOK, ReadType, DestroyConnection, read
<1>4. NetType' /\ ConnType'
  BY ResetType DEF DestroyConnection, TypeOK
<1>5. HistType'
  BY <1>4 DEF TypeOK, HistType, DestroyConnection
<1> QED
  BY <1>1, <1>2, <1>3, <1>4, <1>5 DEF TypeOK

\* The part of the types that a call in progress changes at every step.
CallType == PcType /\ ReadType /\ waited \in Nat /\ quiet \in BOOLEAN

\* A call that goes on keeps it.
LEMMA GoesOnType ==
    ASSUME TypeOK, NEW p \in Phases, NEW n \in Nat,
           StartRead(p, n) \/ (n = 0 /\ NoRead(p)), Go
    PROVE  CallType' /\ heap' = heap
<1>1. PcType'
  BY DEF TypeOK, PcType, StartRead, NoRead, Go
<1>2. ReadType'
  <2>1. got' = <<>> /\ need' \in Nat /\ spent' = 0
    BY DEF StartRead, NoRead
  <2> QED
    BY <2>1 DEF ReadType
<1>3. waited' \in Nat /\ quiet' \in BOOLEAN /\ heap' = heap
  BY DEF TypeOK, HistType, Go
<1> QED
  BY <1>1, <1>2, <1>3 DEF CallType

\* A call that returns keeps it.
LEMMA ReturnType ==
    ASSUME TypeOK, NEW r \in ReturnCodes \cup {1}, Return(r)
    PROVE  CallType'
<1>1. EmptyMessage \in ClientMessage
  BY DEF EmptyMessage, ClientMessage
<1>2. PcType'
  BY <1>1 DEF TypeOK, PcType, Return, NoRead, Phases
<1>3. ReadType' /\ waited' \in Nat
  BY DEF ReadType, Return, NoRead
<1>4. quiet' \in BOOLEAN
  BY DEF Return
<1> QED
  BY <1>2, <1>3, <1>4 DEF CallType

\* Freeing the status buffer.
LEMMA FreedType == TypeOK /\ Freed => heap' \in Int
BY DEF TypeOK, AppType, Freed, Blocks

\* What remains to be shown of a step inside a call that saves nothing.
LEMMA StepType ==
    ASSUME TypeOK, CallType', NetType', heap' \in Int,
           ConnType',
           UNCHANGED <<context, device, saved, statusNo, lastSaved>>
    PROVE  TypeOK'
<1>1. AppType'
  BY DEF TypeOK, AppType
<1>2. HistType'
  BY DEF TypeOK, HistType, CallType
<1> QED
  BY <1>1, <1>2 DEF TypeOK, CallType

LEMMA SendConnectType == ASSUME TypeOK, SendConnect PROVE TypeOK'
<1> DEFINE connect == [kind |-> "deviceConnect", n |-> 0, device |-> device]
<1>1. connect \in ClientMessage
  BY DEF TypeOK, AppType, ClientMessage
<1>2. PICK m \in Serialized(connect), r \in Sent :
        /\ SendMessage(m, r)
        /\ \/ /\ r = 0
              /\ Return(IF call = "init" THEN NOT_OK ELSE UNABLE_TO_CONNECT)
              /\ Freed
           \/ /\ r # 0
              /\ StartRead("respSize", HeaderLen)
              /\ Go
  BY DEF SendConnect
<1>3. NetType' /\ ConnType'
  BY <1>1, <1>2, SerializedType, SendType, TakenType DEF SendConnect, TypeOK, HistType
<1>4. CallType' /\ heap' \in Int
  <2>1. CASE Freed /\ Return(IF call = "init" THEN NOT_OK ELSE UNABLE_TO_CONNECT)
    BY <2>1, ReturnType, FreedType DEF ReturnCodes
  <2>2. CASE StartRead("respSize", HeaderLen) /\ Go
    BY <2>2, GoesOnType, ProtocolAssumption DEF TypeOK, AppType, Phases
  <2> QED
    BY <1>2, <2>1, <2>2
<1> QED
  BY <1>3, <1>4, StepType DEF SendConnect

LEMMA ReconnectType == ASSUME TypeOK, Reconnect PROVE TypeOK'
<1>1. NetType' /\ ConnType'
  BY ResetType DEF Reconnect, TypeOK
<1>2. CallType' /\ heap' \in Int
  <2>1. CASE NoRead("sendConnect") /\ Go
    BY <2>1, GoesOnType DEF TypeOK, AppType, Phases
  <2>2. CASE Return(UNABLE_TO_CONNECT) /\ Freed
    BY <2>2, ReturnType, FreedType DEF ReturnCodes
  <2> QED
    BY <2>1, <2>2 DEF Reconnect
<1> QED
  BY <1>1, <1>2, StepType DEF Reconnect

LEMMA ResendType == ASSUME TypeOK, Resend PROVE TypeOK'
<1>1. PICK r \in Sent :
        /\ SendMessage(message, r)
        /\ \/ r = 0 /\ Return(NOT_OK) /\ Freed
           \/ r # 0 /\ StartRead("retrySize", HeaderLen) /\ Go
  BY DEF Resend
<1>2. NetType' /\ ConnType'
  BY <1>1, SendType, TakenType DEF Resend, TypeOK, PcType, HistType
<1>3. CallType' /\ heap' \in Int
  <2>1. CASE Return(NOT_OK) /\ Freed
    BY <2>1, ReturnType, FreedType DEF ReturnCodes
  <2>2. CASE StartRead("retrySize", HeaderLen) /\ Go
    BY <2>2, GoesOnType, ProtocolAssumption DEF TypeOK, AppType, Phases
  <2> QED
    BY <1>1, <2>1, <2>2
<1> QED
  BY <1>2, <1>3, StepType DEF Resend

LEMMA ReadByteType == ASSUME TypeOK, ReadByte PROVE TypeOK'
<1>1. AppType' /\ PcType' /\ HistType'
  BY DEF TypeOK, AppType, PcType, HistType, ConnType, ReadByte, app, pc, hist, conn
<1>2. Head(rx) \in Byte /\ Tail(rx) \in Seq(Byte)
  BY DEF TypeOK, NetType, ReadByte
<1>3. ReadType' /\ NetType'
  BY <1>2 DEF TypeOK, ReadType, NetType, ReadByte
<1> QED
  BY <1>1, <1>3 DEF TypeOK

LEMMA DelayType == ASSUME TypeOK, Delay PROVE TypeOK'
<1>1. AppType' /\ PcType' /\ NetType'
  BY DEF TypeOK, AppType, PcType, NetType, Delay, app, pc, net
<1>2. ReadType' /\ HistType'
  BY DEF TypeOK, ReadType, HistType, ConnType, Delay, conn
<1> QED
  BY <1>1, <1>2 DEF TypeOK

\* The results of the reads.
LEMMA SizeResultType ==
    ASSUME TypeOK, NEW n \in Nat, SizeResult(n) PROVE TypeOK'
<1>1. CallType' /\ heap' \in Int
  <2>1. CASE Return(NOT_OK) /\ Freed
    BY <2>1, ReturnType, FreedType DEF ReturnCodes
  <2>2. CASE Go /\ \/ StartRead("respBody", n)
                   \/ n = 0 /\ NoRead("reconnect")
                   \/ StartRead("replyBody", n)
    BY <2>2, GoesOnType DEF TypeOK, AppType, Phases
  <2> QED
    BY <2>1, <2>2 DEF SizeResult
<1>2. NetType' /\ ConnType'
  BY DEF SizeResult, TypeOK, NetType, HistType, ConnType, net, conn
<1> QED
  BY <1>1, <1>2, StepType DEF SizeResult

LEMMA ConnectResultType ==
    ASSUME TypeOK, NEW s, ConnectResult(s) PROVE TypeOK'
<1> DEFINE code == connectResponseCode(s, device)
<1>1. CallType' /\ heap' \in Int
  <2>1. CASE Freed /\ (Return(code) \/ Return(UNABLE_TO_CONNECT))
    BY <2>1, ReturnType, FreedType, ConnectCodeType DEF ReturnCodes
  <2>2. CASE NoRead("resend") /\ Go
    BY <2>2, GoesOnType DEF TypeOK, AppType, Phases
  <2> QED
    BY <2>1, <2>2 DEF ConnectResult
<1>2. NetType' /\ ConnType'
  BY DEF ConnectResult, TypeOK, NetType, HistType, ConnType, net, conn
<1> QED
  BY <1>1, <1>2, StepType DEF ConnectResult

\* What send_status saves.
LEMMA ParsedType == ASSUME TypeOK, NEW s \in Seq(Byte)
                    PROVE  Parsed(s) \in SavedCommand /\ Parsed(s).block
<1>1. EmptyCommand \in SavedCommand /\ EmptyCommand.block
  BY DEF EmptyCommand, SavedCommand
<1>2. CASE checkCommand(s, device) = OK
  <2> DEFINE m == Decode(s)
  <2>1. m \in DeviceCommand
    BY <1>2, CommandChecked
  <2>2. m.re \in Nat /\ m.device \in Identities \cup {Absent} /\ m.data \in Seq(Int)
    BY <2>1, ProtocolAssumption DEF DeviceCommand
  <2>3. CString(m.data) \in Seq(Int)
    BY <2>2, CStringType
  <2>4. Command(m) \in SavedCommand /\ Command(m).block
    BY <2>2, <2>3 DEF Command, SavedCommand
  <2> QED
    BY <1>2, <2>4 DEF Parsed
<1> QED
  BY <1>1, <1>2 DEF Parsed

LEMMA StatusResultType ==
    ASSUME TypeOK, NEW s \in Seq(Byte), StatusResult(s) PROVE TypeOK'
<1>1. CallType'
  BY ReturnType DEF StatusResult, ReturnCodes
<1>2. saved' \in SavedCommand /\ lastSaved' \in Nat
  <2>1. Parsed(s).re \in Nat
    BY ParsedType DEF SavedCommand
  <2> QED
    BY <2>1, ParsedType DEF StatusResult, TypeOK, AppType, HistType
<1>3. heap' \in Int
  BY DEF StatusResult, Freed, TypeOK, AppType, Blocks
<1>4. AppType'
  BY <1>2, <1>3 DEF StatusResult, TypeOK, AppType
<1>5. NetType'
  BY DEF StatusResult, TypeOK, NetType, net
<1>6. HistType'
  BY <1>1, <1>2 DEF StatusResult, TypeOK, HistType, ConnType, CallType, conn
<1> QED
  BY <1>1, <1>4, <1>5, <1>6 DEF TypeOK, CallType

\* A failed read leaves an undecodable byte.
LEMMA NoByteType == NoByte \in Byte
BY DEF NoByte, Byte, ServerMessage

LEMMA BadByteType == ASSUME TypeOK, BadByte PROVE TypeOK'
<1>1. ReadType'
  BY NoByteType DEF TypeOK, ReadType, BadByte
<1>2. AppType' /\ PcType' /\ NetType' /\ HistType'
  BY DEF TypeOK, AppType, PcType, NetType, HistType, ConnType, BadByte, app, pc, net,
     hist, conn
<1> QED
  BY <1>1, <1>2 DEF TypeOK

\* The library's steps keep the types.
LEMMA StepsType == ASSUME TypeOK, Steps PROVE TypeOK'
<1>1. got \in Seq(Byte) /\ <<>> \in Seq(Byte)
  BY DEF TypeOK, ReadType
<1>2. CASE TimedOut
  BY <1>1, <1>2, SizeResultType, ConnectResultType, StatusResultType DEF TimedOut
<1>3. CASE SizeRead
  BY <1>1, <1>3, SizesNat, SizeResultType DEF SizeRead
<1>4. CASE MessageRead
  BY <1>1, <1>4, ConnectResultType, StatusResultType DEF MessageRead
<1>5. CASE SizeFails
  BY <1>5, SizeResultType DEF SizeFails
<1> QED
  BY <1>2, <1>3, <1>4, <1>5, SendConnectType, ReconnectType, ResendType,
     ReadByteType, BadByteType, DelayType DEF Steps

\* The environment's steps keep the types.
LEMMA EnvironmentType == ASSUME TypeOK, Environment PROVE TypeOK'
<1>1. CASE Deliver
  <2>1. Head(wire) \in Byte /\ Tail(wire) \in Seq(Byte)
    BY <1>1 DEF TypeOK, NetType, Deliver
  <2>2. NetType'
    BY <1>1, <2>1 DEF TypeOK, NetType, Deliver
  <2>3. AppType' /\ PcType' /\ ReadType' /\ HistType'
    BY <1>1 DEF TypeOK, AppType, PcType, ReadType, HistType, ConnType, Deliver, app,
       pc, read, hist, conn
  <2> QED
    BY <2>2, <2>3 DEF TypeOK
<1>2. CASE GatewayAnswers
  <2>1. Head(tx) \in ClientMessage /\ Tail(tx) \in Seq(ClientMessage)
    BY <1>2 DEF TypeOK, NetType, GatewayAnswers
  <2>2. PICK a \in Answers(Head(tx)) :
          /\ wire' = wire \o Frame(a)
          /\ granted' = IF /\ a.kind = "deviceConnectResponse"
                           /\ a.responseType = "OK"
                        THEN granted \cup {a.device} ELSE granted
    BY <1>2 DEF GatewayAnswers
  <2>3. Frame(a) \in Seq(Byte)
    BY <2>1, <2>2, AnswersType, FrameType
  <2>4. NetType'
    BY <1>2, <2>1, <2>2, <2>3 DEF TypeOK, NetType, GatewayAnswers
  <2>5. ConnType'
    BY <1>2, <2>1, <2>2, AnswersType DEF TypeOK, HistType, ConnType, GatewayAnswers
  <2>6. AppType' /\ PcType' /\ ReadType'
    BY <1>2 DEF TypeOK, AppType, PcType, ReadType, GatewayAnswers, app, pc, read
  <2>7. HistType'
    BY <1>2, <2>5 DEF TypeOK, HistType, GatewayAnswers
  <2> QED
    BY <2>4, <2>6, <2>7 DEF TypeOK
<1>3. CASE GatewayIgnores \/ GatewayCloses \/ LinkLost \/ LossSeen
  <2>1. NetType'
    <3>1. CASE GatewayIgnores
      BY <3>1 DEF TypeOK, NetType, GatewayIgnores
    <3>2. CASE GatewayCloses
      BY <3>2 DEF TypeOK, NetType, GatewayCloses, Closes
    <3>3. CASE LinkLost
      BY <3>3 DEF TypeOK, NetType, LinkLost, Dies
    <3>4. CASE LossSeen
      BY <3>4 DEF TypeOK, NetType, LossSeen
    <3> QED
      BY <1>3, <3>1, <3>2, <3>3, <3>4
  <2>2. AppType' /\ PcType' /\ ReadType' /\ HistType'
    BY <1>3 DEF TypeOK, AppType, PcType, ReadType, HistType, ConnType, GatewayIgnores,
       GatewayCloses, LinkLost, LossSeen, app, pc, read, hist, conn
  <2> QED
    BY <2>1, <2>2 DEF TypeOK
<1> QED
  BY <1>1, <1>2, <1>3 DEF Environment

LEMMA NextType == TypeOK /\ [Next]_vars => TypeOK'
<1> SUFFICES ASSUME TypeOK, [Next]_vars PROVE TypeOK'
  OBVIOUS
<1>1. CASE Calls
  BY <1>1, InitConnectionType, SendStatusType, RejectStatusType,
     DestroyConnectionType DEF Calls
<1>2. CASE UNCHANGED vars
  BY <1>2 DEF TypeOK, AppType, PcType, ReadType, NetType, HistType, ConnType, vars,
     app, pc, read, net, hist, conn
<1> QED
  BY <1>1, <1>2, StepsType, EnvironmentType DEF Next

\* In every reachable state, whatever the lengths, timeouts and devices, each
\* variable of the client has its type: no read is started with a negative
\* length and no return code outside the table and 1 is produced.
THEOREM TypeCorrect == Spec => []TypeOK
BY InitType, NextType, PTL DEF Spec
=============================================================================
