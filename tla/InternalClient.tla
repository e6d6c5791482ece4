----------------------------- MODULE InternalClient -----------------------------
(***************************************************************************)
(* The client library as the application drives it: init_connection,       *)
(* send_status and destroy_connection, over the Context (socket, device,   *)
(* saved command) and the reconnect sequence of Communication.             *)
(*                                                                         *)
(* The library runs in the thread of its caller, so there is one call at a *)
(* time; `phase` says where it stands.  What interleaves with it is the    *)
(* environment: the TCP connection, which delivers byte by byte and may    *)
(* close or die, and the module gateway, which answers late, wrongly or    *)
(* not at all.  A client action is one socket operation with everything    *)
(* the code does up to the next one.                                       *)
(***************************************************************************)
EXTENDS InternalProtocol

CONSTANTS
    Timeouts,       \* timeouts of send_status, in ticks of delay_constant
    ConnectTimeout, \* TIMEOUT_IN_SECONDS, in ticks
    SizeMod,        \* 2^w for the w bits of size_t
    MaxStatus,      \* bound: statuses sent in a behaviour
    GatewayTypes,   \* bound: response types the gateway answers with
    GatewayDevices  \* bound: devices the gateway names in its messages

ASSUME ClientAssumption ==
    /\ Timeouts \subseteq Nat
    /\ ConnectTimeout \in Nat
    /\ SizeMod \in Nat /\ SizeMod > 2
    /\ MaxStatus \in Nat
    /\ GatewayTypes \subseteq ResponseTypes
    /\ GatewayDevices \subseteq Identities \cup {Absent}

VARIABLES
    context,    \* *context points to a Context
    device,     \* Context::device_
    saved,      \* Context::commandData_ and commandSize_
    heap,       \* blocks allocated and not yet freed
    call,       \* the call in progress, or the last one
    phase,      \* where it stands, "idle" when it has returned
    rc,         \* what the last call returned
    message,    \* statusMessageBuffer of send_status
    timeout,    \* its timeout
    got,        \* the bytes the read in progress has consumed
    need,       \* the bytes it wants
    spent,      \* its time_spent
    link,       \* state of socket_
    rx,         \* bytes socket_.available() counts
    wire,       \* bytes on their way to the client
    tx,         \* messages on their way to the gateway
    waited,     \* history: ticks the call in progress has waited
    statusNo,   \* history: statuses handed to the socket so far
    lastSaved,  \* history: the highest status whose answer was saved
    granted,    \* history: devices answered OK on this connection
    taken,      \* history: statuses the gateway was sent on it, in order
    quiet       \* history: the streams were empty when send_status began

app  == <<context, device, saved, heap>>
pc   == <<call, phase, rc, message, timeout>>
read == <<got, need, spent>>
net  == <<link, rx, wire, tx>>
conn == <<granted, taken>>
hist == <<waited, statusNo, lastSaved, conn, quiet>>
vars == <<app, pc, read, net, hist>>

-----------------------------------------------------------------------------
(* Values.                                                                 *)

\* What goes to the gateway.  A status is named by its number.
ClientMessage == [kind : {"deviceConnect", "deviceStatus", "garbled", "empty"},
                  n : Nat, device : Identities \cup {Absent}]

\* The buffer {nullptr, 0}, sent as a frame of size 0 when malloc fails.
EmptyMessage == [kind |-> "empty", n |-> 0, device |-> Absent]

\* A device string without NUL, or status data longer than its field, makes
\* pb_encode fail after the first tag; the byte it wrote is sent all the same.
GarbledMessage == [kind |-> "garbled", n |-> 0, device |-> Absent]

IsStatus(m) == m.kind = "deviceStatus"

\* serializeInternalClientMessageToBuffer, whose return code nobody reads.
Serialized(m) ==
    {EmptyMessage} \cup IF m.device \in Unterminated THEN {GarbledMessage}
                       ELSE IF IsStatus(m) THEN {m, GarbledMessage}
                       ELSE {m}

Blocks(m) == IF m = EmptyMessage THEN 0 ELSE 1

\* commandData_; `block` is whether it points to memory.
NoCommand    == [block |-> FALSE, re |-> 0, device |-> Absent, data |-> <<>>]
EmptyCommand == [block |-> TRUE, re |-> 0, device |-> Absent, data |-> <<>>]
Command(m)   == [block |-> TRUE, re |-> m.re, device |-> m.device,
                 data |-> CString(m.data)]

\* mutant: send_status keeps the size_t, as its two other callers do
ToInt_Unsigned(x) == x

\* int to size_t and back.
SizeT(x) == x % SizeMod
ToInt(x) == IF x < SizeMod \div 2 THEN x ELSE x - SizeMod

Phases == {"idle", "sendConnect", "respSize", "respBody", "replySize",
           "reconnect", "resend", "retrySize", "replyBody"}
SizePhases == {"respSize", "replySize", "retrySize"}
ReadPhases == SizePhases \cup {"respBody", "replyBody"}

\* mutant: the two timeouts swapped
Limit_Swapped == IF phase \in {"respSize", "respBody"} THEN timeout
                 ELSE ConnectTimeout

\* The timeout the read in progress was given.
Limit == IF phase \in {"respSize", "respBody"} THEN ConnectTimeout ELSE timeout

-----------------------------------------------------------------------------
(* The socket.                                                             *)

\* EthernetClient::connected(): a closed socket counts while it has data.
Connected == \/ link \in {"up", "lost"}
             \/ link = "fin" /\ rx \o wire # <<>>

\* EthernetClient::stop(), connect(): what was under way is lost.
Reset(l) == /\ link' = l
            /\ rx' = <<>> /\ wire' = <<>> /\ tx' = <<>>
            /\ granted' = {} /\ taken' = <<>>

\* The gateway closes the connection: what it has sent still arrives.
Closes == /\ link = "up" /\ link' = "fin"
          /\ tx' = <<>> /\ UNCHANGED wire

\* The link dies; the client's stack finds out later, if at all.
Dies == /\ link = "up" /\ link' = "lost"
        /\ wire' = <<>> /\ tx' = <<>>

\* Context::sendMessage: r is the size_t it returns, that of the second of its
\* two writes.  A socket whose peer is gone takes the bytes or fails, and nobody
\* receives them; the peer may also go after connected() has seen it, when it has
\* at most the header.
SendMessage(m, r) ==
    /\ UNCHANGED rx
    /\ \/ /\ ~Connected
          /\ r = SizeT(NOT_OK)
          /\ UNCHANGED <<link, wire, tx, taken>>
       \/ /\ Connected /\ link = "up"
          /\ r = Blocks(m)
          /\ tx' = Append(tx, m)
          /\ taken' = IF IsStatus(m) THEN Append(taken, m.n) ELSE taken
          /\ UNCHANGED <<link, wire>>
       \/ /\ Connected
          /\ r \in {0, Blocks(m)}
          /\ \/ link # "up" /\ UNCHANGED <<link, wire, tx>>
             \/ Closes
             \/ Dies
          /\ UNCHANGED taken

\* The values sendMessage can return, as far as its callers tell them apart.
Sent == {0, 1, SizeT(NOT_OK)}

-----------------------------------------------------------------------------
(* Steps shared by the calls.                                              *)

\* mutant: the loop that reads the bytes ends one too early
StartRead_OneLess(p, n) ==
    phase' = p /\ got' = <<>> /\ need' = n - 1 /\ spent' = 0

StartRead(p, n) == phase' = p /\ got' = <<>> /\ need' = n /\ spent' = 0
NoRead(p)       == phase' = p /\ got' = <<>> /\ need' = 0 /\ spent' = 0

\* Return r, freeing the status message where there is one.
Return(r) ==
    /\ NoRead("idle")
    /\ rc' = r
    /\ message' = EmptyMessage /\ timeout' = 0
    /\ waited' = 0 /\ quiet' = FALSE
    /\ UNCHANGED call

\* mutant: an error path without its deallocate
Freed_Not == UNCHANGED heap

Freed == heap' = heap - Blocks(message)

\* The call goes on in another phase.
Go == UNCHANGED <<call, rc, message, timeout, waited, quiet, heap>>

-----------------------------------------------------------------------------
Init ==
    /\ context = FALSE /\ device = ZeroDevice /\ saved = NoCommand /\ heap = 0
    /\ call = "none" /\ phase = "idle" /\ rc = OK
    /\ message = EmptyMessage /\ timeout = 0
    /\ got = <<>> /\ need = 0 /\ spent = 0
    /\ link = "none" /\ rx = <<>> /\ wire = <<>> /\ tx = <<>>
    /\ waited = 0 /\ statusNo = 0 /\ lastSaved = 0
    /\ granted = {} /\ taken = <<>> /\ quiet = FALSE

\* setDevice: what it leaves in device_.
SetDevice(d) == IF d \in TooLong THEN PartialDevice ELSE d

\* init_connection up to the connect message.  It overwrites *context, so a
\* caller that has a Context destroys it first.
InitConnection(d) ==
    /\ phase = "idle" /\ ~context
    /\ call' = "init"
    /\ \/ \* createConnection fails, the new Context is deleted
          /\ rc' = UNABLE_TO_CONNECT
          /\ UNCHANGED <<context, device, heap, phase, net, conn>>
       \/ /\ context' = TRUE /\ heap' = heap + 1
          /\ Reset("up")
          /\ device' = SetDevice(d)
          /\ \/ d \in TooLong /\ rc' = NOT_OK /\ UNCHANGED phase
             \/ d \notin TooLong /\ phase' = "sendConnect" /\ UNCHANGED rc
    /\ UNCHANGED <<saved, message, timeout, read, waited, statusNo, lastSaved,
                   quiet>>

\* sendConnectMessage, called by init_connection and by the reconnect
\* sequence.  Its buffer is allocated and freed within the step; `<= 0` on a
\* size_t is `= 0`.
SendConnect ==
    /\ phase = "sendConnect"
    /\ \E m \in Serialized([kind |-> "deviceConnect", n |-> 0,
                            device |-> device]), r \in Sent :
         /\ SendMessage(m, r)
         /\ \/ /\ r = 0
               /\ Return(IF call = "init" THEN NOT_OK ELSE UNABLE_TO_CONNECT)
               /\ Freed
            \/ /\ r # 0
               /\ StartRead("respSize", HeaderLen)
               /\ Go
    /\ UNCHANGED <<context, device, saved, statusNo, lastSaved, granted>>

\* send_status up to the first read.
SendStatus(t) ==
    /\ phase = "idle" /\ context
    /\ statusNo < MaxStatus
    /\ call' = "status" /\ statusNo' = statusNo + 1
    /\ \E m \in Serialized([kind |-> "deviceStatus", n |-> statusNo + 1,
                            device |-> device]), r \in Sent :
         /\ SendMessage(m, r)
         /\ \/ /\ ToInt(r) <= 0
               /\ rc' = IF ToInt(r) = NOT_OK THEN UNABLE_TO_CONNECT ELSE NOT_OK
               /\ UNCHANGED <<message, timeout, quiet, heap, phase, read>>
            \/ /\ ToInt(r) > 0
               /\ message' = m /\ timeout' = t
               /\ heap' = heap + Blocks(m)
               /\ quiet' = (tx \o wire \o rx = <<>>)
               /\ StartRead("replySize", HeaderLen)
               /\ UNCHANGED rc
    /\ UNCHANGED <<context, device, saved, waited, lastSaved, granted>>

\* The null checks at the head of send_status.
RejectStatus ==
    /\ phase = "idle"
    /\ call' = "status"
    /\ rc' \in IF context THEN {NOT_OK} ELSE {CONTEXT_INCORRECT}
    /\ UNCHANGED <<app, phase, message, timeout, read, net, hist>>

\* mutant: a socket that is still connected is kept
Reconnect_IfLost ==
    /\ phase = "reconnect"
    /\ \/ /\ Connected
          /\ NoRead("sendConnect") /\ Go
          /\ UNCHANGED <<net, conn>>
       \/ ~Connected /\ Reset("up") /\ NoRead("sendConnect") /\ Go
       \/ ~Connected /\ Reset("none") /\ Return(UNABLE_TO_CONNECT) /\ Freed
    /\ UNCHANGED <<context, device, saved, statusNo, lastSaved>>

\* Context::reconnect, the head of startReconnectSequence.
Reconnect ==
    /\ phase = "reconnect"
    /\ \/ Reset("up") /\ NoRead("sendConnect") /\ Go
       \/ Reset("none") /\ Return(UNABLE_TO_CONNECT) /\ Freed
    /\ UNCHANGED <<context, device, saved, statusNo, lastSaved>>

\* The reconnect sequence sends the status again.
Resend ==
    /\ phase = "resend"
    /\ \E r \in Sent :
         /\ SendMessage(message, r)
         /\ \/ r = 0 /\ Return(NOT_OK) /\ Freed
            \/ r # 0 /\ StartRead("retrySize", HeaderLen) /\ Go
    /\ UNCHANGED <<context, device, saved, statusNo, lastSaved, granted>>

\* socket_.read() with available() > 0.
ReadByte ==
    /\ phase \in ReadPhases /\ Len(got) < need /\ rx # <<>>
    /\ got' = Append(got, Head(rx)) /\ rx' = Tail(rx)
    /\ UNCHANGED <<app, pc, need, spent, link, wire, tx, hist>>

\* The byte that a failed read leaves at the end of a String: (char)-1.
NoByte == [msg |-> Undecodable, pos |-> 0]

\* socket_.read() fails in readMessageFromSocket, which takes the -1 for a byte.
BadByte ==
    /\ phase \in ReadPhases \ SizePhases /\ Len(got) < need /\ rx # <<>>
    /\ got' = Append(got, NoByte)
    /\ UNCHANGED <<app, pc, need, spent, net, hist>>

\* mutant: time_spent is not advanced
Delay_Uncounted ==
    /\ phase \in ReadPhases /\ Len(got) < need /\ rx = <<>>
    /\ spent < Limit
    /\ UNCHANGED vars

\* delay(delay_constant) with nothing available.
Delay ==
    /\ phase \in ReadPhases /\ Len(got) < need /\ rx = <<>>
    /\ spent < Limit
    /\ spent' = spent + 1 /\ waited' = waited + 1
    /\ UNCHANGED <<app, pc, got, need, net, statusNo, lastSaved, conn, quiet>>

\* readSizeFromSocket has returned n: 0 is a timeout or an empty message.
SizeResult(n) ==
    /\ \/ phase = "respSize" /\ StartRead("respBody", n) /\ Go
       \/ phase = "replySize" /\ n = 0 /\ NoRead("reconnect") /\ Go
       \/ phase = "retrySize" /\ n = 0 /\ Return(NOT_OK) /\ Freed
       \/ /\ phase \in {"replySize", "retrySize"} /\ n # 0
          /\ StartRead("replyBody", n) /\ Go
    /\ UNCHANGED <<context, device, saved, net, statusNo, lastSaved, conn>>

\* socket_.read() fails in readSizeFromSocket, which gives up.
SizeFails ==
    /\ phase \in SizePhases /\ Len(got) < need /\ rx # <<>>
    /\ SizeResult(0)

\* readMessageFromSocket has returned s to readConnectResponse.  What the
\* reconnect sequence makes of it is what the code says: OK ends it.
ConnectResult(s) ==
    LET code == connectResponseCode(s, device)
    IN  /\ phase = "respBody"
        /\ \/ call = "init" /\ Return(code) /\ Freed
           \/ call = "status" /\ code = OK /\ Return(UNABLE_TO_CONNECT) /\ Freed
           \/ call = "status" /\ code # OK /\ NoRead("resend") /\ Go
        /\ UNCHANGED <<context, device, saved, net, statusNo, lastSaved, conn>>

\* mutant: the string to parse into outlives the call
Parsed_Stale(s) ==
    IF checkCommand(s, device) = OK THEN Command(Decode(s)) ELSE saved

\* The `command` of send_status after checkAndParseCommand: an error leaves it
\* the empty string.
Parsed(s) ==
    IF checkCommand(s, device) = OK THEN Command(Decode(s)) ELSE EmptyCommand

\* mutant: the command is saved before the check is looked at
StatusResult_SavesFirst(s) ==
    /\ phase = "replyBody"
    /\ Return(IF checkCommand(s, device) = NOT_OK THEN COMMAND_INCORRECT ELSE OK)
    /\ saved' = Parsed(s)
    /\ heap' = heap - Blocks(message) + IF saved.block THEN 0 ELSE 1
    /\ lastSaved' = IF Parsed(s).re > lastSaved THEN Parsed(s).re ELSE lastSaved
    /\ UNCHANGED <<context, device, net, statusNo, conn>>

\* ... and to send_status, which saves unless the check says NOT_OK.
StatusResult(s) ==
    LET code == checkCommand(s, device)
        new  == Parsed(s)
    IN  /\ phase = "replyBody"
        /\ \/ /\ code = NOT_OK
              /\ Return(COMMAND_INCORRECT) /\ Freed
              /\ UNCHANGED <<saved, lastSaved>>
           \/ /\ code # NOT_OK
              /\ Return(OK)
              /\ saved' = new
              /\ heap' = heap - Blocks(message) + IF saved.block THEN 0 ELSE 1
              /\ lastSaved' = IF new.re > lastSaved THEN new.re ELSE lastSaved
        /\ UNCHANGED <<context, device, net, statusNo, conn>>

TimedOut ==
    /\ phase \in ReadPhases /\ Len(got) < need /\ rx = <<>>
    /\ spent >= Limit
    /\ SizeResult(0) \/ ConnectResult(<<>>) \/ StatusResult(<<>>)

SizeRead ==
    /\ phase \in SizePhases /\ Len(got) = need
    /\ \E n \in SizesOf(got) : SizeResult(n)

MessageRead ==
    /\ Len(got) = need
    /\ ConnectResult(got) \/ StatusResult(got)

DestroyConnection ==
    /\ phase = "idle"
    /\ call' = "destroy" /\ rc' = OK
    /\ context' = FALSE /\ device' = ZeroDevice /\ saved' = NoCommand
    /\ heap' = heap - (IF context THEN 1 ELSE 0) - (IF saved.block THEN 1 ELSE 0)
    /\ Reset("none")
    /\ UNCHANGED <<phase, message, timeout, read, waited, statusNo, lastSaved,
                   quiet>>

-----------------------------------------------------------------------------
(* The environment: the network and the module gateway.                    *)

Deliver ==
    /\ link \in {"up", "fin"} /\ wire # <<>>
    /\ rx' = Append(rx, Head(wire)) /\ wire' = Tail(wire)
    /\ UNCHANGED <<app, pc, read, link, tx, hist>>

\* What the gateway may answer to m.  It sends nothing of its own accord.
Answers(m) ==
    IF m.kind = "deviceConnect" THEN
        [kind : {"deviceConnectResponse"}, responseType : GatewayTypes,
         device : GatewayDevices]
    ELSE IF m.kind = "deviceStatus" THEN
        [kind : {"deviceCommand"}, re : {m.n}, device : GatewayDevices,
         data : Payloads] \cup {Unset, Undecodable}
    ELSE {}

GatewayAnswers ==
    /\ link = "up" /\ tx # <<>>
    /\ tx' = Tail(tx)
    /\ \E a \in Answers(Head(tx)) :
         /\ wire' = wire \o Frame(a)
         /\ granted' = IF /\ a.kind = "deviceConnectResponse"
                          /\ a.responseType = "OK"
                       THEN granted \cup {a.device} ELSE granted
    /\ UNCHANGED <<app, pc, read, link, rx, waited, statusNo, lastSaved, taken, quiet>>

GatewayIgnores ==
    /\ link = "up" /\ tx # <<>>
    /\ tx' = Tail(tx)
    /\ UNCHANGED <<app, pc, read, link, rx, wire, hist>>

GatewayCloses ==
    /\ Closes
    /\ UNCHANGED <<app, pc, read, rx, hist>>

LinkLost ==
    /\ Dies
    /\ UNCHANGED <<app, pc, read, rx, hist>>

LossSeen ==
    /\ link = "lost"
    /\ link' = "fin"
    /\ UNCHANGED <<app, pc, read, rx, wire, tx, hist>>

-----------------------------------------------------------------------------
\* The calls of the application, each up to its first read.
Calls == \/ \E d \in Devices : InitConnection(d)
         \/ \E t \in Timeouts : SendStatus(t)
         \/ RejectStatus
         \/ DestroyConnection

\* The library, inside a call.
Steps == \/ SendConnect
         \/ Reconnect
         \/ Resend
         \/ ReadByte
         \/ BadByte
         \/ Delay
         \/ TimedOut
         \/ SizeRead
         \/ SizeFails
         \/ MessageRead

Environment == \/ Deliver
               \/ GatewayAnswers
               \/ GatewayIgnores
               \/ GatewayCloses
               \/ LinkLost
               \/ LossSeen

Next == Calls \/ Steps \/ Environment

Spec == Init /\ [][Next]_vars

\* A call that has begun runs on; nothing is assumed of the application, the
\* network or the gateway.
FairSpec == Spec /\ WF_vars(Steps)

-----------------------------------------------------------------------------
(* Properties.                                                             *)

SavedCommand == [block : BOOLEAN, re : Nat, device : Identities \cup {Absent},
                 data : Seq(Int)]

AppType  == /\ context \in BOOLEAN
            /\ device \in Identities
            /\ saved \in SavedCommand
            /\ heap \in Int
PcType   == /\ call \in {"none", "init", "status", "destroy"}
            /\ phase \in Phases
            /\ rc \in ReturnCodes \cup {1}
            /\ message \in ClientMessage
            /\ timeout \in Timeouts \cup {0}
ReadType == /\ got \in Seq(Byte)
            /\ need \in Nat
            /\ spent \in Nat
NetType  == /\ link \in {"none", "up", "lost", "fin"}
            /\ rx \in Seq(Byte)
            /\ wire \in Seq(Byte)
            /\ tx \in Seq(ClientMessage)
ConnType == /\ granted \subseteq Identities \cup {Absent}
            /\ taken \in Seq(Nat)
HistType == /\ waited \in Nat
            /\ statusNo \in 0..MaxStatus
            /\ lastSaved \in Nat
            /\ ConnType
            /\ quiet \in BOOLEAN

\* Every variable has the type the code gives it; a length to read is never
\* negative and a return code is one of the library's, or 1.
TypeOK == AppType /\ PcType /\ ReadType /\ NetType /\ HistType

\* The blocks something still points to: the Context, the saved command, the
\* status buffer of a call in progress.
Owned == (IF context THEN 1 ELSE 0) + (IF saved.block THEN 1 ELSE 0)
         + Blocks(message)

\* No call leaks a block or frees one twice, whichever of its error paths it
\* leaves by (init_connection's delete, the deallocate calls of send_status,
\* saveCommand, ~Context): the blocks alive are those something points to, and
\* between calls the status buffer is not among them.
NoLeak == /\ heap = Owned
          /\ phase = "idle" => message = EmptyMessage
          /\ ~context => ~saved.block

\* The longest a call waits on a silent or dripping network: init_connection
\* reads twice with the fixed timeout; send_status, when it goes through the
\* reconnect sequence, waits three timeouts of its own and those two.
WaitBounded ==
    waited <= IF call = "init" THEN 2 * ConnectTimeout
              ELSE 3 * timeout + 2 * ConnectTimeout

\* init_connection returns UNABLE_TO_CONNECT exactly when it leaves *context
\* alone; after any other error the caller has a Context to destroy.
HandleOwnership ==
    call = "init" /\ phase = "idle" => (rc = UNABLE_TO_CONNECT <=> ~context)

\* When init_connection returns OK, the gateway has accepted this device on
\* this connection (an answer that names no device counts for the zero one).
HandshakeAgreement ==
    call = "init" /\ phase = "idle" /\ rc = OK =>
        \/ device \in granted
        \/ device = ZeroDevice /\ Absent \in granted

\* A saved command was addressed to this device, whatever else the gateway
\* sent and however the stream was cut; and never to a device without NUL.
ForThisDevice ==
    saved.re > 0 => /\ saved.device = device
                    /\ device \notin Unterminated

\* On one connection the gateway is sent every status at most once, and in
\* order, also those it has long received: the second copy that the reconnect
\* sequence sends goes to a new connection.
StatusOncePerConnection ==
    \A i, j \in 1..Len(taken) : i < j => taken[i] < taken[j]

\* A send_status that stores a command.
Saves == phase = "replyBody" /\ phase' = "idle" /\ saved'.re > 0 /\ rc' = OK

\* Commands are saved in the order of the statuses they answer and each one
\* at most once, across timeouts, resends and new connections.
CommandsInOrder == [][Saves => saved'.re > lastSaved]_vars

\* A command never comes from the future, and when send_status found the
\* streams empty, the command it saves answers the status it sent.
PairedReplies ==
    [][Saves => /\ saved'.re <= statusNo
                /\ quiet => saved'.re = statusNo]_vars

\* A failed reconnect leaves a Context without a socket.  No later send_status
\* connects it, and each one says so: -1 survives the size_t that sendMessage
\* returns.  (NOT_OK is the answer to a status without data.)
Stranded == phase = "idle" /\ context /\ link = "none"
StaysStranded ==
    [][Stranded /\ context' =>
           /\ Stranded'
           /\ rc' \in {UNABLE_TO_CONNECT, NOT_OK}
           /\ statusNo' # statusNo => rc' = UNABLE_TO_CONNECT]_vars

\* Every call returns, whatever the network and the gateway do.
CallReturns == phase # "idle" ~> phase = "idle"

-----------------------------------------------------------------------------
(* Inductive invariants: what the proofs need beyond the properties.       *)

\* A call works on a live Context; without one no command is kept.
ContextInv == /\ phase # "idle" => context /\ call \in {"init", "status"}
              /\ ~context => saved = NoCommand

HeapInv == NoLeak /\ ContextInv

DeviceInv == ForThisDevice /\ ContextInv

InitPhases == {"sendConnect", "respSize", "respBody"}

\* The ticks a call can have waited before the read it is in, or is about to
\* start.
WaitedBefore ==
    IF call = "init"
    THEN IF phase = "respBody" THEN ConnectTimeout ELSE 0
    ELSE IF phase = "replySize" THEN 0
    ELSE IF phase \in {"reconnect", "sendConnect", "respSize"} THEN timeout
    ELSE IF phase = "respBody" THEN timeout + ConnectTimeout
    ELSE IF phase \in {"resend", "retrySize"} THEN timeout + 2 * ConnectTimeout
    ELSE 2 * timeout + 2 * ConnectTimeout

WaitInv == /\ phase = "idle" => waited = 0
           /\ phase \notin ReadPhases => spent = 0
           /\ phase # "idle" => /\ call \in {"init", "status"}
                                /\ call = "init" => phase \in InitPhases
                                /\ waited <= WaitedBefore + spent
                                /\ spent <= Limit

\* Every connect response OK among these bytes was sent by the gateway on this
\* connection.
Honest(s, g) ==
    \A i \in 1..Len(s) :
        s[i].msg.kind = "deviceConnectResponse" /\ s[i].msg.responseType = "OK"
            => s[i].msg.device \in g

AnswerInv == /\ \A s \in {got, rx, wire} : Honest(s, granted)
             /\ phase \notin ReadPhases => got = <<>>
             /\ HandshakeAgreement

\* A status that is sent again goes to a connection on which no other was sent.
OnNewConnection ==
    call = "status" /\ phase \in {"sendConnect", "respSize", "respBody", "resend"}

\* No status up to this number is in transit, and no part of an answer to one.
Settled == IF OnNewConnection THEN statusNo
           ELSE IF quiet THEN statusNo - 1 ELSE lastSaved

\* What the client has read or will read of this connection.
Stream == got \o rx \o wire

IsCommand(b) == b.msg.kind = "deviceCommand"

\* Bytes of commands come in the order of the statuses they answer, and those
\* of one command in the order of their places.
Ordered(s) ==
    \A i, j \in 1..Len(s) :
        i < j /\ IsCommand(s[i]) /\ IsCommand(s[j]) =>
            \/ s[i].msg.re < s[j].msg.re
            \/ s[i].msg = s[j].msg /\ s[i].pos < s[j].pos

\* They belong to unsettled statuses...
Recent(s, last, newest) ==
    \A i \in 1..Len(s) :
        IsCommand(s[i]) => /\ s[i].msg.re \in last + 1..newest
                           /\ s[i].pos <= HeaderLen + CommandLen

\* ... that are not on their way to the gateway any more.
Answered(s, t) ==
    \A i \in 1..Len(s), k \in 1..Len(t) :
        IsCommand(s[i]) /\ IsStatus(t[k]) => s[i].msg.re < t[k].n

\* Statuses on their way to the gateway are unsettled too and in order.
Queued(t, last, newest) ==
    /\ \A k \in 1..Len(t) : IsStatus(t[k]) => t[k].n \in last + 1..newest
    /\ \A i, j \in 1..Len(t) :
         i < j /\ IsStatus(t[i]) /\ IsStatus(t[j]) => t[i].n < t[j].n

Transit(s, t, last, newest) ==
    Ordered(s) /\ Recent(s, last, newest) /\ Answered(s, t) /\ Queued(t, last, newest)

TransitInv == Transit(Stream, tx, Settled, statusNo)

\* The status of the call in progress is the last one, and not yet answered.
LatestInv ==
    /\ lastSaved <= statusNo
    /\ quiet => phase # "idle" /\ call = "status"
    /\ phase # "idle" /\ call = "status" =>
           lastSaved < statusNo /\ (IsStatus(message) => message.n = statusNo)
    /\ phase \notin ReadPhases => got = <<>>

OrderInv == TransitInv /\ LatestInv

\* No status but those sent so far was sent on this connection, and none yet on
\* the new one of a reconnect sequence.
TakenInv == /\ StatusOncePerConnection
            /\ \A k \in 1..Len(taken) : taken[k] <= statusNo
            /\ OnNewConnection => taken = <<>>

-----------------------------------------------------------------------------
(* What the repository's comments say and the code does not do.            *)

\* Communication.hpp: "The reconnect is successful only if all steps are
\* successful", the connect response among them.
ReconnectNeedsHandshake ==
    [][phase = "retrySize" /\ phase' = "replyBody" => device \in granted]_vars

\* Communication.hpp, readConnectResponse: "DEVICE_INCORRECT if connect
\* response had different device set than current device".
WrongDeviceReported ==
    [][/\ call = "init" /\ phase = "respBody" /\ phase' = "idle"
       /\ checkConnectResponse(got, device) = DEVICE_INCORRECT
       => rc' = DEVICE_INCORRECT]_vars

\* Communication.hpp, sendConnectMessage: "OK if message was sent, NOT_OK
\* otherwise".
ConnectSentOrFails ==
    [][phase = "sendConnect" /\ phase' = "respSize" => Connected]_vars

\* Context.hpp, saveCommand: "command string containing command data".
SavedIsCommandData ==
    [][saved' # saved /\ saved'.block => checkCommand(got, device) = OK]_vars

\* InternalProtocol.proto: DeviceCommand holds "binary command data".
CommandDataWhole ==
    [][Saves => saved'.data = Decode(got).data]_vars
=============================================================================
