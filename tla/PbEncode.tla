---------------------------------- MODULE PbEncode ----------------------------------
(***************************************************************************)
(* serializeInternalClientMessageToBuffer: how nanopb turns a connect      *)
(* message or a status into bytes.  pb_encode runs twice, first on a       *)
(* stream without callback that only counts, then into a buffer of the     *)
(* counted size.  Within each run every submessage is encoded once more,   *)
(* to know the length that is written in front of it.                      *)
(*                                                                         *)
(* What is kept of a message is how long the encoding of each field is;    *)
(* of a stream its counters.  The field kinds are those of                 *)
(* InternalProtocol.pb.h: no callbacks, pointers, extensions, repeated or  *)
(* required fields.                                                        *)
(***************************************************************************)
EXTENDS Integers, Sequences

CONSTANTS
    StringSize,    \* data_size of deviceRole and deviceName
    BytesSize,     \* bytes of statusData
    Padding,       \* bytes of the message struct behind statusData
    IntLengths,    \* bytes the varint of an integer may have, 0 for the value 0
    StringLengths, \* bytes before the NUL; StringSize: there is no NUL
    DataLengths    \* size_in_bytes of a status

ASSUME EncodeAssumption ==
    /\ StringSize \in Nat \ {0} /\ BytesSize \in Nat /\ Padding \in Nat
    /\ IntLengths \subseteq Nat
    /\ StringLengths \subseteq 0..StringSize
    \* createInternalStatus copies a longer status over whatever comes next.
    /\ DataLengths \subseteq 0..(BytesSize + Padding)

VARIABLES
    message, \* internalClientMessage
    stack,   \* one pb_encode per level, with its pb_ostream_t and its iterator
    step,    \* of the innermost: what is written next, or "failed"
    errmsg,  \* of the innermost stream
    buffer,  \* the buffer to be sent
    rc       \* what the last call returned, "busy" during a call

vars == <<message, stack, step, errmsg, buffer, rc>>

-----------------------------------------------------------------------------
(* InternalProtocol.pb.h                                                   *)

Field(name, ltype, htype) == [name |-> name, ltype |-> ltype, htype |-> htype]

\* The fields of each message by tag.  A submessage has the name of its field.
descriptor ==
    [InternalClient |->
         <<Field("deviceConnect", "SUBMESSAGE", "ONEOF"),
           Field("deviceStatus", "SUBMESSAGE", "ONEOF")>>,
     deviceConnect |->
         <<Field("device", "SUBMESSAGE", "OPTIONAL")>>,
     deviceStatus |->
         <<Field("device", "SUBMESSAGE", "OPTIONAL"),
           Field("statusData", "BYTES", "SINGULAR")>>,
     device |->
         <<Field("module", "UVARINT", "SINGULAR"),
           Field("deviceType", "UVARINT", "SINGULAR"),
           Field("deviceRole", "STRING", "SINGULAR"),
           Field("deviceName", "STRING", "SINGULAR"),
           Field("priority", "UVARINT", "SINGULAR")>>]

Messages == DOMAIN descriptor
Ints == {"module", "deviceType", "priority"}
Strings == {"deviceRole", "deviceName"}
Members == Ints \cup Strings \cup {"statusData"}

\* Messages by which_MessageType, has_device and the length of each field.
MessageType(w, h, f) == [which |-> w, has_device |-> h, length |-> f]

Devices == [Ints -> IntLengths]
Names == [Strings -> StringLengths]
Lengths(d, s, n) ==
    [f \in Members |-> IF f \in Ints THEN d[f] ELSE IF f \in Strings THEN s[f] ELSE n]

\* createInternalConnect; the rest of the zeroed union is not encoded.
createInternalConnect ==
    {MessageType(1, TRUE, Lengths(d, s, 0)) : d \in Devices, s \in Names}

createInternalStatus ==
    {MessageType(2, TRUE, Lengths(d, s, n)) : d \in Devices, s \in Names, n \in DataLengths}

\* What the descriptions of both kinds have in common, for the types.
MessageRecords == [which : 1..2, has_device : BOOLEAN, length : [Members -> Nat]]

-----------------------------------------------------------------------------
(* Streams.                                                                *)

\* pb_encode_varint: the bytes of a value, seven bits in each.
VarintSize(n) == IF n < 128 THEN 1
                 ELSE IF n < 16384 THEN 2
                 ELSE IF n < 2097152 THEN 3
                 ELSE IF n < 268435456 THEN 4 ELSE 5

\* A stream and the iterator of the pb_encode that fills it: whether it has no
\* callback, and where in the buffer its state pointer is.
Stream(desc, sizing, max_size, state) ==
    [desc |-> desc, field |-> 1, sizing |-> sizing, max_size |-> max_size,
     state |-> state, bytes_written |-> 0]
SIZING(desc) == Stream(desc, TRUE, 0, 0)

Depth == Len(stack)
Top == stack[Depth]
TheField == descriptor[Top.desc][Top.field]
Length == message.length[TheField.name]

\* The test of pb_write.
Fits(s, n) == s.sizing \/ n = 0 \/ s.bytes_written + n <= s.max_size

\* The stream after pb_write, with buf_write, of n bytes.
Wrote(s, n) == [s EXCEPT !.bytes_written = @ + n,
                         !.state = IF s.sizing THEN @ ELSE @ + n]

\* pb_field_iter_next
NextField(s) == [s EXCEPT !.field = @ + 1]

\* PB_RETURN_ERROR
Fail(msg) == step' = "failed" /\ errmsg' = msg

\* pb_write of n bytes; then comes `next`.
Write(n, next) ==
    \/ /\ Fits(Top, n)
       /\ stack' = [stack EXCEPT ![Depth] =
                        IF next = "field" THEN NextField(Wrote(Top, n)) ELSE Wrote(Top, n)]
       /\ step' = next /\ UNCHANGED errmsg
    \/ /\ ~Fits(Top, n)
       /\ Fail("stream full") /\ UNCHANGED stack

\* The stack without its innermost level; the next one becomes p.
Pop(p) == [i \in 1..Depth - 1 |-> IF i = Depth - 1 THEN p ELSE stack[i]]
Parent == stack[Depth - 1]

-----------------------------------------------------------------------------
(* The call.                                                               *)

NoBuffer == [data |-> FALSE, size_in_bytes |-> 0]

Init ==
    /\ message \in createInternalConnect
    /\ stack = <<>> /\ step = "field" /\ errmsg = "none"
    /\ buffer = NoBuffer /\ rc = "none"

\* The caller's empty buffer and the first pb_encode, up to its loop.
Serialize(m) ==
    /\ rc # "busy"
    /\ rc' = "busy"
    /\ message' = m
    /\ stack' = <<SIZING("InternalClient")>> /\ step' = "field" /\ errmsg' = "none"
    /\ buffer' = NoBuffer

\* The loop of pb_encode is over, or at one of its fields.
AtEnd == rc = "busy" /\ step = "field" /\ Top.field > Len(descriptor[Top.desc])
At(s) == rc = "busy" /\ step = s /\ ~AtEnd

\* encode_field: is the field there, and (pb_check_proto3_default_value) not zero?
Present ==
    \/ TheField.htype = "ONEOF" /\ message.which = Top.field
    \/ TheField.htype = "OPTIONAL" /\ message.has_device
    \/ TheField.htype = "SINGULAR" /\ Length # 0

\* mutant: the iterator stays where it is
SkipField_Stays ==
    /\ At("field") /\ ~Present
    /\ UNCHANGED vars

SkipField ==
    /\ At("field") /\ ~Present
    /\ stack' = [stack EXCEPT ![Depth] = NextField(Top)]
    /\ UNCHANGED <<message, step, errmsg, buffer, rc>>

\* pb_encode_tag_for_field; the wire type is STRING, or VARINT, 0.
EncodeTag ==
    /\ At("field") /\ Present
    /\ Write(VarintSize(8 * Top.field + (IF TheField.ltype = "UVARINT" THEN 0 ELSE 2)), "value")
    /\ UNCHANGED <<message, buffer, rc>>

\* pb_enc_varint
EncodeVarint ==
    /\ At("value") /\ TheField.ltype = "UVARINT"
    /\ Write(Length, "field")
    /\ UNCHANGED <<message, buffer, rc>>

\* mutant: a string that fills its field is taken
Room_NoTerminator(ltype) == IF ltype = "STRING" THEN StringSize ELSE BytesSize

\* The longest value pb_enc_string and pb_enc_bytes take.
Room(ltype) == IF ltype = "STRING" THEN StringSize - 1 ELSE BytesSize

\* pb_enc_string, pb_enc_bytes; then pb_encode_string writes the length...
EncodeLength ==
    /\ At("value") /\ TheField.ltype \in {"STRING", "BYTES"}
    /\ \/ /\ Length <= Room(TheField.ltype)
          /\ Write(VarintSize(Length), "content")
       \/ /\ Length > Room(TheField.ltype)
          /\ Fail("value refused") /\ UNCHANGED stack
    /\ UNCHANGED <<message, buffer, rc>>

\* ... and the bytes.
EncodeContent ==
    /\ At("content")
    /\ Write(Length, "field")
    /\ UNCHANGED <<message, buffer, rc>>

-----------------------------------------------------------------------------
(* pb_encode_submessage                                                    *)

\* mutant: the submessage has the descriptor of its parent
EncodeSubmessage_Desc ==
    /\ At("value") /\ TheField.ltype = "SUBMESSAGE"
    /\ stack' = Append(stack, SIZING(Top.desc)) /\ step' = "field"
    /\ UNCHANGED <<message, errmsg, buffer, rc>>

\* It is encoded to a stream that only counts.
EncodeSubmessage ==
    /\ At("value") /\ TheField.ltype = "SUBMESSAGE"
    /\ stack' = Append(stack, SIZING(TheField.name)) /\ step' = "field"
    /\ UNCHANGED <<message, errmsg, buffer, rc>>

\* mutant: a counting stream takes every length for one byte
SubmessageSized_OneByte ==
    /\ AtEnd /\ Depth > 1 /\ Top.sizing /\ Parent.sizing
    /\ stack' = Pop(NextField(Wrote(Parent, 1 + Top.bytes_written)))
    /\ UNCHANGED <<message, step, errmsg, buffer, rc>>

\* Its size is known; a counting parent adds it up.
SubmessageSized ==
    /\ AtEnd /\ Depth > 1 /\ Top.sizing /\ Parent.sizing
    /\ stack' = Pop(NextField(Wrote(Parent,
                                    VarintSize(Top.bytes_written) + Top.bytes_written)))
    /\ UNCHANGED <<message, step, errmsg, buffer, rc>>

\* A writing parent writes the size, and lets the submessage be encoded again,
\* to a stream that takes so many bytes and no more.
SubmessageStarted ==
    /\ AtEnd /\ Depth > 1 /\ Top.sizing /\ ~Parent.sizing
    /\ LET size == Top.bytes_written
           length == VarintSize(size)
           p == IF Fits(Parent, length) THEN Wrote(Parent, length) ELSE Parent
       IN \/ /\ Fits(Parent, length + size)
             /\ stack' = Append(Pop(p), Stream(Top.desc, FALSE, size, p.state))
             /\ UNCHANGED <<step, errmsg>>
          \/ /\ ~Fits(Parent, length + size)
             /\ stack' = Pop(p) /\ Fail("stream full")
    /\ UNCHANGED <<message, buffer, rc>>

\* mutant: only the pointer is taken over from the substream
Joined_Pointer == [Parent EXCEPT !.state = Top.state]

\* The parent with what was written to the substream.
Joined == [Parent EXCEPT !.bytes_written = @ + Top.bytes_written, !.state = Top.state]

SubmessageWritten ==
    /\ AtEnd /\ Depth > 1 /\ ~Top.sizing
    /\ \/ /\ Top.bytes_written = Top.max_size
          /\ stack' = Pop(NextField(Joined))
          /\ UNCHANGED <<step, errmsg>>
       \/ /\ Top.bytes_written # Top.max_size
          /\ stack' = Pop(Joined) /\ Fail("submsg size changed")
    /\ UNCHANGED <<message, buffer, rc>>

\* mutant: the size of what failed is added, too
SubmessageFailed_Counts ==
    /\ rc = "busy" /\ step = "failed" /\ Depth > 1
    /\ stack' = Pop([Joined EXCEPT !.state = IF Top.sizing THEN Parent.state ELSE @])
    /\ UNCHANGED <<message, step, errmsg, buffer, rc>>

\* An error goes up one level.
SubmessageFailed ==
    /\ rc = "busy" /\ step = "failed" /\ Depth > 1
    /\ stack' = Pop(IF Top.sizing THEN Parent ELSE Joined)
    /\ UNCHANGED <<message, step, errmsg, buffer, rc>>

-----------------------------------------------------------------------------
(* serializeInternalClientMessageToBuffer                                  *)

\* A pb_encode of the whole message has returned.
Returned == rc = "busy" /\ Depth = 1 /\ (AtEnd \/ step = "failed")

\* Whatever the first one returned, what it counted is allocated, or not.
Allocate ==
    /\ Returned /\ Top.sizing
    /\ \/ /\ buffer' = [data |-> TRUE, size_in_bytes |-> Top.bytes_written]
          /\ stack' = <<Stream("InternalClient", FALSE, Top.bytes_written, 0)>>
          /\ step' = "field" /\ errmsg' = "none"
          /\ UNCHANGED rc
       \/ /\ rc' = "NOT_OK"
          /\ UNCHANGED <<stack, step, errmsg, buffer>>
    /\ UNCHANGED message

\* The second decides.
Finish ==
    /\ Returned /\ ~Top.sizing
    /\ rc' = IF step = "failed" THEN "NOT_OK" ELSE "OK"
    /\ UNCHANGED <<message, stack, step, errmsg, buffer>>

-----------------------------------------------------------------------------
Steps == \/ SkipField \/ EncodeTag \/ EncodeVarint \/ EncodeLength \/ EncodeContent
         \/ EncodeSubmessage \/ SubmessageSized \/ SubmessageStarted
         \/ SubmessageWritten \/ SubmessageFailed
         \/ Allocate \/ Finish

Next == Steps \/ \E m \in createInternalConnect \cup createInternalStatus : Serialize(m)

Spec == Init /\ [][Next]_vars
\* A call in progress runs on: it waits for nothing.
FairSpec == Spec /\ WF_vars(Steps)

-----------------------------------------------------------------------------
(* What the bytes should be: protocol buffers, encoded without a machine.  *)

TagSize == 1
IntField(n) == IF n = 0 THEN 0 ELSE TagSize + n
BytesField(n) == IF n = 0 THEN 0 ELSE TagSize + VarintSize(n) + n
Submessage(n) == TagSize + VarintSize(n) + n

DeviceSize(l) ==
    IntField(l["module"]) + IntField(l["deviceType"]) + BytesField(l["deviceRole"])
    + BytesField(l["deviceName"]) + IntField(l["priority"])

EncodedSize(m) ==
    Submessage(Submessage(DeviceSize(m.length))
               + IF m.which = 2 THEN BytesField(m.length["statusData"]) ELSE 0)

Encodable(m) ==
    /\ \A f \in Strings : m.length[f] < StringSize
    /\ m.which = 2 => m.length["statusData"] <= BytesSize

-----------------------------------------------------------------------------
(* Properties.                                                             *)

Frames == [desc : Messages, field : Nat, sizing : BOOLEAN, max_size : Nat,
           state : Nat, bytes_written : Nat]

\* The types of the variables; no message lies deeper than three levels and no
\* iterator leaves its descriptor.
TypeOK == /\ message \in MessageRecords
          /\ stack \in Seq(Frames) /\ Depth <= 3
          /\ \A i \in 1..Depth : stack[i].field \in 1..Len(descriptor[stack[i].desc]) + 1
          /\ step \in {"field", "value", "content", "failed"}
          /\ errmsg \in {"none", "stream full", "value refused", "submsg size changed"}
          /\ buffer \in [data : BOOLEAN, size_in_bytes : Nat]
          /\ rc \in {"none", "busy", "OK", "NOT_OK"}

\* While a message is written, at any depth, the counter of a stream and its
\* pointer into the buffer agree, although the pointer of a parent stands still
\* while its substream is written; each substream ends inside its parent, and
\* the outermost is the buffer.  So nothing is written behind the buffer, and
\* no byte of it twice.
StreamsAgree ==
    \A i \in 1..Depth : ~stack[i].sizing =>
        /\ stack[i].bytes_written <= stack[i].max_size
        /\ IF i = 1
           THEN /\ stack[i].state = stack[i].bytes_written
                /\ stack[i].max_size = buffer.size_in_bytes
           ELSE /\ ~stack[i - 1].sizing
                /\ stack[i].state = stack[i - 1].state + stack[i].bytes_written
                /\ stack[i - 1].bytes_written + stack[i].max_size <= stack[i - 1].max_size

\* The passes agree: what was counted, for the message and for each submessage,
\* is what is written, so no stream is ever too short and no length is wrong.
CountedIsWritten == errmsg \notin {"stream full", "submsg size changed"}

\* serializeInternalClientMessageToBuffer returns OK exactly for messages that
\* can be encoded, and then the whole buffer is the encoding.
OkIsEncoded ==
    /\ rc = "OK" => /\ Encodable(message)
                    /\ buffer.size_in_bytes = EncodedSize(message)
                    /\ Top.state = buffer.size_in_bytes
    /\ rc = "NOT_OK" /\ buffer.data => ~Encodable(message)

\* A message that cannot be encoded leaves a buffer of one byte, which
\* sendConnectMessage sends: both passes stop at the same place, inside the
\* first submessage and before anything but its tag is written.
RefusedIsOneByte ==
    rc = "NOT_OK" /\ buffer.data =>
        buffer.size_in_bytes = 1 /\ Top.state = 1 /\ errmsg = "value refused"

\* The call returns: every turn of the loops goes to the next field or one level
\* up or down.
Returns == (rc = "busy") ~> (rc # "busy")

-----------------------------------------------------------------------------
(* Inductive invariant: how far each level is, in terms of the encoding.   *)

\* The message of each level, and its size.
MessageAt(m, i) == IF i = 1 THEN "InternalClient"
                   ELSE IF i = 2 THEN descriptor["InternalClient"][m.which].name
                   ELSE "device"

Size(m, d) ==
    IF d = "InternalClient" THEN EncodedSize(m)
    ELSE IF d = "device" THEN DeviceSize(m.length)
    ELSE Submessage(DeviceSize(m.length))
         + IF d = "deviceStatus" THEN BytesField(m.length["statusData"]) ELSE 0

\* The size of a field, 0 if it is left out, and that of the fields before it.
FieldSize(m, d, f) ==
    LET x == descriptor[d][f]
    IN  IF x.ltype = "UVARINT" THEN IntField(m.length[x.name])
        ELSE IF x.ltype # "SUBMESSAGE" THEN BytesField(m.length[x.name])
        ELSE IF x.htype = "ONEOF" /\ m.which # f THEN 0
        ELSE Submessage(Size(m, x.name))

Before(m, d, f) ==
    LET Part(k) == IF k < f THEN FieldSize(m, d, k) ELSE 0
    IN  Part(1) + Part(2) + Part(3) + Part(4) + Part(5)

\* What can be encoded: a message, a field.
Encodes(m, d) ==
    /\ \A f \in Strings : m.length[f] < StringSize
    /\ d = "deviceStatus" \/ (d = "InternalClient" /\ m.which = 2) =>
           m.length["statusData"] <= BytesSize

Taken(m, d, f) ==
    LET x == descriptor[d][f]
    IN  IF x.ltype = "SUBMESSAGE"
        THEN (x.htype = "ONEOF" => m.which = f) => Encodes(m, x.name)
        ELSE x.ltype # "UVARINT" => m.length[x.name] <= Room(x.ltype)

\* One level: what it has passed could be encoded, and a stream with a buffer
\* takes the whole message, or only the tag with which the first pass stopped.
Level(m, b, i, s) ==
    /\ s \in Frames /\ s.desc = MessageAt(m, i)
    /\ s.field \in 1..Len(descriptor[s.desc]) + 1
    /\ \A f \in 1..Len(descriptor[s.desc]) : f < s.field => Taken(m, s.desc, f)
    /\ ~s.sizing =>
           IF i = 1
           THEN s.max_size = b /\ b = IF Encodable(m) THEN EncodedSize(m) ELSE 1
           ELSE s.max_size = Size(m, s.desc) /\ Encodes(m, s.desc)

\* A level and the one below it: the parent has written the tag, and before a
\* substream with a buffer also the length.
Link(m, p, c) ==
    /\ p.field \in 1..Len(descriptor[p.desc])
    /\ descriptor[p.desc][p.field].name = c.desc
    /\ p.sizing => c.sizing
    /\ p.bytes_written = Before(m, p.desc, p.field) + TagSize
                         + IF c.sizing THEN 0 ELSE VarintSize(c.max_size)
    /\ ~c.sizing => c.state = p.state + c.bytes_written

\* The innermost level, by the step it is at.
Innermost(m, s, at) ==
    LET before == Before(m, s.desc, s.field)
    IN  /\ at = "field" => s.bytes_written = before
        /\ at \in {"value", "content"} => /\ s.field \in 1..Len(descriptor[s.desc])
                                          /\ FieldSize(m, s.desc, s.field) > 0
        /\ at = "value" => s.bytes_written = before + TagSize
        /\ at = "content" =>
               LET x == descriptor[s.desc][s.field]
               IN  /\ x.ltype \in {"STRING", "BYTES"} /\ Taken(m, s.desc, s.field)
                   /\ s.bytes_written = before + TagSize + VarintSize(m.length[x.name])

Levels(m, b, levels, at) ==
    LET n == Len(levels)
    IN  /\ n <= 3
        /\ \A i \in 1..n : Level(m, b, i, levels[i])
        /\ \A i \in 1..n - 1 : Link(m, levels[i], levels[i + 1])
        /\ n >= 1 => /\ Innermost(m, levels[n], at)
                     /\ ~levels[1].sizing => levels[1].state = levels[1].bytes_written

LevelsInv == Levels(message, buffer.size_in_bytes, stack, step)

\* Only a value that does not fit into its field stops a pass, and then inside
\* the first submessage, of which nothing is written yet.
FailedInv ==
    /\ errmsg = IF step = "failed" THEN "value refused" ELSE "none"
    /\ step = "failed" => /\ ~Encodable(message)
                          /\ stack[1].bytes_written = 1
                          /\ \A i \in 2..Depth : stack[i].sizing

CallInv ==
    /\ message \in MessageRecords /\ message.has_device
    /\ step \in {"field", "value", "content", "failed"}
    /\ buffer \in [data : BOOLEAN, size_in_bytes : Nat]
    /\ rc \in {"none", "busy", "OK", "NOT_OK"}
    /\ IF rc = "none" THEN Depth = 0 ELSE Depth >= 1
    /\ rc # "none" => (buffer.data <=> ~stack[1].sizing)
    /\ rc \in {"none", "OK"} => step = "field"
    /\ rc \in {"OK", "NOT_OK"} => Depth = 1
    /\ rc = "OK" => ~Top.sizing /\ Top.field = Len(descriptor[Top.desc]) + 1
    /\ rc = "NOT_OK" /\ buffer.data => step = "failed"

EncodeInv == stack \in Seq(Frames) /\ CallInv /\ LevelsInv /\ FailedInv
=============================================================================
