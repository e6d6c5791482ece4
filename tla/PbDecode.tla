---------------------------------- MODULE PbDecode ----------------------------------
(***************************************************************************)
(* pb_decode of an InternalServer message: how nanopb walks through the    *)
(* bytes the gateway sent, and what it leaves in the struct.               *)
(*                                                                         *)
(* The input is not given but chosen while it is read: a varint takes any  *)
(* number of bytes and has any value, or is malformed.  What is kept of    *)
(* the input is its length, of a stream its position and its bytes_left,   *)
(* of a field of the struct when it was written.  The field kinds are      *)
(* those of InternalProtocol.pb.h: no callbacks, pointers, extensions,     *)
(* repeated or required fields.                                            *)
(***************************************************************************)
EXTENDS Integers, Sequences

CONSTANTS
    MaxLength,  \* bound: bytes of an input
    MaxVarint,  \* bytes of the longest well-formed varint, 10 in the code
    OverflowAt, \* bytes after which a varint can be found too long, 5 in the code
                \* (10 for the value of a varint field)
    MaxTag,     \* bound: field numbers in the input
    StringSize, \* data_size of deviceRole and deviceName
    BytesSize,  \* data_size of commandData
    BytesHeader \* offsetof(pb_bytes_array_t, bytes)

ASSUME DecodeAssumption ==
    /\ MaxLength \in Nat
    /\ MaxVarint \in Nat \ {0} /\ OverflowAt \in Nat \ {0}
    /\ MaxTag \in Nat
    /\ StringSize \in Nat \ {0}
    /\ BytesHeader \in Nat /\ BytesSize \in Nat /\ BytesHeader <= BytesSize

VARIABLES
    status,    \* of the call: "idle", "decoding", "failing", or its result
    stack,     \* one pb_decode_inner per level, with its pb_istream_t
    tag,       \* field whose tag was read, 0 when the next is to be read
    wire_type, \* of that field
    which,     \* which_MessageType
    written,   \* field of the union member in use -> history: number of the
               \* top-level field that set it, 0 for none
    size,      \* place of the NUL of a string, size of commandData
    length,    \* of the input
    count,     \* history: top-level fields seen
    switched   \* history: top-level field that changed which_MessageType last

input == <<length, count>>
dest == <<which, written, size, switched>>
vars == <<status, stack, tag, wire_type, dest, input>>

-----------------------------------------------------------------------------
(* InternalProtocol.pb.h                                                   *)

Field(name, ltype, htype) == [name |-> name, ltype |-> ltype, htype |-> htype]

\* The fields of each message by tag.  A submessage has the name of its field.
descriptor ==
    [InternalServer |->
         <<Field("deviceConnectResponse", "SUBMESSAGE", "ONEOF"),
           Field("deviceCommand", "SUBMESSAGE", "ONEOF")>>,
     deviceConnectResponse |->
         <<Field("responseType", "UVARINT", "SINGULAR"),
           Field("device", "SUBMESSAGE", "OPTIONAL")>>,
     deviceCommand |->
         <<Field("device", "SUBMESSAGE", "OPTIONAL"),
           Field("commandData", "BYTES", "SINGULAR")>>,
     device |->
         <<Field("module", "UVARINT", "SINGULAR"),
           Field("deviceType", "UVARINT", "SINGULAR"),
           Field("deviceRole", "STRING", "SINGULAR"),
           Field("deviceName", "STRING", "SINGULAR"),
           Field("priority", "UVARINT", "SINGULAR")>>]

Messages == DOMAIN descriptor
Strings == {"deviceRole", "deviceName"}
DeviceFields == {"module", "deviceType", "priority"} \cup Strings
\* "device" stands for has_device.
Members == DeviceFields \cup {"responseType", "device", "commandData"}

\* The members of the union that belong to each which_MessageType.
MembersOf(w) ==
    IF w = 0 THEN {}
    ELSE DeviceFields \cup {"device"}
         \cup IF w = 1 THEN {"responseType"} ELSE {"commandData"}

Zero == [f \in Members |-> 0]
NoSize == [f \in Strings \cup {"commandData"} |-> 0]

WireTypes == {"VARINT", "64BIT", "STRING", "32BIT", "invalid"}

-----------------------------------------------------------------------------
(* Streams.                                                                *)

Depth == Len(stack)
Top == stack[Depth]

\* The next k bytes of the innermost stream are read.
Advance(k) == [Top EXCEPT !.state = @ + k, !.bytes_left = @ - k]
Read(k) == stack' = [stack EXCEPT ![Depth] = Advance(k)]

\* mutant: a failed read is tried again
Fail_Retries(k) ==
    /\ Read(k)
    /\ UNCHANGED <<status, tag, wire_type>>

\* The call fails, after k more bytes.
Fail(k) ==
    /\ Read(k)
    /\ status' = "failing" /\ tag' = 0
    /\ UNCHANGED wire_type

\* The field is done, after k more bytes.
Done(k) ==
    /\ Read(k)
    /\ tag' = 0
    /\ UNCHANGED <<status, wire_type>>

\* A varint may take k bytes.
Varint(k) == k \in 1..MaxVarint /\ k <= Top.bytes_left

\* A varint that does not end before the stream does, or is too long.
VarintFails ==
    \E k \in 0..Top.bytes_left :
        /\ k = Top.bytes_left \/ k >= OverflowAt
        /\ Fail(k)

\* pb_read of n bytes after k others.
Bytes(k, n) == IF n <= Top.bytes_left - k THEN Done(k + n) ELSE Fail(k)

-----------------------------------------------------------------------------
Init ==
    /\ status = "idle" /\ stack = <<>>
    /\ tag = 0 /\ wire_type = "invalid"
    /\ which = 0 /\ written = Zero /\ size = NoSize
    /\ length = 0 /\ count = 0 /\ switched = 0

\* pb_istream_from_buffer and pb_decode, up to its loop, on a struct the caller
\* has set to zero.
Begin(n) ==
    /\ status \in {"idle", "true", "false"}
    /\ status' = "decoding"
    /\ stack' = <<[desc |-> "InternalServer", state |-> 0, bytes_left |-> n, end |-> n]>>
    /\ which' = 0 /\ written' = Zero /\ size' = NoSize
    /\ length' = n /\ count' = 0 /\ switched' = 0
    /\ UNCHANGED <<tag, wire_type>>

\* A call in progress that is about to read a tag, or to decode a field.
AtTag == status = "decoding" /\ tag = 0
AtField == status = "decoding" /\ tag # 0

\* pb_decode_tag; a tag of zero is an error.
DecodeTag ==
    /\ AtTag /\ Top.bytes_left > 0
    /\ \/ VarintFails
       \/ \E k \in 1..MaxVarint :
              Varint(k) /\ Fail(k)
       \/ \E k \in 1..MaxVarint, t \in 1..MaxTag, w \in WireTypes :
              /\ Varint(k)
              /\ Read(k)
              /\ tag' = t /\ wire_type' = w
              /\ UNCHANGED status
    /\ count' = IF Depth = 1 THEN count + 1 ELSE count
    /\ UNCHANGED <<dest, length>>

\* pb_field_iter_find
Find == tag \in DOMAIN descriptor[Top.desc]
TheField == descriptor[Top.desc][tag]

\* pb_skip_field, for a tag the message does not have.
SkipField ==
    /\ AtField /\ ~Find
    /\ \/ /\ wire_type = "VARINT"
          /\ \/ \E k \in 1..Top.bytes_left : Done(k)
             \/ Fail(Top.bytes_left)
       \/ /\ wire_type = "64BIT" /\ Bytes(0, 8)
       \/ /\ wire_type = "32BIT" /\ Bytes(0, 4)
       \/ /\ wire_type = "STRING"
          /\ \/ VarintFails
             \/ \E k \in 1..MaxVarint, n \in 0..MaxLength : Varint(k) /\ Bytes(k, n)
       \/ /\ wire_type = "invalid" /\ Fail(0)
    /\ UNCHANGED <<dest, input>>

-----------------------------------------------------------------------------
(* decode_static_field                                                     *)

\* mutant: the union is not cleared when the oneof changes
Presence_NoClear ==
    \/ /\ TheField.htype = "ONEOF"
       /\ which' = tag
       /\ switched' = IF which # tag THEN count ELSE switched
       /\ UNCHANGED <<written, size>>
    \/ /\ TheField.htype = "OPTIONAL"
       /\ written' = [written EXCEPT !["device"] = count]
       /\ UNCHANGED <<which, size, switched>>

\* mutant: has_device is not set
Presence_NoFlag ==
    \/ /\ TheField.htype = "ONEOF" /\ which # tag
       /\ which' = tag /\ switched' = count
       /\ written' = Zero /\ size' = NoSize
    \/ /\ TheField.htype = "OPTIONAL" \/ which = tag
       /\ UNCHANGED dest

\* What happens to the struct before the value is looked at: the union is
\* cleared when another member comes up, has_device is set.
Presence ==
    \/ /\ TheField.htype = "ONEOF" /\ which # tag
       /\ which' = tag /\ switched' = count
       /\ written' = Zero /\ size' = NoSize
    \/ /\ TheField.htype = "ONEOF" /\ which = tag
       /\ UNCHANGED dest
    \/ /\ TheField.htype = "OPTIONAL"
       /\ written' = [written EXCEPT !["device"] = count]
       /\ UNCHANGED <<which, size, switched>>

\* mutant: the parent keeps the bytes of the substream
MakeSubstream_Shared(k, n) ==
    /\ n <= Top.bytes_left - k
    /\ stack' = Append([stack EXCEPT ![Depth] = Advance(k)],
                       [desc |-> TheField.name, state |-> Top.state + k,
                        bytes_left |-> n, end |-> Top.state + k + n])
    /\ tag' = 0
    /\ UNCHANGED <<status, wire_type>>

\* pb_make_string_substream, of n bytes after the k of the length; the parent
\* stays where the substream begins, but no longer counts its bytes.
MakeSubstream(k, n) ==
    /\ n <= Top.bytes_left - k
    /\ stack' = Append([stack EXCEPT ![Depth] = [Advance(k) EXCEPT !.bytes_left = @ - n]],
                       [desc |-> TheField.name, state |-> Top.state + k,
                        bytes_left |-> n, end |-> Top.state + k + n])
    /\ tag' = 0
    /\ UNCHANGED <<status, wire_type>>

\* pb_dec_submessage, to the loop of the pb_decode_inner it calls.
DecodeSubmessage ==
    /\ AtField /\ Find /\ TheField.ltype = "SUBMESSAGE"
    /\ Presence
    /\ \/ wire_type # "STRING" /\ Fail(0)
       \/ /\ wire_type = "STRING"
          /\ \/ VarintFails
             \/ \E k \in 1..MaxVarint : Varint(k) /\ Fail(k)
             \/ \E k \in 1..MaxVarint, n \in 0..MaxLength :
                    Varint(k) /\ MakeSubstream(k, n)
    /\ UNCHANGED input

\* The field has a value, from now on.
Write == written' = [written EXCEPT ![TheField.name] = count]

\* pb_dec_varint: a value that is too large is stored before it is refused.
DecodeVarint ==
    /\ AtField /\ Find /\ TheField.ltype = "UVARINT"
    /\ \/ wire_type # "VARINT" /\ Fail(0) /\ UNCHANGED written
       \/ /\ wire_type = "VARINT"
          /\ \/ VarintFails /\ UNCHANGED written
             \/ \E k \in 1..MaxVarint : /\ Varint(k)
                                        /\ Done(k) \/ Fail(k)
                                        /\ Write
    /\ UNCHANGED <<which, size, switched, input>>

\* mutant: no space is left for the NUL
Room_NoTerminator(ltype) == IF ltype = "STRING" THEN StringSize
                            ELSE BytesSize - BytesHeader

\* The longest value that fits into a field of this kind.
Room(ltype) == IF ltype = "STRING" THEN StringSize - 1
               ELSE BytesSize - BytesHeader

\* pb_dec_string and pb_dec_bytes: the NUL, or the size, is stored before the
\* bytes are read.
DecodeBytes ==
    /\ AtField /\ Find /\ TheField.ltype \in {"STRING", "BYTES"}
    /\ \/ /\ wire_type # "STRING"
          /\ Fail(0) /\ UNCHANGED <<written, size>>
       \/ /\ wire_type = "STRING"
          /\ \/ VarintFails /\ UNCHANGED <<written, size>>
             \/ \E k \in 1..MaxVarint :
                    Varint(k) /\ Fail(k) /\ UNCHANGED <<written, size>>
             \/ \E k \in 1..MaxVarint, n \in 0..Room(TheField.ltype) :
                    /\ Varint(k)
                    /\ Bytes(k, n)
                    /\ size' = [size EXCEPT ![TheField.name] = n]
                    /\ Write
    /\ UNCHANGED <<which, switched, input>>

-----------------------------------------------------------------------------
(* The end of a message.                                                   *)

\* mutant: the whole substream is copied back, its bytes_left too
Close_Copies ==
    /\ Depth > 1
    /\ \/ status = "failing"
       \/ AtTag /\ Top.bytes_left = 0
    /\ stack' = [i \in 1..Depth - 1 |->
                     IF i = Depth - 1
                     THEN [stack[i] EXCEPT !.state = Top.state + Top.bytes_left,
                                           !.bytes_left = 0]
                     ELSE stack[i]]
    /\ UNCHANGED <<status, tag, wire_type, dest, input>>

\* A submessage is done, or has failed: pb_close_string_substream reads what is
\* left of the substream and moves the parent to its end.
Close ==
    /\ Depth > 1
    /\ \/ status = "failing"
       \/ AtTag /\ Top.bytes_left = 0
    /\ stack' = [i \in 1..Depth - 1 |->
                     IF i = Depth - 1
                     THEN [stack[i] EXCEPT !.state = Top.state + Top.bytes_left]
                     ELSE stack[i]]
    /\ UNCHANGED <<status, tag, wire_type, dest, input>>

\* pb_decode returns.
Return ==
    /\ Depth = 1
    /\ \/ status = "failing" /\ status' = "false"
       \/ AtTag /\ Top.bytes_left = 0 /\ status' = "true"
    /\ UNCHANGED <<stack, tag, wire_type, dest, input>>

-----------------------------------------------------------------------------
Steps == \/ DecodeTag \/ SkipField
         \/ DecodeSubmessage \/ DecodeVarint \/ DecodeBytes
         \/ Close \/ Return

Next == Steps \/ \E n \in 0..MaxLength : Begin(n)

Spec == Init /\ [][Next]_vars
\* A call in progress runs on: it waits for nothing.
FairSpec == Spec /\ WF_vars(Steps)

-----------------------------------------------------------------------------
(* Properties.                                                             *)

Frames == [desc : Messages, state : Nat, bytes_left : Nat, end : Nat]

\* The types of the variables; a string has its NUL inside its field and
\* commandData its bytes.
TypeOK == /\ status \in {"idle", "decoding", "failing", "true", "false"}
          /\ stack \in Seq(Frames)
          /\ status # "idle" => Depth > 0
          /\ tag \in 0..MaxTag /\ wire_type \in WireTypes
          /\ which \in 0..2
          /\ written \in [Members -> Nat]
          /\ size \in [Strings \cup {"commandData"} -> Nat]
          /\ \A f \in Strings : size[f] < StringSize
          /\ size["commandData"] + BytesHeader <= BytesSize
          /\ length \in 0..MaxLength /\ count \in Nat /\ switched \in 0..count

\* The position and bytes_left of every stream agree, although a parent's
\* position stands still while its substream is read: what a stream may still
\* read is what lies between its position, or the end of its substream, and its
\* own end.  So no read leaves its stream, nor the buffer.
StreamsAgree ==
    \A i \in 1..Depth :
        /\ stack[i].bytes_left =
               stack[i].end - (IF i = Depth THEN stack[i].state ELSE stack[i + 1].end)
        /\ stack[i].end <= IF i = 1 THEN length ELSE stack[i - 1].end

\* A message is accepted only when all of the input was decoded, however deep
\* its submessages.
WholeInput == status = "true" => Depth = 1 /\ Top.state = length

\* After the oneof went from one member to another, and maybe back, no field of
\* the member in use is from before: the device of a connect response is never
\* taken for that of a command in the same input.
NoLeftovers ==
    \A f \in MembersOf(which) : written[f] # 0 => written[f] >= switched

\* A field of the device has a value only if has_device is set, which is what
\* checkAndParseCommand asks for.
DevicePresent ==
    \A f \in DeviceFields : written[f] # 0 => written["device"] # 0

\* pb_decode returns, whatever the input: every turn of a loop reads a byte or
\* leaves a submessage.
Returns == (status = "decoding") ~> (status \in {"true", "false"})

-----------------------------------------------------------------------------
(* Inductive invariants.                                                   *)

\* The outermost stream is the input, and only a whole one is accepted.
StreamInv == /\ StreamsAgree
             /\ status # "idle" => stack[1].end = length
             /\ status = "true" => Depth = 1 /\ Top.bytes_left = 0

\* Which message is decoded at which level, and what that says of the struct.
Levels == /\ Depth <= 3
          /\ Depth >= 1 => stack[1].desc = "InternalServer"
          /\ Depth >= 2 => stack[2].desc \in {"deviceConnectResponse", "deviceCommand"}
          /\ Depth >= 3 => stack[3].desc = "device" /\ written["device"] # 0
          /\ tag # 0 \/ Depth >= 2 => count > 0
          /\ status # "decoding" => tag = 0

StructInv == Levels /\ NoLeftovers /\ DevicePresent
=============================================================================
