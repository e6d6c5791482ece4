------------------------------- MODULE PbDecode_proofs -------------------------------
(***************************************************************************)
(* Decoding stays inside its input, for inputs of every length, varints of *)
(* every size and submessages of every extent; and the struct never mixes  *)
(* two messages.                                                           *)
(***************************************************************************)
EXTENDS PbDecode, TLAPS

-----------------------------------------------------------------------------
(* The stack of streams.                                                   *)

\* Reading moves the position and bytes_left, and nothing else of a stream.
LEMMA AdvanceType ==
    ASSUME Top \in Frames, NEW k \in Nat, k <= Top.bytes_left
    PROVE  /\ Advance(k) \in Frames
           /\ Advance(k).desc = Top.desc /\ Advance(k).end = Top.end
           /\ Advance(k).state = Top.state + k
           /\ Advance(k).bytes_left = Top.bytes_left - k
<1>1. /\ Top.desc \in Messages /\ Top.end \in Nat
      /\ Top.state \in Nat /\ Top.bytes_left \in Nat
  BY DEF Frames
<1> DEFINE a == Top.state + k
           b == Top.bytes_left - k
<1>2. /\ Top.desc \in Messages /\ Top.end \in Nat /\ a \in Nat /\ b \in Nat
  BY <1>1
<1>3. Advance(k) = [Top EXCEPT !.state = a, !.bytes_left = b]
  BY DEF Advance
<1> HIDE DEF a, b
<1>4. Advance(k) = [desc |-> Top.desc, state |-> a, bytes_left |-> b, end |-> Top.end]
  BY <1>3 DEF Frames
<1> QED
  BY <1>2, <1>4 DEF Frames, a, b

\* Giving up bytes changes nothing but bytes_left.
LEMMA ShrinkType ==
    ASSUME NEW f \in Frames, NEW b \in Nat
    PROVE  /\ [f EXCEPT !.bytes_left = b] \in Frames
           /\ [f EXCEPT !.bytes_left = b].desc = f.desc
           /\ [f EXCEPT !.bytes_left = b].end = f.end
           /\ [f EXCEPT !.bytes_left = b].bytes_left = b
BY DEF Frames

\* A read inside the innermost stream leaves every other stream as it is.
LEMMA ReadKeeps ==
    ASSUME stack \in Seq(Frames), Depth > 0, StreamsAgree, length' = length,
           NEW k \in 0..Top.bytes_left, Read(k)
    PROVE  /\ stack' \in Seq(Frames) /\ Len(stack') = Len(stack)
           /\ \A i \in 1..Len(stack) : /\ stack'[i].desc = stack[i].desc
                                       /\ stack'[i].end = stack[i].end
           /\ StreamsAgree'
<1> DEFINE n == Len(stack)
<1>1. n \in Nat /\ n > 0 /\ \A i \in 1..n : stack[i] \in Frames
  BY DEF Depth
<1>2. stack[n] \in Frames /\ k \in Nat /\ k <= stack[n].bytes_left
  BY <1>1 DEF Depth, Top, Frames
<1> DEFINE t == Advance(k)
<1>3. /\ t \in Frames
      /\ t.desc = stack[n].desc /\ t.end = stack[n].end
      /\ t.state = stack[n].state + k /\ t.bytes_left = stack[n].bytes_left - k
  BY <1>2, AdvanceType DEF Top, Depth
<1> HIDE DEF t
<1>4. stack' = [stack EXCEPT ![n] = t]
  BY DEF Read, Depth, t
<1>5. /\ stack' \in Seq(Frames) /\ Len(stack') = n
      /\ stack'[n] = t
      /\ \A i \in 1..n : i # n => stack'[i] = stack[i]
  BY <1>1, <1>3, <1>4
<1>6. \A i \in 1..n : stack'[i].desc = stack[i].desc /\ stack'[i].end = stack[i].end
  BY <1>3, <1>5
<1>7. \A i \in 1..n :
          /\ stack'[i].bytes_left =
                 stack'[i].end - (IF i = n THEN stack'[i].state ELSE stack'[i + 1].end)
          /\ stack'[i].end <= IF i = 1 THEN length ELSE stack'[i - 1].end
  <2> TAKE i \in 1..n
  <2>1. /\ stack[i].bytes_left =
               stack[i].end - (IF i = n THEN stack[i].state ELSE stack[i + 1].end)
        /\ stack[i].end <= IF i = 1 THEN length ELSE stack[i - 1].end
    BY DEF StreamsAgree, Depth
  <2>2. i # n => stack'[i + 1].end = stack[i + 1].end
    BY <1>1, <1>6
  <2>3. i # 1 => stack'[i - 1].end = stack[i - 1].end
    BY <1>1, <1>6
  <2>4. stack'[i].end <= IF i = 1 THEN length ELSE stack'[i - 1].end
    BY <1>6, <2>1, <2>3
  <2>5. CASE i = n
    <3>1. /\ stack'[i].bytes_left = stack[n].bytes_left - k
          /\ stack'[i].state = stack[n].state + k
          /\ stack'[i].end = stack[n].end
      BY <1>3, <1>5, <2>5
    <3>2. /\ stack[n].state \in Nat /\ stack[n].end \in Nat
          /\ stack[n].bytes_left = stack[n].end - stack[n].state
      BY <1>2, <2>1, <2>5 DEF Frames
    <3> QED
      BY <1>2, <2>4, <2>5, <3>1, <3>2
  <2>6. CASE i # n
    BY <1>5, <2>1, <2>2, <2>4, <2>6
  <2> QED
    BY <2>5, <2>6
<1> QED
  BY <1>5, <1>6, <1>7 DEF StreamsAgree, Depth

\* Opening a substream: the parent gives up exactly the bytes that it gets.
LEMMA OpenKeeps ==
    ASSUME stack \in Seq(Frames), Depth > 0, StreamsAgree, length' = length,
           TheField.name \in Messages,
           NEW k \in 0..Top.bytes_left, NEW m \in Nat, MakeSubstream(k, m)
    PROVE  /\ stack' \in Seq(Frames) /\ Len(stack') = Len(stack) + 1
           /\ \A i \in 1..Len(stack) : /\ stack'[i].desc = stack[i].desc
                                       /\ stack'[i].end = stack[i].end
           /\ stack'[Len(stack) + 1].desc = TheField.name
           /\ StreamsAgree'
<1> DEFINE n == Len(stack)
           old == stack[n]
<1>1. n \in Nat /\ n > 0 /\ \A i \in 1..n : stack[i] \in Frames
  BY DEF Depth
<1>2. /\ old \in Frames /\ Top = old /\ k \in Nat /\ k + m <= old.bytes_left
      /\ old.state \in Nat /\ old.end \in Nat /\ old.bytes_left \in Nat
  BY <1>1 DEF Depth, Top, Frames, MakeSubstream
<1> DEFINE a == Advance(k)
           t == [a EXCEPT !.bytes_left = @ - m]
           u == [desc |-> TheField.name, state |-> old.state + k,
                 bytes_left |-> m, end |-> old.state + k + m]
<1>3. /\ a \in Frames
      /\ a.desc = old.desc /\ a.end = old.end
      /\ a.state = old.state + k /\ a.bytes_left = old.bytes_left - k
  BY <1>2, AdvanceType
<1> HIDE DEF a
<1>4. /\ t \in Frames
      /\ t.desc = old.desc /\ t.end = old.end
      /\ t.bytes_left = old.bytes_left - k - m
  <2>1. a.bytes_left - m \in Nat
    BY <1>2, <1>3
  <2> QED
    BY <1>3, <2>1, ShrinkType
<1>5. /\ u \in Frames /\ u.desc = TheField.name /\ u.state = old.state + k
      /\ u.bytes_left = m /\ u.end = old.state + k + m
  BY <1>2 DEF Frames
<1>6. stack' = Append([stack EXCEPT ![n] = t], u)
  BY <1>2 DEF MakeSubstream, Depth, Top, a
<1> HIDE DEF t, u
<1>7. /\ stack' \in Seq(Frames) /\ Len(stack') = n + 1
      /\ stack'[n] = t /\ stack'[n + 1] = u
      /\ \A i \in 1..n : i # n => stack'[i] = stack[i]
  BY <1>1, <1>4, <1>5, <1>6
<1>8. \A i \in 1..n : stack'[i].desc = stack[i].desc /\ stack'[i].end = stack[i].end
  BY <1>4, <1>7
<1>9. \A i \in 1..n + 1 :
          /\ stack'[i].bytes_left =
                 stack'[i].end - (IF i = n + 1 THEN stack'[i].state ELSE stack'[i + 1].end)
          /\ stack'[i].end <= IF i = 1 THEN length ELSE stack'[i - 1].end
  <2> TAKE i \in 1..n + 1
  <2>1. i # n + 1 =>
            /\ stack[i].bytes_left =
                   stack[i].end - (IF i = n THEN stack[i].state ELSE stack[i + 1].end)
            /\ stack[i].end <= IF i = 1 THEN length ELSE stack[i - 1].end
    BY <1>1 DEF StreamsAgree, Depth
  <2>2. old.bytes_left = old.end - old.state
    BY <1>1 DEF StreamsAgree, Depth
  <2>3. CASE i = n + 1
    <3>1. /\ stack'[i].state = old.state + k /\ stack'[i].bytes_left = m
          /\ stack'[i].end = old.state + k + m
      BY <1>5, <1>7, <2>3
    <3>2. i # 1 /\ stack'[i - 1].end = old.end
      BY <1>1, <1>4, <1>7, <2>3
    <3> QED
      BY <1>2, <2>2, <2>3, <3>1, <3>2
  <2>4. CASE i = n
    <3>1. stack'[i].end <= IF i = 1 THEN length ELSE stack'[i - 1].end
      BY <1>1, <1>8, <2>1, <2>4
    <3>2. /\ stack'[i].bytes_left = old.bytes_left - k - m
          /\ stack'[i].end = old.end /\ stack'[i + 1].end = old.state + k + m
      BY <1>4, <1>5, <1>7, <2>4
    <3> QED
      BY <1>1, <1>2, <2>2, <2>4, <3>1, <3>2
  <2>5. CASE i < n
    <3>1. stack'[i + 1].end = stack[i + 1].end /\ stack'[i] = stack[i]
      BY <1>1, <1>7, <1>8, <2>5
    <3>2. i # 1 => stack'[i - 1].end = stack[i - 1].end
      BY <1>1, <1>8, <2>5
    <3> QED
      BY <1>1, <2>1, <2>5, <3>1, <3>2
  <2> QED
    BY <1>1, <2>3, <2>4, <2>5
<1> QED
  BY <1>5, <1>7, <1>8, <1>9 DEF StreamsAgree, Depth

\* Closing a substream: the parent moves to its end, which is where the parent
\* was counted to be.
LEMMA CloseKeeps ==
    ASSUME stack \in Seq(Frames), StreamsAgree, length' = length, Close
    PROVE  /\ stack' \in Seq(Frames) /\ Len(stack') = Len(stack) - 1
           /\ Len(stack') > 0
           /\ \A i \in 1..Len(stack') : /\ stack'[i].desc = stack[i].desc
                                        /\ stack'[i].end = stack[i].end
           /\ StreamsAgree'
<1> DEFINE n == Len(stack)
           s == stack[n].state + stack[n].bytes_left
           t == [stack[n - 1] EXCEPT !.state = s]
<1>1. n \in Nat /\ n > 1 /\ \A i \in 1..n : stack[i] \in Frames
  BY DEF Close, Depth
<1>2. /\ stack[n] \in Frames /\ stack[n - 1] \in Frames
      /\ stack[n].state \in Nat /\ stack[n].bytes_left \in Nat /\ stack[n].end \in Nat
  BY <1>1 DEF Frames
<1>3. s \in Nat /\ s = stack[n].end
  BY <1>1, <1>2 DEF StreamsAgree, Depth
<1> HIDE DEF s
<1>4. t \in Frames /\ t.desc = stack[n - 1].desc /\ t.end = stack[n - 1].end
      /\ t.state = s /\ t.bytes_left = stack[n - 1].bytes_left
  BY <1>2, <1>3 DEF Frames
<1>5. stack' = [i \in 1..n - 1 |-> IF i = n - 1 THEN t ELSE stack[i]]
  BY DEF Close, Depth, Top, s
<1> HIDE DEF t
<1>6. /\ stack' \in Seq(Frames) /\ Len(stack') = n - 1
      /\ \A i \in 1..n - 1 : stack'[i] = IF i = n - 1 THEN t ELSE stack[i]
  BY <1>1, <1>4, <1>5
<1>7. \A i \in 1..n - 1 : stack'[i].desc = stack[i].desc /\ stack'[i].end = stack[i].end
  BY <1>4, <1>6
<1>8. \A i \in 1..n - 1 :
          /\ stack'[i].bytes_left =
                 stack'[i].end - (IF i = n - 1 THEN stack'[i].state ELSE stack'[i + 1].end)
          /\ stack'[i].end <= IF i = 1 THEN length ELSE stack'[i - 1].end
  <2> TAKE i \in 1..n - 1
  <2>1. /\ stack[i].bytes_left = stack[i].end - stack[i + 1].end
        /\ stack[i].end <= IF i = 1 THEN length ELSE stack[i - 1].end
    BY <1>1 DEF StreamsAgree, Depth
  <2>2. stack'[i].end = stack[i].end /\ stack'[i].bytes_left = stack[i].bytes_left
    BY <1>4, <1>6, <1>7
  <2>3. i # 1 => stack'[i - 1].end = stack[i - 1].end
    BY <1>1, <1>7
  <2>4. i # n - 1 => stack'[i + 1].end = stack[i + 1].end
    BY <1>1, <1>7
  <2>5. i = n - 1 => stack'[i].state = stack[i + 1].end
    BY <1>1, <1>3, <1>4, <1>6
  <2> QED
    BY <1>1, <2>1, <2>2, <2>3, <2>4, <2>5
<1> QED
  BY <1>1, <1>6, <1>7, <1>8 DEF StreamsAgree, Depth

-----------------------------------------------------------------------------
(* The messages.                                                           *)

\* What the generated descriptors say, message by message.
LEMMA FieldFacts ==
    ASSUME NEW d \in Messages, NEW t \in DOMAIN descriptor[d]
    PROVE  /\ t \in Nat \ {0}
           /\ descriptor[d][t].ltype = "SUBMESSAGE" => descriptor[d][t].name \in Messages
           /\ d = "InternalServer" =>
                  /\ t \in {1, 2}
                  /\ descriptor[d][t].ltype = "SUBMESSAGE"
                  /\ descriptor[d][t].htype = "ONEOF"
                  /\ descriptor[d][t].name \in {"deviceConnectResponse", "deviceCommand"}
           /\ d \in {"deviceConnectResponse", "deviceCommand"} =>
                  /\ descriptor[d][t].ltype = "SUBMESSAGE" =>
                         /\ descriptor[d][t].htype = "OPTIONAL"
                         /\ descriptor[d][t].name = "device"
                  /\ descriptor[d][t].ltype # "SUBMESSAGE" =>
                         descriptor[d][t].name =
                             IF d = "deviceCommand" THEN "commandData" ELSE "responseType"
           /\ d = "device" =>
                  /\ descriptor[d][t].ltype # "SUBMESSAGE"
                  /\ descriptor[d][t].name \in DeviceFields
<1>1. d \in {"InternalServer", "deviceConnectResponse", "deviceCommand", "device"}
  BY DEF Messages, descriptor
<1>2. CASE d = "InternalServer"
  <2>1. descriptor[d] = <<Field("deviceConnectResponse", "SUBMESSAGE", "ONEOF"),
                          Field("deviceCommand", "SUBMESSAGE", "ONEOF")>>
    BY <1>2 DEF descriptor
  <2>2. t \in {1, 2}
    BY <2>1
  <2> QED
    BY <1>2, <2>1, <2>2 DEF Field, Messages, descriptor
<1>3. CASE d = "deviceConnectResponse"
  <2>1. descriptor[d] = <<Field("responseType", "UVARINT", "SINGULAR"),
                          Field("device", "SUBMESSAGE", "OPTIONAL")>>
    BY <1>3 DEF descriptor
  <2>2. t \in {1, 2}
    BY <2>1
  <2> QED
    BY <1>3, <2>1, <2>2 DEF Field, Messages, descriptor
<1>4. CASE d = "deviceCommand"
  <2>1. descriptor[d] = <<Field("device", "SUBMESSAGE", "OPTIONAL"),
                          Field("commandData", "BYTES", "SINGULAR")>>
    BY <1>4 DEF descriptor
  <2>2. t \in {1, 2}
    BY <2>1
  <2> QED
    BY <1>4, <2>1, <2>2 DEF Field, Messages, descriptor
<1>5. CASE d = "device"
  <2>1. descriptor[d] = <<Field("module", "UVARINT", "SINGULAR"),
                          Field("deviceType", "UVARINT", "SINGULAR"),
                          Field("deviceRole", "STRING", "SINGULAR"),
                          Field("deviceName", "STRING", "SINGULAR"),
                          Field("priority", "UVARINT", "SINGULAR")>>
    BY <1>5 DEF descriptor
  <2>2. t \in {1, 2, 3, 4, 5}
    BY <2>1
  <2> QED
    BY <1>5, <2>1, <2>2 DEF Field, DeviceFields, Strings
<1> QED
  BY <1>1, <1>2, <1>3, <1>4, <1>5

-----------------------------------------------------------------------------
(* Streams agree.                                                          *)

\* What the streams need of the other variables.
StreamsOK == /\ stack \in Seq(Frames)
             /\ status # "idle" => Depth > 0
             /\ length \in Nat
             /\ StreamInv

\* Every action but those on substreams only reads on.
LEMMA ReadsOn ==
    ASSUME Top \in Frames, DecodeTag \/ SkipField \/ DecodeVarint \/ DecodeBytes
    PROVE  \E k \in 0..Top.bytes_left : Read(k)
<1> USE DEF Fail, Done
<1>1. Top.bytes_left \in Nat
  BY DEF Frames
<1>2. ASSUME VarintFails
      PROVE  \E k \in 0..Top.bytes_left : Read(k)
  BY <1>2 DEF VarintFails
<1>3. ASSUME NEW k \in 1..MaxVarint, Varint(k)
      PROVE  k \in 0..Top.bytes_left
  BY <1>1, <1>3, DecodeAssumption DEF Varint
<1>4. ASSUME NEW k \in Nat, NEW n \in Nat, k <= Top.bytes_left, Bytes(k, n)
      PROVE  \E j \in 0..Top.bytes_left : Read(j)
  <2>1. CASE n <= Top.bytes_left - k
    <3>1. k + n \in 0..Top.bytes_left /\ Read(k + n)
      BY <1>1, <1>4, <2>1 DEF Bytes
    <3> QED
      BY <3>1
  <2>2. CASE ~(n <= Top.bytes_left - k)
    <3>1. k \in 0..Top.bytes_left /\ Read(k)
      BY <1>1, <1>4, <2>2 DEF Bytes
    <3> QED
      BY <3>1
  <2> QED
    BY <2>1, <2>2
<1>5. CASE DecodeTag
  BY <1>2, <1>3, <1>5 DEF DecodeTag
<1>6. CASE SkipField
  <2>1. CASE wire_type = "VARINT" /\ ((\E k \in 1..Top.bytes_left : Done(k))
                                      \/ Fail(Top.bytes_left))
    BY <1>1, <2>1
  <2>2. CASE Bytes(0, 8) \/ Bytes(0, 4)
    BY <1>1, <1>4, <2>2
  <2>3. CASE \E k \in 1..MaxVarint, n \in 0..MaxLength : Varint(k) /\ Bytes(k, n)
    BY <1>3, <1>4, <2>3, DecodeAssumption
  <2>4. CASE Fail(0)
    BY <1>1, <2>4
  <2> QED
    BY <1>2, <1>6, <2>1, <2>2, <2>3, <2>4 DEF SkipField
<1>7. CASE DecodeVarint
  <2>1. CASE Fail(0)
    BY <1>1, <2>1
  <2> QED
    BY <1>2, <1>3, <1>7, <2>1 DEF DecodeVarint
<1>8. CASE DecodeBytes
  <2>1. CASE Fail(0)
    BY <1>1, <2>1
  <2>2. Room(TheField.ltype) \in Nat
    BY DecodeAssumption DEF Room
  <2>3. CASE \E k \in 1..MaxVarint, n \in 0..Room(TheField.ltype) :
                 Varint(k) /\ Bytes(k, n)
    BY <1>3, <1>4, <2>2, <2>3, DecodeAssumption
  <2> QED
    BY <1>2, <1>3, <1>8, <2>1, <2>3 DEF DecodeBytes
<1> QED
  BY <1>5, <1>6, <1>7, <1>8

\* A step that only reads keeps the streams in order.
LEMMA ReadStreams ==
    ASSUME StreamsOK, status \in {"decoding", "failing"}, UNCHANGED length,
           status' \in {"decoding", "failing"},
           \E k \in 0..Top.bytes_left : Read(k)
    PROVE  StreamsOK'
<1>1. /\ stack \in Seq(Frames) /\ Depth > 0 /\ StreamsAgree /\ length' = length
      /\ length \in Nat /\ stack[1].end = length
  BY DEF StreamsOK, StreamInv
<1>2. PICK k \in 0..Top.bytes_left : Read(k)
  OBVIOUS
<1>3. /\ stack' \in Seq(Frames) /\ Len(stack') = Len(stack)
      /\ \A i \in 1..Len(stack) : stack'[i].end = stack[i].end
      /\ StreamsAgree'
  BY <1>1, <1>2, ReadKeeps
<1>4. stack'[1].end = length' /\ Depth' > 0
  BY <1>1, <1>3 DEF Depth
<1> QED
  BY <1>1, <1>3, <1>4 DEF StreamsOK, StreamInv

LEMMA StreamsInit == Init => StreamsOK
<1> SUFFICES ASSUME Init
             PROVE  StreamsOK
  OBVIOUS
<1>1. stack = <<>> /\ status = "idle" /\ length = 0
  BY DEF Init
<1>2. stack \in Seq(Frames) /\ Len(stack) = 0
  BY <1>1
<1> QED
  BY <1>1, <1>2 DEF StreamsOK, StreamInv, StreamsAgree, Depth

LEMMA StreamsNext == StreamsOK /\ [Next]_vars => StreamsOK'
<1> SUFFICES ASSUME StreamsOK, [Next]_vars
             PROVE  StreamsOK'
  OBVIOUS
<1>1. /\ stack \in Seq(Frames) /\ StreamsAgree /\ length \in Nat
      /\ status # "idle" => Depth > 0 /\ stack[1].end = length
  BY DEF StreamsOK, StreamInv
<1>2. Depth > 0 => Top \in Frames /\ Top.bytes_left \in Nat /\ Top.desc \in Messages
  <2> SUFFICES ASSUME Depth > 0
               PROVE  Top \in Frames /\ Top.bytes_left \in Nat /\ Top.desc \in Messages
    OBVIOUS
  <2>1. Depth \in 1..Len(stack)
    BY <1>1 DEF Depth
  <2>2. Top \in Frames
    BY <1>1, <2>1 DEF Top
  <2> QED
    BY <2>2 DEF Frames
<1>3. ASSUME DecodeTag \/ SkipField \/ DecodeVarint \/ DecodeBytes
      PROVE  StreamsOK'
  <2>1. /\ status = "decoding" /\ UNCHANGED length
        /\ status' \in {"decoding", "failing"}
    BY <1>3 DEF DecodeTag, SkipField, DecodeVarint, DecodeBytes, AtTag, AtField,
                VarintFails, Bytes, Done, Fail, input
  <2>2. Top \in Frames
    BY <1>1, <1>2, <2>1
  <2> QED
    BY <1>3, <2>1, <2>2, ReadsOn, ReadStreams
<1>4. CASE DecodeSubmessage
  <2>1. /\ status = "decoding" /\ length' = length
        /\ TheField.name \in Messages
    BY <1>1, <1>2, <1>4, FieldFacts
       DEF DecodeSubmessage, AtField, Find, TheField, input
  <2>2. ASSUME \/ VarintFails
               \/ Fail(0)
               \/ \E k \in 1..MaxVarint : Varint(k) /\ Fail(k)
        PROVE  StreamsOK'
    <3>1. \E k \in 0..Top.bytes_left : Read(k)
      BY <1>1, <1>2, <2>1, <2>2, DecodeAssumption DEF VarintFails, Fail, Varint
    <3>2. status' = "failing"
      BY <2>2 DEF VarintFails, Fail
    <3> QED
      BY <2>1, <3>1, <3>2, ReadStreams
  <2>3. ASSUME NEW k \in 1..MaxVarint, NEW m \in 0..MaxLength,
               Varint(k), MakeSubstream(k, m)
        PROVE  StreamsOK'
    <3>1. k \in 0..Top.bytes_left /\ m \in Nat
      BY <1>1, <1>2, <2>1, <2>3, DecodeAssumption DEF Varint
    <3>2. /\ stack' \in Seq(Frames) /\ Len(stack') = Len(stack) + 1
          /\ \A i \in 1..Len(stack) : stack'[i].end = stack[i].end
          /\ StreamsAgree'
      BY <1>1, <2>1, <2>3, <3>1, OpenKeeps
    <3>3. stack'[1].end = length' /\ Depth' > 0
      BY <1>1, <2>1, <3>2 DEF Depth
    <3> QED
      BY <1>1, <2>1, <2>3, <3>2, <3>3 DEF StreamsOK, StreamInv, MakeSubstream
  <2> QED
    BY <1>4, <2>2, <2>3 DEF DecodeSubmessage
<1>5. CASE Close
  <2>1. /\ status \in {"decoding", "failing"} /\ status' = status /\ length' = length
    BY <1>5 DEF Close, AtTag, input
  <2>2. /\ stack' \in Seq(Frames) /\ Len(stack') > 0
        /\ \A i \in 1..Len(stack') : stack'[i].end = stack[i].end
        /\ StreamsAgree'
    BY <1>1, <1>5, <2>1, CloseKeeps
  <2>3. stack'[1].end = length' /\ Depth' > 0
    BY <1>1, <2>1, <2>2 DEF Depth
  <2> QED
    BY <1>1, <2>1, <2>2, <2>3 DEF StreamsOK, StreamInv
<1>6. CASE Return
  BY <1>1, <1>6
     DEF Return, AtTag, input, StreamsOK, StreamInv, StreamsAgree, Depth, Top
<1>7. ASSUME NEW n \in 0..MaxLength, Begin(n)
      PROVE  StreamsOK'
  <2> DEFINE f == [desc |-> "InternalServer", state |-> 0, bytes_left |-> n, end |-> n]
  <2>1. n \in Nat
    BY DecodeAssumption
  <2>2. f \in Frames /\ f.state = 0 /\ f.bytes_left = n /\ f.end = n
    BY <2>1 DEF Frames, Messages, descriptor
  <2>3. stack' = <<f>> /\ length' = n /\ status' = "decoding"
    BY <1>7 DEF Begin
  <2> HIDE DEF f
  <2>4. stack' \in Seq(Frames) /\ Len(stack') = 1 /\ stack'[1] = f
    BY <2>2, <2>3
  <2> QED
    BY <2>1, <2>2, <2>3, <2>4 DEF StreamsOK, StreamInv, StreamsAgree, Depth
<1>8. CASE UNCHANGED vars
  BY <1>1, <1>8
     DEF vars, input, StreamsOK, StreamInv, StreamsAgree, Depth, Top
<1> QED
  BY <1>3, <1>4, <1>5, <1>6, <1>7, <1>8 DEF Next, Steps

\* No read leaves its stream, however the submessages of the input are nested.
THEOREM StaysInside == Spec => []StreamsAgree
<1>1. StreamsOK => StreamsAgree
  BY DEF StreamsOK, StreamInv
<1> QED
  BY <1>1, StreamsInit, StreamsNext, PTL DEF Spec

\* An accepted message was decoded to its last byte.
THEOREM NothingIsLeft == Spec => []WholeInput
<1>1. StreamsOK => WholeInput
  <2> SUFFICES ASSUME StreamsOK, status = "true"
               PROVE  Depth = 1 /\ Top.state = length
    BY DEF WholeInput
  <2>1. Depth = 1 /\ Top.bytes_left = 0
    BY DEF StreamsOK, StreamInv
  <2>2. Top = stack[1] /\ Len(stack) = 1
    BY <2>1 DEF Depth, Top
  <2>3. stack[1].end = length
    BY DEF StreamsOK, StreamInv
  <2>4. 1 \in 1..Len(stack) /\ stack \in Seq(Frames)
    BY <2>2 DEF StreamsOK
  <2>5. stack[1] \in Frames
    BY <2>4
  <2>6. stack[1].bytes_left = stack[1].end - stack[1].state
    BY <2>1 DEF StreamsOK, StreamInv, StreamsAgree, Depth
  <2> QED
    BY <2>1, <2>2, <2>3, <2>5, <2>6 DEF Frames
<1> QED
  BY <1>1, StreamsInit, StreamsNext, PTL DEF Spec

-----------------------------------------------------------------------------
(* The struct.                                                             *)

StructOK == /\ which \in 0..2
            /\ written \in [Members -> Nat]
            /\ count \in Nat /\ switched \in Nat /\ switched <= count
            /\ StructInv

\* The levels stay as they are when the stack does, or loses its top.
LEMMA LevelsKept ==
    ASSUME Levels, stack \in Seq(Frames), stack' \in Seq(Frames),
           Len(stack') <= Len(stack),
           \A i \in 1..Len(stack') : stack'[i].desc = stack[i].desc,
           written["device"] # 0 => written'["device"] # 0,
           tag' # 0 \/ Depth' >= 2 => count' > 0,
           status' # "decoding" => tag' = 0
    PROVE  Levels'
<1>1. Len(stack) \in Nat /\ Len(stack') \in Nat
  OBVIOUS
<1> QED
  BY <1>1 DEF Levels, Depth

\* A field that is not a submessage is written only where it belongs, and the
\* fields of a device only below has_device.
LEMMA WriteKeeps ==
    ASSUME StructOK, stack \in Seq(Frames), Depth > 0, Find,
           TheField.ltype # "SUBMESSAGE",
           UNCHANGED <<which, switched, count>>, Write \/ UNCHANGED written
    PROVE  /\ written' \in [Members -> Nat]
           /\ written["device"] # 0 => written'["device"] # 0
           /\ NoLeftovers' /\ DevicePresent'
<1> DEFINE d == Top.desc
           f == TheField.name
<1>1. /\ which' = which /\ switched' = switched /\ count' = count
      /\ written \in [Members -> Nat] /\ count \in Nat /\ switched \in Nat
      /\ switched <= count /\ Levels /\ NoLeftovers /\ DevicePresent
  BY DEF StructOK, StructInv
<1>2. CASE UNCHANGED written
  BY <1>1, <1>2 DEF NoLeftovers, DevicePresent
<1>3. CASE Write
  <2>1. Depth \in 1..Len(stack) /\ Top \in Frames
    <3>1. Depth \in 1..Len(stack)
      BY DEF Depth
    <3> QED
      BY <3>1 DEF Top
  <2>2. d \in Messages
    BY <2>1 DEF Frames
  <2>3. tag \in DOMAIN descriptor[d] /\ TheField = descriptor[d][tag]
    BY DEF Find, TheField
  <2> HIDE DEF d
  <2>4. \/ f \in {"responseType", "commandData"}
        \/ d = "device" /\ f \in DeviceFields
    <3>1. d \in {"InternalServer", "deviceConnectResponse", "deviceCommand", "device"}
      BY <2>2 DEF Messages, descriptor
    <3> QED
      BY <2>2, <2>3, <3>1, FieldFacts
  <2>5. f # "device" /\ f \in Members
    BY <2>4 DEF Members, DeviceFields, Strings
  <2> HIDE DEF f
  <2>6. written' = [written EXCEPT ![f] = count]
    BY <1>3 DEF Write, f
  <2>7. /\ written' \in [Members -> Nat]
        /\ written'[f] = count
        /\ \A g \in Members : g # f => written'[g] = written[g]
    BY <1>1, <2>5, <2>6
  <2>8. "device" \in Members /\ written'["device"] = written["device"]
    BY <2>5, <2>7 DEF Members
  <2>9. NoLeftovers'
    <3>1. which \in 0..2
      BY DEF StructOK
    <3>2. MembersOf(which) \subseteq Members
      BY DEF MembersOf, Members
    <3> QED
      BY <1>1, <2>7, <3>2 DEF NoLeftovers
  <2>10. f \in DeviceFields => written["device"] # 0
    <3> SUFFICES ASSUME f \in DeviceFields
                 PROVE  written["device"] # 0
      OBVIOUS
    <3>1. d = "device"
      BY <2>4 DEF DeviceFields, Strings
    <3>2. Depth \in 1..3
      <4>1. Depth <= 3
        BY <1>1 DEF Levels
      <4>2. Depth \in Nat
        BY DEF Depth
      <4> QED
        BY <4>1, <4>2
    <3>3. Depth # 1 /\ Depth # 2
      BY <1>1, <3>1 DEF Levels, d, Top
    <3> QED
      BY <1>1, <3>2, <3>3 DEF Levels
  <2>11. DevicePresent'
    BY <1>1, <2>7, <2>8, <2>10 DEF DevicePresent, Members
  <2> QED
    BY <2>7, <2>8, <2>9, <2>11
<1> QED
  BY <1>2, <1>3

\* Coming to a field may bring up another member of the union, or has_device.
LEMMA PresenceKeeps ==
    ASSUME StructOK, stack \in Seq(Frames), Depth > 0, Find, tag # 0,
           TheField.ltype = "SUBMESSAGE", UNCHANGED count, Presence
    PROVE  /\ which' \in 0..2 /\ written' \in [Members -> Nat]
           /\ switched' \in Nat /\ switched' <= count'
           /\ NoLeftovers' /\ DevicePresent'
           /\ TheField.name \in Messages
           /\ Depth = 1 => TheField.name \in {"deviceConnectResponse", "deviceCommand"}
           /\ Depth >= 2 => /\ Depth = 2
                            /\ TheField.name = "device" /\ written'["device"] # 0
<1> DEFINE d == Top.desc
           f == TheField.name
<1>1. /\ written \in [Members -> Nat] /\ count \in Nat /\ switched \in Nat
      /\ count' = count /\ which \in 0..2
      /\ switched <= count /\ Levels /\ NoLeftovers /\ DevicePresent
  BY DEF StructOK, StructInv
<1>2. Depth \in 1..3
  <2>1. Depth <= 3
    BY <1>1 DEF Levels
  <2>2. Depth \in Nat
    BY DEF Depth
  <2> QED
    BY <2>1, <2>2
<1>3. d \in Messages
  <2>1. Depth \in 1..Len(stack)
    BY <1>2 DEF Depth
  <2>2. Top \in Frames
    BY <2>1 DEF Top
  <2> QED
    BY <2>2 DEF Frames
<1>4. tag \in DOMAIN descriptor[d] /\ TheField = descriptor[d][tag]
  BY DEF Find, TheField
<1>5. /\ Depth = 1 => d = "InternalServer"
      /\ Depth = 2 => d \in {"deviceConnectResponse", "deviceCommand"}
      /\ Depth = 3 => d = "device"
  BY <1>1, <1>2 DEF Levels, Top
<1> HIDE DEF d
<1>6. /\ f \in Messages
      /\ Depth = 1 => /\ tag \in {1, 2} /\ TheField.htype = "ONEOF"
                      /\ f \in {"deviceConnectResponse", "deviceCommand"}
      /\ Depth >= 2 => Depth = 2 /\ TheField.htype = "OPTIONAL" /\ f = "device"
  BY <1>2, <1>3, <1>4, <1>5, FieldFacts
<1>7. /\ "device" \in Members /\ DeviceFields \subseteq Members
      /\ "device" \notin DeviceFields /\ \A w \in 0..2 : MembersOf(w) \subseteq Members
  BY DEF Members, MembersOf, DeviceFields, Strings
<1>8. CASE TheField.htype = "ONEOF" /\ which # tag
  <2>1. Depth = 1 /\ tag \in {1, 2}
    BY <1>2, <1>6, <1>8
  <2>2. which' = tag /\ switched' = count /\ written' = Zero
    BY <1>8 DEF Presence
  <2>3. /\ written' \in [Members -> Nat]
        /\ \A g \in Members : written'[g] = 0
    BY <2>2 DEF Zero
  <2>4. which' \in 0..2
    BY <2>1, <2>2
  <2>5. NoLeftovers'
    BY <1>7, <2>3, <2>4 DEF NoLeftovers
  <2>6. DevicePresent'
    BY <1>7, <2>3 DEF DevicePresent
  <2> QED
    BY <1>1, <1>6, <2>1, <2>2, <2>3, <2>4, <2>5, <2>6
<1>9. CASE TheField.htype = "ONEOF" /\ which = tag
  <2>1. Depth = 1
    BY <1>2, <1>6, <1>9
  <2>2. which' = which /\ switched' = switched /\ written' = written
    BY <1>9 DEF Presence, dest
  <2>3. NoLeftovers' /\ DevicePresent'
    BY <1>1, <2>2 DEF NoLeftovers, DevicePresent
  <2> QED
    BY <1>1, <1>6, <2>1, <2>2, <2>3
<1>10. CASE TheField.htype = "OPTIONAL"
  <2>1. Depth = 2
    BY <1>2, <1>6, <1>10
  <2>2. /\ which' = which /\ switched' = switched
        /\ written' = [written EXCEPT !["device"] = count]
    BY <1>10 DEF Presence
  <2>3. /\ written' \in [Members -> Nat] /\ written'["device"] = count
        /\ \A g \in Members : g # "device" => written'[g] = written[g]
    BY <1>1, <1>7, <2>2
  <2>4. count > 0
    BY <1>1, <2>1 DEF Levels
  <2>5. NoLeftovers'
    BY <1>1, <1>7, <2>2, <2>3 DEF NoLeftovers
  <2>6. DevicePresent'
    BY <1>1, <2>3, <2>4 DEF DevicePresent
  <2> QED
    BY <1>1, <1>6, <2>1, <2>2, <2>3, <2>4, <2>5, <2>6
<1> QED
  BY <1>8, <1>9, <1>10 DEF Presence

LEMMA StructInit == Init => StructOK
<1> SUFFICES ASSUME Init
             PROVE  StructOK
  OBVIOUS
<1>1. /\ stack = <<>> /\ status = "idle" /\ tag = 0 /\ which = 0
      /\ written = Zero /\ count = 0 /\ switched = 0
  BY DEF Init
<1>2. written \in [Members -> Nat] /\ \A g \in Members : written[g] = 0
  BY <1>1 DEF Zero
<1>3. Levels
  BY <1>1 DEF Levels, Depth
<1>4. NoLeftovers
  BY <1>1 DEF NoLeftovers, MembersOf
<1>5. DevicePresent
  BY <1>2 DEF DevicePresent, Members
<1> QED
  BY <1>1, <1>2, <1>3, <1>4, <1>5 DEF StructOK, StructInv

LEMMA StructNext == StreamsOK /\ StructOK /\ [Next]_vars => StructOK'
<1> SUFFICES ASSUME StreamsOK, StructOK, [Next]_vars
             PROVE  StructOK'
  OBVIOUS
<1>1. /\ stack \in Seq(Frames) /\ StreamsAgree /\ length \in Nat
      /\ status # "idle" => Depth > 0
  BY DEF StreamsOK, StreamInv
<1>2. /\ which \in 0..2 /\ written \in [Members -> Nat]
      /\ count \in Nat /\ switched \in Nat /\ switched <= count
      /\ Levels /\ NoLeftovers /\ DevicePresent
  BY DEF StructOK, StructInv
\* A step that only reads: the levels stay, the next field may be counted.
<1>3. ASSUME status = "decoding", NEW k \in 0..Top.bytes_left, Read(k),
             UNCHANGED length, count' \in {count, count + 1},
             Depth = 1 /\ tag' # 0 => count' > 0,
             status' # "decoding" => tag' = 0,
             written["device"] # 0 => written'["device"] # 0
      PROVE  Levels' /\ count' \in Nat
  <2>1. /\ stack' \in Seq(Frames) /\ Len(stack') = Len(stack)
        /\ \A i \in 1..Len(stack) : stack'[i].desc = stack[i].desc
    BY <1>1, <1>3, ReadKeeps
  <2>2. Depth \in Nat /\ Depth > 0 /\ Depth' = Depth
    BY <1>1, <1>3, <2>1 DEF Depth
  <2>3. Depth >= 2 => count > 0
    BY <1>2 DEF Levels
  <2>4. tag' # 0 \/ Depth' >= 2 => count' > 0
    BY <1>2, <1>3, <2>2, <2>3
  <2>5. Len(stack') <= Len(stack)
    BY <2>1
  <2> QED
    BY <1>1, <1>2, <1>3, <2>1, <2>4, <2>5, LevelsKept
<1>4. CASE DecodeTag
  <2>1. /\ status = "decoding" /\ UNCHANGED <<dest, length>>
        /\ count' = IF Depth = 1 THEN count + 1 ELSE count
    BY <1>4 DEF DecodeTag, AtTag
  <2>2. /\ UNCHANGED <<which, written, switched>> /\ switched <= count'
    BY <1>2, <2>1 DEF dest
  <2>3. Depth \in 1..Len(stack) /\ Top \in Frames
    BY <1>1, <2>1 DEF Depth, Top
  <2>4. PICK k \in 0..Top.bytes_left : Read(k)
    BY <1>4, <2>3, ReadsOn
  <2>5. status' # "decoding" => tag' = 0
    BY <1>4, <2>1 DEF DecodeTag, Fail, VarintFails
  <2>6. Levels' /\ count' \in Nat
    BY <1>2, <1>3, <2>1, <2>2, <2>3, <2>4, <2>5
  <2>7. NoLeftovers' /\ DevicePresent'
    BY <1>2, <2>2 DEF NoLeftovers, DevicePresent
  <2> QED
    BY <1>2, <2>2, <2>6, <2>7 DEF StructOK, StructInv
<1>5. CASE SkipField
  <2>1. /\ status = "decoding" /\ UNCHANGED <<dest, input>>
    BY <1>5 DEF SkipField, AtField
  <2>2. UNCHANGED <<which, written, switched, count, length>>
    BY <2>1 DEF dest, input
  <2>3. Depth \in 1..Len(stack) /\ Top \in Frames
    BY <1>1, <2>1 DEF Depth, Top
  <2>4. PICK k \in 0..Top.bytes_left : Read(k)
    BY <1>5, <2>3, ReadsOn
  <2>5. tag' = 0
    BY <1>5 DEF SkipField, Fail, Done, Bytes, VarintFails
  <2>6. Levels'
    BY <1>2, <1>3, <2>1, <2>2, <2>4, <2>5
  <2>7. NoLeftovers' /\ DevicePresent'
    BY <1>2, <2>2 DEF NoLeftovers, DevicePresent
  <2> QED
    BY <1>2, <2>2, <2>6, <2>7 DEF StructOK, StructInv
<1>6. ASSUME DecodeVarint \/ DecodeBytes
      PROVE  StructOK'
  <2>1. /\ status = "decoding" /\ Find /\ TheField.ltype # "SUBMESSAGE"
        /\ UNCHANGED <<which, switched, input>>
    BY <1>6 DEF DecodeVarint, DecodeBytes, AtField
  <2>2. UNCHANGED <<which, switched, count, length>>
    BY <2>1 DEF input
  <2>3. Depth > 0 /\ Depth \in 1..Len(stack) /\ Top \in Frames
    BY <1>1, <2>1 DEF Depth, Top
  <2>4. PICK k \in 0..Top.bytes_left : Read(k)
    BY <1>6, <2>3, ReadsOn
  <2>5. tag' = 0
    BY <1>6 DEF DecodeVarint, DecodeBytes, Fail, Done, Bytes, VarintFails
  <2>6. Write \/ UNCHANGED written
    BY <1>6 DEF DecodeVarint, DecodeBytes
  <2>7. /\ written' \in [Members -> Nat]
        /\ written["device"] # 0 => written'["device"] # 0
        /\ NoLeftovers' /\ DevicePresent'
    BY <1>1, <2>1, <2>2, <2>3, <2>6, WriteKeeps
  <2>8. Levels'
    BY <1>2, <1>3, <2>1, <2>2, <2>4, <2>5, <2>7
  <2> QED
    BY <1>2, <2>2, <2>7, <2>8 DEF StructOK, StructInv
<1>7. CASE DecodeSubmessage
  <2>1. /\ status = "decoding" /\ tag # 0 /\ Find /\ TheField.ltype = "SUBMESSAGE"
        /\ Presence /\ UNCHANGED input
    BY <1>7 DEF DecodeSubmessage, AtField
  <2>2. UNCHANGED <<count, length>>
    BY <2>1 DEF input
  <2>3. /\ Depth > 0 /\ Depth \in 1..Len(stack) /\ Top \in Frames
        /\ Top.bytes_left \in Nat
    <3>1. Depth > 0 /\ Depth \in 1..Len(stack)
      BY <1>1, <2>1 DEF Depth
    <3>2. Top \in Frames
      BY <1>1, <3>1 DEF Top
    <3> QED
      BY <3>1, <3>2 DEF Frames
  <2>4. /\ which' \in 0..2 /\ written' \in [Members -> Nat]
        /\ switched' \in Nat /\ switched' <= count'
        /\ NoLeftovers' /\ DevicePresent'
        /\ TheField.name \in Messages
        /\ Depth = 1 => TheField.name \in {"deviceConnectResponse", "deviceCommand"}
        /\ Depth >= 2 => /\ Depth = 2
                         /\ TheField.name = "device" /\ written'["device"] # 0
    BY <1>1, <2>1, <2>2, <2>3, PresenceKeeps
  <2>5. Len(stack) = 1 \/ Len(stack) = 2
    <3>1. Depth \in Nat
      BY <1>1 DEF Depth
    <3>2. Depth = 1 \/ Depth = 2
      BY <2>3, <2>4, <3>1
    <3> QED
      BY <3>2 DEF Depth
  <2>6. ASSUME NEW k \in 0..Top.bytes_left, Fail(k)
        PROVE  Levels'
    <3>1. /\ stack' \in Seq(Frames) /\ Len(stack') = Len(stack)
          /\ \A i \in 1..Len(stack) : stack'[i].desc = stack[i].desc
      BY <1>1, <2>2, <2>3, <2>6, ReadKeeps DEF Fail
    <3>2. tag' = 0
      BY <2>6 DEF Fail
    <3> QED
      BY <1>2, <2>2, <2>5, <3>1, <3>2 DEF Levels, Depth
  <2>7. ASSUME NEW k \in 1..MaxVarint, NEW m \in 0..MaxLength,
               Varint(k), MakeSubstream(k, m)
        PROVE  Levels'
    <3>1. k \in 0..Top.bytes_left /\ m \in Nat
      BY <2>3, <2>7, DecodeAssumption DEF Varint
    <3>2. /\ stack' \in Seq(Frames) /\ Len(stack') = Len(stack) + 1
          /\ \A i \in 1..Len(stack) : stack'[i].desc = stack[i].desc
          /\ stack'[Len(stack) + 1].desc = TheField.name
      BY <1>1, <2>2, <2>3, <2>4, <2>7, <3>1, OpenKeeps
    <3>3. tag' = 0 /\ count > 0
      BY <1>2, <2>1, <2>7 DEF MakeSubstream, Levels
    <3>4. /\ stack[1].desc = "InternalServer"
          /\ Len(stack) >= 2 =>
                 stack[2].desc \in {"deviceConnectResponse", "deviceCommand"}
      BY <1>2, <2>3 DEF Levels, Depth
    <3>5. CASE Len(stack) = 1
      <4>1. /\ Len(stack') = 2 /\ stack'[1].desc = "InternalServer"
            /\ stack'[2].desc \in {"deviceConnectResponse", "deviceCommand"}
        BY <2>4, <3>2, <3>4, <3>5 DEF Depth
      <4> QED
        BY <2>2, <3>3, <4>1 DEF Levels, Depth
    <3>6. CASE Len(stack) = 2
      <4>1. /\ Len(stack') = 3 /\ stack'[1].desc = "InternalServer"
            /\ stack'[2].desc \in {"deviceConnectResponse", "deviceCommand"}
            /\ stack'[3].desc = "device" /\ written'["device"] # 0
        BY <2>4, <3>2, <3>4, <3>6 DEF Depth
      <4> QED
        BY <2>2, <3>3, <4>1 DEF Levels, Depth
    <3> QED
      BY <2>5, <3>5, <3>6
  <2>8. Levels'
    <3>1. \A k \in 1..MaxVarint : Varint(k) => k \in 0..Top.bytes_left
      BY <2>3, DecodeAssumption DEF Varint
    <3>2. 0 \in 0..Top.bytes_left
      BY <2>3
    <3> QED
      BY <1>7, <2>6, <2>7, <3>1, <3>2 DEF DecodeSubmessage, VarintFails
  <2> QED
    BY <1>2, <2>2, <2>4, <2>8 DEF StructOK, StructInv
<1>8. CASE Close
  <2>1. UNCHANGED <<status, tag, which, written, switched, count, length>>
    BY <1>8 DEF Close, dest, input
  <2>2. /\ stack' \in Seq(Frames) /\ Len(stack') = Len(stack) - 1
        /\ \A i \in 1..Len(stack') : stack'[i].desc = stack[i].desc
    BY <1>1, <1>8, <2>1, CloseKeeps
  <2>3. Len(stack') <= Len(stack) /\ Depth' = Depth - 1 /\ Depth \in Nat
    BY <1>1, <2>2 DEF Depth
  <2>4. /\ tag' # 0 \/ Depth' >= 2 => count' > 0
        /\ status' # "decoding" => tag' = 0
    BY <1>2, <2>1, <2>3 DEF Levels
  <2>5. Levels'
    BY <1>1, <1>2, <2>1, <2>2, <2>3, <2>4, LevelsKept
  <2>6. NoLeftovers' /\ DevicePresent'
    BY <1>2, <2>1 DEF NoLeftovers, DevicePresent
  <2> QED
    BY <1>2, <2>1, <2>5, <2>6 DEF StructOK, StructInv
<1>9. CASE Return
  <2>1. UNCHANGED <<stack, tag, which, written, switched, count, length>>
    BY <1>9 DEF Return, dest, input
  <2>2. tag = 0
    BY <1>2, <1>9 DEF Return, AtTag, Levels
  <2>3. Levels' /\ NoLeftovers' /\ DevicePresent'
    BY <1>2, <2>1, <2>2 DEF Levels, Depth, NoLeftovers, DevicePresent
  <2> QED
    BY <1>2, <2>1, <2>3 DEF StructOK, StructInv
<1>10. ASSUME NEW n \in 0..MaxLength, Begin(n)
       PROVE  StructOK'
  <2> DEFINE f == [desc |-> "InternalServer", state |-> 0, bytes_left |-> n, end |-> n]
  <2>1. /\ stack' = <<f>> /\ status # "decoding" /\ tag' = tag
        /\ which' = 0 /\ written' = Zero /\ count' = 0 /\ switched' = 0
    BY <1>10 DEF Begin
  <2>2. tag = 0
    BY <1>2, <2>1 DEF Levels
  <2>3. f.desc = "InternalServer"
    OBVIOUS
  <2> HIDE DEF f
  <2>4. Len(stack') = 1 /\ stack'[1].desc = "InternalServer"
    BY <2>1, <2>3
  <2>5. written' \in [Members -> Nat] /\ \A g \in Members : written'[g] = 0
    BY <2>1 DEF Zero
  <2>6. Levels'
    BY <2>1, <2>2, <2>4 DEF Levels, Depth
  <2>7. NoLeftovers' /\ DevicePresent'
    BY <2>1, <2>5 DEF NoLeftovers, MembersOf, DevicePresent, Members
  <2> QED
    BY <2>1, <2>5, <2>6, <2>7 DEF StructOK, StructInv
<1>11. CASE UNCHANGED vars
  <2>1. UNCHANGED <<status, stack, tag, which, written, switched, count>>
    BY <1>11 DEF vars, dest, input
  <2>2. Levels' /\ NoLeftovers' /\ DevicePresent'
    BY <1>2, <2>1 DEF Levels, Depth, NoLeftovers, DevicePresent
  <2> QED
    BY <1>2, <2>1, <2>2 DEF StructOK, StructInv
<1> QED
  BY <1>4, <1>5, <1>6, <1>7, <1>8, <1>9, <1>10, <1>11 DEF Next, Steps

\* What checkAndParseCommand reads of an accepted message is from the message
\* that set which_MessageType last.
THEOREM OneMessage == Spec => []NoLeftovers
<1>1. StreamsOK /\ StructOK => NoLeftovers
  BY DEF StructOK, StructInv
<1> QED
  BY <1>1, StreamsInit, StreamsNext, StructInit, StructNext, PTL DEF Spec

\* A device that has a value has has_device.
THEOREM DeviceHasFlag == Spec => []DevicePresent
<1>1. StreamsOK /\ StructOK => DevicePresent
  BY DEF StructOK, StructInv
<1> QED
  BY <1>1, StreamsInit, StreamsNext, StructInit, StructNext, PTL DEF Spec
-----------------------------------------------------------------------------
(* Types: no string and no commandData is longer than its field.           *)

Sizes == Strings \cup {"commandData"}

\* Every stored length leaves room for the NUL, or for the header of bytes.
Fits(s) == /\ s \in [Sizes -> Nat]
           /\ \A f \in Strings : s[f] < StringSize
           /\ s["commandData"] + BytesHeader <= BytesSize

\* What the types say beyond StreamsOK and StructOK.
RestOK == /\ status \in {"idle", "decoding", "failing", "true", "false"}
          /\ tag \in 0..MaxTag /\ wire_type \in WireTypes
          /\ length \in 0..MaxLength
          /\ Fits(size)

LEMMA NothingFits == Fits(NoSize)
<1>1. NoSize \in [Sizes -> Nat] /\ \A f \in Sizes : NoSize[f] = 0
  BY DEF NoSize, Sizes
<1> QED
  BY <1>1, DecodeAssumption DEF Fits, Sizes

\* Which fields have a length, and where they may end.
LEMMA SizedField ==
    ASSUME NEW d \in Messages, NEW t \in DOMAIN descriptor[d],
           descriptor[d][t].ltype \in {"STRING", "BYTES"}
    PROVE  /\ descriptor[d][t].ltype = "STRING" => descriptor[d][t].name \in Strings
           /\ descriptor[d][t].ltype = "BYTES" => descriptor[d][t].name = "commandData"
<1>1. d \in {"InternalServer", "deviceConnectResponse", "deviceCommand", "device"}
  BY DEF Messages, descriptor
<1>2. CASE d \in {"InternalServer", "deviceConnectResponse"}
  <2>1. descriptor[d][t].ltype \in {"SUBMESSAGE", "UVARINT"}
    <3>1. CASE d = "InternalServer"
      <4>1. descriptor[d] = <<Field("deviceConnectResponse", "SUBMESSAGE", "ONEOF"),
                              Field("deviceCommand", "SUBMESSAGE", "ONEOF")>>
        BY <3>1 DEF descriptor
      <4> QED
        BY <4>1 DEF Field
    <3>2. CASE d = "deviceConnectResponse"
      <4>1. descriptor[d] = <<Field("responseType", "UVARINT", "SINGULAR"),
                              Field("device", "SUBMESSAGE", "OPTIONAL")>>
        BY <3>2 DEF descriptor
      <4> QED
        BY <4>1 DEF Field
    <3> QED
      BY <1>2, <3>1, <3>2
  <2> QED
    BY <2>1
<1>3. CASE d = "deviceCommand"
  <2>1. descriptor[d] = <<Field("device", "SUBMESSAGE", "OPTIONAL"),
                          Field("commandData", "BYTES", "SINGULAR")>>
    BY <1>3 DEF descriptor
  <2> QED
    BY <2>1 DEF Field
<1>4. CASE d = "device"
  <2>1. descriptor[d] = <<Field("module", "UVARINT", "SINGULAR"),
                          Field("deviceType", "UVARINT", "SINGULAR"),
                          Field("deviceRole", "STRING", "SINGULAR"),
                          Field("deviceName", "STRING", "SINGULAR"),
                          Field("priority", "UVARINT", "SINGULAR")>>
    BY <1>4 DEF descriptor
  <2> QED
    BY <2>1 DEF Field, Strings
<1> QED
  BY <1>1, <1>2, <1>3, <1>4

\* A length that was checked against the field fits.
LEMMA CheckedFits ==
    ASSUME Fits(size), NEW f, NEW ltype \in {"STRING", "BYTES"},
           ltype = "STRING" => f \in Strings, ltype = "BYTES" => f = "commandData",
           NEW n \in 0..Room(ltype)
    PROVE  Fits([size EXCEPT ![f] = n])
<1>1. f \in Sizes /\ "commandData" \in Sizes /\ "commandData" \notin Strings
  BY DEF Sizes, Strings
<1>2. /\ n \in Nat /\ ltype = "STRING" => n < StringSize
      /\ ltype = "BYTES" => n + BytesHeader <= BytesSize
  BY DecodeAssumption DEF Room
<1> DEFINE s == [size EXCEPT ![f] = n]
<1>3. /\ s \in [Sizes -> Nat] /\ s[f] = n
      /\ \A g \in Sizes : g # f => s[g] = size[g]
  BY <1>1, <1>2 DEF Fits
<1> HIDE DEF s
<1>4. \A g \in Strings : s[g] < StringSize
  <2> TAKE g \in Strings
  <2>1. g \in Sizes /\ size[g] < StringSize
    BY DEF Fits, Sizes
  <2>2. CASE g = f
    BY <1>1, <1>2, <1>3, <2>2
  <2>3. CASE g # f
    BY <1>3, <2>1, <2>3
  <2> QED
    BY <2>2, <2>3
<1>5. s["commandData"] + BytesHeader <= BytesSize
  BY <1>1, <1>2, <1>3 DEF Fits
<1> QED
  BY <1>3, <1>4, <1>5 DEF Fits, s

LEMMA RestInit == Init => RestOK
BY NothingFits, DecodeAssumption DEF Init, RestOK, WireTypes

LEMMA RestNext == StreamsOK /\ RestOK /\ [Next]_vars => RestOK'
<1> SUFFICES ASSUME StreamsOK, RestOK, [Next]_vars PROVE RestOK'
  OBVIOUS
<1> USE DEF RestOK
<1>1. 0 \in 0..MaxTag
  BY DecodeAssumption
<1>2. ASSUME NEW k, Fail(k) \/ Done(k)
      PROVE  /\ status' \in {status, "failing"} /\ tag' = 0 /\ wire_type' = wire_type
  BY <1>2 DEF Fail, Done
<1>3. ASSUME \E k : Fail(k) \/ Done(k), UNCHANGED <<length, size>> PROVE RestOK'
  BY <1>1, <1>2, <1>3
<1>4. CASE DecodeTag
  <2>1. UNCHANGED <<length, size>>
    BY <1>4 DEF DecodeTag, dest
  <2>2. CASE \E k \in 1..MaxVarint, t \in 1..MaxTag, w \in WireTypes :
                 tag' = t /\ wire_type' = w /\ UNCHANGED status
    BY <2>1, <2>2, DecodeAssumption
  <2> QED
    BY <1>3, <1>4, <2>1, <2>2 DEF DecodeTag, VarintFails
<1>5. CASE SkipField
  BY <1>3, <1>5 DEF SkipField, Bytes, VarintFails, dest, input
<1>6. CASE DecodeVarint
  BY <1>3, <1>6 DEF DecodeVarint, VarintFails, input
<1>7. CASE DecodeBytes
  <2>1. UNCHANGED length
    BY <1>7 DEF DecodeBytes, input
  <2>2. CASE UNCHANGED size
    BY <1>3, <1>7, <2>1, <2>2 DEF DecodeBytes, Bytes, VarintFails
  <2>3. ASSUME NEW k \in 1..MaxVarint, NEW n \in 0..Room(TheField.ltype),
               Bytes(k, n), size' = [size EXCEPT ![TheField.name] = n]
        PROVE  RestOK'
    <3>1. /\ status' \in {status, "failing"} /\ tag' = 0 /\ wire_type' = wire_type
      BY <1>2, <2>3 DEF Bytes
    <3>2. Top.desc \in Messages
      <4>1. Depth \in 1..Len(stack) /\ stack \in Seq(Frames)
        BY <1>7 DEF DecodeBytes, AtField, StreamsOK, Depth
      <4>2. Top \in Frames
        BY <4>1 DEF Top
      <4> QED
        BY <4>2 DEF Frames
    <3>3. Fits(size')
      BY <1>7, <2>3, <3>2, SizedField, CheckedFits DEF DecodeBytes, Find, TheField
    <3> QED
      BY <1>1, <2>1, <3>1, <3>3
  <2> QED
    BY <1>7, <2>2, <2>3 DEF DecodeBytes
<1>8. CASE DecodeSubmessage
  <2>1. UNCHANGED length
    BY <1>8 DEF DecodeSubmessage, input
  <2>2. Fits(size')
    BY <1>8, NothingFits DEF DecodeSubmessage, Presence, dest
  <2>3. /\ status' \in {status, "failing"} /\ tag' = 0 /\ wire_type' = wire_type
    BY <1>2, <1>8 DEF DecodeSubmessage, VarintFails, MakeSubstream
  <2> QED
    BY <1>1, <2>1, <2>2, <2>3
<1>9. CASE Close \/ Return
  BY <1>9 DEF Close, Return, AtTag, dest, input
<1>10. ASSUME NEW n \in 0..MaxLength, Begin(n) PROVE RestOK'
  BY <1>10, NothingFits DEF Begin
<1>11. CASE UNCHANGED vars
  BY <1>11 DEF vars, dest, input
<1> QED
  BY <1>4, <1>5, <1>6, <1>7, <1>8, <1>9, <1>10, <1>11 DEF Next, Steps

\* Every variable has its type; above all, the NUL of a string and the last byte
\* of commandData lie inside their fields, whatever lengths the input claims.
THEOREM DecodeTypes == Spec => []TypeOK
<1>1. StreamsOK /\ StructOK /\ RestOK => TypeOK
  BY DEF StreamsOK, StructOK, RestOK, Fits, Sizes, TypeOK
<1> QED
  BY <1>1, StreamsInit, StreamsNext, StructInit, StructNext, RestInit, RestNext, PTL
  DEF Spec
=============================================================================
