------------------------------- MODULE PbEncode_proofs -------------------------------
(***************************************************************************)
(* The two passes of the encoder agree, for strings, bytes and integers of *)
(* every length: what is counted is what the encoding needs, the buffer of *)
(* the counted size takes it, and a message that is refused is refused at  *)
(* the same place by both.                                                 *)
(***************************************************************************)
EXTENDS PbEncode, TLAPS

-----------------------------------------------------------------------------
(* Sizes.                                                                  *)

\* What both createInternal functions make sure of.
Created(m) == m \in MessageRecords /\ m.has_device

LEMMA MessagesAreCreated ==
    ASSUME NEW m \in createInternalConnect \cup createInternalStatus
    PROVE  Created(m)
<1>1. ASSUME NEW d \in Devices, NEW s \in Names, NEW n \in Nat
      PROVE  Lengths(d, s, n) \in [Members -> Nat]
  <2>1. \A f \in Ints : d[f] \in Nat
    BY EncodeAssumption DEF Devices
  <2>2. \A f \in Strings : s[f] \in Nat
    <3>1. StringLengths \subseteq Nat
      BY EncodeAssumption
    <3> QED
      BY <3>1 DEF Names
  <2>3. ASSUME NEW f \in Members
        PROVE  (IF f \in Ints THEN d[f] ELSE IF f \in Strings THEN s[f] ELSE n) \in Nat
    BY <1>1, <2>1, <2>2
  <2> QED
    BY <2>3 DEF Lengths
<1>2. ASSUME NEW w \in 1..2, NEW l \in [Members -> Nat], m = MessageType(w, TRUE, l)
      PROVE  Created(m)
  <2>1. m = [which |-> w, has_device |-> TRUE, length |-> l]
    BY <1>2 DEF MessageType
  <2>2. m \in MessageRecords
    BY <2>1 DEF MessageRecords
  <2>3. m.has_device
    BY <2>1
  <2> QED
    BY <2>2, <2>3 DEF Created
<1>3. 0 \in Nat /\ 1 \in 1..2 /\ 2 \in 1..2 /\ DataLengths \subseteq Nat
  BY EncodeAssumption
<1>4. CASE m \in createInternalConnect
  <2>1. PICK d \in Devices, s \in Names : m = MessageType(1, TRUE, Lengths(d, s, 0))
    BY <1>4, SMT DEF createInternalConnect, MessageType
  <2>2. Lengths(d, s, 0) \in [Members -> Nat]
    BY <1>1, <1>3
  <2> QED
    BY <1>2, <1>3, <2>1, <2>2, Zenon
<1>5. CASE m \in createInternalStatus
  <2>1. PICK d \in Devices, s \in Names, n \in DataLengths :
            m = MessageType(2, TRUE, Lengths(d, s, n))
    BY <1>5, SMT DEF createInternalStatus, MessageType
  <2>2. Lengths(d, s, n) \in [Members -> Nat]
    BY <1>1, <1>3
  <2> QED
    BY <1>2, <1>3, <2>1, <2>2, Zenon
<1> QED
  BY <1>4, <1>5

LEMMA CreatedHas ==
    ASSUME NEW m, Created(m)
    PROVE  /\ m.which \in 1..2 /\ m.has_device
           /\ \A f \in Members : m.length[f] \in Nat
BY DEF Created, MessageRecords

LEMMA VarintSizes ==
    /\ \A n \in Nat : VarintSize(n) \in 1..5
    /\ \A f \in 1..5 : VarintSize(8 * f + 2) = TagSize /\ VarintSize(8 * f + 0) = TagSize
BY DEF VarintSize, TagSize

LEMMA FieldTypes ==
    ASSUME NEW n \in Nat
    PROVE  /\ IntField(n) \in Nat /\ BytesField(n) \in Nat /\ Submessage(n) \in Nat
           /\ Submessage(n) > 0
           /\ n = 0 => IntField(n) = 0 /\ BytesField(n) = 0
           /\ n # 0 => IntField(n) > 0 /\ BytesField(n) > 0
           /\ n # 0 => IntField(n) = TagSize + n
           /\ n # 0 => BytesField(n) = TagSize + VarintSize(n) + n
<1>1. VarintSize(n) \in 1..5
  BY VarintSizes
<1> QED
  BY <1>1 DEF IntField, BytesField, Submessage, TagSize

LEMMA DeviceSizes ==
    ASSUME NEW m, Created(m)
    PROVE  /\ DeviceSize(m.length) \in Nat
           /\ Submessage(DeviceSize(m.length)) \in Nat
           /\ BytesField(m.length["statusData"]) \in Nat
           /\ \A f \in Ints : IntField(m.length[f]) \in Nat
           /\ \A f \in Strings : BytesField(m.length[f]) \in Nat
<1>1. \A f \in Members : m.length[f] \in Nat
  BY CreatedHas
<1>2. /\ \A f \in Ints : IntField(m.length[f]) \in Nat
      /\ \A f \in Strings : BytesField(m.length[f]) \in Nat
      /\ BytesField(m.length["statusData"]) \in Nat
  BY <1>1, FieldTypes DEF Members
<1>3. DeviceSize(m.length) \in Nat
  BY <1>2 DEF DeviceSize, Ints, Strings
<1> QED
  BY <1>2, <1>3, FieldTypes

LEMMA Sizes ==
    ASSUME NEW m, Created(m)
    PROVE  /\ \A d \in Messages : Size(m, d) \in Nat
           /\ Size(m, "InternalClient") = Submessage(Size(m, MessageAt(m, 2)))
           /\ Size(m, "deviceConnect") = Submessage(Size(m, "device"))
           /\ Size(m, "deviceStatus") =
                  Submessage(Size(m, "device")) + BytesField(m.length["statusData"])
<1>1. m.which \in 1..2
  BY CreatedHas
<1>2. /\ Size(m, "device") \in Nat
      /\ Size(m, "deviceConnect") \in Nat /\ Size(m, "deviceStatus") \in Nat
      /\ Size(m, "deviceConnect") = Submessage(Size(m, "device"))
      /\ Size(m, "deviceStatus") =
             Submessage(Size(m, "device")) + BytesField(m.length["statusData"])
  BY DeviceSizes DEF Size
<1>3. /\ m.which = 1 => MessageAt(m, 2) = "deviceConnect"
      /\ m.which = 2 => MessageAt(m, 2) = "deviceStatus"
  BY DEF MessageAt, descriptor, Field
<1>4. Size(m, "InternalClient") = Submessage(Size(m, MessageAt(m, 2)))
  <2>1. CASE m.which = 1
    BY <1>3, <2>1, DeviceSizes DEF Size, EncodedSize
  <2>2. CASE m.which = 2
    BY <1>3, <2>2, DeviceSizes DEF Size, EncodedSize
  <2> QED
    BY <1>1, <2>1, <2>2
<1>5. Size(m, "InternalClient") \in Nat
  BY <1>1, <1>2, <1>3, <1>4, FieldTypes
<1> QED
  BY <1>2, <1>4, <1>5 DEF Messages, descriptor

-----------------------------------------------------------------------------
(* The descriptors.                                                        *)

LEMMA Descriptors ==
    /\ Messages = {"InternalClient", "deviceConnect", "deviceStatus", "device"}
    /\ Len(descriptor["InternalClient"]) = 2 /\ Len(descriptor["deviceConnect"]) = 1
    /\ Len(descriptor["deviceStatus"]) = 2 /\ Len(descriptor["device"]) = 5
    /\ descriptor["InternalClient"][1] = Field("deviceConnect", "SUBMESSAGE", "ONEOF")
    /\ descriptor["InternalClient"][2] = Field("deviceStatus", "SUBMESSAGE", "ONEOF")
    /\ descriptor["deviceConnect"][1] = Field("device", "SUBMESSAGE", "OPTIONAL")
    /\ descriptor["deviceStatus"][1] = Field("device", "SUBMESSAGE", "OPTIONAL")
    /\ descriptor["deviceStatus"][2] = Field("statusData", "BYTES", "SINGULAR")
    /\ descriptor["device"][1] = Field("module", "UVARINT", "SINGULAR")
    /\ descriptor["device"][2] = Field("deviceType", "UVARINT", "SINGULAR")
    /\ descriptor["device"][3] = Field("deviceRole", "STRING", "SINGULAR")
    /\ descriptor["device"][4] = Field("deviceName", "STRING", "SINGULAR")
    /\ descriptor["device"][5] = Field("priority", "UVARINT", "SINGULAR")
BY DEF Messages, descriptor

\* The pairs of a message and a tag, one by one.
LEMMA TagCases ==
    ASSUME NEW d \in Messages, NEW f \in 1..Len(descriptor[d])
    PROVE  \/ d = "InternalClient" /\ f \in {1, 2}
           \/ d = "deviceConnect" /\ f = 1
           \/ d = "deviceStatus" /\ f \in {1, 2}
           \/ d = "device" /\ f \in {1, 2, 3, 4, 5}
<1>1. /\ d \in {"InternalClient", "deviceConnect", "deviceStatus", "device"}
      /\ f \in Int /\ 1 <= f /\ f <= Len(descriptor[d])
  BY Descriptors
<1>2. CASE d = "InternalClient"
  BY <1>1, <1>2, Descriptors
<1>3. CASE d = "deviceConnect"
  BY <1>1, <1>3, Descriptors
<1>4. CASE d = "deviceStatus"
  BY <1>1, <1>4, Descriptors
<1>5. CASE d = "device"
  BY <1>1, <1>5, Descriptors
<1> QED
  BY <1>1, <1>2, <1>3, <1>4, <1>5, Zenon

LEMMA FieldKinds ==
    ASSUME NEW d \in Messages, NEW f \in 1..Len(descriptor[d])
    PROVE  LET x == descriptor[d][f]
           IN  /\ f \in 1..5
               /\ x.ltype \in {"UVARINT", "STRING", "BYTES", "SUBMESSAGE"}
               /\ IF x.ltype = "SUBMESSAGE"
                  THEN /\ x.name \in Messages
                       /\ IF d = "InternalClient" THEN x.htype = "ONEOF"
                          ELSE x.htype = "OPTIONAL" /\ x.name = "device" /\ d # "device"
                  ELSE /\ x.name \in Members /\ x.htype = "SINGULAR"
                       /\ d # "InternalClient"
               /\ x.ltype = "BYTES" => d = "deviceStatus" /\ x.name = "statusData"
               /\ x.ltype = "STRING" => d = "device" /\ x.name \in Strings
               /\ x.ltype = "UVARINT" => d = "device" /\ x.name \in Ints
<1>1. CASE d = "InternalClient" /\ f \in {1, 2}
  BY <1>1, Descriptors DEF Field
<1>2. CASE d = "deviceConnect" /\ f = 1
  BY <1>2, Descriptors DEF Field
<1>3. CASE d = "deviceStatus" /\ f \in {1, 2}
  BY <1>3, Descriptors DEF Field, Members
<1>4. CASE d = "device" /\ f \in {1, 2, 3, 4, 5}
  BY <1>4, Descriptors DEF Field, Members, Ints, Strings
<1> QED
  BY <1>1, <1>2, <1>3, <1>4, TagCases

\* The submessage a field holds is the message of the next level.
LEMMA Levelled ==
    ASSUME NEW m, Created(m)
    PROVE  /\ MessageAt(m, 1) = "InternalClient"
           /\ MessageAt(m, 2) = IF m.which = 1 THEN "deviceConnect" ELSE "deviceStatus"
           /\ MessageAt(m, 3) = "device"
           /\ descriptor["InternalClient"][m.which].name = MessageAt(m, 2)
           /\ \A f \in 1..2 :
                  descriptor["InternalClient"][f].name = MessageAt(m, 2) => f = m.which
<1>1. m.which = 1 \/ m.which = 2
  BY CreatedHas
<1>2. CASE m.which = 1
  BY <1>2, Descriptors DEF MessageAt, Field
<1>3. CASE m.which = 2
  BY <1>3, Descriptors DEF MessageAt, Field
<1> QED
  BY <1>1, <1>2, <1>3

LEMMA FieldSizes ==
    ASSUME NEW m, Created(m)
    PROVE  /\ FieldSize(m, "InternalClient", 1) =
                  IF m.which = 1 THEN Size(m, "InternalClient") ELSE 0
           /\ FieldSize(m, "InternalClient", 2) =
                  IF m.which = 2 THEN Size(m, "InternalClient") ELSE 0
           /\ FieldSize(m, "deviceConnect", 1) = Size(m, "deviceConnect")
           /\ FieldSize(m, "deviceStatus", 1) = Submessage(Size(m, "device"))
           /\ FieldSize(m, "deviceStatus", 2) = BytesField(m.length["statusData"])
           /\ FieldSize(m, "device", 1) = IntField(m.length["module"])
           /\ FieldSize(m, "device", 2) = IntField(m.length["deviceType"])
           /\ FieldSize(m, "device", 3) = BytesField(m.length["deviceRole"])
           /\ FieldSize(m, "device", 4) = BytesField(m.length["deviceName"])
           /\ FieldSize(m, "device", 5) = IntField(m.length["priority"])
<1>1. m.which = 1 \/ m.which = 2
  BY CreatedHas
<1>2. /\ FieldSize(m, "InternalClient", 1) =
             IF m.which # 1 THEN 0 ELSE Submessage(Size(m, "deviceConnect"))
      /\ FieldSize(m, "InternalClient", 2) =
             IF m.which # 2 THEN 0 ELSE Submessage(Size(m, "deviceStatus"))
  BY Descriptors DEF FieldSize, Field
<1>3. /\ FieldSize(m, "InternalClient", 1) =
             IF m.which = 1 THEN Size(m, "InternalClient") ELSE 0
      /\ FieldSize(m, "InternalClient", 2) =
             IF m.which = 2 THEN Size(m, "InternalClient") ELSE 0
  BY <1>1, <1>2, Sizes, Levelled
<1>4. /\ FieldSize(m, "deviceConnect", 1) = Size(m, "deviceConnect")
      /\ FieldSize(m, "deviceStatus", 1) = Submessage(Size(m, "device"))
      /\ FieldSize(m, "deviceStatus", 2) = BytesField(m.length["statusData"])
  BY Descriptors, Sizes DEF FieldSize, Field
<1>5. /\ FieldSize(m, "device", 1) = IntField(m.length["module"])
      /\ FieldSize(m, "device", 2) = IntField(m.length["deviceType"])
      /\ FieldSize(m, "device", 3) = BytesField(m.length["deviceRole"])
      /\ FieldSize(m, "device", 4) = BytesField(m.length["deviceName"])
      /\ FieldSize(m, "device", 5) = IntField(m.length["priority"])
  BY Descriptors DEF FieldSize, Field
<1> QED
  BY <1>3, <1>4, <1>5

\* The fields of a message follow each other and fill it.
LEMMA Offsets ==
    ASSUME NEW m, Created(m), NEW d \in Messages
    PROVE  /\ Before(m, d, 1) = 0
           /\ Before(m, d, Len(descriptor[d]) + 1) = Size(m, d)
           /\ \A f \in 1..Len(descriptor[d]) :
                  /\ Before(m, d, f) \in Nat /\ FieldSize(m, d, f) \in Nat
                  /\ Before(m, d, f + 1) = Before(m, d, f) + FieldSize(m, d, f)
                  /\ Before(m, d, f) + FieldSize(m, d, f) <= Size(m, d)
<1> DEFINE S(k) == FieldSize(m, d, k)
<1>1. /\ Before(m, d, 1) = 0 + 0 + 0 + 0 + 0
      /\ Before(m, d, 2) = S(1) + 0 + 0 + 0 + 0
      /\ Before(m, d, 3) = S(1) + S(2) + 0 + 0 + 0
      /\ Before(m, d, 4) = S(1) + S(2) + S(3) + 0 + 0
      /\ Before(m, d, 5) = S(1) + S(2) + S(3) + S(4) + 0
      /\ Before(m, d, 6) = S(1) + S(2) + S(3) + S(4) + S(5)
  BY DEF Before
<1>2. CASE d = "InternalClient"
  <2>1. /\ S(1) \in Nat /\ S(2) \in Nat /\ S(1) + S(2) = Size(m, d)
    BY <1>2, FieldSizes, Sizes, CreatedHas
  <2> HIDE DEF S
  <2> QED
    BY <1>1, <1>2, <2>1, Descriptors DEF S
<1>3. CASE d = "deviceConnect"
  <2>1. S(1) \in Nat /\ S(1) = Size(m, d)
    BY <1>3, FieldSizes, Sizes
  <2> QED
    BY <1>1, <1>3, <2>1, Descriptors
<1>4. CASE d = "deviceStatus"
  <2>1. S(1) \in Nat /\ S(2) \in Nat /\ S(1) + S(2) = Size(m, d)
    BY <1>4, FieldSizes, Sizes, DeviceSizes DEF Size
  <2> QED
    BY <1>1, <1>4, <2>1, Descriptors
<1>5. CASE d = "device"
  <2>1. \A f \in 1..5 : S(f) \in Nat
    BY <1>5, FieldSizes, DeviceSizes DEF Ints, Strings
  <2>2. S(1) + S(2) + S(3) + S(4) + S(5) = Size(m, d)
    BY <1>5, FieldSizes DEF Size, DeviceSize
  <2>3. \A f \in 1..5 : f = 1 \/ f = 2 \/ f = 3 \/ f = 4 \/ f = 5
    OBVIOUS
  <2> QED
    BY <1>1, <1>5, <2>1, <2>2, <2>3, Descriptors
<1> QED
  BY <1>2, <1>3, <1>4, <1>5, Descriptors

-----------------------------------------------------------------------------
(* What can be encoded.                                                    *)

LEMMA DeviceTaken ==
    ASSUME NEW m, Created(m)
    PROVE  Encodes(m, "device") <=> \A f \in 1..5 : Taken(m, "device", f)
<1>1. /\ Taken(m, "device", 1) /\ Taken(m, "device", 2) /\ Taken(m, "device", 5)
      /\ Taken(m, "device", 3) <=> m.length["deviceRole"] <= StringSize - 1
      /\ Taken(m, "device", 4) <=> m.length["deviceName"] <= StringSize - 1
  BY Descriptors DEF Taken, Field, Room
<1>2. /\ m.length["deviceRole"] \in Nat /\ m.length["deviceName"] \in Nat
      /\ StringSize \in Nat
  BY CreatedHas, EncodeAssumption DEF Members, Strings
<1>3. Encodes(m, "device") <=> /\ m.length["deviceRole"] < StringSize
                               /\ m.length["deviceName"] < StringSize
  BY DEF Encodes, Strings
<1>4. Encodes(m, "device") <=> Taken(m, "device", 3) /\ Taken(m, "device", 4)
  BY <1>1, <1>2, <1>3
<1>5. \A f \in 1..5 : f = 1 \/ f = 2 \/ f = 3 \/ f = 4 \/ f = 5
  OBVIOUS
<1> QED
  BY <1>1, <1>4, <1>5

\* A message can be encoded if all of its fields can.
LEMMA AllTaken ==
    ASSUME NEW m, Created(m), NEW d \in Messages
    PROVE  Encodes(m, d) <=> \A f \in 1..Len(descriptor[d]) : Taken(m, d, f)
<1>1. CASE d = "InternalClient"
  <2>1. /\ Taken(m, d, 1) <=> (m.which = 1 => Encodes(m, "deviceConnect"))
        /\ Taken(m, d, 2) <=> (m.which = 2 => Encodes(m, "deviceStatus"))
    BY <1>1, Descriptors DEF Taken, Field
  <2>2. Encodes(m, d) <=> /\ m.which = 1 => Encodes(m, "deviceConnect")
                          /\ m.which = 2 => Encodes(m, "deviceStatus")
    BY <1>1, CreatedHas DEF Encodes
  <2> QED
    BY <1>1, <2>1, <2>2, Descriptors
<1>2. CASE d = "deviceConnect"
  <2>1. Taken(m, d, 1) <=> Encodes(m, "device")
    BY <1>2, Descriptors DEF Taken, Field
  <2>2. Encodes(m, d) <=> Encodes(m, "device")
    BY <1>2 DEF Encodes
  <2> QED
    BY <1>2, <2>1, <2>2, Descriptors
<1>3. CASE d = "deviceStatus"
  <2>1. /\ Taken(m, d, 1) <=> Encodes(m, "device")
        /\ Taken(m, d, 2) <=> m.length["statusData"] <= BytesSize
    BY <1>3, Descriptors DEF Taken, Field, Room
  <2>2. Encodes(m, d) <=> Encodes(m, "device") /\ m.length["statusData"] <= BytesSize
    BY <1>3 DEF Encodes
  <2> QED
    BY <1>3, <2>1, <2>2, Descriptors
<1>4. CASE d = "device"
  BY <1>4, DeviceTaken, Descriptors
<1> QED
  BY <1>1, <1>2, <1>3, <1>4, Descriptors

\* The whole message can be encoded exactly if its first submessage can.
LEMMA WholeEncodes ==
    ASSUME NEW m, Created(m)
    PROVE  /\ Encodable(m) <=> Encodes(m, "InternalClient")
           /\ Encodable(m) <=> Encodes(m, MessageAt(m, 2))
           /\ Encodable(m) => Encodes(m, "device")
<1>1. m.which = 1 \/ m.which = 2
  BY CreatedHas
<1>2. CASE m.which = 1
  BY <1>2, Levelled DEF Encodes, Encodable
<1>3. CASE m.which = 2
  BY <1>3, Levelled DEF Encodes, Encodable
<1> QED
  BY <1>1, <1>2, <1>3

\* The parts a field that is there consists of.
LEMMA FieldParts ==
    ASSUME NEW m, Created(m), NEW d \in Messages, NEW f \in 1..Len(descriptor[d]),
           FieldSize(m, d, f) > 0
    PROVE  LET x == descriptor[d][f]
           IN  /\ x.ltype = "UVARINT" => FieldSize(m, d, f) = TagSize + m.length[x.name]
               /\ x.ltype \in {"STRING", "BYTES"} =>
                      FieldSize(m, d, f) = TagSize + VarintSize(m.length[x.name])
                                           + m.length[x.name]
               /\ x.ltype = "SUBMESSAGE" =>
                      /\ d = "InternalClient" => m.which = f
                      /\ FieldSize(m, d, f) =
                             TagSize + VarintSize(Size(m, x.name)) + Size(m, x.name)
<1> DEFINE x == descriptor[d][f]
<1>1. /\ x.ltype \in {"UVARINT", "STRING", "BYTES", "SUBMESSAGE"}
      /\ x.ltype # "SUBMESSAGE" => x.name \in Members
      /\ x.ltype = "SUBMESSAGE" => /\ x.name \in Messages
                                   /\ x.htype = "ONEOF" <=> d = "InternalClient"
  BY FieldKinds
<1>2. FieldSize(m, d, f) = IF x.ltype = "UVARINT" THEN IntField(m.length[x.name])
                           ELSE IF x.ltype # "SUBMESSAGE" THEN BytesField(m.length[x.name])
                           ELSE IF x.htype = "ONEOF" /\ m.which # f THEN 0
                           ELSE Submessage(Size(m, x.name))
  BY DEF FieldSize
<1> HIDE DEF x
<1>3. CASE x.ltype = "UVARINT"
  <2>1. m.length[x.name] \in Nat /\ IntField(m.length[x.name]) > 0
    BY <1>1, <1>2, <1>3, CreatedHas
  <2>2. IntField(m.length[x.name]) = TagSize + m.length[x.name]
    BY <2>1 DEF IntField
  <2> QED
    BY <1>2, <1>3, <2>2 DEF x
<1>4. CASE x.ltype \in {"STRING", "BYTES"}
  <2>1. m.length[x.name] \in Nat /\ BytesField(m.length[x.name]) > 0
    BY <1>1, <1>2, <1>4, CreatedHas
  <2>2. BytesField(m.length[x.name]) =
            TagSize + VarintSize(m.length[x.name]) + m.length[x.name]
    BY <2>1 DEF BytesField
  <2> QED
    BY <1>2, <1>4, <2>2 DEF x
<1>5. CASE x.ltype = "SUBMESSAGE"
  <2>1. ~(x.htype = "ONEOF" /\ m.which # f)
    BY <1>2, <1>5
  <2>2. FieldSize(m, d, f) = TagSize + VarintSize(Size(m, x.name)) + Size(m, x.name)
    BY <1>2, <1>5, <2>1 DEF Submessage
  <2> QED
    BY <1>1, <1>5, <2>1, <2>2 DEF x
<1> QED
  BY <1>1, <1>3, <1>4, <1>5 DEF x

\* What is left out could have been encoded.
LEMMA LeftOut ==
    ASSUME NEW m, Created(m), NEW d \in Messages, NEW f \in 1..Len(descriptor[d]),
           FieldSize(m, d, f) = 0
    PROVE  Taken(m, d, f)
<1> DEFINE x == descriptor[d][f]
<1>1. /\ x.ltype \in {"UVARINT", "STRING", "BYTES", "SUBMESSAGE"}
      /\ x.ltype # "SUBMESSAGE" => x.name \in Members
      /\ x.ltype = "SUBMESSAGE" => /\ x.name \in Messages
                                   /\ x.htype = "ONEOF" <=> d = "InternalClient"
  BY FieldKinds
<1>2. FieldSize(m, d, f) = IF x.ltype = "UVARINT" THEN IntField(m.length[x.name])
                           ELSE IF x.ltype # "SUBMESSAGE" THEN BytesField(m.length[x.name])
                           ELSE IF x.htype = "ONEOF" /\ m.which # f THEN 0
                           ELSE Submessage(Size(m, x.name))
  BY DEF FieldSize
<1> HIDE DEF x
<1>3. CASE x.ltype = "UVARINT"
  BY <1>3 DEF Taken, x
<1>4. CASE x.ltype \in {"STRING", "BYTES"}
  <2>1. m.length[x.name] \in Nat /\ BytesField(m.length[x.name]) = 0
    BY <1>1, <1>2, <1>4, CreatedHas
  <2>2. m.length[x.name] = 0
    BY <2>1, FieldTypes
  <2>3. Room(x.ltype) \in Nat
    BY EncodeAssumption DEF Room
  <2>4. m.length[x.name] <= Room(x.ltype)
    BY <2>2, <2>3
  <2> QED
    BY <1>4, <2>4 DEF Taken, x
<1>5. CASE x.ltype = "SUBMESSAGE"
  <2>1. Size(m, x.name) \in Nat
    BY <1>1, <1>5, Sizes
  <2>2. x.htype = "ONEOF" /\ m.which # f
    BY <1>2, <1>5, <2>1, FieldTypes
  <2> QED
    BY <1>5, <2>2 DEF Taken, x
<1> QED
  BY <1>1, <1>3, <1>4, <1>5

\* encode_field's test is that the field takes bytes.
LEMMA PresentTakesBytes ==
    ASSUME Created(message), Top.desc \in Messages,
           Top.field \in 1..Len(descriptor[Top.desc])
    PROVE  Present <=> FieldSize(message, Top.desc, Top.field) # 0
<1> DEFINE m == message
           d == Top.desc
           f == Top.field
           x == descriptor[d][f]
<1>1. /\ x.ltype \in {"UVARINT", "STRING", "BYTES", "SUBMESSAGE"}
      /\ x.ltype # "SUBMESSAGE" => x.name \in Members /\ x.htype = "SINGULAR"
      /\ x.ltype = "SUBMESSAGE" => x.name \in Messages /\ x.htype \in {"ONEOF", "OPTIONAL"}
  BY FieldKinds
<1>2. Present <=> \/ x.htype = "ONEOF" /\ m.which = f
                  \/ x.htype = "OPTIONAL"
                  \/ x.htype = "SINGULAR" /\ m.length[x.name] # 0
  <2>1. m.has_device
    BY CreatedHas
  <2> QED
    BY <2>1 DEF Present, TheField, Length
<1>3. FieldSize(m, d, f) = IF x.ltype = "UVARINT" THEN IntField(m.length[x.name])
                           ELSE IF x.ltype # "SUBMESSAGE" THEN BytesField(m.length[x.name])
                           ELSE IF x.htype = "ONEOF" /\ m.which # f THEN 0
                           ELSE Submessage(Size(m, x.name))
  BY DEF FieldSize
<1>4. Created(m)
  OBVIOUS
<1> HIDE DEF m, d, f, x
<1>5. CASE x.ltype = "SUBMESSAGE"
  <2>0. Size(m, x.name) \in Nat
    BY <1>1, <1>4, <1>5, Sizes
  <2>1. Submessage(Size(m, x.name)) # 0
    BY <2>0, FieldTypes
  <2> QED
    BY <1>1, <1>2, <1>3, <1>5, <2>1 DEF m, d, f
<1>6. CASE x.ltype # "SUBMESSAGE"
  <2>1. m.length[x.name] \in Nat
    BY <1>1, <1>4, <1>6, CreatedHas
  <2>2. Present <=> m.length[x.name] # 0
    BY <1>1, <1>2, <1>6
  <2>3. FieldSize(m, d, f) \in {IntField(m.length[x.name]), BytesField(m.length[x.name])}
    BY <1>3, <1>6
  <2>4. /\ IntField(m.length[x.name]) # 0 <=> m.length[x.name] # 0
        /\ BytesField(m.length[x.name]) # 0 <=> m.length[x.name] # 0
    <3> DEFINE n == m.length[x.name]
    <3>1. n \in Nat
      BY <2>1
    <3> HIDE DEF n
    <3>2. /\ IntField(n) \in Nat /\ (n = 0 => IntField(n) = 0) /\ (n # 0 => IntField(n) > 0)
          /\ BytesField(n) \in Nat /\ (n = 0 => BytesField(n) = 0)
          /\ n # 0 => BytesField(n) > 0
      BY <3>1, FieldTypes
    <3>3. (IntField(n) # 0 <=> n # 0) /\ (BytesField(n) # 0 <=> n # 0)
      BY <3>2
    <3> QED
      BY <3>3 DEF n
  <2>5. FieldSize(m, d, f) # 0 <=> m.length[x.name] # 0
    BY <2>3, <2>4
  <2> QED
    BY <2>2, <2>5 DEF m, d, f
<1> QED
  BY <1>5, <1>6

-----------------------------------------------------------------------------
(* Streams.                                                                *)

LEMMA WroteType ==
    ASSUME NEW s \in Frames, NEW n \in Nat
    PROVE  /\ Wrote(s, n) \in Frames
           /\ Wrote(s, n).desc = s.desc /\ Wrote(s, n).field = s.field
           /\ Wrote(s, n).sizing = s.sizing /\ Wrote(s, n).max_size = s.max_size
           /\ Wrote(s, n).bytes_written = s.bytes_written + n
           /\ ~s.sizing => Wrote(s, n).state = s.state + n
<1> DEFINE b == s.bytes_written + n
           a == IF s.sizing THEN s.state ELSE s.state + n
<1>1. /\ s.desc \in Messages /\ s.field \in Nat /\ s.sizing \in BOOLEAN
      /\ s.max_size \in Nat /\ b \in Nat /\ a \in Nat
  BY DEF Frames
<1>2. Wrote(s, n) = [s EXCEPT !.bytes_written = b, !.state = a]
  BY DEF Wrote
<1>3. ~s.sizing => a = s.state + n
  OBVIOUS
<1>4. b = s.bytes_written + n
  OBVIOUS
<1> HIDE DEF a, b
<1>5. Wrote(s, n) = [desc |-> s.desc, field |-> s.field, sizing |-> s.sizing,
                     max_size |-> s.max_size, state |-> a, bytes_written |-> b]
  BY <1>2 DEF Frames
<1>6. Wrote(s, n) \in Frames
  BY <1>1, <1>5 DEF Frames
<1> QED
  BY <1>3, <1>4, <1>5, <1>6

LEMMA NextFieldType ==
    ASSUME NEW s \in Frames
    PROVE  /\ NextField(s) \in Frames
           /\ NextField(s).desc = s.desc /\ NextField(s).field = s.field + 1
           /\ NextField(s).sizing = s.sizing /\ NextField(s).max_size = s.max_size
           /\ NextField(s).bytes_written = s.bytes_written
           /\ NextField(s).state = s.state
BY DEF NextField, Frames

LEMMA StreamType ==
    ASSUME NEW d \in Messages, NEW z \in BOOLEAN, NEW n \in Nat, NEW a \in Nat
    PROVE  /\ Stream(d, z, n, a) \in Frames
           /\ Stream(d, z, n, a).desc = d /\ Stream(d, z, n, a).field = 1
           /\ Stream(d, z, n, a).sizing = z /\ Stream(d, z, n, a).max_size = n
           /\ Stream(d, z, n, a).bytes_written = 0 /\ Stream(d, z, n, a).state = a
BY DEF Stream, Frames

\* A stream that has only moved on: its counter and its pointer alike.
MovedOn(s, t) ==
    /\ t.desc = s.desc /\ t.sizing = s.sizing /\ t.max_size = s.max_size
    /\ ~s.sizing => t.state + s.bytes_written = s.state + t.bytes_written

LEMMA MovedOnWrote ==
    ASSUME NEW s \in Frames, NEW n \in Nat
    PROVE  /\ MovedOn(s, Wrote(s, n))
           /\ MovedOn(s, NextField(s))
           /\ MovedOn(s, NextField(Wrote(s, n)))
<1>1. s.state \in Nat /\ s.bytes_written \in Nat
  BY DEF Frames
<1>2. MovedOn(s, Wrote(s, n))
  <2> DEFINE w == Wrote(s, n)
  <2>1. /\ w.desc = s.desc /\ w.sizing = s.sizing /\ w.max_size = s.max_size
        /\ w.bytes_written = s.bytes_written + n
        /\ ~s.sizing => w.state = s.state + n
    BY WroteType
  <2> HIDE DEF w
  <2>2. ~s.sizing => w.state + s.bytes_written = s.state + w.bytes_written
    BY <1>1, <2>1
  <2> QED
    BY <2>1, <2>2 DEF MovedOn, w
<1>3. MovedOn(s, NextField(s))
  BY <1>1, NextFieldType DEF MovedOn
<1>4. MovedOn(s, NextField(Wrote(s, n)))
  <2>1. Wrote(s, n) \in Frames
    BY WroteType
  <2> QED
    BY <1>2, <2>1, NextFieldType DEF MovedOn
<1> QED
  BY <1>2, <1>3, <1>4

LEMMA LinkMovedOn ==
    ASSUME NEW m, NEW p \in Frames, NEW c \in Frames, NEW t \in Frames,
           Link(m, p, c), MovedOn(c, t)
    PROVE  Link(m, p, t)
<1>1. t.desc = c.desc /\ t.sizing = c.sizing /\ t.max_size = c.max_size
  BY DEF MovedOn
<1>2. ~t.sizing => t.state = p.state + t.bytes_written
  <2>1. /\ p.state \in Nat /\ c.state \in Nat /\ c.bytes_written \in Nat
        /\ t.state \in Nat /\ t.bytes_written \in Nat
    BY DEF Frames
  <2>2. ~c.sizing => /\ c.state = p.state + c.bytes_written
                     /\ t.state + c.bytes_written = c.state + t.bytes_written
    BY DEF Link, MovedOn
  <2>3. t.sizing <=> c.sizing
    BY <1>1
  <2> QED
    BY <2>1, <2>2, <2>3
<1> QED
  BY <1>1, <1>2 DEF Link

-----------------------------------------------------------------------------
(* Stacks of levels.                                                       *)

\* The innermost level moves on.
LEMMA TopMoves ==
    ASSUME NEW m, NEW b, NEW at, NEW to, NEW st \in Seq(Frames), Len(st) > 0,
           Levels(m, b, st, at), NEW t \in Frames, MovedOn(st[Len(st)], t),
           Level(m, b, Len(st), t), Innermost(m, t, to)
    PROVE  LET st2 == [st EXCEPT ![Len(st)] = t]
           IN  /\ st2 \in Seq(Frames) /\ Len(st2) = Len(st) /\ st2[Len(st)] = t
               /\ \A i \in 1..Len(st) : i # Len(st) => st2[i] = st[i]
               /\ Levels(m, b, st2, to)
<1> DEFINE n == Len(st)
           st2 == [st EXCEPT ![n] = t]
<1>1. n \in Nat /\ n > 0 /\ \A i \in 1..n : st[i] \in Frames
  OBVIOUS
<1>2. /\ st2 \in Seq(Frames) /\ Len(st2) = n /\ st2[n] = t
      /\ \A i \in 1..n : i # n => st2[i] = st[i]
  BY <1>1
<1> HIDE DEF st2
<1>3. n <= 3
  BY DEF Levels
<1>4. \A i \in 1..n : Level(m, b, i, st2[i])
  BY <1>1, <1>2 DEF Levels
<1>5. ASSUME NEW i \in 1..n - 1
      PROVE  Link(m, st2[i], st2[i + 1])
  <2>1. Link(m, st[i], st[i + 1]) /\ i \in 1..n /\ i + 1 \in 1..n /\ i # n
    BY <1>1 DEF Levels
  <2>2. CASE i + 1 = n
    BY <1>1, <1>2, <2>1, <2>2, LinkMovedOn
  <2>3. CASE i + 1 # n
    BY <1>2, <2>1, <2>3
  <2> QED
    BY <2>2, <2>3
<1>6. ~st2[1].sizing => st2[1].state = st2[1].bytes_written
  <2>1. ~st[1].sizing => st[1].state = st[1].bytes_written
    BY <1>1 DEF Levels
  <2>2. CASE n = 1
    <3>0. st[1] \in Frames
      BY <1>1
    <3>1. /\ t.state \in Nat /\ t.bytes_written \in Nat
          /\ st[1].state \in Nat /\ st[1].bytes_written \in Nat
      BY <3>0 DEF Frames
    <3>2. /\ t.sizing = st[1].sizing
          /\ ~st[1].sizing =>
                 t.state + st[1].bytes_written = st[1].state + t.bytes_written
      BY <2>2 DEF MovedOn
    <3>3. ~t.sizing => t.state = t.bytes_written
      BY <2>1, <3>1, <3>2
    <3> QED
      BY <1>2, <2>2, <3>3
  <2>3. CASE n # 1
    BY <1>1, <1>2, <2>1, <2>3
  <2> QED
    BY <2>2, <2>3
<1>7. Levels(m, b, st2, to)
  BY <1>2, <1>3, <1>4, <1>5, <1>6 DEF Levels
<1> QED
  BY <1>2, <1>7 DEF st2

\* A submessage begins.
LEMMA LevelAdded ==
    ASSUME NEW m, NEW b, NEW at, NEW to, NEW st \in Seq(Frames), Levels(m, b, st, at),
           NEW t \in Frames, NEW n \in 1..2, n = Len(st),
           Link(m, st[n], t), Level(m, b, n + 1, t), Innermost(m, t, to)
    PROVE  Levels(m, b, Append(st, t), to)
<1> DEFINE st2 == Append(st, t)
<1>1. n \in 1..2 /\ \A i \in 1..n : st[i] \in Frames
  OBVIOUS
<1>2. /\ st2 \in Seq(Frames) /\ Len(st2) = n + 1 /\ st2[n + 1] = t
      /\ \A i \in 1..n : st2[i] = st[i]
  BY <1>1
<1> HIDE DEF st2
<1>3. \A i \in 1..n + 1 : Level(m, b, i, st2[i])
  <2> TAKE i \in 1..n + 1
  <2>1. CASE i \in 1..n
    BY <1>2, <2>1 DEF Levels
  <2>2. CASE i = n + 1
    BY <1>2, <2>2
  <2> QED
    BY <1>1, <2>1, <2>2
<1>4. \A i \in 1..n : Link(m, st2[i], st2[i + 1])
  <2> TAKE i \in 1..n
  <2>1. CASE i = n
    BY <1>2, <2>1
  <2>2. CASE i # n
    <3>1. i \in 1..n - 1 /\ i + 1 \in 1..n
      BY <1>1, <2>2
    <3>2. Link(m, st[i], st[i + 1])
      BY <3>1 DEF Levels
    <3> QED
      BY <1>2, <3>1, <3>2
  <2> QED
    BY <2>1, <2>2
<1>5. ~st2[1].sizing => st2[1].state = st2[1].bytes_written
  <2>1. ~st[1].sizing => st[1].state = st[1].bytes_written
    BY <1>1 DEF Levels
  <2>2. st2[1] = st[1]
    BY <1>1, <1>2
  <2> QED
    BY <2>1, <2>2
<1>6. Levels(m, b, st2, to)
  <2>1. n + 1 <= 3 /\ 1..(n + 1) - 1 = 1..n
    BY <1>1
  <2> QED
    BY <1>2, <1>3, <1>4, <1>5, <2>1 DEF Levels
<1> QED
  BY <1>6 DEF st2

\* A submessage ends, and its parent moves on.
LEMMA LevelEnds ==
    ASSUME NEW m, NEW b, NEW at, NEW to, NEW st \in Seq(Frames), Len(st) > 1,
           Levels(m, b, st, at), NEW t \in Frames, MovedOn(st[Len(st) - 1], t),
           Level(m, b, Len(st) - 1, t), Innermost(m, t, to),
           NEW n, n = Len(st) - 1,
           NEW st2, st2 = [i \in 1..n |-> IF i = n THEN t ELSE st[i]]
    PROVE  /\ st2 \in Seq(Frames) /\ Len(st2) = n /\ st2[n] = t
           /\ \A i \in 1..n : i # n => st2[i] = st[i]
           /\ Levels(m, b, st2, to)
<1> DEFINE rest == [i \in 1..n |-> st[i]]
<1>1. /\ Len(st) = n + 1 /\ n \in Nat /\ n > 0
      /\ \A i \in 1..n + 1 : st[i] \in Frames
  OBVIOUS
<1>2. /\ rest \in Seq(Frames) /\ Len(rest) = n
      /\ \A i \in 1..n : rest[i] = st[i]
  BY <1>1
<1>3. st2 = [rest EXCEPT ![n] = t]
  BY <1>1
<1>4. /\ n <= 3
      /\ \A i \in 1..n : Level(m, b, i, st[i])
      /\ \A i \in 1..n - 1 : Link(m, st[i], st[i + 1])
      /\ ~st[1].sizing => st[1].state = st[1].bytes_written
  BY <1>1 DEF Levels
<1> HIDE DEF rest
<1>5. Innermost(m, rest[n], "failed")
  BY DEF Innermost
<1>6. Levels(m, b, rest, "failed")
  <2>1. \A i \in 1..n - 1 : Link(m, rest[i], rest[i + 1])
    BY <1>1, <1>2, <1>4
  <2>2. rest[1] = st[1]
    BY <1>1, <1>2
  <2>3. \A i \in 1..n : Level(m, b, i, rest[i])
    BY <1>2, <1>4
  <2> QED
    BY <1>2, <1>4, <1>5, <2>1, <2>2, <2>3 DEF Levels
<1>7. /\ st2 \in Seq(Frames) /\ Len(st2) = n /\ st2[n] = t
      /\ \A i \in 1..n : i # n => st2[i] = rest[i]
      /\ Levels(m, b, st2, to)
  <2>0. rest[n] = st[n]
    <3>1. n \in 1..n
      BY <1>1
    <3> QED
      BY <3>1, <1>2, Zenon
  <2>1. MovedOn(rest[n], t) /\ Level(m, b, n, t)
    BY <2>0, Zenon
  <2>2. st2 = [rest EXCEPT ![Len(rest)] = t]
    BY <1>2, <1>3
  <2>3. /\ rest \in Seq(Frames) /\ Len(rest) > 0 /\ Levels(m, b, rest, "failed")
        /\ MovedOn(rest[Len(rest)], t) /\ Level(m, b, Len(rest), t)
    BY <1>1, <1>2, <1>6, <2>1
  <2>4. /\ st2 \in Seq(Frames) /\ Len(st2) = Len(rest) /\ st2[Len(rest)] = t
        /\ \A i \in 1..Len(rest) : i # Len(rest) => st2[i] = rest[i]
        /\ Levels(m, b, st2, to)
    <3> DEFINE e == [rest EXCEPT ![Len(rest)] = t]
    <3>1. /\ e \in Seq(Frames) /\ Len(e) = Len(rest) /\ e[Len(rest)] = t
          /\ \A i \in 1..Len(rest) : i # Len(rest) => e[i] = rest[i]
          /\ Levels(m, b, e, to)
      BY <2>3, TopMoves, Zenon
    <3> QED
      BY <2>2, <3>1, Zenon
  <2> QED
    BY <1>2, <2>4
<1> QED
  BY <1>2, <1>7

-----------------------------------------------------------------------------
(* One level.                                                              *)

LEMMA LevelFacts ==
    ASSUME NEW m, Created(m), NEW b, NEW i \in 1..3, NEW s, Level(m, b, i, s)
    PROVE  /\ s \in Frames /\ s.desc \in Messages /\ s.desc = MessageAt(m, i)
           /\ Len(descriptor[s.desc]) \in 1..5
           /\ s.field \in 1..Len(descriptor[s.desc]) + 1
           /\ s.bytes_written \in Nat /\ s.state \in Nat /\ s.max_size \in Nat
           /\ s.sizing \in BOOLEAN
<1>1. /\ s \in Frames /\ s.desc = MessageAt(m, i)
      /\ s.field \in 1..Len(descriptor[s.desc]) + 1
  BY DEF Level
<1>2. /\ s.desc \in Messages /\ s.bytes_written \in Nat /\ s.state \in Nat
      /\ s.max_size \in Nat /\ s.sizing \in BOOLEAN
  BY <1>1 DEF Frames
<1>3. Len(descriptor[s.desc]) \in 1..5
  BY <1>2, Descriptors
<1> QED
  BY <1>1, <1>2, <1>3

\* A level that writes, or counts, within its field.
LEMMA LevelStays ==
    ASSUME NEW m, NEW b, NEW i, NEW s, NEW t \in Frames, Level(m, b, i, s),
           MovedOn(s, t), t.field = s.field
    PROVE  Level(m, b, i, t)
BY DEF Level, MovedOn

\* A level that goes to its next field.
LEMMA LevelPasses ==
    ASSUME NEW m, Created(m), NEW b, NEW i \in 1..3, NEW s, NEW t \in Frames,
           Level(m, b, i, s), MovedOn(s, t),
           s.field \in 1..Len(descriptor[s.desc]), Taken(m, s.desc, s.field),
           t.field = s.field + 1
    PROVE  Level(m, b, i, t)
<1>1. t.desc = s.desc /\ t.sizing = s.sizing /\ t.max_size = s.max_size
  BY DEF MovedOn
<1>2. Len(descriptor[s.desc]) \in Nat
  BY LevelFacts
<1>3. t.field \in 1..Len(descriptor[t.desc]) + 1
  BY <1>1, <1>2
<1>4. \A f \in 1..Len(descriptor[t.desc]) : f < t.field => Taken(m, t.desc, f)
  <2> TAKE f \in 1..Len(descriptor[t.desc])
  <2>1. f < s.field => Taken(m, s.desc, f)
    BY <1>1 DEF Level
  <2>2. f < t.field => f < s.field \/ f = s.field
    BY <1>1, <1>2
  <2> QED
    BY <1>1, <2>1, <2>2
<1>5. ~t.sizing =>
          IF i = 1
          THEN t.max_size = b /\ b = IF Encodable(m) THEN EncodedSize(m) ELSE 1
          ELSE t.max_size = Size(m, t.desc) /\ Encodes(m, t.desc)
  BY <1>1 DEF Level
<1> QED
  BY <1>1, <1>3, <1>4, <1>5 DEF Level

\* A stream with a buffer takes its whole message, unless that cannot be
\* encoded.
LEMMA RoomForMessage ==
    ASSUME NEW m, Created(m), NEW b, NEW i \in 1..3, NEW s, Level(m, b, i, s),
           ~s.sizing, i = 1 => Encodable(m)
    PROVE  s.max_size = Size(m, s.desc)
<1>1. s.desc \in Messages /\ s.desc = MessageAt(m, i)
  BY LevelFacts
<1>2. CASE i = 1
  <2>1. s.max_size = EncodedSize(m)
    BY <1>2 DEF Level
  <2>2. s.desc = "InternalClient"
    BY <1>1, <1>2, Levelled
  <2> QED
    BY <2>1, <2>2 DEF Size
<1>3. CASE i # 1
  BY <1>3 DEF Level
<1> QED
  BY <1>2, <1>3

LEMMA RoomForField ==
    ASSUME NEW m, Created(m), NEW b, NEW i \in 1..3, NEW s, Level(m, b, i, s),
           ~s.sizing, s.field \in 1..Len(descriptor[s.desc]), i = 1 => Encodable(m)
    PROVE  Before(m, s.desc, s.field) + FieldSize(m, s.desc, s.field) <= s.max_size
<1>1. s.desc \in Messages
  BY LevelFacts
<1>2. s.max_size = Size(m, s.desc)
  BY RoomForMessage
<1> QED
  BY <1>1, <1>2, Offsets

\* A level behind its last field has encoded its message.
LEMMA LevelAtEnd ==
    ASSUME NEW m, Created(m), NEW b, NEW i \in 1..3, NEW s, Level(m, b, i, s),
           s.field > Len(descriptor[s.desc]), Innermost(m, s, "field")
    PROVE  Encodes(m, s.desc) /\ s.bytes_written = Size(m, s.desc)
<1>1. /\ s.desc \in Messages /\ Len(descriptor[s.desc]) \in 1..5
      /\ s.field \in 1..Len(descriptor[s.desc]) + 1
  BY LevelFacts
<1>2. s.field = Len(descriptor[s.desc]) + 1
  BY <1>1
<1>3. \A f \in 1..Len(descriptor[s.desc]) : Taken(m, s.desc, f)
  <2> TAKE f \in 1..Len(descriptor[s.desc])
  <2>1. f < s.field
    BY <1>1
  <2> QED
    BY <2>1 DEF Level
<1>4. s.bytes_written = Before(m, s.desc, s.field)
  BY DEF Innermost
<1> QED
  BY <1>1, <1>2, <1>3, <1>4, AllTaken, Offsets

\* Nothing is written before the field of the message that is there.
LEMMA NothingBefore ==
    ASSUME NEW m, Created(m)
    PROVE  Before(m, "InternalClient", m.which) = 0
<1> DEFINE d == "InternalClient"
<1>1. d \in Messages /\ Len(descriptor[d]) = 2
  BY Descriptors
<1>2. CASE m.which = 1
  BY <1>1, <1>2, Offsets
<1>3. CASE m.which = 2
  <2>1. FieldSize(m, d, 1) = 0
    BY <1>3, FieldSizes
  <2>2. 1 \in 1..Len(descriptor[d])
    BY <1>1
  <2>3. /\ Before(m, d, 1) = 0
        /\ Before(m, d, 1 + 1) = Before(m, d, 1) + FieldSize(m, d, 1)
    BY <1>1, <2>2, Offsets
  <2> QED
    BY <1>3, <2>1, <2>3
<1> QED
  BY <1>2, <1>3, CreatedHas

\* What two levels say of each other: the parent is at the field that holds the
\* submessage, and has written nothing but its tag if it is the outermost.
LEMMA ParentField ==
    ASSUME NEW m, Created(m), NEW b, NEW i \in 1..2, NEW p, NEW c,
           Level(m, b, i, p), Level(m, b, i + 1, c), Link(m, p, c)
    PROVE  /\ p.field \in 1..Len(descriptor[p.desc])
           /\ FieldSize(m, p.desc, p.field) =
                  TagSize + VarintSize(Size(m, c.desc)) + Size(m, c.desc)
           /\ Taken(m, p.desc, p.field) <=> Encodes(m, c.desc)
           /\ i = 1 => Before(m, p.desc, p.field) = 0
<1>1. /\ p.desc \in Messages /\ p.desc = MessageAt(m, i)
      /\ c.desc \in Messages /\ c.desc = MessageAt(m, i + 1)
  BY LevelFacts
<1>2. /\ p.field \in 1..Len(descriptor[p.desc])
      /\ descriptor[p.desc][p.field].name = c.desc
  BY DEF Link
<1>3. CASE i = 1
  <2>1. /\ p.desc = "InternalClient" /\ c.desc = MessageAt(m, 2)
        /\ Len(descriptor[p.desc]) = 2
    BY <1>1, <1>3, Levelled, Descriptors
  <2>2. p.field \in 1..2 /\ p.field = m.which
    BY <1>2, <2>1, Levelled
  <2>3. FieldSize(m, p.desc, p.field) = Submessage(Size(m, c.desc))
    <3>1. FieldSize(m, p.desc, p.field) = Size(m, "InternalClient")
      BY <2>1, <2>2, FieldSizes
    <3> QED
      BY <2>1, <3>1, Sizes
  <2>4. Taken(m, p.desc, p.field) <=> Encodes(m, c.desc)
    <3>1. /\ descriptor[p.desc][p.field].ltype = "SUBMESSAGE"
          /\ descriptor[p.desc][p.field].htype = "ONEOF"
      BY <2>1, <2>2, Descriptors DEF Field
    <3> QED
      BY <1>2, <2>2, <3>1 DEF Taken
  <2>5. Before(m, p.desc, p.field) = 0
    BY <2>1, <2>2, NothingBefore
  <2> QED
    BY <1>2, <2>3, <2>4, <2>5 DEF Submessage
<1>4. CASE i = 2
  <2>1. /\ p.desc \in {"deviceConnect", "deviceStatus"} /\ c.desc = "device"
    BY <1>1, <1>4, Levelled
  <2>2. p.field = 1
    <3>1. CASE p.desc = "deviceConnect"
      BY <1>2, <3>1, Descriptors
    <3>2. CASE p.desc = "deviceStatus"
      <4>1. p.field \in {1, 2} /\ descriptor["deviceStatus"][p.field].name = "device"
        BY <1>2, <2>1, <3>2, Descriptors
      <4>2. descriptor["deviceStatus"][2].name = "statusData"
        BY Descriptors DEF Field
      <4> QED
        BY <4>1, <4>2
    <3> QED
      BY <2>1, <3>1, <3>2
  <2>3. FieldSize(m, p.desc, p.field) = Submessage(Size(m, c.desc))
    <3>1. CASE p.desc = "deviceConnect"
      BY <2>1, <2>2, <3>1, FieldSizes, Sizes
    <3>2. CASE p.desc = "deviceStatus"
      BY <2>1, <2>2, <3>2, FieldSizes
    <3> QED
      BY <2>1, <3>1, <3>2
  <2>4. Taken(m, p.desc, p.field) <=> Encodes(m, c.desc)
    <3>1. /\ descriptor[p.desc][p.field].ltype = "SUBMESSAGE"
          /\ descriptor[p.desc][p.field].htype = "OPTIONAL"
      BY <2>1, <2>2, Descriptors DEF Field
    <3> QED
      BY <1>2, <3>1 DEF Taken
  <2> QED
    BY <1>2, <1>4, <2>3, <2>4 DEF Submessage
<1> QED
  BY <1>3, <1>4

\* The submessage of a field that is there lies one level deeper.
LEMMA ChildLevel ==
    ASSUME NEW m, Created(m), NEW i \in 1..3, NEW f \in 1..Len(descriptor[MessageAt(m, i)]),
           descriptor[MessageAt(m, i)][f].ltype = "SUBMESSAGE",
           FieldSize(m, MessageAt(m, i), f) # 0
    PROVE  i \in 1..2 /\ descriptor[MessageAt(m, i)][f].name = MessageAt(m, i + 1)
<1> DEFINE d == MessageAt(m, i)
<1>1. d \in Messages
  BY Levelled, Descriptors
<1>2. /\ descriptor[d][f].name \in Messages
      /\ d # "InternalClient" => descriptor[d][f].name = "device" /\ d # "device"
  BY <1>1, FieldKinds
<1>3. CASE i = 1
  <2>1. d = "InternalClient" /\ f \in 1..2
    BY <1>3, Levelled, Descriptors
  <2>2. f = m.which
    BY <2>1, FieldSizes
  <2> QED
    BY <1>3, <2>1, <2>2, Levelled
<1>4. CASE i = 2
  <2>1. d # "InternalClient" /\ MessageAt(m, i + 1) = "device"
    BY <1>4, Levelled
  <2> QED
    BY <1>2, <1>4, <2>1
<1>5. CASE i = 3
  <2>1. d = "device"
    BY <1>5, Levelled
  <2> QED
    BY <1>2, <2>1
<1> QED
  BY <1>3, <1>4, <1>5

-----------------------------------------------------------------------------
(* The state.                                                              *)

\* While a call runs.
LEMMA Running ==
    ASSUME EncodeInv, rc = "busy"
    PROVE  /\ Created(message) /\ stack \in Seq(Frames) /\ Depth \in 1..3
           /\ Levels(message, buffer.size_in_bytes, stack, step)
           /\ \A i \in 1..Depth : Level(message, buffer.size_in_bytes, i, stack[i])
           /\ \A i \in 1..Depth - 1 : Link(message, stack[i], stack[i + 1])
           /\ Level(message, buffer.size_in_bytes, Depth, Top)
           /\ Innermost(message, Top, step)
<1>1. Created(message)
  BY DEF EncodeInv, CallInv, Created
<1>2. stack \in Seq(Frames) /\ Depth \in Nat /\ Depth >= 1
  BY DEF EncodeInv, CallInv, Depth
<1>3. Levels(message, buffer.size_in_bytes, stack, step)
  BY DEF EncodeInv, LevelsInv
<1>4. /\ Depth <= 3
      /\ \A i \in 1..Depth : Level(message, buffer.size_in_bytes, i, stack[i])
      /\ \A i \in 1..Depth - 1 : Link(message, stack[i], stack[i + 1])
      /\ Innermost(message, stack[Depth], step)
  BY <1>2, <1>3 DEF Levels, Depth
<1> QED
  BY <1>1, <1>2, <1>3, <1>4 DEF Top

\* A stream with a buffer lies on streams with a buffer.
LEMMA SizingAbove ==
    ASSUME EncodeInv, rc = "busy", NEW i \in 1..Depth - 1
    PROVE  stack[i].sizing => stack[i + 1].sizing
BY Running DEF Link

\* The innermost stream has room for the field it is at.
LEMMA RoomOnTop ==
    ASSUME EncodeInv, rc = "busy", ~Top.sizing,
           Top.field \in 1..Len(descriptor[Top.desc]),
           Depth = 1 => Encodable(message)
    PROVE  Before(message, Top.desc, Top.field) + FieldSize(message, Top.desc, Top.field)
               <= Top.max_size
BY Running, RoomForField

\* If the message cannot be encoded, every submessage is counted, and its
\* parent has written one byte.
LEMMA RefusedIsCounted ==
    ASSUME EncodeInv, rc = "busy", ~Encodable(message), Depth > 1
    PROVE  /\ \A i \in 2..Depth : stack[i].sizing
           /\ stack[1].bytes_written = 1
<1> DEFINE m == message
           b == buffer.size_in_bytes
<1>1. /\ Created(m) /\ Depth \in 2..3
      /\ Level(m, b, 1, stack[1]) /\ Level(m, b, 1 + 1, stack[1 + 1])
      /\ Link(m, stack[1], stack[1 + 1])
  BY Running
<1>2. stack[2].sizing
  <2>1. Level(m, b, 2, stack[2]) /\ stack[2].desc = MessageAt(m, 2)
    BY <1>1, LevelFacts
  <2>2. ~Encodes(m, stack[2].desc)
    BY <1>1, <2>1, WholeEncodes
  <2> QED
    BY <2>1, <2>2 DEF Level
<1>3. Depth = 3 => stack[3].sizing
  <2>1. Depth = 3 => 2 \in 1..Depth - 1
    OBVIOUS
  <2> QED
    BY <1>2, <2>1, SizingAbove
<1>4. \A i \in 2..Depth : stack[i].sizing
  <2> TAKE i \in 2..Depth
  <2>1. i = 2 \/ (i = 3 /\ Depth = 3)
    BY <1>1
  <2> QED
    BY <1>2, <1>3, <2>1
<1>5. stack[1].bytes_written = 1
  <2>1. Before(m, stack[1].desc, stack[1].field) = 0
    <3>1. 1 \in 1..2
      OBVIOUS
    <3> HIDE DEF m, b
    <3> QED
      BY <1>1, <3>1, ParentField
  <2>2. stack[1].bytes_written = Before(m, stack[1].desc, stack[1].field) + TagSize + 0
    BY <1>1, <1>2 DEF Link
  <2> QED
    BY <2>1, <2>2 DEF TagSize
<1> QED
  BY <1>4, <1>5

\* The last of a call's invariants, for a step inside the call.
LEMMA CallGoesOn ==
    ASSUME EncodeInv, rc = "busy", UNCHANGED <<message, buffer, rc>>,
           step' \in {"field", "value", "content", "failed"},
           Len(stack') >= 1, stack'[1].sizing = stack[1].sizing
    PROVE  CallInv'
<1>1. /\ message' \in MessageRecords /\ message'.has_device
      /\ buffer' \in [data : BOOLEAN, size_in_bytes : Nat]
      /\ rc' = "busy"
  BY DEF EncodeInv, CallInv
<1>2. Len(stack)' >= 1
  OBVIOUS
<1>3. buffer'.data <=> ~stack'[1].sizing
  BY DEF EncodeInv, CallInv
<1> QED
  BY <1>1, <1>2, <1>3 DEF CallInv, Depth

\* A step that writes, or counts, at the innermost level.
LEMMA TopStep ==
    ASSUME EncodeInv, rc = "busy", step # "failed",
           UNCHANGED <<message, buffer, rc, errmsg>>,
           step' \in {"field", "value", "content"}, NEW t \in Frames,
           stack' = [stack EXCEPT ![Depth] = t], MovedOn(Top, t),
           Level(message, buffer.size_in_bytes, Depth, t),
           Innermost(message, t, step')
    PROVE  EncodeInv'
<1> DEFINE st == stack'
           to == step'
<1>1. /\ stack \in Seq(Frames) /\ Len(stack) > 0 /\ Len(stack) = Depth
      /\ Levels(message, buffer.size_in_bytes, stack, step)
      /\ stack[Len(stack)] = Top
  <2>1. /\ stack \in Seq(Frames) /\ Depth \in 1..3
        /\ Levels(message, buffer.size_in_bytes, stack, step)
    BY Running
  <2>2. Len(stack) = Depth /\ stack[Len(stack)] = Top
    BY DEF Depth, Top
  <2> QED
    BY <2>1, <2>2
<1>2. st = [stack EXCEPT ![Len(stack)] = t]
  BY <1>1
<1> HIDE DEF st, to
<1>3. /\ Level(message, buffer.size_in_bytes, Len(stack), t)
      /\ MovedOn(stack[Len(stack)], t)
      /\ Innermost(message, t, to)
  BY <1>1 DEF to
<1>4. /\ st \in Seq(Frames) /\ Len(st) = Len(stack) /\ st[Len(stack)] = t
      /\ \A i \in 1..Len(stack) : i # Len(stack) => st[i] = stack[i]
      /\ Levels(message, buffer.size_in_bytes, st, to)
  <2> DEFINE e == [stack EXCEPT ![Len(stack)] = t]
  <2>1. /\ e \in Seq(Frames) /\ Len(e) = Len(stack) /\ e[Len(stack)] = t
        /\ \A i \in 1..Len(stack) : i # Len(stack) => e[i] = stack[i]
        /\ Levels(message, buffer.size_in_bytes, e, to)
    BY <1>1, <1>3, TopMoves, Zenon
  <2> QED
    BY <1>2, <2>1, Zenon
<1>5. st[1].sizing = stack[1].sizing
  <2>1. CASE Len(stack) = 1
    BY <1>1, <1>3, <1>4, <2>1 DEF MovedOn
  <2>2. CASE Len(stack) # 1
    BY <1>1, <1>4, <2>2
  <2> QED
    BY <2>1, <2>2
<1>6. CallInv'
  BY <1>1, <1>4, <1>5, CallGoesOn DEF st
<1>7. LevelsInv'
  BY <1>4 DEF LevelsInv, st, to
<1>8. FailedInv'
  BY DEF EncodeInv, FailedInv
<1>9. stack' \in Seq(Frames)
  BY <1>4 DEF st
<1> QED
  BY <1>6, <1>7, <1>8, <1>9 DEF EncodeInv

\* A step that ends the innermost level.
LEMMA LevelEndsStep ==
    ASSUME EncodeInv, rc = "busy", Depth > 1,
           UNCHANGED <<message, buffer, rc, step>>, NEW p \in Frames,
           stack' = Pop(p), MovedOn(Parent, p),
           Level(message, buffer.size_in_bytes, Depth - 1, p),
           Innermost(message, p, step)
    PROVE  /\ stack' \in Seq(Frames) /\ CallInv' /\ LevelsInv'
           /\ Len(stack') = Depth - 1 /\ stack'[Depth - 1] = p
           /\ \A i \in 1..Depth - 1 : i # Depth - 1 => stack'[i] = stack[i]
<1> DEFINE n == Len(stack) - 1
           e == [i \in 1..n |-> IF i = n THEN p ELSE stack[i]]
<1>1. /\ stack \in Seq(Frames) /\ Depth \in 2..3
      /\ Levels(message, buffer.size_in_bytes, stack, step)
  BY Running
<1>2. /\ Len(stack) > 1 /\ MovedOn(stack[Len(stack) - 1], p)
      /\ Level(message, buffer.size_in_bytes, Len(stack) - 1, p)
  BY DEF Depth, Parent
<1>3. /\ e \in Seq(Frames) /\ Len(e) = n /\ e[n] = p
      /\ \A i \in 1..n : i # n => e[i] = stack[i]
      /\ Levels(message, buffer.size_in_bytes, e, step)
  BY <1>1, <1>2, LevelEnds
<1>4. stack' = e /\ n = Depth - 1 /\ n \in 1..2
  BY <1>1 DEF Pop, Depth
<1> HIDE DEF n, e
<1>5. e[1].sizing = stack[1].sizing
  <2>1. CASE n = 1
    <3>1. e[1] = p /\ Parent = stack[1]
      BY <1>3, <1>4, <2>1 DEF Parent
    <3> QED
      BY <3>1 DEF MovedOn
  <2>2. CASE n # 1
    BY <1>3, <1>4, <2>2
  <2> QED
    BY <2>1, <2>2
<1>6. CallInv'
  <2>1. step' \in {"field", "value", "content", "failed"}
    BY DEF EncodeInv, CallInv
  <2> QED
    BY <1>3, <1>4, <1>5, <2>1, CallGoesOn
<1>7. LevelsInv'
  BY <1>3, <1>4, Zenon DEF LevelsInv
<1> QED
  BY <1>3, <1>4, <1>6, <1>7

-----------------------------------------------------------------------------
(* The loop over the fields.                                               *)

LEMMA InField ==
    ASSUME EncodeInv, NEW s \in {"field", "value", "content"}, At(s)
    PROVE  /\ rc = "busy" /\ step = s
           /\ Top.field \in 1..Len(descriptor[Top.desc])
           /\ s \in {"value", "content"} =>
                  FieldSize(message, Top.desc, Top.field) > 0
<1>1. rc = "busy" /\ step = s /\ ~AtEnd
  BY DEF At
<1>2. /\ Created(message) /\ Depth \in 1..3
      /\ Level(message, buffer.size_in_bytes, Depth, Top)
      /\ Innermost(message, Top, step)
  BY <1>1, Running
<1>3. /\ Top.field \in 1..Len(descriptor[Top.desc]) + 1
      /\ Len(descriptor[Top.desc]) \in 1..5
  BY <1>2, LevelFacts
<1>4. CASE s = "field"
  BY <1>1, <1>3, <1>4 DEF AtEnd
<1>5. CASE s \in {"value", "content"}
  BY <1>1, <1>2, <1>5 DEF Innermost
<1> QED
  BY <1>1, <1>4, <1>5

LEMMA SkipFieldKeeps ==
    ASSUME EncodeInv, SkipField
    PROVE  EncodeInv'
<1> DEFINE m == message
           d == Top.desc
           f == Top.field
           t == NextField(Top)
<1>1. /\ rc = "busy" /\ step = "field" /\ f \in 1..Len(descriptor[d])
  BY InField DEF SkipField
<1>2. /\ Created(m) /\ Depth \in 1..3 /\ Top \in Frames /\ d \in Messages
      /\ Level(m, buffer.size_in_bytes, Depth, Top) /\ Innermost(m, Top, step)
  BY <1>1, Running, LevelFacts
<1>3. FieldSize(m, d, f) = 0
  BY <1>1, <1>2, PresentTakesBytes DEF SkipField
<1>4. Taken(m, d, f) /\ Before(m, d, f + 1) = Before(m, d, f)
  <2>1. Before(m, d, f) \in Nat /\ Before(m, d, f + 1) = Before(m, d, f) + 0
    BY <1>1, <1>2, <1>3, Offsets
  <2> QED
    BY <1>1, <1>2, <1>3, <2>1, LeftOut
<1>5. /\ t \in Frames /\ MovedOn(Top, t) /\ t.desc = d /\ t.field = f + 1
      /\ t.bytes_written = Top.bytes_written
  BY <1>2, NextFieldType, MovedOnWrote
<1>6. Level(m, buffer.size_in_bytes, Depth, t)
  BY <1>1, <1>2, <1>4, <1>5, LevelPasses
<1>7. Innermost(m, t, "field")
  BY <1>1, <1>2, <1>4, <1>5 DEF Innermost
<1> HIDE DEF t
<1>8. /\ stack' = [stack EXCEPT ![Depth] = t] /\ step' = "field"
      /\ UNCHANGED <<message, buffer, rc, errmsg>>
  BY <1>1 DEF SkipField, t
<1> QED
  BY <1>1, <1>5, <1>6, <1>7, <1>8, TopStep

\* A write for which the stream has room, by the step it leads to.
LEMMA WriteGoesOn ==
    ASSUME EncodeInv, NEW n \in Nat, NEW next \in {"field", "value", "content"},
           rc = "busy", step # "failed", Write(n, next), UNCHANGED <<message, buffer, rc>>,
           Top.field \in 1..Len(descriptor[Top.desc]),
           Fits(Top, n),
           next = "field" => Taken(message, Top.desc, Top.field),
           \A t \in Frames :
               /\ t.desc = Top.desc
               /\ t.field = IF next = "field" THEN Top.field + 1 ELSE Top.field
               /\ t.bytes_written = Top.bytes_written + n
               => Innermost(message, t, next)
    PROVE  EncodeInv'
<1> DEFINE w == Wrote(Top, n)
           t == IF next = "field" THEN NextField(w) ELSE w
<1>1. /\ Created(message) /\ Depth \in 1..3 /\ Top \in Frames
      /\ Level(message, buffer.size_in_bytes, Depth, Top)
  BY Running, LevelFacts
<1>2. /\ stack' = [stack EXCEPT ![Depth] = t] /\ step' = next
      /\ UNCHANGED errmsg
  BY DEF Write
<1>3. /\ w \in Frames /\ w.desc = Top.desc /\ w.field = Top.field
      /\ w.bytes_written = Top.bytes_written + n
      /\ MovedOn(Top, w) /\ MovedOn(Top, NextField(w))
  BY <1>1, WroteType, MovedOnWrote
<1> HIDE DEF w
<1>4. /\ NextField(w) \in Frames /\ NextField(w).desc = Top.desc
      /\ NextField(w).field = Top.field + 1
      /\ NextField(w).bytes_written = Top.bytes_written + n
  BY <1>3, NextFieldType
<1>5. /\ t \in Frames /\ t.desc = Top.desc /\ MovedOn(Top, t)
      /\ t.field = IF next = "field" THEN Top.field + 1 ELSE Top.field
      /\ t.bytes_written = Top.bytes_written + n
  BY <1>3, <1>4
<1> HIDE DEF t
<1>6. Level(message, buffer.size_in_bytes, Depth, t)
  <2>1. CASE next = "field"
    BY <1>1, <1>5, <2>1, LevelPasses
  <2>2. CASE next # "field"
    BY <1>1, <1>5, <2>2, LevelStays
  <2> QED
    BY <2>1, <2>2
<1>7. Innermost(message, t, next)
  BY <1>5
<1> QED
  BY <1>2, <1>5, <1>6, <1>7, TopStep

LEMMA EncodeTagKeeps ==
    ASSUME EncodeInv, EncodeTag
    PROVE  EncodeInv'
<1> DEFINE m == message
           d == Top.desc
           f == Top.field
           n == VarintSize(8 * f + (IF TheField.ltype = "UVARINT" THEN 0 ELSE 2))
<1>1. /\ rc = "busy" /\ step = "field" /\ f \in 1..Len(descriptor[d])
  BY InField DEF EncodeTag
<1>2. /\ Created(m) /\ Depth \in 1..3 /\ Top \in Frames /\ d \in Messages
      /\ Level(m, buffer.size_in_bytes, Depth, Top)
      /\ Top.bytes_written = Before(m, d, f)
      /\ Top.max_size \in Nat /\ d = MessageAt(m, Depth)
  <2>1. /\ Created(m) /\ Depth \in 1..3 /\ Level(m, buffer.size_in_bytes, Depth, Top)
        /\ Innermost(m, Top, step)
    BY <1>1, Running
  <2>2. Top.bytes_written = Before(m, d, f)
    BY <1>1, <2>1 DEF Innermost
  <2> QED
    BY <2>1, <2>2, LevelFacts
<1>3. n = TagSize
  <2>1. f \in 1..5
    BY <1>1, <1>2, FieldKinds
  <2> QED
    BY <2>1, VarintSizes
<1>4. FieldSize(m, d, f) \in Nat /\ FieldSize(m, d, f) > 0 /\ Before(m, d, f) \in Nat
  <2>1. FieldSize(m, d, f) # 0
    BY <1>1, <1>2, PresentTakesBytes DEF EncodeTag
  <2> QED
    BY <1>1, <1>2, <2>1, Offsets
<1>5. Fits(Top, TagSize)
  <2>1. CASE Top.sizing
    BY <2>1 DEF Fits
  <2>2. CASE ~Top.sizing /\ (Depth = 1 => Encodable(m))
    <3>1. Before(m, d, f) + FieldSize(m, d, f) <= Top.max_size
      BY <1>1, <2>2, RoomOnTop
    <3>2. Before(m, d, f) + 1 <= Top.max_size
      BY <1>2, <1>4, <3>1
    <3> QED
      BY <1>2, <3>2 DEF Fits, TagSize
  <2>3. CASE ~Top.sizing /\ Depth = 1 /\ ~Encodable(m)
    <3>1. Top.max_size = 1
      BY <1>2, <2>3 DEF Level
    <3>2. d = "InternalClient" /\ f \in 1..2
      BY <1>1, <1>2, <2>3, Levelled, Descriptors
    <3>3. f = m.which
      BY <1>2, <1>4, <3>2, FieldSizes
    <3>4. Top.bytes_written = 0
      BY <1>2, <3>2, <3>3, NothingBefore
    <3> QED
      BY <3>1, <3>4 DEF Fits, TagSize
  <2> QED
    BY <2>1, <2>2, <2>3
<1>6. \A t \in Frames :
          /\ t.desc = d /\ t.field = f
          /\ t.bytes_written = Top.bytes_written + TagSize
          => Innermost(m, t, "value")
  BY <1>1, <1>2, <1>4 DEF Innermost
<1>7. Write(TagSize, "value") /\ UNCHANGED <<message, buffer, rc>>
  BY <1>3 DEF EncodeTag
<1> HIDE DEF n
<1> QED
  BY <1>1, <1>5, <1>6, <1>7, WriteGoesOn DEF TagSize

\* A value is written only behind the outermost level, where the stream has
\* room for it.
LEMMA RoomForValue ==
    ASSUME EncodeInv, NEW s \in {"value", "content"}, At(s),
           TheField.ltype # "SUBMESSAGE"
    PROVE  /\ Created(message) /\ Top.desc \in Messages /\ Depth > 1
           /\ Length \in Nat /\ Top.bytes_written \in Nat /\ Top.max_size \in Nat
           /\ Before(message, Top.desc, Top.field) \in Nat
           /\ Before(message, Top.desc, Top.field + 1) =
                  Before(message, Top.desc, Top.field)
                  + FieldSize(message, Top.desc, Top.field)
           /\ ~Top.sizing =>
                  Before(message, Top.desc, Top.field)
                  + FieldSize(message, Top.desc, Top.field) <= Top.max_size
<1> DEFINE m == message
           d == Top.desc
           f == Top.field
<1>1. rc = "busy" /\ step = s /\ f \in 1..Len(descriptor[d])
  BY InField
<1>2. /\ Created(m) /\ Depth \in 1..3 /\ d \in Messages /\ d = MessageAt(m, Depth)
      /\ Top.bytes_written \in Nat /\ Top.max_size \in Nat
  BY <1>1, Running, LevelFacts
<1>3. TheField.name \in Members /\ d # "InternalClient"
  BY <1>1, <1>2, FieldKinds DEF TheField
<1>4. Length \in Nat
  BY <1>2, <1>3, CreatedHas DEF Length
<1>5. Depth > 1
  BY <1>2, <1>3, Levelled
<1>6. ~Top.sizing => Before(m, d, f) + FieldSize(m, d, f) <= Top.max_size
  BY <1>1, <1>5, RoomOnTop
<1>7. /\ Before(m, d, f) \in Nat
      /\ Before(m, d, f + 1) = Before(m, d, f) + FieldSize(m, d, f)
  BY <1>1, <1>2, Offsets
<1> QED
  BY <1>2, <1>4, <1>5, <1>6, <1>7

LEMMA EncodeVarintKeeps ==
    ASSUME EncodeInv, EncodeVarint
    PROVE  EncodeInv'
<1> DEFINE m == message
           d == Top.desc
           f == Top.field
<1>1. /\ rc = "busy" /\ step = "value" /\ f \in 1..Len(descriptor[d])
      /\ FieldSize(m, d, f) > 0
  BY InField DEF EncodeVarint
<1>2. /\ Created(m) /\ d \in Messages
      /\ Length \in Nat /\ Top.max_size \in Nat /\ Before(m, d, f) \in Nat
      /\ Before(m, d, f + 1) = Before(m, d, f) + FieldSize(m, d, f)
      /\ ~Top.sizing => Before(m, d, f) + FieldSize(m, d, f) <= Top.max_size
  BY RoomForValue DEF EncodeVarint
<1>3. FieldSize(m, d, f) = TagSize + Length
  <2>1. descriptor[d][f].ltype = "UVARINT"
    BY DEF EncodeVarint, TheField
  <2> QED
    BY <1>1, <1>2, <2>1, FieldParts DEF Length, TheField
<1>4. Top.bytes_written = Before(m, d, f) + TagSize
  BY <1>1, Running DEF Innermost
<1>5. Fits(Top, Length)
  BY <1>2, <1>3, <1>4 DEF Fits, TagSize
<1>6. Taken(m, d, f)
  BY DEF EncodeVarint, Taken, TheField
<1>7. \A t \in Frames :
          /\ t.desc = d /\ t.field = f + 1
          /\ t.bytes_written = Top.bytes_written + Length
          => Innermost(m, t, "field")
  BY <1>2, <1>3, <1>4 DEF Innermost, TagSize
<1>8. Write(Length, "field") /\ UNCHANGED <<message, buffer, rc>>
  BY DEF EncodeVarint
<1> QED
  BY <1>1, <1>2, <1>5, <1>6, <1>7, <1>8, WriteGoesOn

LEMMA EncodeContentKeeps ==
    ASSUME EncodeInv, EncodeContent
    PROVE  EncodeInv'
<1> DEFINE m == message
           d == Top.desc
           f == Top.field
<1>1. /\ rc = "busy" /\ step = "content" /\ f \in 1..Len(descriptor[d])
      /\ FieldSize(m, d, f) > 0
  BY InField DEF EncodeContent
<1>2. /\ TheField.ltype \in {"STRING", "BYTES"} /\ Taken(m, d, f)
      /\ Top.bytes_written = Before(m, d, f) + TagSize + VarintSize(Length)
  BY <1>1, Running DEF Innermost, TheField, Length
<1>3. /\ Created(m) /\ d \in Messages
      /\ Length \in Nat /\ Top.max_size \in Nat /\ Before(m, d, f) \in Nat
      /\ Before(m, d, f + 1) = Before(m, d, f) + FieldSize(m, d, f)
      /\ ~Top.sizing => Before(m, d, f) + FieldSize(m, d, f) <= Top.max_size
  BY <1>2, RoomForValue DEF EncodeContent
<1>4. FieldSize(m, d, f) = TagSize + VarintSize(Length) + Length
  <2>1. TheField = descriptor[d][f] /\ Length = m.length[TheField.name]
    BY Zenon DEF TheField, Length
  <2> QED
    BY <1>1, <1>2, <1>3, <2>1, FieldParts, Zenon
<1>5. VarintSize(Length) \in 1..5
  BY <1>3, VarintSizes
<1>6. Fits(Top, Length)
  BY <1>2, <1>3, <1>4, <1>5 DEF Fits, TagSize
<1>7. \A t \in Frames :
          /\ t.desc = d /\ t.field = f + 1
          /\ t.bytes_written = Top.bytes_written + Length
          => Innermost(m, t, "field")
  BY <1>2, <1>3, <1>4, <1>5 DEF Innermost, TagSize
<1>8. Write(Length, "field") /\ UNCHANGED <<message, buffer, rc>>
  BY DEF EncodeContent
<1> QED
  BY <1>1, <1>2, <1>3, <1>6, <1>7, <1>8, WriteGoesOn

LEMMA RoomType ==
    ASSUME NEW l
    PROVE  Room(l) \in Nat
BY EncodeAssumption DEF Room

\* A value that is too long is that of a message that cannot be encoded.
LEMMA TooLongIsRefused ==
    ASSUME NEW m, Created(m), NEW i \in 2..3, NEW d \in Messages, d = MessageAt(m, i),
           NEW f \in 1..Len(descriptor[d]), ~Taken(m, d, f)
    PROVE  ~Encodable(m)
<1>1. ~Encodes(m, d)
  BY AllTaken
<1>2. i = 2 \/ i = 3
  OBVIOUS
<1>3. d = MessageAt(m, 2) \/ d = "device"
  BY <1>2, Levelled
<1> QED
  BY <1>1, <1>3, WholeEncodes

LEMMA EncodeLengthKeeps ==
    ASSUME EncodeInv, EncodeLength
    PROVE  EncodeInv'
<1> DEFINE m == message
           d == Top.desc
           f == Top.field
           n == VarintSize(Length)
<1>1. /\ rc = "busy" /\ step = "value" /\ f \in 1..Len(descriptor[d])
      /\ FieldSize(m, d, f) > 0
  BY InField DEF EncodeLength
<1>2. TheField.ltype \in {"STRING", "BYTES"} /\ UNCHANGED <<message, buffer, rc>>
  BY DEF EncodeLength
<1>3. CASE /\ Length > Room(TheField.ltype)
           /\ Fail("value refused") /\ UNCHANGED stack
  <2>1. Created(m) /\ d \in Messages /\ Depth > 1 /\ Length \in Nat
    BY <1>2, RoomForValue DEF EncodeLength
  <2>2. /\ Depth \in 1..3 /\ d = MessageAt(m, Depth)
        /\ Levels(m, buffer.size_in_bytes, stack, step)
    BY <1>1, Running, LevelFacts
  <2>3. ~Taken(m, d, f)
    <3>1. ~(Length <= Room(TheField.ltype))
      <4>1. Length > Room(TheField.ltype) /\ Room(TheField.ltype) \in Nat
        BY <1>3, RoomType, Zenon
      <4> QED
        BY <2>1, <4>1
    <3> QED
      BY <1>2, <3>1 DEF Taken, Length, TheField
  <2>4. ~Encodable(m)
    <3>1. Depth \in 2..3
      BY <2>1, <2>2
    <3> QED
      BY <1>1, <2>1, <2>2, <2>3, <3>1, TooLongIsRefused
  <2>5. /\ \A i \in 2..Depth : stack[i].sizing
        /\ stack[1].bytes_written = 1
    BY <1>1, <2>1, <2>4, RefusedIsCounted
  <2>6. step' = "failed" /\ errmsg' = "value refused" /\ stack' = stack
    BY <1>3 DEF Fail
  <2>7. FailedInv'
    <3>1. ~Encodable(message')
      BY <1>2, <2>4
    <3> QED
      BY <2>5, <2>6, <3>1 DEF FailedInv, Depth
  <2>8. CallInv'
    <3>1. Len(stack') >= 1
      <4>1. Depth >= 1
        BY <2>2
      <4>2. Depth = Len(stack')
        BY <2>6 DEF Depth
      <4> QED
        BY <4>1, <4>2
    <3>2. stack'[1].sizing = stack[1].sizing
      BY <2>6
    <3> QED
      BY <1>1, <1>2, <2>6, <3>1, <3>2, CallGoesOn
  <2>9. LevelsInv'
    <3>1. Levels(m, buffer.size_in_bytes, stack, "failed")
      BY <2>2 DEF Levels, Innermost
    <3> QED
      BY <1>2, <2>6, <3>1 DEF LevelsInv
  <2>10. stack' \in Seq(Frames)
    BY <2>6 DEF EncodeInv
  <2> QED
    BY <2>7, <2>8, <2>9, <2>10 DEF EncodeInv
<1>4. CASE Length <= Room(TheField.ltype) /\ Write(n, "content")
  <2>1. /\ Created(m) /\ d \in Messages
        /\ Length \in Nat /\ Top.max_size \in Nat /\ Before(m, d, f) \in Nat
        /\ ~Top.sizing => Before(m, d, f) + FieldSize(m, d, f) <= Top.max_size
    BY <1>2, RoomForValue DEF EncodeLength
  <2>2. FieldSize(m, d, f) = TagSize + n + Length
    BY <1>1, <1>2, <2>1, FieldParts DEF Length, TheField
  <2>3. n \in 1..5
    BY <2>1, VarintSizes
  <2>4. Top.bytes_written = Before(m, d, f) + TagSize
    BY <1>1, Running DEF Innermost
  <2>5. Fits(Top, n)
    BY <2>1, <2>2, <2>3, <2>4 DEF Fits, TagSize
  <2>6. Taken(m, d, f)
    BY <1>2, <1>4 DEF Taken, TheField, Length
  <2>7. \A t \in Frames :
            /\ t.desc = d /\ t.field = f /\ t.bytes_written = Top.bytes_written + n
            => Innermost(m, t, "content")
    BY <1>1, <1>2, <2>4, <2>6 DEF Innermost, TheField, Length
  <2> HIDE DEF n
  <2> QED
    BY <1>1, <1>2, <1>4, <2>3, <2>5, <2>7, WriteGoesOn
<1> QED
  BY <1>3, <1>4 DEF EncodeLength

-----------------------------------------------------------------------------
(* Submessages.                                                            *)

LEMMA EncodeSubmessageKeeps ==
    ASSUME EncodeInv, EncodeSubmessage
    PROVE  EncodeInv'
<1> DEFINE m == message
           b == buffer.size_in_bytes
           d == Top.desc
           f == Top.field
           c == TheField.name
           t == SIZING(c)
<1>1. /\ rc = "busy" /\ step = "value" /\ f \in 1..Len(descriptor[d])
      /\ FieldSize(m, d, f) > 0
  BY InField DEF EncodeSubmessage
<1>2. /\ Created(m) /\ Depth \in 1..3 /\ d \in Messages /\ d = MessageAt(m, Depth)
      /\ stack \in Seq(Frames) /\ Levels(m, b, stack, step) /\ Innermost(m, Top, step)
      /\ Len(stack) = Depth /\ Top = stack[Len(stack)] /\ stack[1].sizing \in BOOLEAN
      /\ Top.state \in Nat
  <2>1. /\ Created(m) /\ Depth \in 1..3 /\ stack \in Seq(Frames)
        /\ Levels(m, b, stack, step) /\ Innermost(m, Top, step)
        /\ Level(m, b, Depth, Top) /\ Level(m, b, 1, stack[1])
    BY <1>1, Running
  <2> QED
    BY <2>1, LevelFacts DEF Depth, Top
<1>3. TheField.ltype = "SUBMESSAGE"
  BY DEF EncodeSubmessage
<1>4. FieldSize(m, d, f) # 0
  BY <1>1
<1>5. Depth \in 1..2 /\ c = MessageAt(m, Depth + 1)
  BY <1>1, <1>2, <1>3, <1>4, ChildLevel DEF TheField
<1>6. c \in Messages
  BY <1>1, <1>2, <1>3, FieldKinds DEF TheField
<1>7. /\ t \in Frames /\ t.desc = c /\ t.field = 1 /\ t.sizing = TRUE
      /\ t.bytes_written = 0
  <2> HIDE DEF c
  <2> QED
    BY <1>6 DEF SIZING, Stream, Frames
<1> HIDE DEF t
<1>8. Level(m, b, Depth + 1, t)
  <2>1. Len(descriptor[c]) \in 1..5
    BY <1>6, Descriptors
  <2>2. t.field \in 1..Len(descriptor[t.desc]) + 1
    BY <1>7, <2>1
  <2>3. \A k \in 1..Len(descriptor[t.desc]) : ~(k < t.field)
    BY <1>7
  <2> QED
    BY <1>5, <1>7, <2>2, <2>3 DEF Level
<1>9. Link(m, Top, t)
  <2>1. Top.bytes_written = Before(m, d, f) + TagSize
    BY <1>1, <1>2 DEF Innermost
  <2>2. Before(m, d, f) + TagSize + 0 = Before(m, d, f) + TagSize
    BY <1>1, <1>2, Offsets DEF TagSize
  <2> QED
    BY <1>1, <1>7, <2>1, <2>2 DEF Link, TheField
<1>10. Innermost(m, t, "field")
  BY <1>6, <1>7, <1>2, Offsets DEF Innermost
<1>11. /\ stack' = Append(stack, t) /\ step' = "field"
       /\ UNCHANGED <<message, errmsg, buffer, rc>>
  BY DEF EncodeSubmessage, t
<1> DEFINE st == Append(stack, t)
<1>12. /\ st \in Seq(Frames) /\ Len(st) = Depth + 1
       /\ \A i \in 1..Depth : st[i] = stack[i]
       /\ Levels(m, b, st, "field")
  <2>1. /\ Len(stack) \in 1..2 /\ Link(m, stack[Len(stack)], t)
        /\ Level(m, b, Len(stack) + 1, t)
    BY <1>2, <1>5, <1>8, <1>9
  <2>2. /\ st \in Seq(Frames) /\ Len(st) = Len(stack) + 1
        /\ \A i \in 1..Len(stack) : st[i] = stack[i]
    BY <1>2, <1>7
  <2>3. Levels(m, b, st, "field")
    <3>1. stack \in Seq(Frames) /\ t \in Frames /\ Levels(m, b, stack, step)
      BY <1>2, <1>7
    <3> QED
      BY <2>1, <3>1, <1>10, LevelAdded, Zenon
  <2> QED
    BY <1>2, <2>2, <2>3
<1> HIDE DEF st
<1>13. CallInv'
  <2>1. Len(stack') >= 1 /\ stack'[1] = stack[1]
    BY <1>2, <1>11, <1>12 DEF st
  <2> QED
    BY <1>1, <1>11, <2>1, CallGoesOn
<1>14. LevelsInv'
  BY <1>11, <1>12 DEF LevelsInv, st
<1>15. FailedInv'
  BY <1>1, <1>11 DEF EncodeInv, FailedInv
<1> QED
  BY <1>11, <1>12, <1>13, <1>14, <1>15 DEF EncodeInv, st

\* What is known when a submessage has been counted, or written.
LEMMA AtEndOfSubmessage ==
    ASSUME EncodeInv, AtEnd, Depth > 1
    PROVE  /\ rc = "busy" /\ step = "field" /\ Created(message)
           /\ Depth \in 2..3 /\ Depth - 1 \in 1..2
           /\ stack \in Seq(Frames) /\ stack[Depth] = Top /\ stack[Depth - 1] = Parent
           /\ Parent \in Frames /\ Parent.desc \in Messages
           /\ Level(message, buffer.size_in_bytes, Depth - 1, Parent)
           /\ Level(message, buffer.size_in_bytes, Depth, Top)
           /\ Link(message, Parent, Top)
           /\ Top.desc \in Messages /\ Top.desc = MessageAt(message, Depth)
           /\ Top.bytes_written = Size(message, Top.desc) /\ Encodes(message, Top.desc)
           /\ Top.bytes_written \in Nat /\ Top.state \in Nat /\ Top.max_size \in Nat
           /\ Parent.field \in 1..Len(descriptor[Parent.desc])
           /\ Taken(message, Parent.desc, Parent.field)
           /\ Before(message, Parent.desc, Parent.field) \in Nat
           /\ Before(message, Parent.desc, Parent.field + 1) =
                  Before(message, Parent.desc, Parent.field)
                  + TagSize + VarintSize(Top.bytes_written) + Top.bytes_written
           /\ VarintSize(Top.bytes_written) \in 1..5
           /\ FieldSize(message, Parent.desc, Parent.field) =
                  TagSize + VarintSize(Top.bytes_written) + Top.bytes_written
<1> DEFINE m == message
           b == buffer.size_in_bytes
           n == Depth - 1
<1>1. rc = "busy" /\ step = "field" /\ Top.field > Len(descriptor[Top.desc])
  BY DEF AtEnd
<1>2. /\ Created(m) /\ Depth \in 2..3 /\ n \in 1..2 /\ n + 1 = Depth
      /\ stack \in Seq(Frames)
      /\ Level(m, b, n, stack[n]) /\ Level(m, b, Depth, Top)
      /\ Link(m, stack[n], stack[n + 1]) /\ Innermost(m, Top, step)
  <2>1. /\ Created(m) /\ Depth \in 1..3 /\ stack \in Seq(Frames)
        /\ \A i \in 1..Depth : Level(m, b, i, stack[i])
        /\ \A i \in 1..Depth - 1 : Link(m, stack[i], stack[i + 1])
        /\ Level(m, b, Depth, Top) /\ Innermost(m, Top, step)
    BY <1>1, Running
  <2>2. /\ Depth \in 2..3 /\ n \in 1..2 /\ n + 1 = Depth
        /\ n \in 1..Depth /\ n \in 1..Depth - 1
    BY <2>1
  <2> QED
    BY <2>1, <2>2
<1>3. stack[Depth] = Top /\ stack[n] = Parent
  BY DEF Top, Parent
<1> HIDE DEF m, b, n
<1>4. /\ Level(m, b, n, Parent) /\ Link(m, Parent, Top) /\ Level(m, b, n + 1, Top)
      /\ Depth \in 1..3 /\ n \in 1..3
  BY <1>2, <1>3
<1>5. /\ Top.desc \in Messages /\ Top.desc = MessageAt(m, Depth)
      /\ Top.bytes_written \in Nat /\ Top.state \in Nat /\ Top.max_size \in Nat
  BY <1>2, <1>4, LevelFacts
<1>6. Parent \in Frames /\ Parent.desc \in Messages
  BY <1>2, <1>4, LevelFacts
<1>7. Encodes(m, Top.desc) /\ Top.bytes_written = Size(m, Top.desc)
  BY <1>1, <1>2, <1>4, LevelAtEnd
<1>8. /\ Parent.field \in 1..Len(descriptor[Parent.desc])
      /\ FieldSize(m, Parent.desc, Parent.field) =
             TagSize + VarintSize(Size(m, Top.desc)) + Size(m, Top.desc)
      /\ Taken(m, Parent.desc, Parent.field) <=> Encodes(m, Top.desc)
  BY <1>2, <1>4, ParentField
<1>9. VarintSize(Top.bytes_written) \in 1..5
  BY <1>5, VarintSizes
<1>10. /\ Before(m, Parent.desc, Parent.field) \in Nat
       /\ Before(m, Parent.desc, Parent.field + 1) =
              Before(m, Parent.desc, Parent.field) + FieldSize(m, Parent.desc, Parent.field)
  BY <1>2, <1>6, <1>8, Offsets
<1>11. Before(m, Parent.desc, Parent.field + 1) =
           Before(m, Parent.desc, Parent.field)
           + TagSize + VarintSize(Top.bytes_written) + Top.bytes_written
  <2>1. Before(m, Parent.desc, Parent.field + 1) =
            Before(m, Parent.desc, Parent.field)
            + (TagSize + VarintSize(Top.bytes_written) + Top.bytes_written)
    BY <1>7, <1>8, <1>10
  <2> QED
    BY <1>5, <1>9, <1>10, <2>1 DEF TagSize
<1>12. FieldSize(m, Parent.desc, Parent.field) =
           TagSize + VarintSize(Top.bytes_written) + Top.bytes_written
  BY <1>7, <1>8
<1>13. Taken(m, Parent.desc, Parent.field)
  BY <1>7, <1>8
<1> QED
  BY <1>1, <1>2, <1>3, <1>4, <1>5, <1>6, <1>7, <1>8, <1>9, <1>10, <1>11, <1>12, <1>13
     DEF m, b, n

\* The end of a submessage, if the parent then has passed the whole field.
LEMMA SubmessageEnds ==
    ASSUME EncodeInv, AtEnd, Depth > 1, NEW t \in Frames,
           MovedOn(Parent, t), t.field = Parent.field + 1,
           t.bytes_written = Before(message, Parent.desc, Parent.field + 1),
           stack' = Pop(t), UNCHANGED <<message, step, errmsg, buffer, rc>>
    PROVE  EncodeInv'
<1> DEFINE m == message
           b == buffer.size_in_bytes
<1>1. /\ rc = "busy" /\ step = "field" /\ Created(m) /\ Depth - 1 \in 1..3
      /\ Level(m, b, Depth - 1, Parent)
      /\ Parent.field \in 1..Len(descriptor[Parent.desc])
      /\ Taken(m, Parent.desc, Parent.field)
  BY AtEndOfSubmessage
<1>2. Level(m, b, Depth - 1, t)
  BY <1>1, LevelPasses
<1>3. Innermost(m, t, step)
  <2>1. t.desc = Parent.desc
    BY DEF MovedOn
  <2> QED
    BY <1>1, <2>1 DEF Innermost
<1>4. stack' \in Seq(Frames) /\ CallInv' /\ LevelsInv'
  BY <1>1, <1>2, <1>3, LevelEndsStep
<1>5. FailedInv'
  BY <1>1 DEF EncodeInv, FailedInv
<1> QED
  BY <1>4, <1>5 DEF EncodeInv

LEMMA SubmessageSizedKeeps ==
    ASSUME EncodeInv, SubmessageSized
    PROVE  EncodeInv'
<1> DEFINE n == VarintSize(Top.bytes_written) + Top.bytes_written
           w == Wrote(Parent, n)
           t == NextField(w)
<1>1. AtEnd /\ Depth > 1 /\ Top.sizing
  BY DEF SubmessageSized
<1>2. /\ Parent \in Frames /\ Top.bytes_written \in Nat
      /\ VarintSize(Top.bytes_written) \in 1..5
      /\ Link(message, Parent, Top)
      /\ Before(message, Parent.desc, Parent.field) \in Nat
      /\ Before(message, Parent.desc, Parent.field + 1) =
             Before(message, Parent.desc, Parent.field)
             + TagSize + VarintSize(Top.bytes_written) + Top.bytes_written
  BY <1>1, AtEndOfSubmessage
<1>3. n \in Nat
  BY <1>2
<1>4. Before(message, Parent.desc, Parent.field + 1) = Parent.bytes_written + n
  <2>1. Parent.bytes_written = Before(message, Parent.desc, Parent.field) + TagSize + 0
    BY <1>1, <1>2 DEF Link
  <2> QED
    BY <1>2, <2>1 DEF TagSize
<1> HIDE DEF n
<1>5. /\ w \in Frames /\ w.field = Parent.field
      /\ w.bytes_written = Parent.bytes_written + n
      /\ MovedOn(Parent, t)
  BY <1>2, <1>3, WroteType, MovedOnWrote
<1> HIDE DEF w
<1>6. /\ t \in Frames /\ t.field = Parent.field + 1
      /\ t.bytes_written = Parent.bytes_written + n
  BY <1>5, NextFieldType
<1> HIDE DEF t
<1>7. stack' = Pop(t) /\ UNCHANGED <<message, step, errmsg, buffer, rc>>
  BY DEF SubmessageSized, t, w, n
<1> QED
  BY <1>1, <1>4, <1>5, <1>6, <1>7, SubmessageEnds

LEMMA JoinedType ==
    ASSUME Parent \in Frames, Top.bytes_written \in Nat, Top.state \in Nat
    PROVE  /\ Joined \in Frames
           /\ Joined.desc = Parent.desc /\ Joined.field = Parent.field
           /\ Joined.sizing = Parent.sizing /\ Joined.max_size = Parent.max_size
           /\ Joined.bytes_written = Parent.bytes_written + Top.bytes_written
           /\ Joined.state = Top.state
<1> DEFINE p == Parent
           a == p.bytes_written + Top.bytes_written
<1>1. p \in Frames /\ a \in Nat
  BY DEF Frames
<1>2. Joined = [p EXCEPT !.bytes_written = a, !.state = Top.state]
  BY DEF Joined
<1> HIDE DEF p, a
<1>3. Joined = [desc |-> p.desc, field |-> p.field, sizing |-> p.sizing,
                max_size |-> p.max_size, state |-> Top.state, bytes_written |-> a]
  BY <1>1, <1>2 DEF Frames
<1>4. Joined \in Frames
  BY <1>1, <1>3 DEF Frames
<1> QED
  BY <1>3, <1>4 DEF p, a

LEMMA SubmessageWrittenKeeps ==
    ASSUME EncodeInv, SubmessageWritten
    PROVE  EncodeInv'
<1> DEFINE t == NextField(Joined)
<1>1. AtEnd /\ Depth > 1 /\ ~Top.sizing
  BY DEF SubmessageWritten
<1>2. /\ Parent \in Frames /\ Top.bytes_written \in Nat /\ Top.state \in Nat
      /\ VarintSize(Top.bytes_written) \in 1..5 /\ Depth \in 2..3
      /\ Link(message, Parent, Top) /\ Level(message, buffer.size_in_bytes, Depth, Top)
      /\ Top.bytes_written = Size(message, Top.desc)
      /\ Before(message, Parent.desc, Parent.field) \in Nat
      /\ Before(message, Parent.desc, Parent.field + 1) =
             Before(message, Parent.desc, Parent.field)
             + TagSize + VarintSize(Top.bytes_written) + Top.bytes_written
  BY <1>1, AtEndOfSubmessage
<1>3. Top.max_size = Top.bytes_written
  BY <1>1, <1>2 DEF Level
<1>4. stack' = Pop(t) /\ UNCHANGED <<message, step, errmsg, buffer, rc>>
  BY <1>3 DEF SubmessageWritten
<1>5. Parent.bytes_written + Top.bytes_written =
          Before(message, Parent.desc, Parent.field + 1)
  <2>1. Parent.bytes_written = Before(message, Parent.desc, Parent.field) + TagSize
                               + VarintSize(Top.max_size)
    BY <1>1, <1>2 DEF Link
  <2> QED
    BY <1>2, <1>3, <2>1 DEF TagSize
<1>6. /\ Parent.state \in Nat /\ Parent.bytes_written \in Nat /\ ~Parent.sizing
      /\ Top.state = Parent.state + Top.bytes_written
  BY <1>1, <1>2 DEF Link, Frames
<1>7. /\ Joined \in Frames
      /\ Joined.desc = Parent.desc /\ Joined.field = Parent.field
      /\ Joined.sizing = Parent.sizing /\ Joined.max_size = Parent.max_size
      /\ Joined.bytes_written = Parent.bytes_written + Top.bytes_written
      /\ Joined.state = Top.state
  BY <1>2, JoinedType
<1>8. /\ t \in Frames /\ t.field = Parent.field + 1 /\ t.state = Top.state
      /\ t.desc = Parent.desc /\ t.sizing = Parent.sizing /\ t.max_size = Parent.max_size
      /\ t.bytes_written = Parent.bytes_written + Top.bytes_written
  BY <1>7, NextFieldType
<1> HIDE DEF t
<1>9. MovedOn(Parent, t)
  <2>1. t.state + Parent.bytes_written = Parent.state + t.bytes_written
    BY <1>2, <1>6, <1>8
  <2> QED
    BY <1>8, <2>1 DEF MovedOn
<1> QED
  BY <1>1, <1>4, <1>5, <1>8, <1>9, SubmessageEnds

LEMMA SubmessageStartedKeeps ==
    ASSUME EncodeInv, SubmessageStarted
    PROVE  EncodeInv'
<1> DEFINE m == message
           b == buffer.size_in_bytes
           size == Top.bytes_written
           length == VarintSize(size)
           n == Depth - 1
           w == Wrote(Parent, length)
           e == Pop(w)
           c == Stream(Top.desc, FALSE, size, w.state)
<1>1. AtEnd /\ Depth > 1 /\ Top.sizing /\ ~Parent.sizing
  BY DEF SubmessageStarted
<1>2. /\ rc = "busy" /\ step = "field" /\ Created(m) /\ Depth \in 2..3 /\ n \in 1..2
      /\ stack \in Seq(Frames) /\ stack[n] = Parent /\ Parent \in Frames
      /\ Level(m, b, n, Parent) /\ Link(m, Parent, Top)
      /\ Top.desc \in Messages /\ Top.desc = MessageAt(m, Depth)
      /\ size = Size(m, Top.desc) /\ Encodes(m, Top.desc)
      /\ size \in Nat /\ length \in 1..5
      /\ Parent.field \in 1..Len(descriptor[Parent.desc])
      /\ Before(m, Parent.desc, Parent.field) \in Nat
      /\ FieldSize(m, Parent.desc, Parent.field) = TagSize + length + size
  BY <1>1, AtEndOfSubmessage
<1>3. /\ Parent.bytes_written = Before(m, Parent.desc, Parent.field) + TagSize
      /\ descriptor[Parent.desc][Parent.field].name = Top.desc
  <2>1. Parent.bytes_written = Before(m, Parent.desc, Parent.field) + TagSize + 0
    BY <1>1, <1>2 DEF Link
  <2>2. descriptor[Parent.desc][Parent.field].name = Top.desc
    BY <1>2 DEF Link
  <2> QED
    BY <1>2, <2>1, <2>2 DEF TagSize
<1>4. Fits(Parent, length + size) /\ Fits(Parent, length)
  <2>1. n = 1 => Encodable(m)
    <3>1. n = 1 => Top.desc = MessageAt(m, 2)
      BY <1>2
    <3> QED
      BY <1>2, <3>1, WholeEncodes
  <2>2. Before(m, Parent.desc, Parent.field) + FieldSize(m, Parent.desc, Parent.field)
            <= Parent.max_size
    <3>1. n \in 1..3
      BY <1>2
    <3> HIDE DEF n
    <3> QED
      BY <1>1, <1>2, <2>1, <3>1, RoomForField
  <2>3. Parent.max_size \in Nat
    BY <1>2 DEF Frames
  <2>4. /\ Parent.bytes_written + (length + size) <= Parent.max_size
        /\ Parent.bytes_written + length <= Parent.max_size
    <3> DEFINE before == Before(m, Parent.desc, Parent.field)
               field == FieldSize(m, Parent.desc, Parent.field)
    <3>1. /\ before \in Nat /\ field = 1 + length + size
          /\ Parent.bytes_written = before + 1
          /\ size \in Nat /\ length \in Nat /\ before + field <= Parent.max_size
      BY <1>2, <1>3, <2>2 DEF TagSize
    <3> HIDE DEF before, field, size, length
    <3> QED
      BY <2>3, <3>1
  <2> QED
    BY <2>4 DEF Fits
<1>5. /\ stack' = Append(e, c)
      /\ UNCHANGED <<message, step, errmsg, buffer, rc>>
  BY <1>4 DEF SubmessageStarted
<1>6. /\ w \in Frames /\ w.desc = Parent.desc /\ w.field = Parent.field
      /\ w.sizing = Parent.sizing /\ w.state \in Nat
      /\ w.bytes_written = Parent.bytes_written + length
      /\ MovedOn(Parent, w)
  <2>1. length \in Nat
    BY <1>2
  <2> HIDE DEF length
  <2>2. /\ w \in Frames /\ w.desc = Parent.desc /\ w.field = Parent.field
        /\ w.sizing = Parent.sizing /\ w.bytes_written = Parent.bytes_written + length
        /\ MovedOn(Parent, w)
    BY <1>2, <2>1, WroteType, MovedOnWrote
  <2>3. w.state \in Nat
    BY <2>2 DEF Frames
  <2> QED
    BY <2>2, <2>3
<1> HIDE DEF w
<1>7. /\ c \in Frames /\ c.desc = Top.desc /\ c.field = 1 /\ ~c.sizing
      /\ c.max_size = size /\ c.bytes_written = 0 /\ c.state = w.state
  <2> HIDE DEF size
  <2> QED
    BY <1>2, <1>6 DEF Stream, Frames
<1> HIDE DEF c
<1>8. /\ e \in Seq(Frames) /\ Len(e) = n /\ e[n] = w
      /\ \A i \in 1..n : i # n => e[i] = stack[i]
      /\ Levels(m, b, e, "failed")
  <2>1. Levels(m, b, stack, step)
    BY <1>2, Running
  <2>2. Level(m, b, n, w)
    BY <1>2, <1>6, LevelStays
  <2>3. Innermost(m, w, "failed")
    BY DEF Innermost
  <2>4. /\ Len(stack) > 1 /\ n = Len(stack) - 1
        /\ MovedOn(stack[Len(stack) - 1], w) /\ Level(m, b, Len(stack) - 1, w)
    <3>1. Depth = Len(stack) /\ Parent = stack[Len(stack) - 1]
      BY DEF Depth, Parent
    <3>2. n = Len(stack) - 1 /\ Len(stack) > 1
      BY <1>2, <3>1
    <3> HIDE DEF n
    <3> QED
      BY <1>6, <2>2, <3>1, <3>2
  <2>5. e = [i \in 1..n |-> IF i = n THEN w ELSE stack[i]]
    BY DEF Pop
  <2> HIDE DEF n, e, b, m
  <2> QED
    BY <1>2, <1>6, <2>1, <2>3, <2>4, <2>5, LevelEnds
<1>9. Link(m, w, c)
  <2>1. w.bytes_written = Before(m, w.desc, w.field) + TagSize + VarintSize(c.max_size)
    BY <1>2, <1>3, <1>6, <1>7 DEF TagSize
  <2>2. c.state = w.state + c.bytes_written
    BY <1>6, <1>7
  <2>3. /\ w.field \in 1..Len(descriptor[w.desc])
        /\ descriptor[w.desc][w.field].name = c.desc
    BY <1>2, <1>3, <1>6, <1>7
  <2>4. ~w.sizing
    BY <1>1, <1>6
  <2> QED
    BY <1>7, <2>1, <2>2, <2>3, <2>4 DEF Link
<1>10. Level(m, b, n + 1, c)
  <2>1. c.desc = MessageAt(m, n + 1)
    BY <1>2, <1>7
  <2>2. Len(descriptor[c.desc]) \in 1..5
    BY <1>2, <1>7, Descriptors
  <2>3. c.field \in 1..Len(descriptor[c.desc]) + 1
    BY <1>7, <2>2
  <2>4. \A k \in 1..Len(descriptor[c.desc]) : ~(k < c.field)
    BY <1>7
  <2>5. c.max_size = Size(m, c.desc) /\ Encodes(m, c.desc) /\ n + 1 # 1
    BY <1>2, <1>7
  <2> QED
    BY <1>7, <2>1, <2>3, <2>4, <2>5 DEF Level
<1>11. Innermost(m, c, "field")
  BY <1>2, <1>7, Offsets DEF Innermost
<1> HIDE DEF e
<1> DEFINE st == Append(e, c)
<1>12. /\ st \in Seq(Frames) /\ Len(st) = n + 1
       /\ \A i \in 1..n : st[i] = e[i]
  BY <1>2, <1>7, <1>8
<1>13. Levels(m, b, st, "field")
  <2>1. e[n] = w /\ n = Len(e) /\ n \in 1..2 /\ Levels(m, b, e, "failed")
    BY <1>2, <1>8
  <2>2. Link(m, e[n], c) /\ e \in Seq(Frames) /\ c \in Frames
    BY <1>7, <1>8, <1>9
  <2> HIDE DEF n, m, b
  <2> QED
    BY <1>10, <1>11, <2>1, <2>2, LevelAdded, Zenon
<1> HIDE DEF st
<1>14. st[1].sizing = stack[1].sizing
  <2>1. st[1] = e[1]
    BY <1>2, <1>12
  <2>2. CASE n = 1
    BY <1>2, <1>6, <1>8, <2>1, <2>2
  <2>3. CASE n = 2
    BY <1>8, <2>1, <2>3
  <2> QED
    BY <1>2, <2>2, <2>3
<1>15. CallInv'
  <2>1. Len(stack') >= 1 /\ stack'[1].sizing = stack[1].sizing
    BY <1>2, <1>5, <1>12, <1>14 DEF st
  <2>2. step' = "field"
    BY <1>2, <1>5
  <2> QED
    BY <1>2, <1>5, <2>1, <2>2, CallGoesOn
<1>16. LevelsInv'
  <2>1. step' = "field" /\ stack' = st
    BY <1>2, <1>5 DEF st
  <2> QED
    BY <1>5, <1>13, <2>1, Zenon DEF LevelsInv
<1>17. FailedInv'
  BY <1>2, <1>5 DEF EncodeInv, FailedInv
<1> QED
  BY <1>5, <1>12, <1>15, <1>16, <1>17 DEF EncodeInv, st

LEMMA SubmessageFailedKeeps ==
    ASSUME EncodeInv, SubmessageFailed
    PROVE  EncodeInv'
<1> DEFINE m == message
           b == buffer.size_in_bytes
<1>1. rc = "busy" /\ step = "failed" /\ Depth > 1
  BY DEF SubmessageFailed
<1>2. /\ Depth \in 2..3 /\ Parent \in Frames /\ Level(m, b, Depth - 1, Parent)
      /\ stack[Depth - 1] = Parent
  <2>1. /\ Created(m) /\ Depth \in 1..3
        /\ \A i \in 1..Depth : Level(m, b, i, stack[i])
    BY <1>1, Running
  <2>2. Depth \in 2..3 /\ Depth - 1 \in 1..Depth
    BY <1>1, <2>1
  <2>3. Level(m, b, Depth - 1, Parent) /\ stack[Depth - 1] = Parent
    BY <2>1, <2>2 DEF Parent
  <2> QED
    BY <2>2, <2>3 DEF Level
<1>3. /\ ~Encodable(m) /\ errmsg = "value refused" /\ stack[1].bytes_written = 1
      /\ \A i \in 2..Depth : stack[i].sizing
  BY <1>1 DEF EncodeInv, FailedInv
<1>4. Top.sizing
  <2>1. Depth \in 2..Depth
    BY <1>2
  <2> QED
    BY <1>3, <2>1 DEF Top
<1>5. stack' = Pop(Parent) /\ UNCHANGED <<message, step, errmsg, buffer, rc>>
  BY <1>4 DEF SubmessageFailed
<1>6. MovedOn(Parent, Parent)
  BY DEF MovedOn
<1>7. Innermost(m, Parent, step)
  BY <1>1 DEF Innermost
<1>8. /\ stack' \in Seq(Frames) /\ CallInv' /\ LevelsInv'
      /\ Len(stack') = Depth - 1 /\ stack'[Depth - 1] = Parent
      /\ \A i \in 1..Depth - 1 : i # Depth - 1 => stack'[i] = stack[i]
  BY <1>1, <1>2, <1>5, <1>6, <1>7, LevelEndsStep
<1>9. \A i \in 1..Depth - 1 : stack'[i] = stack[i]
  BY <1>2, <1>8
<1>10. FailedInv'
  <2>1. stack'[1].bytes_written = 1
    <3>1. 1 \in 1..Depth - 1
      BY <1>2
    <3> QED
      BY <1>3, <1>9, <3>1
  <2>2. \A i \in 2..Len(stack') : stack'[i].sizing
    <3> TAKE i \in 2..Len(stack')
    <3>1. i \in 1..Depth - 1 /\ i \in 2..Depth
      BY <1>2, <1>8
    <3> QED
      BY <1>3, <1>9, <3>1
  <2>3. ~Encodable(message') /\ errmsg' = "value refused" /\ step' = "failed"
    BY <1>1, <1>3, <1>5
  <2> QED
    BY <2>1, <2>2, <2>3 DEF FailedInv, Depth
<1> QED
  BY <1>8, <1>10 DEF EncodeInv

-----------------------------------------------------------------------------
(* Begin and end of a pass.                                                *)

LEMMA NewPass ==
    ASSUME NEW m, Created(m), NEW b \in Nat, NEW c \in Frames,
           c.desc = "InternalClient", c.field = 1, c.bytes_written = 0, c.state = 0,
           ~c.sizing => /\ c.max_size = b
                        /\ b = IF Encodable(m) THEN EncodedSize(m) ELSE 1
    PROVE  Levels(m, b, <<c>>, "field")
<1>1. c.desc \in Messages /\ Len(descriptor[c.desc]) = 2 /\ c.desc = MessageAt(m, 1)
  BY Descriptors, Levelled
<1>2. c.field \in 1..Len(descriptor[c.desc]) + 1
  BY <1>1
<1>3. \A f \in 1..Len(descriptor[c.desc]) : ~(f < c.field)
  BY <1>1
<1>4. Level(m, b, 1, c)
  BY <1>1, <1>2, <1>3 DEF Level
<1>5. Innermost(m, c, "field")
  BY <1>1, Offsets DEF Innermost
<1> DEFINE st == <<c>>
<1>6. Len(st) = 1 /\ st[1] = c
  OBVIOUS
<1> HIDE DEF st
<1>7. \A i \in 1..Len(st) : i = 1
  BY <1>6
<1>8. Levels(m, b, st, "field")
  <2>1. \A i \in 1..Len(st) : Level(m, b, i, st[i])
    BY <1>4, <1>6, <1>7
  <2>2. \A i \in 1..Len(st) - 1 : Link(m, st[i], st[i + 1])
    BY <1>6
  <2>3. Innermost(m, st[Len(st)], "field") /\ Len(st) <= 3
    BY <1>5, <1>6
  <2>4. st[1].state = st[1].bytes_written
    BY <1>6
  <2> QED
    BY <2>1, <2>2, <2>3, <2>4 DEF Levels
<1> QED
  BY <1>8 DEF st

LEMMA SerializeKeeps ==
    ASSUME EncodeInv, NEW m \in createInternalConnect \cup createInternalStatus,
           Serialize(m)
    PROVE  EncodeInv'
<1> DEFINE c == SIZING("InternalClient")
           st == <<c>>
<1>1. Created(m)
  BY MessagesAreCreated
<1>2. /\ c \in Frames /\ c.desc = "InternalClient" /\ c.field = 1
      /\ c.bytes_written = 0 /\ c.state = 0 /\ c.sizing
  BY Descriptors DEF SIZING, Stream, Frames
<1>3. rc' = "busy" /\ message' = m /\ step' = "field" /\ errmsg' = "none" /\ stack' = st
  BY DEF Serialize
<1>4. buffer' = [data |-> FALSE, size_in_bytes |-> 0]
  BY DEF Serialize, NoBuffer
<1> HIDE DEF c
<1>5. Levels(m, 0, st, "field")
  BY <1>1, <1>2, NewPass
<1>6. Len(st) = 1 /\ st[1] = c /\ st \in Seq(Frames)
  BY <1>2
<1> HIDE DEF st
<1>7. CallInv'
  <2>1. message' \in MessageRecords /\ message'.has_device
    BY <1>1, <1>3 DEF Created
  <2>2. buffer' \in [data : BOOLEAN, size_in_bytes : Nat]
    BY <1>4
  <2>3. ~buffer'.data /\ stack'[1].sizing
    BY <1>2, <1>3, <1>4, <1>6
  <2>4. buffer'.data <=> ~stack'[1].sizing
    BY <2>3
  <2>5. Len(stack') >= 1
    BY <1>3, <1>6
  <2> QED
    BY <1>3, <2>1, <2>2, <2>4, <2>5 DEF CallInv, Depth
<1>8. LevelsInv'
  <2>1. buffer'.size_in_bytes = 0
    BY <1>4
  <2> QED
    BY <1>3, <1>5, <2>1, Zenon DEF LevelsInv
<1>9. FailedInv'
  BY <1>3 DEF FailedInv
<1>10. stack' \in Seq(Frames)
  BY <1>3, <1>6
<1> QED
  BY <1>7, <1>8, <1>9, <1>10 DEF EncodeInv

\* What a pass that has returned says of the message.
LEMMA PassReturns ==
    ASSUME EncodeInv, Returned
    PROVE  /\ rc = "busy" /\ Depth = 1 /\ Top = stack[1] /\ Created(message)
           /\ Level(message, buffer.size_in_bytes, 1, Top)
           /\ Top.bytes_written \in Nat /\ Top.bytes_written =
                  IF Encodable(message) THEN EncodedSize(message) ELSE 1
           /\ \/ AtEnd /\ step = "field" /\ Encodable(message)
              \/ step = "failed" /\ ~Encodable(message)
           /\ Top.field \in 1..Len(descriptor[Top.desc]) + 1
<1>1. rc = "busy" /\ Depth = 1 /\ (AtEnd \/ step = "failed") /\ Top = stack[1]
  BY DEF Returned, Top
<1>2. /\ Created(message) /\ Level(message, buffer.size_in_bytes, Depth, Top)
      /\ Innermost(message, Top, step)
  BY <1>1, Running
<1>3. /\ Level(message, buffer.size_in_bytes, 1, Top)
      /\ Top.bytes_written \in Nat /\ Top.desc = "InternalClient"
      /\ Top.field \in 1..Len(descriptor[Top.desc]) + 1
  BY <1>1, <1>2, LevelFacts, Levelled
<1>4. CASE step = "failed"
  <2>1. ~Encodable(message) /\ stack[1].bytes_written = 1
    BY <1>4 DEF EncodeInv, FailedInv
  <2> QED
    BY <1>1, <1>2, <1>3, <1>4, <2>1
<1>5. CASE AtEnd
  <2>1. step = "field" /\ Top.field > Len(descriptor[Top.desc])
    BY <1>5 DEF AtEnd
  <2>2. Innermost(message, Top, "field")
    BY <1>2, <2>1
  <2>3. Encodes(message, Top.desc) /\ Top.bytes_written = Size(message, Top.desc)
    <3>1. 1 \in 1..3 /\ Created(message)
      BY <1>2
    <3>2. Level(message, buffer.size_in_bytes, 1, Top)
      BY <1>3
    <3> QED
      BY <2>1, <2>2, <3>1, <3>2, LevelAtEnd, Zenon
  <2>4. Encodable(message) /\ Top.bytes_written = EncodedSize(message)
    BY <1>2, <1>3, <2>3, WholeEncodes DEF Size
  <2> QED
    BY <1>1, <1>2, <1>3, <1>5, <2>1, <2>4
<1> QED
  BY <1>1, <1>4, <1>5

LEMMA AllocateKeeps ==
    ASSUME EncodeInv, Allocate
    PROVE  EncodeInv'
<1> DEFINE n == Top.bytes_written
           c == Stream("InternalClient", FALSE, n, 0)
           st == <<c>>
<1>1. /\ rc = "busy" /\ Depth = 1 /\ Top = stack[1] /\ Created(message)
      /\ n \in Nat /\ n = IF Encodable(message) THEN EncodedSize(message) ELSE 1
  BY PassReturns DEF Allocate
<1>2. message' = message /\ Top.sizing
  BY DEF Allocate
<1>3. CASE /\ buffer' = [data |-> TRUE, size_in_bytes |-> n]
           /\ stack' = st /\ step' = "field" /\ errmsg' = "none" /\ UNCHANGED rc
  <2> HIDE DEF n
  <2>1. /\ c \in Frames /\ c.desc = "InternalClient" /\ c.field = 1
        /\ c.bytes_written = 0 /\ c.state = 0 /\ ~c.sizing /\ c.max_size = n
    BY <1>1, Descriptors DEF Stream, Frames
  <2> HIDE DEF c
  <2>2. Levels(message, n, st, "field")
    BY <1>1, <2>1, NewPass
  <2>3. Len(st) = 1 /\ st[1] = c /\ st \in Seq(Frames)
    BY <2>1
  <2> HIDE DEF st
  <2>4. CallInv'
    <3>1. message' \in MessageRecords /\ message'.has_device
      BY <1>1, <1>2 DEF Created
    <3>2. buffer' \in [data : BOOLEAN, size_in_bytes : Nat] /\ buffer'.data
      BY <1>1, <1>3
    <3>3. buffer'.data <=> ~stack'[1].sizing
      BY <1>3, <2>1, <2>3, <3>2
    <3>4. Len(stack') >= 1 /\ rc' = "busy" /\ step' = "field"
      BY <1>1, <1>3, <2>3
    <3> QED
      BY <3>1, <3>2, <3>3, <3>4 DEF CallInv, Depth
  <2>5. LevelsInv'
    <3>1. /\ buffer'.size_in_bytes = n /\ stack' = st /\ step' = "field"
          /\ message' = message
      BY <1>2, <1>3
    <3> QED
      BY <2>2, <3>1, Zenon DEF LevelsInv
  <2>6. FailedInv'
    BY <1>3 DEF FailedInv
  <2>7. stack' \in Seq(Frames)
    BY <1>3, <2>3
  <2> QED
    BY <2>4, <2>5, <2>6, <2>7 DEF EncodeInv
<1>4. CASE rc' = "NOT_OK" /\ UNCHANGED <<stack, step, errmsg, buffer>>
  <2>1. ~buffer'.data
    BY <1>1, <1>2, <1>4 DEF EncodeInv, CallInv
  <2>2. CallInv'
    <3>1. /\ message' \in MessageRecords /\ message'.has_device
          /\ step' \in {"field", "value", "content", "failed"}
          /\ buffer' \in [data : BOOLEAN, size_in_bytes : Nat]
      BY <1>2, <1>4 DEF EncodeInv, CallInv
    <3>2. Len(stack') = 1
      BY <1>1, <1>4 DEF Depth
    <3>3. buffer'.data <=> ~stack'[1].sizing
      BY <1>1, <1>2, <1>4, <2>1
    <3> QED
      BY <1>4, <2>1, <3>1, <3>2, <3>3 DEF CallInv, Depth
  <2>3. LevelsInv' /\ FailedInv' /\ stack' \in Seq(Frames)
    BY <1>2, <1>4 DEF EncodeInv, LevelsInv, FailedInv, Depth
  <2> QED
    BY <2>2, <2>3 DEF EncodeInv
<1> QED
  BY <1>3, <1>4 DEF Allocate

LEMMA FinishKeeps ==
    ASSUME EncodeInv, Finish
    PROVE  EncodeInv'
<1>1. /\ rc = "busy" /\ Depth = 1 /\ Top = stack[1]
      /\ \/ AtEnd /\ step = "field"
         \/ step = "failed"
      /\ Top.field \in 1..Len(descriptor[Top.desc]) + 1
  BY PassReturns DEF Finish
<1>2. /\ ~Top.sizing /\ UNCHANGED <<message, stack, step, errmsg, buffer>>
      /\ rc' = IF step = "failed" THEN "NOT_OK" ELSE "OK"
  BY DEF Finish
<1>3. CallInv'
  <2>1. /\ message' \in MessageRecords /\ message'.has_device
        /\ step' \in {"field", "value", "content", "failed"}
        /\ buffer' \in [data : BOOLEAN, size_in_bytes : Nat]
        /\ buffer'.data <=> ~stack'[1].sizing
    BY <1>1, <1>2 DEF EncodeInv, CallInv
  <2>2. Len(stack') = 1 /\ Top' = Top
    BY <1>1, <1>2 DEF Depth, Top
  <2>3. CASE step = "failed"
    BY <1>2, <2>1, <2>2, <2>3 DEF CallInv, Depth
  <2>4. CASE AtEnd /\ step = "field"
    <3>1. Top.field = Len(descriptor[Top.desc]) + 1
      <4>1. Top.field > Len(descriptor[Top.desc])
        BY <2>4 DEF AtEnd
      <4>2. Len(descriptor[Top.desc]) \in Nat
        BY PassReturns, LevelFacts DEF Finish
      <4> QED
        BY <1>1, <4>1, <4>2
    <3>2. ~Top'.sizing /\ Top'.field = Len(descriptor[Top'.desc]) + 1
      BY <1>2, <2>2, <3>1
    <3> QED
      BY <1>2, <2>1, <2>2, <2>4, <3>2 DEF CallInv, Depth
  <2> QED
    BY <1>1, <2>3, <2>4
<1>4. LevelsInv' /\ FailedInv' /\ stack' \in Seq(Frames)
  BY <1>2 DEF EncodeInv, LevelsInv, FailedInv, Depth
<1> QED
  BY <1>3, <1>4 DEF EncodeInv

-----------------------------------------------------------------------------
(* The invariant, and what it implies.                                     *)

LEMMA InitEncode ==
    ASSUME Init
    PROVE  EncodeInv
<1>1. Created(message) /\ stack = <<>> /\ Len(stack) = 0
  BY MessagesAreCreated DEF Init
<1>2. step = "field" /\ errmsg = "none" /\ rc = "none"
  BY DEF Init
<1>3. buffer \in [data : BOOLEAN, size_in_bytes : Nat]
  BY DEF Init, NoBuffer
<1>4. CallInv
  BY <1>1, <1>2, <1>3 DEF CallInv, Created, Depth
<1>5. LevelsInv
  BY <1>1 DEF LevelsInv, Levels
<1>6. FailedInv
  BY <1>2 DEF FailedInv
<1>7. stack \in Seq(Frames)
  BY <1>1
<1> QED
  BY <1>4, <1>5, <1>6, <1>7 DEF EncodeInv

LEMMA NextEncode ==
    ASSUME EncodeInv, [Next]_vars
    PROVE  EncodeInv'
<1>1. CASE SkipField
  BY <1>1, SkipFieldKeeps
<1>2. CASE EncodeTag
  BY <1>2, EncodeTagKeeps
<1>3. CASE EncodeVarint
  BY <1>3, EncodeVarintKeeps
<1>4. CASE EncodeLength
  BY <1>4, EncodeLengthKeeps
<1>5. CASE EncodeContent
  BY <1>5, EncodeContentKeeps
<1>6. CASE EncodeSubmessage
  BY <1>6, EncodeSubmessageKeeps
<1>7. CASE SubmessageSized
  BY <1>7, SubmessageSizedKeeps
<1>8. CASE SubmessageStarted
  BY <1>8, SubmessageStartedKeeps
<1>9. CASE SubmessageWritten
  BY <1>9, SubmessageWrittenKeeps
<1>10. CASE SubmessageFailed
  BY <1>10, SubmessageFailedKeeps
<1>11. CASE Allocate
  BY <1>11, AllocateKeeps
<1>12. CASE Finish
  BY <1>12, FinishKeeps
<1>13. ASSUME NEW m \in createInternalConnect \cup createInternalStatus, Serialize(m)
       PROVE  EncodeInv'
  BY <1>13, SerializeKeeps
<1>14. CASE UNCHANGED vars
  <2>1. UNCHANGED <<message, stack, step, errmsg, buffer, rc>>
    BY <1>14 DEF vars
  <2>2. LevelsInv' /\ FailedInv' /\ stack' \in Seq(Frames)
    BY <2>1 DEF EncodeInv, LevelsInv, FailedInv, Depth
  <2>3. CallInv'
    <3>1. Top' = Top /\ Depth' = Depth
      BY <2>1 DEF Top, Depth
    <3> QED
      BY <2>1, <3>1 DEF EncodeInv, CallInv
  <2> QED
    BY <2>2, <2>3 DEF EncodeInv
<1> QED
  BY <1>1, <1>2, <1>3, <1>4, <1>5, <1>6, <1>7, <1>8, <1>9, <1>10, <1>11, <1>12,
     <1>13, <1>14 DEF Next, Steps

LEMMA Encoding == Spec => []EncodeInv
<1>1. Init => EncodeInv
  BY InitEncode
<1>2. EncodeInv /\ [Next]_vars => EncodeInv'
  BY NextEncode
<1> QED
  BY <1>1, <1>2, PTL DEF Spec

\* The invariant between calls, too: what is known of every level.
LEMMA EveryLevel ==
    ASSUME EncodeInv
    PROVE  /\ Created(message) /\ stack \in Seq(Frames) /\ Depth \in 0..3
           /\ \A i \in 1..Depth : Level(message, buffer.size_in_bytes, i, stack[i])
           /\ \A i \in 1..Depth - 1 : Link(message, stack[i], stack[i + 1])
           /\ Depth >= 1 => /\ Innermost(message, Top, step)
                            /\ ~stack[1].sizing => stack[1].state = stack[1].bytes_written
<1>1. Created(message)
  BY DEF EncodeInv, CallInv, Created
<1>2. stack \in Seq(Frames) /\ Depth \in Nat
  BY DEF EncodeInv, Depth
<1>3. Levels(message, buffer.size_in_bytes, stack, step)
  BY DEF EncodeInv, LevelsInv
<1>4. /\ Depth <= 3
      /\ \A i \in 1..Depth : Level(message, buffer.size_in_bytes, i, stack[i])
      /\ \A i \in 1..Depth - 1 : Link(message, stack[i], stack[i + 1])
      /\ Depth >= 1 => /\ Innermost(message, stack[Depth], step)
                       /\ ~stack[1].sizing => stack[1].state = stack[1].bytes_written
  BY <1>3 DEF Levels, Depth
<1>5. Depth \in 0..3
  BY <1>2, <1>4
<1>6. Top = stack[Depth]
  BY DEF Top
<1> QED
  BY <1>1, <1>2, <1>4, <1>5, <1>6

LEMMA ImpliesTypeOK ==
    ASSUME EncodeInv
    PROVE  TypeOK
<1>1. /\ message \in MessageRecords /\ step \in {"field", "value", "content", "failed"}
      /\ buffer \in [data : BOOLEAN, size_in_bytes : Nat]
      /\ rc \in {"none", "busy", "OK", "NOT_OK"}
  BY DEF EncodeInv, CallInv
<1>2. stack \in Seq(Frames) /\ Depth <= 3
  BY EveryLevel
<1>3. \A i \in 1..Depth : stack[i].field \in 1..Len(descriptor[stack[i].desc]) + 1
  BY EveryLevel DEF Level
<1>4. errmsg \in {"none", "stream full", "value refused", "submsg size changed"}
  BY DEF EncodeInv, FailedInv
<1> QED
  BY <1>1, <1>2, <1>3, <1>4 DEF TypeOK

\* Where a parent stands: its substream, or what it will take of a counted one,
\* ends inside it.
LEMMA ChildEndsInside ==
    ASSUME EncodeInv, NEW i \in 1..Depth - 1, ~stack[i + 1].sizing
    PROVE  /\ ~stack[i].sizing
           /\ stack[i + 1].state = stack[i].state + stack[i + 1].bytes_written
           /\ stack[i].bytes_written + stack[i + 1].max_size <= stack[i].max_size
<1> DEFINE m == message
           b == buffer.size_in_bytes
           p == stack[i]
           c == stack[i + 1]
<1>1. /\ Created(m) /\ i \in 1..2 /\ i \in 1..3 /\ i + 1 \in 2..3 /\ i + 1 \in 1..3
      /\ Level(m, b, i, p) /\ Level(m, b, i + 1, c) /\ Link(m, p, c)
  <2>1. Depth \in 0..3
    BY EveryLevel
  <2>2. i \in 1..2 /\ i \in 1..Depth /\ i + 1 \in 1..Depth
    BY <2>1
  <2> QED
    BY <2>2, EveryLevel
<1>2. ~c.sizing
  OBVIOUS
<1> HIDE DEF m, b, p, c
<1>3. ~p.sizing /\ c.state = p.state + c.bytes_written
  BY <1>1, <1>2 DEF Link
<1>4. c.max_size = Size(m, c.desc) /\ Encodes(m, c.desc) /\ c.desc = MessageAt(m, i + 1)
  <2>1. i + 1 # 1
    BY <1>1
  <2> QED
    BY <1>1, <1>2, <2>1 DEF Level
<1>5. i = 1 => Encodable(m)
  <2>1. i = 1 => c.desc = MessageAt(m, 2)
    BY <1>4
  <2> QED
    BY <1>1, <1>4, <2>1, WholeEncodes
<1>6. /\ p.field \in 1..Len(descriptor[p.desc])
      /\ FieldSize(m, p.desc, p.field) =
             TagSize + VarintSize(Size(m, c.desc)) + Size(m, c.desc)
  BY <1>1, ParentField
<1>7. Before(m, p.desc, p.field) + FieldSize(m, p.desc, p.field) <= p.max_size
  BY <1>1, <1>3, <1>5, <1>6, RoomForField
<1>8. p.bytes_written = Before(m, p.desc, p.field) + TagSize + VarintSize(c.max_size)
  BY <1>1, <1>2 DEF Link
<1>9. /\ p.max_size \in Nat /\ c.max_size \in Nat /\ p.desc \in Messages
  BY <1>1, LevelFacts
<1>10. VarintSize(c.max_size) \in 1..5 /\ Before(m, p.desc, p.field) \in Nat
  BY <1>1, <1>6, <1>9, VarintSizes, Offsets
<1>11. p.bytes_written + c.max_size <= p.max_size
  <2> DEFINE before == Before(m, p.desc, p.field)
             length == VarintSize(c.max_size)
             field == FieldSize(m, p.desc, p.field)
  <2>1. /\ field = 1 + length + c.max_size /\ before + field <= p.max_size
        /\ p.bytes_written = before + 1 + length
    BY <1>4, <1>6, <1>7, <1>8 DEF TagSize
  <2>2. before \in Nat /\ length \in 1..5
    BY <1>10
  <2> HIDE DEF before, length, field
  <2> QED
    BY <1>9, <2>1, <2>2
<1> QED
  BY <1>3, <1>11 DEF p, c

\* The outermost stream of a message that cannot be encoded takes the tag.
LEMMA OutermostInside ==
    ASSUME EncodeInv, Depth = 1, ~Top.sizing, ~Encodable(message)
    PROVE  Top.bytes_written <= Top.max_size
<1> DEFINE m == message
           b == buffer.size_in_bytes
           d == "InternalClient"
           f == Top.field
<1>1. /\ Created(m) /\ Level(m, b, 1, Top) /\ Innermost(m, Top, step) /\ Top = stack[1]
  <2>1. Top = stack[1] /\ 1 \in 1..Depth
    BY DEF Top
  <2> QED
    BY <2>1, EveryLevel
<1>2. /\ Top.desc = d /\ d \in Messages /\ Len(descriptor[d]) = 2 /\ f \in 1..3
      /\ m.which \in 1..2
  <2>1. Top.desc = d /\ f \in 1..Len(descriptor[Top.desc]) + 1
    BY <1>1, LevelFacts, Levelled
  <2>2. Len(descriptor[d]) = 2 /\ d \in Messages
    BY Descriptors
  <2> QED
    BY <1>1, <2>1, <2>2, CreatedHas
<1>3. Top.max_size = 1
  BY <1>1 DEF Level
<1>4. CASE step = "failed"
  <2>1. stack[1].bytes_written = 1
    BY <1>4 DEF EncodeInv, FailedInv
  <2> QED
    BY <1>1, <1>3, <2>1
<1>5. CASE step = "field"
  <2>1. Top.bytes_written = Before(m, d, f)
    BY <1>1, <1>2, <1>5 DEF Innermost
  <2>2. f <= m.which
    <3>1. ~Taken(m, d, m.which)
      <4>1. /\ descriptor[d][m.which].ltype = "SUBMESSAGE"
            /\ descriptor[d][m.which].name = MessageAt(m, 2)
        BY <1>1, <1>2, Levelled, Descriptors DEF Field
      <4>2. ~Encodes(m, MessageAt(m, 2))
        BY <1>1, WholeEncodes
      <4> QED
        BY <4>1, <4>2 DEF Taken
    <3>2. m.which < f => Taken(m, d, m.which)
      BY <1>1, <1>2 DEF Level
    <3> QED
      BY <1>2, <3>1, <3>2
  <2>3. f = 1 \/ f = m.which
    BY <1>2, <2>2
  <2>4. Before(m, d, f) = 0
    BY <1>1, <1>2, <2>3, Offsets, NothingBefore
  <2> QED
    BY <1>3, <2>1, <2>4
<1>6. CASE step = "value"
  <2>1. /\ Top.bytes_written = Before(m, d, f) + TagSize
        /\ f \in 1..2 /\ FieldSize(m, d, f) > 0
    BY <1>1, <1>2, <1>6 DEF Innermost
  <2>2. f = m.which
    BY <1>1, <2>1, FieldSizes
  <2>3. Before(m, d, f) = 0
    BY <1>1, <2>2, NothingBefore
  <2> QED
    BY <1>3, <2>1, <2>3 DEF TagSize
<1>7. step # "content"
  <2>1. ASSUME step = "content"
        PROVE  FALSE
    <3>1. /\ f \in 1..Len(descriptor[d])
          /\ descriptor[d][f].ltype \in {"STRING", "BYTES"}
      BY <1>1, <1>2, <2>1 DEF Innermost
    <3> QED
      BY <1>2, <3>1, FieldKinds
  <2> QED
    BY <2>1
<1> QED
  BY <1>4, <1>5, <1>6, <1>7 DEF EncodeInv, CallInv

\* The innermost stream, of a message that can be encoded.
LEMMA InnermostInside ==
    ASSUME EncodeInv, Depth >= 1, ~Top.sizing, Depth = 1 => Encodable(message)
    PROVE  Top.bytes_written <= Top.max_size
<1> DEFINE m == message
           b == buffer.size_in_bytes
           d == Top.desc
           f == Top.field
<1>1. /\ Created(m) /\ Depth \in 1..3
      /\ Level(m, b, Depth, Top) /\ Innermost(m, Top, step)
  <2>1. Depth \in 0..3
    BY EveryLevel
  <2>2. Depth \in 1..3 /\ Depth \in 1..Depth
    BY <2>1
  <2> QED
    BY <2>2, EveryLevel DEF Top
<1>2. /\ d \in Messages /\ f \in 1..Len(descriptor[d]) + 1
      /\ Len(descriptor[d]) \in 1..5
  BY <1>1, LevelFacts
<1>3. Top.max_size = Size(m, d)
  BY <1>1, RoomForMessage
<1>4. /\ Size(m, d) \in Nat /\ Before(m, d, Len(descriptor[d]) + 1) = Size(m, d)
      /\ \A k \in 1..Len(descriptor[d]) :
             /\ Before(m, d, k) \in Nat /\ FieldSize(m, d, k) \in Nat
             /\ Before(m, d, k) + FieldSize(m, d, k) <= Size(m, d)
  BY <1>1, <1>2, Sizes, Offsets
<1>5. CASE step = "failed"
  <2>1. ~Encodable(m) /\ \A i \in 2..Depth : stack[i].sizing
    BY <1>5 DEF EncodeInv, FailedInv
  <2>2. Depth \in 2..Depth
    BY <1>1, <2>1
  <2> QED
    BY <2>1, <2>2 DEF Top
<1>6. CASE step = "field"
  <2>1. Top.bytes_written = Before(m, d, f)
    BY <1>1, <1>6 DEF Innermost
  <2>2. CASE f \in 1..Len(descriptor[d])
    BY <1>3, <1>4, <2>1, <2>2
  <2>3. CASE f = Len(descriptor[d]) + 1
    BY <1>3, <1>4, <2>1, <2>3
  <2> QED
    BY <1>2, <2>2, <2>3
<1>7. CASE step \in {"value", "content"}
  <2>1. /\ f \in 1..Len(descriptor[d]) /\ FieldSize(m, d, f) > 0
        /\ step = "value" => Top.bytes_written = Before(m, d, f) + TagSize
        /\ step = "content" =>
               /\ descriptor[d][f].ltype \in {"STRING", "BYTES"}
               /\ Top.bytes_written = Before(m, d, f) + TagSize
                                      + VarintSize(m.length[descriptor[d][f].name])
    BY <1>1, <1>7 DEF Innermost
  <2>2. /\ Before(m, d, f) \in Nat /\ FieldSize(m, d, f) \in Nat
        /\ Before(m, d, f) + FieldSize(m, d, f) <= Top.max_size
    BY <1>3, <1>4, <2>1
  <2>3. CASE step = "value"
    BY <1>3, <1>4, <2>1, <2>2, <2>3 DEF TagSize
  <2>4. CASE step = "content"
    <3> DEFINE n == m.length[descriptor[d][f].name]
    <3>1. descriptor[d][f].ltype \in {"STRING", "BYTES"}
      BY <2>1, <2>4
    <3>2. n \in Nat
      <4>1. descriptor[d][f].name \in Members
        BY <1>2, <2>1, <3>1, FieldKinds
      <4> QED
        BY <1>1, <4>1, CreatedHas
    <3>3. FieldSize(m, d, f) = TagSize + VarintSize(n) + n
      BY <1>1, <1>2, <2>1, <3>1, FieldParts
    <3>4. VarintSize(n) \in 1..5
      BY <3>2, VarintSizes
    <3>5. Top.bytes_written = Before(m, d, f) + TagSize + VarintSize(n)
      BY <2>1, <2>4
    <3>6. Top.max_size \in Nat
      BY <1>3, <1>4
    <3> HIDE DEF n
    <3> QED
      BY <2>2, <3>2, <3>3, <3>4, <3>5, <3>6 DEF TagSize
  <2> QED
    BY <1>7, <2>3, <2>4
<1> QED
  BY <1>5, <1>6, <1>7 DEF EncodeInv, CallInv

LEMMA CounterInside ==
    ASSUME EncodeInv, NEW i \in 1..Depth, ~stack[i].sizing
    PROVE  stack[i].bytes_written <= stack[i].max_size
<1> DEFINE m == message
           b == buffer.size_in_bytes
           s == stack[i]
<1>1. /\ Created(m) /\ i \in 1..3 /\ Depth \in 1..3 /\ Level(m, b, i, s)
  <2>1. Depth \in 0..3
    BY EveryLevel
  <2> QED
    BY <2>1, EveryLevel
<1>2. /\ s.bytes_written \in Nat /\ s.max_size \in Nat
      /\ s.desc \in Messages /\ s.desc = MessageAt(m, i)
      /\ s.field \in 1..Len(descriptor[s.desc]) + 1 /\ Len(descriptor[s.desc]) \in 1..5
  BY <1>1, LevelFacts
<1>3. CASE i < Depth
  <2>1. i \in 1..Depth - 1
    BY <1>1, <1>3
  <2>2. CASE ~stack[i + 1].sizing
    <3>1. s.bytes_written + stack[i + 1].max_size <= s.max_size
      BY <2>1, <2>2, ChildEndsInside
    <3>2. stack[i + 1].max_size \in Nat
      <4>1. i + 1 \in 1..Depth
        BY <2>1, <1>1
      <4>2. Level(m, b, i + 1, stack[i + 1]) /\ i + 1 \in 1..3
        BY <1>1, <4>1, EveryLevel
      <4> QED
        BY <1>1, <4>2, LevelFacts
    <3> QED
      BY <1>2, <3>1, <3>2
  <2>3. CASE stack[i + 1].sizing
    <3>1. /\ Link(m, s, stack[i + 1]) /\ Level(m, b, i + 1, stack[i + 1])
          /\ i \in 1..2
      BY <1>1, <2>1, EveryLevel
    <3>2. /\ s.field \in 1..Len(descriptor[s.desc])
          /\ s.bytes_written = Before(m, s.desc, s.field) + TagSize + 0
      BY <2>3, <3>1 DEF Link
    <3>3. CASE i = 1 /\ ~Encodable(m)
      <4>1. Before(m, s.desc, s.field) = 0
        BY <1>1, <3>1, <3>3, ParentField
      <4>2. s.max_size = 1
        BY <1>1, <3>3 DEF Level
      <4> QED
        BY <3>2, <4>1, <4>2 DEF TagSize
    <3>4. CASE i = 1 => Encodable(m)
      <4>1. Before(m, s.desc, s.field) + FieldSize(m, s.desc, s.field) <= s.max_size
        BY <1>1, <3>2, <3>4, RoomForField
      <4>2. /\ FieldSize(m, s.desc, s.field) =
                   TagSize + VarintSize(Size(m, stack[i + 1].desc))
                   + Size(m, stack[i + 1].desc)
        BY <1>1, <3>1, ParentField
      <4>3. stack[i + 1].desc \in Messages
        <5>1. i + 1 \in 1..3
          BY <3>1
        <5> QED
          BY <1>1, <3>1, <5>1, LevelFacts
      <4>4. /\ Size(m, stack[i + 1].desc) \in Nat
            /\ VarintSize(Size(m, stack[i + 1].desc)) \in 1..5
        BY <1>1, <4>3, Sizes, VarintSizes
      <4>5. Before(m, s.desc, s.field) \in Nat
        BY <1>1, <1>2, <3>2, Offsets
      <4> DEFINE before == Before(m, s.desc, s.field)
                 size == Size(m, stack[i + 1].desc)
                 length == VarintSize(size)
      <4>6. /\ before + FieldSize(m, s.desc, s.field) <= s.max_size
            /\ FieldSize(m, s.desc, s.field) = 1 + length + size
            /\ s.bytes_written = before + 1 + 0
            /\ before \in Nat /\ size \in Nat /\ length \in 1..5
        BY <3>2, <4>1, <4>2, <4>4, <4>5 DEF TagSize
      <4> HIDE DEF before, size, length
      <4> QED
        BY <1>2, <4>6
    <3> QED
      BY <3>3, <3>4
  <2> QED
    BY <2>2, <2>3
<1>4. CASE i = Depth
  <2>1. Innermost(m, s, step) /\ s = Top
    BY <1>1, <1>4, EveryLevel DEF Top
  <2>2. CASE i = 1 /\ ~Encodable(m)
    BY <1>4, <2>1, <2>2, OutermostInside
  <2>3. CASE i = 1 => Encodable(m)
    BY <1>1, <1>4, <2>1, <2>3, InnermostInside
  <2> QED
    BY <2>2, <2>3
<1> QED
  BY <1>1, <1>3, <1>4

LEMMA ImpliesStreamsAgree ==
    ASSUME EncodeInv
    PROVE  StreamsAgree
<1>1. ASSUME NEW i \in 1..Depth, ~stack[i].sizing, i = 1
      PROVE  /\ stack[i].state = stack[i].bytes_written
             /\ stack[i].max_size = buffer.size_in_bytes
  <2>1. Depth >= 1
    BY <1>1, EveryLevel
  <2>2. Level(message, buffer.size_in_bytes, 1, stack[1])
    BY <1>1, EveryLevel
  <2>3. stack[1].state = stack[1].bytes_written
    BY <1>1, <2>1, EveryLevel
  <2>4. stack[1].max_size = buffer.size_in_bytes
    BY <1>1, <2>2 DEF Level
  <2> QED
    BY <1>1, <2>3, <2>4
<1>2. ASSUME NEW i \in 1..Depth, ~stack[i].sizing, i # 1
      PROVE  /\ ~stack[i - 1].sizing
             /\ stack[i].state = stack[i - 1].state + stack[i].bytes_written
             /\ stack[i - 1].bytes_written + stack[i].max_size <= stack[i - 1].max_size
  <2> DEFINE k == i - 1
  <2>1. k \in 1..Depth - 1 /\ k + 1 = i
    BY <1>2, EveryLevel
  <2> HIDE DEF k
  <2>2. /\ ~stack[k].sizing
        /\ stack[k + 1].state = stack[k].state + stack[k + 1].bytes_written
        /\ stack[k].bytes_written + stack[k + 1].max_size <= stack[k].max_size
    BY <1>2, <2>1, ChildEndsInside
  <2> QED
    BY <2>1, <2>2 DEF k
<1>3. \A i \in 1..Depth : ~stack[i].sizing => stack[i].bytes_written <= stack[i].max_size
  BY CounterInside
<1> QED
  BY <1>1, <1>2, <1>3 DEF StreamsAgree

LEMMA ImpliesOkIsEncoded ==
    ASSUME EncodeInv
    PROVE  OkIsEncoded
<1>1. ASSUME rc = "OK"
      PROVE  /\ Encodable(message)
             /\ buffer.size_in_bytes = EncodedSize(message)
             /\ Top.state = buffer.size_in_bytes
  <2>1. /\ Depth = 1 /\ step = "field" /\ ~Top.sizing
        /\ Top.field = Len(descriptor[Top.desc]) + 1
    BY <1>1 DEF EncodeInv, CallInv
  <2>2. /\ Created(message) /\ Level(message, buffer.size_in_bytes, 1, Top)
        /\ Innermost(message, Top, "field") /\ Top = stack[1]
        /\ Top.state = Top.bytes_written
    <3>1. Top = stack[1] /\ 1 \in 1..Depth /\ Depth >= 1
      BY <2>1 DEF Top
    <3>2. Innermost(message, Top, step)
      BY <3>1, EveryLevel
    <3>3. /\ Created(message) /\ Level(message, buffer.size_in_bytes, 1, Top)
          /\ Top.state = Top.bytes_written
      BY <2>1, <3>1, EveryLevel
    <3> QED
      BY <2>1, <3>1, <3>2, <3>3
  <2>3. /\ Top.desc \in Messages /\ Top.desc = "InternalClient"
        /\ Len(descriptor[Top.desc]) \in 1..5
    BY <2>2, LevelFacts, Levelled
  <2>4. Encodes(message, Top.desc) /\ Top.bytes_written = Size(message, Top.desc)
    <3>1. 1 \in 1..3 /\ Created(message) /\ Top.field > Len(descriptor[Top.desc])
      BY <2>1, <2>2, <2>3
    <3>2. /\ Level(message, buffer.size_in_bytes, 1, Top)
          /\ Innermost(message, Top, "field")
      BY <2>2
    <3> QED
      BY <3>1, <3>2, LevelAtEnd, Zenon
  <2>5. Encodable(message) /\ Top.bytes_written = EncodedSize(message)
    BY <2>2, <2>3, <2>4, WholeEncodes DEF Size
  <2>6. buffer.size_in_bytes = EncodedSize(message)
    BY <2>1, <2>2, <2>5 DEF Level
  <2> QED
    BY <2>2, <2>5, <2>6
<1>2. ASSUME rc = "NOT_OK", buffer.data
      PROVE  ~Encodable(message)
  BY <1>2 DEF EncodeInv, CallInv, FailedInv
<1> QED
  BY <1>1, <1>2 DEF OkIsEncoded

LEMMA ImpliesRefusedIsOneByte ==
    ASSUME EncodeInv
    PROVE  RefusedIsOneByte
<1> SUFFICES ASSUME rc = "NOT_OK", buffer.data
             PROVE  buffer.size_in_bytes = 1 /\ Top.state = 1 /\ errmsg = "value refused"
  BY DEF RefusedIsOneByte
<1>1. step = "failed" /\ Depth = 1 /\ ~stack[1].sizing
  BY DEF EncodeInv, CallInv
<1>2. /\ ~Encodable(message) /\ errmsg = "value refused"
      /\ stack[1].bytes_written = 1
  BY <1>1 DEF EncodeInv, FailedInv
<1>3. /\ Level(message, buffer.size_in_bytes, 1, stack[1])
      /\ stack[1].state = stack[1].bytes_written
  <2>1. 1 \in 1..Depth /\ Depth >= 1
    BY <1>1
  <2> QED
    BY <1>1, <2>1, EveryLevel
<1>4. buffer.size_in_bytes = 1
  BY <1>1, <1>2, <1>3 DEF Level
<1> QED
  BY <1>1, <1>2, <1>3, <1>4 DEF Top

-----------------------------------------------------------------------------
(* Theorems.                                                               *)

\* Every variable keeps its type, no message lies deeper than three levels, and
\* no iterator of pb_encode leaves its descriptor.
THEOREM EncodeTypes == Spec => []TypeOK
<1>1. EncodeInv => TypeOK
  BY ImpliesTypeOK
<1> QED
  BY <1>1, Encoding, PTL

\* At every depth buf_write's pointer and bytes_written agree, and each
\* substream ends inside its parent and the outermost is the buffer: nothing is
\* written behind what serializeInternalClientMessageToBuffer allocated.
THEOREM WritesStayInside == Spec => []StreamsAgree
<1>1. EncodeInv => StreamsAgree
  BY ImpliesStreamsAgree
<1> QED
  BY <1>1, Encoding, PTL

\* What pb_get_encoded_size and pb_encode_submessage count is what the second
\* pass writes: "stream full" and "submsg size changed" are never reported.
THEOREM PassesAgree == Spec => []CountedIsWritten
<1>1. EncodeInv => CountedIsWritten
  BY DEF EncodeInv, FailedInv, CountedIsWritten
<1> QED
  BY <1>1, Encoding, PTL

\* serializeInternalClientMessageToBuffer returns OK exactly for messages that
\* can be encoded, and the buffer then holds the encoding and nothing else.
THEOREM OkMeansEncoded == Spec => []OkIsEncoded
<1>1. EncodeInv => OkIsEncoded
  BY ImpliesOkIsEncoded
<1> QED
  BY <1>1, Encoding, PTL

\* The buffer of a message that is refused, which sendConnectMessage sends all
\* the same, has one byte, whatever was too long.
THEOREM RefusedLeavesOneByte == Spec => []RefusedIsOneByte
<1>1. EncodeInv => RefusedIsOneByte
  BY ImpliesRefusedIsOneByte
<1> QED
  BY <1>1, Encoding, PTL

=============================================================================
