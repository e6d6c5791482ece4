-------------------------------- MODULE MCPbFieldIter --------------------------------
(***************************************************************************)
(* The messages for the run of PbFieldIter: those of InternalProtocol.pb.h *)
(* with the offsets of a 32-bit target, and all short messages with fields *)
(* at the limits of each format, whose tags differ only above six bits.    *)
(***************************************************************************)
EXTENDS PbFieldIter

Field(t, width, type, data_offset, size_offset, data_size, array_size) ==
    [tag |-> t, width |-> width, type |-> type, data_offset |-> data_offset,
     size_offset |-> size_offset, data_size |-> data_size, array_size |-> array_size]

\* HTYPE and LTYPE
UVARINT == 18
BYTES == 22
STRING_ == 23
OPTIONAL_MESSAGE == 24
ONEOF_MESSAGE == 56

Oneof(size1, size2) ==
    <<Field(1, 2, ONEOF_MESSAGE, 4, 4, size1, 1), Field(2, 2, ONEOF_MESSAGE, 4, 4, size2, 1)>>

Generated ==
    {Oneof(272, 1300), \* InternalClient
     Oneof(276, 1300), \* InternalServer
     \* DeviceConnect
     <<Field(1, 2, OPTIONAL_MESSAGE, 4, 4, 268, 1)>>,
     \* DeviceConnectResponse
     <<Field(1, 2, UVARINT, 0, 0, 4, 1), Field(2, 2, OPTIONAL_MESSAGE, 8, 4, 268, 1)>>,
     \* DeviceStatus, DeviceCommand
     <<Field(1, 2, OPTIONAL_MESSAGE, 4, 4, 268, 1), Field(2, 2, BYTES, 272, 0, 1026, 1)>>,
     \* Device
     <<Field(1, 2, UVARINT, 0, 0, 4, 1), Field(2, 2, UVARINT, 4, 0, 4, 1),
       Field(3, 2, STRING_, 8, 0, 128, 1), Field(4, 2, STRING_, 136, 0, 128, 1),
       Field(5, 2, UVARINT, 264, 0, 4, 1)>>}

\* Arrays without a count: behind a pointer, and of a callback.
Uncounted(t) == IF t = 2 THEN {Field(t, 4, 168, 65535, 0, 65535, 1)}
                ELSE IF t = 65 THEN {Field(t, 2, 103, 12, 0, 8, 1)}
                ELSE {}

\* A field of each format, at its limits; an extension; an array without a count.
Kinds(t) ==
    Uncounted(t) \cup
    {f \in {Field(t, 1, UVARINT, 255, 15, 15, 1),
            Field(t, 2, OPTIONAL_MESSAGE, 65535, 15, 4095, 4095),
            Field(t, 4, 2, 65535, 127, 65535, 65535),
            Field(t, 8, 40, 65535, 0, 65535, 65535),
            Field(t, IF t < 64 THEN 1 ELSE 4, 26, 8, 0, 4, 1)} : FieldFits(f)}

FieldTags == {1, 2, 65, 1089, 40001}

Short ==
    LET Sorted(T) == SetToSortSeq(T, LAMBDA a, b : a < b)
    IN UNION {LET tags == Sorted(T) IN
              {m \in [1..Len(tags) -> UNION {Kinds(t) : t \in T}] :
                   \A k \in 1..Len(tags) : m[k].tag = tags[k]} :
              T \in {S \in SUBSET FieldTags : Cardinality(S) <= 3}}

AllMessages == Generated \cup Short
=============================================================================
