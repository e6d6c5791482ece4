---------------------------------- MODULE PbFieldIter ----------------------------------
(***************************************************************************)
(* nanopb's field iterator: how pb_encode and pb_decode walk through the   *)
(* packed description of a message, and search it for a tag.  PbEncode and *)
(* PbDecode take each of these walks as one step.                          *)
(*                                                                         *)
(* A word of 32 bits is the pair of its halves, <<low, high>>.  There is a *)
(* message to point into: pb_encode and pb_decode are never given NULL.    *)
(***************************************************************************)
EXTENDS Integers, FiniteSets, SequencesExt

CONSTANTS
    Messages, \* messages: sequences of fields, as in a _FIELDLIST
    Tags      \* the tags that are searched for

VARIABLES
    descriptor, \* the pb_msgdesc_t in use
    msg,        \* history: the message it describes
    iter,       \* the pb_field_iter_t
    call,       \* "none", "find" or "find_extension": the search in progress
    start,      \* of that search
    tag,        \* its argument
    result      \* what the last call returned

desc == <<descriptor, msg>>
vars == <<desc, iter, call, start, tag, result>>

-----------------------------------------------------------------------------
(* Bits, and field types.                                                  *)

\* The n lowest bits of x; x without them; x in front of n others.
Low(x, n) == x % 2^n
High(x, n) == x \div 2^n
Shift(x, n) == x * 2^n

LTYPE(type) == Low(type, 4)
HTYPE(type) == Low(High(type, 4), 2)
ATYPE(type) == High(type, 6)
STATIC == 0
POINTER == 2
REQUIRED == 0
REPEATED == 2
EXTENSION == 10
\* PB_LTYPE_SUBMESSAGE, PB_LTYPE_SUBMSG_W_CB
IS_SUBMSG(type) == LTYPE(type) \in {8, 9}
\* An array in the struct, or behind a pointer in it; not one of a callback.
IS_ARRAY(type) == HTYPE(type) = REPEATED /\ ATYPE(type) \in {STATIC, POINTER}

-----------------------------------------------------------------------------
(* PB_BIND: the words that describe a field.                               *)

\* The first word: the number of words, as a power of two, the low bits of the
\* tag, the type, and `high`.
Word0(log2, f, high) == <<log2 + Shift(Low(f.tag, 6), 2) + Shift(f.type, 8), high>>

\* The size offset and the rest of the tag, in the formats of four and eight words.
Word1(f) == <<Low(f.size_offset, 8) + Shift(Low(High(f.tag, 6), 8), 8), High(f.tag, 14)>>

FieldInfo(f) ==
    CASE f.width = 1 ->
             <<Word0(0, f, Low(f.data_offset, 8) + Shift(Low(f.size_offset, 4), 8)
                           + Shift(Low(f.data_size, 4), 12))>>
      [] f.width = 2 ->
             <<Word0(1, f, Low(f.array_size, 12) + Shift(Low(f.size_offset, 4), 12)),
               <<f.data_offset, Low(f.data_size, 12) + Shift(Low(High(f.tag, 6), 4), 12)>> >>
      [] f.width = 4 ->
             <<Word0(2, f, f.array_size), Word1(f), <<f.data_offset, 0>>, <<f.data_size, 0>> >>
      [] f.width = 8 ->
             <<Word0(3, f, 0), Word1(f), <<f.data_offset, 0>>, <<f.data_size, 0>>,
               <<f.array_size, 0>>, <<0, 0>>, <<0, 0>>, <<0, 0>> >>

\* PB_FIELDINFO_ASSERT_1, _2, _4 and _8: what does not fit is not compiled.  The
\* last two cast the size offset to a signed byte before they look at it.
FieldFits(f) ==
    /\ f.width = 1 => /\ f.tag < 64 /\ f.data_offset < 256 /\ f.size_offset < 16
                      /\ f.data_size < 16 /\ f.array_size < 2
    /\ f.width = 2 => /\ f.tag < 1024 /\ f.data_offset < 65536 /\ f.size_offset < 16
                      /\ f.data_size < 4096 /\ f.array_size < 4096
    /\ f.width > 2 => /\ f.tag < 65536 /\ f.data_offset < 65536 /\ Low(f.size_offset, 8) < 128
                      /\ f.data_size < 65536 /\ f.array_size < 65536

\* A field as in a _FIELDLIST; the width is the suffix of its PB_FIELDINFO.  Its
\* size, or has_ flag, stands in the struct just in front of it.
Fields == [tag : Nat \ {0}, width : {1, 2, 4, 8}, type : 0..255, data_offset : Nat,
           size_offset : 0..127, data_size : Nat, array_size : Nat \ {0}]

\* What protoc and the generator see to.
ASSUME MessagesAssumption ==
    \A m \in Messages :
        /\ m \in Seq(Fields)
        /\ \A k \in 1..Len(m) : FieldFits(m[k])
        /\ \A j, k \in 1..Len(m) : j < k => m[j].tag < m[k].tag

\* pb_decode refuses a tag of zero before it looks for it.
ASSUME TagsAssumption == Tags \subseteq Nat \ {0}

\* The arrays of a descriptor, each field giving its words, or its submessage.
FieldInfos(m) == FlattenSeq([k \in 1..Len(m) |-> FieldInfo(m[k])])
SubmsgInfo(f) == IF IS_SUBMSG(f.type) THEN <<f.tag>> ELSE <<>>
SubmsgInfos(m) == FlattenSeq([k \in 1..Len(m) |-> SubmsgInfo(m[k])])

\* mutant: the number of fields is taken for the largest tag
PB_BIND_Count(m) ==
    [field_info  |-> Append(FieldInfos(m), <<0, 0>>),
     submsg_info |-> Append(SubmsgInfos(m), 0),
     field_count |-> Len(m),
     largest_tag |-> Len(m)]

\* The descriptor of a message, with pointers to those of its submessages, here
\* the tags of their fields; both arrays end with a zero.  The tag of the last
\* field is taken for the largest.
PB_BIND(m) ==
    [field_info  |-> Append(FieldInfos(m), <<0, 0>>),
     submsg_info |-> Append(SubmsgInfos(m), 0),
     field_count |-> Len(m),
     largest_tag |-> IF m = <<>> THEN 0 ELSE m[Len(m)].tag]

\* A word of the descriptor in use.
word(k) == descriptor.field_info[k + 1]

-----------------------------------------------------------------------------
(* load_descriptor_values                                                  *)

NULL == -1       \* a pointer into the message is its offset
ArraySize == -2  \* &iter->array_size
Pointee == -3    \* what the pointer in the field points to

TypeOf(w) == High(w[1], 8)
LowTag(w) == Low(High(w[1], 2), 6)
Width(w) == 2 ^ Low(w[1], 2)

\* The tag in the field info at some index, in each format, cast to pb_size_t.
Tag(at) ==
    LET w1 == word(at + 1)
    IN CASE Width(word(at)) = 1 -> LowTag(word(at))
         [] Width(word(at)) = 2 -> LowTag(word(at)) + Shift(High(w1[2], 12), 6)
         [] OTHER -> Low(LowTag(word(at)) + Shift(High(w1[1], 8) + Shift(w1[2], 8), 6), 16)

\* What else it says.
Unpack(at) ==
    LET w0 == word(at)
        w1 == word(at + 1)
    IN CASE Width(w0) = 1 ->
               [array_size |-> 1, size_offset |-> Low(High(w0[2], 8), 4),
                data_offset |-> Low(w0[2], 8), data_size |-> High(w0[2], 12)]
         [] Width(w0) = 2 ->
               [array_size |-> Low(w0[2], 12), size_offset |-> High(w0[2], 12),
                data_offset |-> w1[1], data_size |-> Low(w1[2], 12)]
         [] OTHER ->
               [array_size |-> IF Width(w0) = 4 THEN w0[2] ELSE word(at + 4)[1],
                size_offset |-> Low(w1[1], 8),
                data_offset |-> word(at + 2)[1], data_size |-> word(at + 3)[1]]

\* The iterator after load_descriptor_values; nothing changes behind the end.
Loaded(it) ==
    IF it.index >= descriptor.field_count THEN it
    ELSE LET w == word(it.field_info_index)
             u == Unpack(it.field_info_index)
             type == TypeOf(w)
         IN [it EXCEPT !.type = type,
                       !.tag = Tag(it.field_info_index),
                       !.array_size = u.array_size,
                       !.data_size = u.data_size,
                       !.pField = u.data_offset,
                       !.pData = IF ATYPE(type) = POINTER THEN Pointee ELSE u.data_offset,
                       !.pSize = IF u.size_offset # 0 THEN u.data_offset - u.size_offset
                                 ELSE IF IS_ARRAY(type) THEN ArraySize
                                 ELSE NULL,
                       !.submsg_desc = IF IS_SUBMSG(type)
                                       THEN descriptor.submsg_info[it.submessage_index + 1]
                                       ELSE NULL]

-----------------------------------------------------------------------------
(* advance_iterator                                                        *)

Restarted(it) == [it EXCEPT !.index = 0, !.field_info_index = 0,
                            !.submessage_index = 0, !.required_field_index = 0]

\* mutant: the indexes are advanced by the type of the new field
Advanced_NewType(it) ==
    IF it.index + 1 >= descriptor.field_count
    THEN Restarted(it)
    ELSE LET w == word(it.field_info_index)
             v == word(it.field_info_index + Width(w))
         IN [it EXCEPT !.index = @ + 1,
                       !.field_info_index = @ + Width(w),
                       !.required_field_index =
                           @ + IF HTYPE(TypeOf(v)) = REQUIRED THEN 1 ELSE 0,
                       !.submessage_index = @ + IF IS_SUBMSG(TypeOf(v)) THEN 1 ELSE 0]

\* mutant: the restart comes one field late
Advanced_Late(it) ==
    IF it.index >= descriptor.field_count
    THEN Restarted(it)
    ELSE LET w == word(it.field_info_index)
         IN [it EXCEPT !.index = @ + 1,
                       !.field_info_index = @ + Width(w),
                       !.required_field_index =
                           @ + IF HTYPE(TypeOf(w)) = REQUIRED THEN 1 ELSE 0,
                       !.submessage_index = @ + IF IS_SUBMSG(TypeOf(w)) THEN 1 ELSE 0]

Advanced(it) ==
    IF it.index + 1 >= descriptor.field_count
    THEN Restarted(it)
    ELSE LET w == word(it.field_info_index)
         IN [it EXCEPT !.index = @ + 1,
                       !.field_info_index = @ + Width(w),
                       !.required_field_index =
                           @ + IF HTYPE(TypeOf(w)) = REQUIRED THEN 1 ELSE 0,
                       !.submessage_index = @ + IF IS_SUBMSG(TypeOf(w)) THEN 1 ELSE 0]

-----------------------------------------------------------------------------
(* The calls.                                                              *)

\* The memset of pb_field_iter_begin, pointers included.
ZeroIter ==
    [index |-> 0, field_info_index |-> 0, required_field_index |-> 0,
     submessage_index |-> 0, tag |-> 0, data_size |-> 0, array_size |-> 0, type |-> 0,
     pField |-> NULL, pData |-> NULL, pSize |-> NULL, submsg_desc |-> NULL]

Init ==
    /\ msg \in Messages /\ descriptor = PB_BIND(msg)
    /\ iter = Loaded(ZeroIter)
    /\ call = "none" /\ start = 0 /\ tag = 0
    /\ result = (Len(msg) > 0)

\* pb_field_iter_next
NextField ==
    /\ call = "none"
    /\ iter' = Loaded(Advanced(iter))
    /\ result' = (iter'.index # 0)
    /\ UNCHANGED <<desc, call, start, tag>>

\* mutant: the start is noted after the forced restart
Find_LateStart(t) ==
    /\ call = "none"
    /\ tag' = t
    /\ \/ /\ iter.tag = t
          /\ result' = TRUE
          /\ UNCHANGED <<iter, call>>
       \/ /\ iter.tag # t /\ t > descriptor.largest_tag
          /\ result' = FALSE
          /\ UNCHANGED <<iter, call>>
       \/ /\ iter.tag # t /\ t <= descriptor.largest_tag
          /\ call' = "find"
          /\ iter' = IF t < iter.tag THEN [iter EXCEPT !.index = descriptor.field_count] ELSE iter
          /\ UNCHANGED result
    /\ start' = iter'.index
    /\ UNCHANGED desc

\* pb_field_iter_find, up to its loop.
Find(t) ==
    /\ call = "none"
    /\ tag' = t
    /\ start' = iter.index
    /\ \/ /\ iter.tag = t
          /\ result' = TRUE
          /\ UNCHANGED <<iter, call>>
       \/ /\ iter.tag # t /\ t > descriptor.largest_tag
          /\ result' = FALSE
          /\ UNCHANGED <<iter, call>>
       \/ /\ iter.tag # t /\ t <= descriptor.largest_tag
          /\ call' = "find"
          /\ iter' = IF t < iter.tag THEN [iter EXCEPT !.index = descriptor.field_count] ELSE iter
          /\ UNCHANGED result
    /\ UNCHANGED desc

\* pb_field_iter_find_extension, up to its loop.
FindExtension ==
    /\ call = "none"
    /\ start' = iter.index
    /\ IF LTYPE(iter.type) = EXTENSION
       THEN result' = TRUE /\ UNCHANGED call
       ELSE call' = "find_extension" /\ UNCHANGED result
    /\ UNCHANGED <<desc, iter, tag>>

\* The fast check: a field that may be the one.
Candidate(it) ==
    LET w == word(it.field_info_index)
    IN IF call = "find" THEN LowTag(w) = Low(tag, 6)
       ELSE LTYPE(TypeOf(w)) = EXTENSION

\* The check of a candidate after its values were loaded.
IsIt(it) == call = "find" => it.tag = tag /\ LTYPE(it.type) # EXTENSION

\* mutant: the old values are left in the iterator
GoneRound_Stale(it) == it

\* The search is back at its start.
GoneRound(it) == Loaded(it)

\* mutant: the search ends in front of the field it began with
Back_Early(it) == it.index + 1 = start

\* The test of the loop.
Back(it) == it.index = start

\* One turn of the loop of either search.
Search ==
    /\ call # "none"
    /\ LET next == Advanced(iter)
           seen == IF Candidate(next) THEN Loaded(next) ELSE next
       IN \/ /\ Candidate(next) /\ IsIt(seen)
             /\ iter' = seen /\ result' = TRUE /\ call' = "none"
          \/ /\ ~(Candidate(next) /\ IsIt(seen))
             /\ \/ /\ Back(seen)
                   /\ iter' = GoneRound(seen) /\ result' = FALSE /\ call' = "none"
                \/ /\ ~Back(seen)
                   /\ iter' = seen /\ UNCHANGED <<result, call>>
    /\ UNCHANGED <<desc, start, tag>>

Next == NextField \/ (\E t \in Tags : Find(t)) \/ FindExtension \/ Search

Spec == Init /\ [][Next]_vars
\* A call in progress runs on.
FairSpec == Spec /\ WF_vars(Search)

-----------------------------------------------------------------------------
(* Properties.                                                             *)

pb_field_iter_t ==
    [index : Nat, field_info_index : Nat, required_field_index : Nat, submessage_index : Nat,
     tag : Nat, data_size : Nat, array_size : Nat, type : Nat,
     pField : Int, pData : Int, pSize : Int, submsg_desc : Int]

\* The iterator never leaves the message, but for the forced restart of find.
TypeOK == /\ msg \in Messages
          /\ call \in {"none", "find", "find_extension"}
          /\ start \in 0..Len(msg)
          /\ iter \in pb_field_iter_t
          /\ iter.index \in IF msg = <<>> THEN {0} ELSE 0..Len(msg)
          /\ iter.index = Len(msg) /\ msg # <<>> => call = "find"
          /\ iter.field_info_index <= Len(FieldInfos(msg))
          /\ result \in BOOLEAN

\* The fields before the one at an index.
Before(k) == SubSeq(msg, 1, k)

\* After any walks and searches, and in the middle of one, the four indexes of
\* the iterator speak of the same field, though fields differ in the number of
\* their words and each index counts other fields.
SameField(it) ==
    /\ it.field_info_index = Len(FieldInfos(Before(it.index)))
    /\ it.required_field_index =
           Cardinality({k \in 1..it.index : HTYPE(msg[k].type) = REQUIRED})
    /\ it.submessage_index = Len(SubmsgInfos(Before(it.index)))

IndexesAgree == iter.index < Len(msg) => SameField(iter)

\* Between calls the iterator holds what the _FIELDLIST says of its field: no
\* format loses a bit of what its assertion lets pass, a failed search leaves
\* nothing of the candidates it looked at, and a submessage has its own
\* descriptor.
Holds(it, f) ==
    /\ it.tag = f.tag /\ it.type = f.type
    /\ it.data_size = f.data_size /\ it.array_size = f.array_size
    /\ it.pField = f.data_offset
    /\ it.pData = IF ATYPE(f.type) = POINTER THEN Pointee ELSE f.data_offset
    /\ it.pSize = IF f.size_offset # 0 THEN f.data_offset - f.size_offset
                  ELSE IF IS_ARRAY(f.type) THEN ArraySize ELSE NULL
    /\ it.submsg_desc = IF IS_SUBMSG(f.type) THEN f.tag ELSE NULL

ValuesAreOfTheField ==
    call = "none" /\ iter.index < Len(msg) => Holds(iter, msg[iter.index + 1])

\* What a search is for; that it is in the message.
Sought(f) == IF call = "find" THEN f.tag = tag /\ LTYPE(f.type) # EXTENSION
             ELSE LTYPE(f.type) = EXTENSION

There == \E k \in 1..Len(msg) : Sought(msg[k])

\* A search from any field finds what it is for, if and only if it is there,
\* also if other tags have the same low bits; when it fails the iterator is
\* where it was.
FoundIfThere ==
    [][call # "none" /\ call' = "none" =>
          /\ result' = There
          /\ ~There => iter'.index = start]_vars

\* A search refused without a loop was for a tag the message does not have.
RefusedIfAbsent ==
    [][\A t \in Tags : t = tag' /\ Find(t) /\ call' = "none" =>
           result' = (\E k \in 1..Len(msg) : msg[k].tag = t)]_vars

\* A search comes round to its start, wherever it began.
SearchReturns == (call # "none") ~> (call = "none")

-----------------------------------------------------------------------------
(* Inductive invariant: where a search has looked.                         *)

\* The fields it has passed: those behind its start, up to the present one; or
\* up to the last, and those from the first to the present one.  A search for
\* a smaller tag counts all those behind its start, though it goes to the
\* first one at once.
Passed == LET here == iter.index
              n == Len(msg)
          IN  IF start <= here /\ here < n THEN start + 2..here + 1
              ELSE (start + 2..n) \cup IF here < n THEN 1..here + 1 ELSE {}

PassedInv == /\ \A k \in Passed : ~Sought(msg[k])
             /\ call = "find" => start < Len(msg)

SearchInv == /\ call # "none" => PassedInv
             /\ msg = <<>> => call # "find" /\ iter = ZeroIter

IterInv == /\ descriptor = PB_BIND(msg)
           /\ TypeOK /\ IndexesAgree /\ ValuesAreOfTheField /\ SearchInv
=============================================================================
