-------------------------------- MODULE PbFieldIter_proofs --------------------------------
(***************************************************************************)
(* The field iterator, for every message and every order of walks and      *)
(* searches: its indexes speak of one field, it holds what was packed for  *)
(* that field, and a search finds what is there.                           *)
(***************************************************************************)
EXTENDS PbFieldIter, FiniteSetTheorems, SequenceTheorems, WellFoundedInduction, TLAPS

-----------------------------------------------------------------------------
(* Sequences one after the other.                                          *)

LEMMA Least ==
    ASSUME NEW T \in SUBSET Nat, T # {}
    PROVE  \E x \in T : \A y \in T : ~(y < x)
<1>1. PICK x \in T : \A y \in T : <<y, x>> \notin OpToRel(<, Nat)
  BY NatLessThanWellFounded, WFMin
<1>2. \A y \in T : ~(y < x)
  BY <1>1 DEF OpToRel
<1> QED
  BY <1>2

\* The recursive function of FlattenSeq.
IsFlat(g, n, q) == g = [i \in 1..n |-> IF i = 1 THEN q[i] ELSE g[i - 1] \o q[i]]

LEMMA FlatExists ==
    ASSUME NEW n \in Nat, NEW q
    PROVE  \E g : IsFlat(g, n, q)
<1> DEFINE T == {m \in Nat : ~ \E g : IsFlat(g, m, q)}
<1> SUFFICES ASSUME T # {} PROVE FALSE
  OBVIOUS
<1>1. PICK x \in T : \A y \in T : ~(y < x)
  BY Least
<1>2. x # 0
  <2>1. IsFlat([i \in 1..0 |-> q[i]], 0, q)
    BY DEF IsFlat
  <2> QED
    BY <1>1, <2>1
<1>3. x - 1 \in Nat /\ x - 1 \notin T
  BY <1>1, <1>2
<1>4. PICK g : IsFlat(g, x - 1, q)
  BY <1>3
<1> DEFINE h == [i \in 1..x |-> IF i < x THEN g[i]
                                ELSE IF x = 1 THEN q[x] ELSE g[x - 1] \o q[x]]
<1>5. ASSUME NEW i \in 1..x
      PROVE  h[i] = IF i = 1 THEN q[i] ELSE h[i - 1] \o q[i]
  <2>1. CASE i < x
    <3>1. g[i] = IF i = 1 THEN q[i] ELSE g[i - 1] \o q[i]
      <4>1. i \in 1..x - 1
        BY <2>1, <1>1
      <4> QED
        BY <4>1, <1>4 DEF IsFlat
    <3>2. i # 1 => h[i - 1] = g[i - 1]
      BY <1>1
    <3> QED
      BY <2>1, <3>1, <3>2
  <2>2. CASE i = x
    <3>1. i # 1 => h[i - 1] = g[x - 1]
      BY <1>1, <2>2
    <3>2. h[i] = IF i = 1 THEN q[i] ELSE g[x - 1] \o q[i]
      BY <2>2
    <3> QED
      BY <3>1, <3>2
  <2> QED
    BY <1>1, <2>1, <2>2
<1>6. IsFlat(h, x, q)
  <2> HIDE DEF h
  <2>1. h = [i \in 1..x |-> h[i]]
    BY DEF h
  <2>2. [i \in 1..x |-> h[i]] = [i \in 1..x |-> IF i = 1 THEN q[i] ELSE h[i - 1] \o q[i]]
    BY <1>5
  <2> QED
    BY <2>1, <2>2 DEF IsFlat
<1> QED
  BY <1>1, <1>6

LEMMA FlatValue ==
    ASSUME NEW n, NEW q, NEW g, IsFlat(g, n, q), NEW i \in 1..n
    PROVE  g[i] = IF i = 1 THEN q[i] ELSE g[i - 1] \o q[i]
BY DEF IsFlat

LEMMA FlatUnique ==
    ASSUME NEW n \in Nat, NEW m \in Nat, NEW q, NEW g, NEW h,
           IsFlat(g, n, q), IsFlat(h, m, q), NEW k \in Nat, 1 <= k, k <= n, k <= m
    PROVE  g[k] = h[k]
<1> DEFINE T == {i \in Nat : 1 <= i /\ i <= n /\ i <= m /\ g[i] # h[i]}
<1> SUFFICES ASSUME T # {} PROVE FALSE
  OBVIOUS
<1>1. PICK x \in T : \A y \in T : ~(y < x)
  BY Least
<1>2. x \in 1..n /\ x \in 1..m /\ g[x] # h[x]
  BY <1>1
<1>3. x # 1 => g[x - 1] = h[x - 1]
  BY <1>1
<1>4. /\ g[x] = IF x = 1 THEN q[x] ELSE g[x - 1] \o q[x]
      /\ h[x] = IF x = 1 THEN q[x] ELSE h[x - 1] \o q[x]
  BY <1>2, FlatValue
<1> QED
  BY <1>2, <1>3, <1>4

\* The first k of them.
First(k, q) == FlattenSeq([j \in 1..k |-> q[j]])

LEMMA FirstIs ==
    ASSUME NEW n \in Nat, NEW q, NEW g, IsFlat(g, n, q), NEW k \in 1..n
    PROVE  First(k, q) = g[k]
<1> DEFINE s == [j \in 1..k |-> q[j]]
<1>1. Len(s) = k /\ k \in Nat /\ k # 0
  BY LenProperties
<1>2. PICK h : IsFlat(h, k, s)
  BY <1>1, FlatExists
<1> DEFINE c == CHOOSE c : c = [i \in 1..Len(s) |-> IF i = 1 THEN s[i] ELSE c[i - 1] \o s[i]]
<1>3. FlattenSeq(s) = c[Len(s)]
  BY <1>1, Zenon DEF FlattenSeq
<1>4. IsFlat(c, k, s)
  <2>1. h = [i \in 1..Len(s) |-> IF i = 1 THEN s[i] ELSE h[i - 1] \o s[i]]
    BY <1>1, <1>2 DEF IsFlat
  <2>2. c = [i \in 1..Len(s) |-> IF i = 1 THEN s[i] ELSE c[i - 1] \o s[i]]
    BY <2>1, Zenon
  <2> QED
    BY <1>1, <2>2 DEF IsFlat
<1>5. IsFlat(c, k, q)
  <2> HIDE DEF c
  <2>1. \A i \in 1..k : s[i] = q[i]
    OBVIOUS
  <2> HIDE DEF s
  <2>2. [i \in 1..k |-> IF i = 1 THEN s[i] ELSE c[i - 1] \o s[i]]
        = [i \in 1..k |-> IF i = 1 THEN q[i] ELSE c[i - 1] \o q[i]]
    BY <2>1
  <2> QED
    BY <1>4, <2>2 DEF IsFlat
<1>6. c[k] = g[k]
  <2> HIDE DEF c
  <2> QED
    BY <1>1, <1>5, FlatUnique
<1> QED
  BY <1>1, <1>3, <1>6, Zenon DEF First

LEMMA FlatTail ==
    ASSUME NEW S, NEW n \in Nat, NEW q \in [1..n -> Seq(S)]
    PROVE  /\ First(0, q) = <<>>
           /\ \A k \in Nat : k < n => First(k + 1, q) = First(k, q) \o q[k + 1]
<1>1. First(0, q) = <<>>
  <2> DEFINE s == [j \in 1..0 |-> q[j]]
  <2>1. s = <<>> /\ Len(s) = 0
    OBVIOUS
  <2>2. FlattenSeq(s) = s
    <3> HIDE DEF s
    <3> QED
      BY <2>1, Zenon DEF FlattenSeq
  <2> QED
    BY <2>1, <2>2, Zenon DEF First
<1>2. PICK g : IsFlat(g, n, q)
  BY FlatExists
<1>3. ASSUME NEW k \in Nat, k < n PROVE First(k + 1, q) = First(k, q) \o q[k + 1]
  <2>1. k + 1 \in 1..n /\ (k # 0 => k \in 1..n)
    BY <1>3
  <2>2. g[k + 1] = IF k + 1 = 1 THEN q[k + 1] ELSE g[k + 1 - 1] \o q[k + 1]
    BY <1>2, <2>1, FlatValue
  <2>3. First(k + 1, q) = g[k + 1]
    BY <1>2, <2>1, FirstIs
  <2>4. CASE k = 0
    <3>1. q[k + 1] \in Seq(S)
      BY <2>1
    <3>2. <<>> \o q[k + 1] = q[k + 1]
      BY <3>1
    <3>3. First(k + 1, q) = q[k + 1]
      BY <2>2, <2>3, <2>4
    <3>4. First(k, q) = <<>>
      BY <1>1, <2>4
    <3> QED
      BY <3>2, <3>3, <3>4, Zenon
  <2>5. CASE k # 0
    <3>1. First(k, q) = g[k]
      BY <1>2, <2>1, <2>5, FirstIs
    <3>2. g[k + 1] = g[k] \o q[k + 1]
      <4>1. k + 1 # 1 /\ k + 1 - 1 = k
        BY <2>5
      <4> QED
        BY <2>2, <4>1, Zenon
    <3> QED
      BY <2>3, <3>1, <3>2, Zenon
  <2> QED
    BY <2>4, <2>5
<1> QED
  BY <1>1, <1>3

\* The first k of n sequences are a sequence, and grow with k.
LEMMA FirstType ==
    ASSUME NEW S, NEW n \in Nat, NEW q \in [1..n -> Seq(S)], NEW k \in Nat, k <= n
    PROVE  First(k, q) \in Seq(S)
<1> DEFINE T == {m \in Nat : m <= n /\ First(m, q) \notin Seq(S)}
<1> SUFFICES ASSUME T # {} PROVE FALSE
  OBVIOUS
<1>1. PICK x \in T : \A y \in T : ~(y < x)
  BY Least
<1>2. x # 0
  <2>1. First(0, q) = <<>>
    BY FlatTail, Zenon
  <2>2. First(x, q) \notin Seq(S)
    BY <1>1
  <2>3. <<>> \in Seq(S)
    OBVIOUS
  <2> QED
    BY <2>1, <2>2, <2>3, Zenon
<1>3. x - 1 \in Nat /\ x - 1 < n /\ x - 1 + 1 = x /\ First(x - 1, q) \in Seq(S) /\ x \in 1..n
  BY <1>1, <1>2
<1>4. First(x, q) = First(x - 1, q) \o q[x]
  <2>1. First(x - 1 + 1, q) = First(x - 1, q) \o q[x - 1 + 1]
    BY <1>3, FlatTail, Zenon
  <2> QED
    BY <1>3, <2>1, Zenon
<1>5. q[x] \in Seq(S)
  BY <1>3
<1>6. First(x, q) \in Seq(S)
  BY <1>3, <1>4, <1>5
<1> QED
  BY <1>1, <1>6

LEMMA FirstAdds ==
    ASSUME NEW S, NEW n \in Nat, NEW q \in [1..n -> Seq(S)], NEW k \in Nat, k < n
    PROVE  /\ First(k + 1, q) = First(k, q) \o q[k + 1]
           /\ First(k, q) \in Seq(S) /\ q[k + 1] \in Seq(S)
           /\ Len(First(k + 1, q)) = Len(First(k, q)) + Len(q[k + 1])
<1>1. First(k + 1, q) = First(k, q) \o q[k + 1]
  BY FlatTail
<1>2. First(k, q) \in Seq(S)
  BY FirstType
<1>3. q[k + 1] \in Seq(S)
  <2>1. k + 1 \in 1..n
    OBVIOUS
  <2> QED
    BY <2>1
<1> QED
  BY <1>1, <1>2, <1>3

LEMMA FirstsAdd ==
    ASSUME NEW S, NEW n \in Nat, NEW q \in [1..n -> Seq(S)]
    PROVE  \A k \in Nat : k < n => /\ First(k + 1, q) = First(k, q) \o q[k + 1]
                                  /\ First(k, q) \in Seq(S) /\ q[k + 1] \in Seq(S)
<1> SUFFICES ASSUME NEW k \in Nat, k < n
             PROVE  /\ First(k + 1, q) = First(k, q) \o q[k + 1]
                    /\ First(k, q) \in Seq(S) /\ q[k + 1] \in Seq(S)
  OBVIOUS
<1> QED
  BY FirstAdds

\* What comes later leaves the first k where they are.
LEMMA FirstStays ==
    ASSUME NEW S, NEW n \in Nat, NEW q \in [1..n -> Seq(S)], NEW k \in Nat, k <= n
    PROVE  /\ Len(First(k, q)) <= Len(First(n, q))
           /\ \A i \in 1..Len(First(k, q)) : First(n, q)[i] = First(k, q)[i]
<1> DEFINE Same(m) == /\ Len(First(k, q)) <= Len(First(m, q))
                      /\ \A i \in 1..Len(First(k, q)) : First(m, q)[i] = First(k, q)[i]
           T == {m \in Nat : k <= m /\ m <= n /\ ~Same(m)}
<1> SUFFICES ASSUME T # {} PROVE FALSE
  OBVIOUS
<1>0. \A m \in Nat : m < n => /\ First(m + 1, q) = First(m, q) \o q[m + 1]
                             /\ First(m, q) \in Seq(S) /\ q[m + 1] \in Seq(S)
  BY FirstsAdd, Zenon
<1>1. PICK x \in T : \A y \in T : ~(y < x)
  BY Least
<1>2. First(k, q) \in Seq(S)
  BY FirstType
<1>3. x # k
  BY <1>1, <1>2
<1>4. x - 1 \in Nat /\ k <= x - 1 /\ x - 1 < n /\ x - 1 + 1 = x /\ Same(x - 1)
  BY <1>1, <1>3
<1>5. /\ First(x, q) = First(x - 1, q) \o q[x]
      /\ First(x - 1, q) \in Seq(S) /\ q[x] \in Seq(S)
  <2>1. x - 1 \in Nat /\ x - 1 < n /\ x - 1 + 1 = x
    BY <1>4
  <2> DEFINE y == x - 1
  <2>2. y \in Nat /\ y < n
    BY <2>1
  <2> HIDE DEF y
  <2>3. /\ First(y + 1, q) = First(y, q) \o q[y + 1]
        /\ First(y, q) \in Seq(S) /\ q[y + 1] \in Seq(S)
    BY <1>0, <2>2, Zenon
  <2> QED
    BY <2>1, <2>3, Zenon DEF y
<1>6. Same(x)
  <2> DEFINE s == First(x - 1, q)
             t == q[x]
             u == First(k, q)
  <2>1. /\ s \in Seq(S) /\ t \in Seq(S) /\ u \in Seq(S) /\ Len(u) <= Len(s)
        /\ \A i \in 1..Len(u) : s[i] = u[i]
    BY <1>2, <1>4, <1>5
  <2> HIDE DEF s, t, u
  <2>2. Len(u) <= Len(s \o t) /\ \A i \in 1..Len(u) : (s \o t)[i] = u[i]
    BY <2>1
  <2> QED
    BY <1>5, <2>2 DEF s, t, u
<1> QED
  BY <1>1, <1>6

\* A sequence holds another one, behind so many others.
Has(s, k, t) == \A j \in 1..Len(t) : s[k + j] = t[j]

\* A sequence is longer than another one, by the length of a third.
Longer(s, t, r) == Len(s) = Len(t) + Len(r)

\* Where the next one is in the whole.
LEMMA FirstPlace ==
    ASSUME NEW S, NEW n \in Nat, NEW q \in [1..n -> Seq(S)], NEW k \in Nat, k < n
    PROVE  /\ Len(First(k, q)) \in Nat
           /\ Longer(First(k + 1, q), First(k, q), q[k + 1])
           /\ Len(First(k, q)) + Len(q[k + 1]) <= Len(First(n, q))
           /\ Has(First(n, q), Len(First(k, q)), q[k + 1])
<1>1. /\ First(k + 1, q) = First(k, q) \o q[k + 1]
      /\ First(k, q) \in Seq(S) /\ q[k + 1] \in Seq(S)
  BY FirstAdds
<1>2. /\ Len(First(k + 1, q)) <= Len(First(n, q))
      /\ \A i \in 1..Len(First(k + 1, q)) : First(n, q)[i] = First(k + 1, q)[i]
  <2>1. k + 1 \in Nat /\ k + 1 <= n
    OBVIOUS
  <2> QED
    BY <2>1, FirstStays
<1> DEFINE s == First(k, q)
           t == q[k + 1]
           u == First(n, q)
<1>3. /\ s \in Seq(S) /\ t \in Seq(S) /\ Len(s \o t) <= Len(u)
      /\ First(k + 1, q) = s \o t
      /\ \A i \in 1..Len(s \o t) : u[i] = (s \o t)[i]
  BY <1>1, <1>2
<1> HIDE DEF s, t, u
<1>4. /\ Len(s) \in Nat /\ Len(s) + Len(t) <= Len(u)
      /\ Len(First(k + 1, q)) = Len(s) + Len(t)
      /\ \A j \in 1..Len(t) : u[Len(s) + j] = t[j]
  <2>1. Len(s) \in Nat /\ Len(t) \in Nat /\ Len(s \o t) = Len(s) + Len(t)
    BY <1>3
  <2>2. ASSUME NEW j \in 1..Len(t) PROVE u[Len(s) + j] = t[j]
    <3>1. Len(s) + j \in 1..Len(s \o t) /\ (s \o t)[Len(s) + j] = t[j]
      BY <1>3, <2>1
    <3> QED
      BY <1>3, <3>1
  <2> QED
    BY <1>3, <2>1, <2>2
<1> QED
  BY <1>4 DEF s, t, u, Has, Longer

-----------------------------------------------------------------------------
(* What PB_BIND packs, load_descriptor_values unpacks.                     *)

LEMMA Powers == /\ 2^0 = 1 /\ 2^1 = 2 /\ 2^2 = 4 /\ 2^3 = 8 /\ 2^4 = 16 /\ 2^6 = 64
                /\ 2^8 = 256 /\ 2^12 = 4096 /\ 2^14 = 16384 /\ 2^16 = 65536
OBVIOUS

\* The low half of a first word.
LEMMA FirstHalf ==
    ASSUME NEW l \in 0..3, NEW u \in 0..63, NEW y \in 0..255
    PROVE  /\ l + u * 4 + y * 256 \in Nat
           /\ (l + u * 4 + y * 256) % 4 = l
           /\ (l + u * 4 + y * 256) \div 256 = y
           /\ ((l + u * 4 + y * 256) \div 4) % 64 = u
OBVIOUS

LEMMA FieldTypes ==
    ASSUME NEW f \in Fields
    PROVE  /\ f.tag \in Nat \ {0} /\ f.width \in {1, 2, 4, 8} /\ f.type \in 0..255
           /\ f.data_offset \in Nat /\ f.size_offset \in Nat
           /\ f.size_offset \in 0..127
           /\ f.data_size \in Nat /\ f.array_size \in Nat \ {0}
           /\ f.tag \in Nat /\ f.type \in Nat /\ f.array_size \in Nat /\ f.data_offset \in Int
BY DEF Fields

\* The format of each width.
LEMMA Formats ==
    ASSUME NEW f
    PROVE  /\ f.width = 1 =>
                  FieldInfo(f) =
                     <<Word0(0, f, Low(f.data_offset, 8) + Shift(Low(f.size_offset, 4), 8)
                                     + Shift(Low(f.data_size, 4), 12))>>
           /\ f.width = 2 =>
                  FieldInfo(f) =
                     <<Word0(1, f, Low(f.array_size, 12) + Shift(Low(f.size_offset, 4), 12)),
                        <<f.data_offset,
                          Low(f.data_size, 12) + Shift(Low(High(f.tag, 6), 4), 12)>> >>
           /\ f.width = 4 =>
                  FieldInfo(f) =
                     <<Word0(2, f, f.array_size), Word1(f),
                        <<f.data_offset, 0>>, <<f.data_size, 0>> >>
           /\ f.width = 8 =>
                  FieldInfo(f) =
                     <<Word0(3, f, 0), Word1(f),
                        <<f.data_offset, 0>>, <<f.data_size, 0>>,
                        <<f.array_size, 0>>, <<0, 0>>, <<0, 0>>, <<0, 0>> >>
<1>1. ASSUME f.width = 1
      PROVE  FieldInfo(f) =
                     <<Word0(0, f, Low(f.data_offset, 8) + Shift(Low(f.size_offset, 4), 8)
                                     + Shift(Low(f.data_size, 4), 12))>>
  <2>1. f.width # 2 /\ f.width # 4 /\ f.width # 8
    BY <1>1
  <2> QED
    BY <1>1, <2>1, Zenon DEF FieldInfo
<1>2. ASSUME f.width = 2
      PROVE  FieldInfo(f) =
                     <<Word0(1, f, Low(f.array_size, 12) + Shift(Low(f.size_offset, 4), 12)),
                        <<f.data_offset,
                          Low(f.data_size, 12) + Shift(Low(High(f.tag, 6), 4), 12)>> >>
  <2>1. f.width # 1 /\ f.width # 4 /\ f.width # 8
    BY <1>2
  <2> QED
    BY <1>2, <2>1, Zenon DEF FieldInfo
<1>3. ASSUME f.width = 4
      PROVE  FieldInfo(f) =
                     <<Word0(2, f, f.array_size), Word1(f),
                        <<f.data_offset, 0>>, <<f.data_size, 0>> >>
  <2>1. f.width # 1 /\ f.width # 2 /\ f.width # 8
    BY <1>3
  <2> QED
    BY <1>3, <2>1, Zenon DEF FieldInfo
<1>4. ASSUME f.width = 8
      PROVE  FieldInfo(f) =
                     <<Word0(3, f, 0), Word1(f),
                        <<f.data_offset, 0>>, <<f.data_size, 0>>,
                        <<f.array_size, 0>>, <<0, 0>>, <<0, 0>>, <<0, 0>> >>
  <2>1. f.width # 1 /\ f.width # 2 /\ f.width # 4
    BY <1>4
  <2> QED
    BY <1>4, <2>1, Zenon DEF FieldInfo
<1> QED
  BY <1>1, <1>2, <1>3, <1>4, Zenon

\* A word: each half a number.
Word == Nat \X Nat

LEMMA LowType ==
    ASSUME NEW x \in Nat
    PROVE  /\ Low(x, 4) \in Nat /\ Low(x, 6) \in Nat /\ Low(x, 8) \in Nat /\ Low(x, 12) \in Nat
           /\ High(x, 6) \in Nat /\ High(x, 14) \in Nat
           /\ Shift(x, 8) \in Nat /\ Shift(x, 12) \in Nat
BY Powers DEF Low, High, Shift

\* Each format begins with a first word.
LEMMA Header ==
    ASSUME NEW f \in Fields, FieldFits(f)
    PROVE  /\ FieldInfo(f) \in Seq(Word) /\ Len(FieldInfo(f)) = f.width
           /\ Width(FieldInfo(f)[1]) = f.width
           /\ LowTag(FieldInfo(f)[1]) = Low(f.tag, 6)
           /\ TypeOf(FieldInfo(f)[1]) = f.type
<1>1. /\ f.tag \in Nat /\ f.type \in 0..255 /\ f.type \in Nat
      /\ f.data_offset \in Nat /\ f.size_offset \in Nat
      /\ f.data_size \in Nat /\ f.array_size \in Nat
  BY FieldTypes
<1>2. ASSUME NEW l \in 0..3, NEW h \in Nat
      PROVE  /\ Word0(l, f, h) \in Word /\ Low(Word0(l, f, h)[1], 2) = l
             /\ LowTag(Word0(l, f, h)) = Low(f.tag, 6)
             /\ TypeOf(Word0(l, f, h)) = f.type
             /\ Width(Word0(l, f, h)) = 2^l
  <2> DEFINE x == l + Shift(Low(f.tag, 6), 2) + Shift(f.type, 8)
  <2>1. /\ x \in Nat /\ Low(x, 2) = l /\ High(x, 8) = f.type
        /\ Low(High(x, 2), 6) = Low(f.tag, 6)
    <3> DEFINE u == f.tag % 64
               y == f.type
    <3>1. u \in 0..63 /\ y \in 0..255
      BY <1>1
    <3>2. x = l + u * 4 + y * 256 /\ Low(f.tag, 6) = u
      BY Powers DEF Shift, Low
    <3> HIDE DEF u, y, x
    <3>3. /\ l + u * 4 + y * 256 \in Nat
          /\ (l + u * 4 + y * 256) % 4 = l
          /\ (l + u * 4 + y * 256) \div 256 = y
          /\ ((l + u * 4 + y * 256) \div 4) % 64 = u
      BY <3>1, FirstHalf, SMTT(30)
    <3> QED
      BY <3>2, <3>3, Powers DEF Low, High, y
  <2>2. Word0(l, f, h) = <<x, h>>
    BY Zenon DEF Word0
  <2> HIDE DEF x
  <2>3. Word0(l, f, h)[1] = x /\ Word0(l, f, h) \in Word
    BY <2>1, <2>2 DEF Word
  <2> QED
    BY <2>1, <2>3, Zenon DEF LowTag, TypeOf, Width
<1>3. Word1(f) \in Word
  <2>1. /\ Low(f.size_offset, 8) + Shift(Low(High(f.tag, 6), 8), 8) \in Nat
        /\ High(f.tag, 14) \in Nat
    <3>1. /\ High(f.tag, 6) \in Nat /\ High(f.tag, 14) \in Nat
          /\ Shift(Low(High(f.tag, 6), 8), 8) \in Nat /\ Low(f.size_offset, 8) \in Nat
      BY <1>1, LowType
    <3> QED
      BY <1>1, <3>1
  <2> QED
    BY <2>1 DEF Word1, Word
<1>4. CASE f.width = 1
  <2> DEFINE h == Low(f.data_offset, 8) + Shift(Low(f.size_offset, 4), 8)
                  + Shift(Low(f.data_size, 4), 12)
  <2>1. h \in Nat
    <3>1. /\ Low(f.data_offset, 8) \in Nat /\ Shift(Low(f.size_offset, 4), 8) \in Nat
          /\ Shift(Low(f.data_size, 4), 12) \in Nat
      BY <1>1, LowType
    <3> QED
      BY <3>1
  <2>2. FieldInfo(f) = <<Word0(0, f, h)>>
    BY <1>4, Formats
  <2> HIDE DEF h
  <2>3. Width(Word0(0, f, h)) = 1
    BY <1>2, <2>1, Powers
  <2>4. FieldInfo(f)[1] = Word0(0, f, h) /\ FieldInfo(f) \in Seq(Word) /\ Len(FieldInfo(f)) = 1
    BY <1>2, <2>1, <2>2
  <2> QED
    BY <1>2, <1>4, <2>1, <2>3, <2>4
<1>5. CASE f.width = 2
  <2> DEFINE h == Low(f.array_size, 12) + Shift(Low(f.size_offset, 4), 12)
             w == <<f.data_offset, Low(f.data_size, 12) + Shift(Low(High(f.tag, 6), 4), 12)>>
  <2>1. h \in Nat /\ w \in Word
    <3>1. /\ Low(f.array_size, 12) \in Nat /\ Shift(Low(f.size_offset, 4), 12) \in Nat
          /\ Low(f.data_size, 12) \in Nat /\ Shift(Low(High(f.tag, 6), 4), 12) \in Nat
      BY <1>1, LowType
    <3> QED
      BY <1>1, <3>1 DEF Word
  <2>2. FieldInfo(f) = <<Word0(1, f, h), w>>
    BY <1>5, Formats
  <2> HIDE DEF h, w
  <2>3. Width(Word0(1, f, h)) = 2
    BY <1>2, <2>1, Powers
  <2>4. FieldInfo(f)[1] = Word0(1, f, h) /\ FieldInfo(f) \in Seq(Word) /\ Len(FieldInfo(f)) = 2
    BY <1>2, <2>1, <2>2
  <2> QED
    BY <1>2, <1>5, <2>1, <2>3, <2>4
<1>6. CASE f.width = 4
  <2> DEFINE w == Word0(2, f, f.array_size)
             w2 == <<f.data_offset, 0>>
             w3 == <<f.data_size, 0>>
  <2>0. w \in Word
    BY <1>1, <1>2
  <2>1. w2 \in Word /\ w3 \in Word /\ w \in Word
    <3> HIDE DEF w
    <3> QED
      BY <1>1, <2>0 DEF Word
  <2>2. FieldInfo(f) = <<w, Word1(f), w2, w3>>
    BY <1>6, Formats
  <2>3. Width(w) = 4
    BY <1>1, <1>2, Powers
  <2> HIDE DEF w, w2, w3
  <2>4. FieldInfo(f)[1] = w /\ FieldInfo(f) \in Seq(Word) /\ Len(FieldInfo(f)) = 4
    BY <1>3, <2>1, <2>2
  <2> QED
    BY <1>1, <1>2, <1>6, <2>3, <2>4 DEF w
<1>7. CASE f.width = 8
  <2> DEFINE w == Word0(3, f, 0)
             w2 == <<f.data_offset, 0>>
             w3 == <<f.data_size, 0>>
             w4 == <<f.array_size, 0>>
             z == <<0, 0>>
  <2>0. w \in Word
    BY <1>1, <1>2
  <2>1. w2 \in Word /\ w3 \in Word /\ w4 \in Word /\ z \in Word /\ w \in Word
    <3> HIDE DEF w
    <3> QED
      BY <1>1, <2>0 DEF Word
  <2>2. FieldInfo(f) = <<w, Word1(f), w2, w3, w4, z, z, z>>
    BY <1>7, Formats
  <2>3. Width(w) = 8
    BY <1>1, <1>2, Powers
  <2> HIDE DEF w, w2, w3, w4, z
  <2>4. FieldInfo(f)[1] = w /\ FieldInfo(f) \in Seq(Word) /\ Len(FieldInfo(f)) = 8
    BY <1>3, <2>1, <2>2
  <2> QED
    BY <1>1, <1>2, <1>7, <2>3, <2>4 DEF w
<1> QED
  BY <1>4, <1>5, <1>6, <1>7, FieldTypes

\* Shifts and masks as arithmetic.
LEMMA Bits ==
    ASSUME NEW x
    PROVE  /\ Low(x, 4) = x % 16 /\ Low(x, 6) = x % 64 /\ Low(x, 8) = x % 256
           /\ Low(x, 12) = x % 4096 /\ Low(x, 16) = x % 65536
           /\ High(x, 6) = x \div 64 /\ High(x, 8) = x \div 256
           /\ High(x, 12) = x \div 4096 /\ High(x, 14) = x \div 16384
           /\ Shift(x, 4) = x * 16 /\ Shift(x, 6) = x * 64 /\ Shift(x, 8) = x * 256
           /\ Shift(x, 12) = x * 4096
BY Powers DEF Low, High, Shift

LEMMA Bits1 ==
    ASSUME NEW a \in 0..255, NEW b \in 0..15, NEW c \in 0..15
    PROVE  /\ (a + b * 256 + c * 4096) % 256 = a
           /\ ((a + b * 256 + c * 4096) \div 256) % 16 = b
           /\ (a + b * 256 + c * 4096) \div 4096 = c
BY SMTT(30)

LEMMA Bits2 ==
    ASSUME NEW a \in 0..4095, NEW b \in 0..15
    PROVE  (a + b * 4096) % 4096 = a /\ (a + b * 4096) \div 4096 = b
BY SMTT(30)

LEMMA Bits4 ==
    ASSUME NEW a \in 0..255, NEW b \in 0..255
    PROVE  (a + b * 256) % 256 = a /\ (a + b * 256) \div 256 = b
BY SMTT(30)

\* A tag, put together from its parts.
LEMMA TagParts ==
    ASSUME NEW t \in Nat
    PROVE  /\ t < 64 => t % 64 = t
           /\ t < 1024 => /\ (t \div 64) % 16 \in 0..15
                          /\ (t % 64) + ((t \div 64) % 16) * 64 = t
           /\ t < 65536 =>
                  /\ (t \div 64) % 256 \in 0..255 /\ t \div 16384 \in 0..3
                  /\ ((t % 64) + (((t \div 64) % 256) + (t \div 16384) * 256) * 64) % 65536 = t
<1>1. t < 64 => t % 64 = t
  OBVIOUS
<1>2. t < 1024 => /\ (t \div 64) % 16 \in 0..15
                  /\ (t % 64) + ((t \div 64) % 16) * 64 = t
  OBVIOUS
<1>3. ASSUME t < 65536
      PROVE  /\ (t \div 64) % 256 \in 0..255 /\ t \div 16384 \in 0..3
             /\ ((t % 64) + (((t \div 64) % 256) + (t \div 16384) * 256) * 64) % 65536 = t
  <2>1. (t \div 64) % 256 \in 0..255 /\ t \div 16384 \in 0..3
    BY <1>3
  <2>2. (t % 64) + (((t \div 64) % 256) + (t \div 16384) * 256) * 64 = t
    BY <1>3
  <2> QED
    BY <1>3, <2>1, <2>2
<1> QED
  BY <1>1, <1>2, <1>3

\* The words of a field are at this place.
At(at, f) == \A j \in 0..f.width - 1 : word(at + j) = FieldInfo(f)[j + 1]

LEMMA WordAt ==
    ASSUME NEW f \in Fields, FieldFits(f), NEW at \in Nat, At(at, f)
    PROVE  /\ word(at) = FieldInfo(f)[1]
           /\ Width(word(at)) = f.width /\ LowTag(word(at)) = Low(f.tag, 6)
           /\ TypeOf(word(at)) = f.type
           /\ f.width > 1 => word(at + 1) = FieldInfo(f)[2]
           /\ f.width > 2 => word(at + 2) = FieldInfo(f)[3] /\ word(at + 3) = FieldInfo(f)[4]
           /\ f.width > 4 => word(at + 4) = FieldInfo(f)[5]
<1>1. f.width \in {1, 2, 4, 8}
  BY FieldTypes
<1>2. \A j \in 0..f.width - 1 : word(at + j) = FieldInfo(f)[j + 1]
  BY DEF At
<1>3. word(at) = FieldInfo(f)[1]
  <2>1. 0 \in 0..f.width - 1 /\ at + 0 = at /\ 0 + 1 = 1
    BY <1>1
  <2> QED
    BY <1>2, <2>1
<1>4. f.width > 1 => word(at + 1) = FieldInfo(f)[2]
  <2>1. f.width > 1 => 1 \in 0..f.width - 1 /\ 1 + 1 = 2
    BY <1>1
  <2> QED
    BY <1>2, <2>1
<1>5. f.width > 2 => word(at + 2) = FieldInfo(f)[3] /\ word(at + 3) = FieldInfo(f)[4]
  <2>1. f.width > 2 => 2 \in 0..f.width - 1 /\ 2 + 1 = 3 /\ 3 \in 0..f.width - 1 /\ 3 + 1 = 4
    BY <1>1
  <2> QED
    BY <1>2, <2>1
<1>6. f.width > 4 => word(at + 4) = FieldInfo(f)[5]
  <2>1. f.width > 4 => 4 \in 0..f.width - 1 /\ 4 + 1 = 5
    BY <1>1
  <2> QED
    BY <1>2, <2>1
<1> QED
  BY <1>3, <1>4, <1>5, <1>6, Header

\* What Unpack yields for a field.
Values(f) == [array_size |-> f.array_size, size_offset |-> f.size_offset,
              data_offset |-> f.data_offset, data_size |-> f.data_size]

LEMMA Unpacked1 ==
    ASSUME NEW f \in Fields, FieldFits(f), NEW at \in Nat, At(at, f), f.width = 1
    PROVE  Tag(at) = f.tag /\ Unpack(at) = Values(f)
<1> DEFINE w == word(at)
           a == f.data_offset
           b == f.size_offset
           c == f.data_size
<1>1. /\ a \in 0..255 /\ b \in 0..15 /\ c \in 0..15 /\ f.array_size = 1
      /\ f.tag \in Nat /\ f.tag < 64
  BY FieldTypes DEF FieldFits
<1>2. Width(w) = 1 /\ LowTag(w) = Low(f.tag, 6) /\ w = FieldInfo(f)[1]
  BY WordAt
<1>3. w[2] = a + b * 256 + c * 4096
  <2>1. w = Word0(0, f, Low(a, 8) + Shift(Low(b, 4), 8) + Shift(Low(c, 4), 12))
    BY <1>2, Formats
  <2>2. w[2] = Low(a, 8) + Shift(Low(b, 4), 8) + Shift(Low(c, 4), 12)
    BY <2>1 DEF Word0
  <2>3. a % 256 = a /\ b % 16 = b /\ c % 16 = c
    BY <1>1
  <2> QED
    BY <2>2, <2>3, Bits
<1> HIDE DEF w
<1>0. Width(word(at)) = 1 /\ Width(word(at)) # 2
  BY <1>2 DEF w
<1>4. Tag(at) = f.tag
  <2>1. Tag(at) = LowTag(w)
    BY <1>0, Zenon DEF Tag, w
  <2> QED
    BY <1>1, <1>2, <2>1, Bits
<1>5. Unpack(at) = [array_size |-> 1, size_offset |-> Low(High(w[2], 8), 4),
                    data_offset |-> Low(w[2], 8), data_size |-> High(w[2], 12)]
  BY <1>0, Zenon DEF Unpack, w
<1>6. Low(High(w[2], 8), 4) = b /\ Low(w[2], 8) = a /\ High(w[2], 12) = c
  <2> HIDE DEF a, b, c
  <2>1. /\ (a + b * 256 + c * 4096) % 256 = a
        /\ ((a + b * 256 + c * 4096) \div 256) % 16 = b
        /\ (a + b * 256 + c * 4096) \div 4096 = c
    <3>1. a \in 0..255 /\ b \in 0..15 /\ c \in 0..15
      BY <1>1
    <3> QED
      BY <3>1, SMTT(30)
  <2> QED
    BY <1>3, <2>1, Bits
<1> QED
  BY <1>1, <1>4, <1>5, <1>6 DEF Values

LEMMA Unpacked2 ==
    ASSUME NEW f \in Fields, FieldFits(f), NEW at \in Nat, At(at, f), f.width = 2
    PROVE  Tag(at) = f.tag /\ Unpack(at) = Values(f)
<1> DEFINE w == word(at)
           w1 == word(at + 1)
           a == f.array_size
           b == f.size_offset
           c == f.data_size
           t == f.tag
<1>0. /\ a \in Nat /\ b \in Nat /\ c \in Nat /\ t \in Nat /\ f.data_offset \in Nat
      /\ a < 4096 /\ b < 16 /\ c < 4096 /\ t < 1024
  <2>1. a \in Nat /\ b \in Nat /\ c \in Nat /\ t \in Nat /\ f.data_offset \in Nat
    BY FieldTypes
  <2>2. a < 4096 /\ b < 16 /\ c < 4096 /\ t < 1024
    BY DEF FieldFits
  <2> QED
    BY <2>1, <2>2
<1>1. a \in 0..4095 /\ b \in 0..15
  <2> HIDE DEF a, b
  <2> QED
    BY <1>0
<1>10. c \in 0..4095
  <2> HIDE DEF c
  <2> QED
    BY <1>0
<1>11. t \in Nat /\ t < 1024
  BY <1>0
<1>2. Width(w) = 2 /\ LowTag(w) = Low(t, 6) /\ w = FieldInfo(f)[1] /\ w1 = FieldInfo(f)[2]
  BY WordAt
<1>3. (t \div 64) % 16 \in 0..15 /\ (t % 64) + ((t \div 64) % 16) * 64 = t
  <2> HIDE DEF t
  <2> QED
    BY <1>11, SMTT(30)
<1> DEFINE u == (t \div 64) % 16
<1>4. /\ w[2] = a + b * 4096
      /\ w1[1] = f.data_offset /\ w1[2] = c + u * 4096
  <2>1. /\ w = Word0(1, f, Low(a, 12) + Shift(Low(b, 4), 12))
        /\ w1 = <<f.data_offset, Low(c, 12) + Shift(Low(High(t, 6), 4), 12)>>
    BY <1>2, Formats
  <2>2. /\ w[2] = Low(a, 12) + Shift(Low(b, 4), 12) /\ w1[1] = f.data_offset
        /\ w1[2] = Low(c, 12) + Shift(Low(High(t, 6), 4), 12)
    BY <2>1 DEF Word0
  <2>3. a % 4096 = a /\ b % 16 = b /\ c % 4096 = c
    <3> HIDE DEF a, b, c, t
    <3> QED
      BY <1>1, <1>10
  <2> QED
    BY <2>2, <2>3, Bits
<1>5. Width(word(at)) = 2 /\ Width(word(at)) # 1
  BY <1>2
<1> HIDE DEF w, w1
<1>6. Tag(at) = t
  <2>1. Tag(at) = LowTag(w) + Shift(High(w1[2], 12), 6)
    BY <1>5, Zenon DEF Tag, w, w1
  <2>2. u \in 0..15 /\ (t % 64) + u * 64 = t
    BY <1>3
  <2> HIDE DEF u, t, c
  <2>3. (c + u * 4096) \div 4096 = u
    <3>1. u \in 0..15
      BY <2>2
    <3> QED
      BY <1>10, <3>1, SMTT(30)
  <2> QED
    BY <1>2, <1>4, <2>1, <2>2, <2>3, Bits
<1>7. Unpack(at) = [array_size |-> Low(w[2], 12), size_offset |-> High(w[2], 12),
                    data_offset |-> w1[1], data_size |-> Low(w1[2], 12)]
  BY <1>5, Zenon DEF Unpack, w, w1
<1>8. Low(w[2], 12) = a /\ High(w[2], 12) = b /\ Low(w1[2], 12) = c
  <2>1. u \in 0..15
    BY <1>3
  <2> HIDE DEF a, b, c, u
  <2>2. (a + b * 4096) % 4096 = a /\ (a + b * 4096) \div 4096 = b
    BY <1>1, SMTT(30)
  <2>3. (c + u * 4096) % 4096 = c
    BY <1>10, <2>1, SMTT(30)
  <2> QED
    BY <1>4, <2>2, <2>3, Bits
<1> QED
  BY <1>4, <1>6, <1>7, <1>8 DEF Values

LEMMA Unpacked4 ==
    ASSUME NEW f \in Fields, FieldFits(f), NEW at \in Nat, At(at, f), f.width \in {4, 8}
    PROVE  Tag(at) = f.tag /\ Unpack(at) = Values(f)
<1> DEFINE w == word(at)
           w1 == word(at + 1)
           b == f.size_offset
           t == f.tag
           u == (t \div 64) % 256
           v == t \div 16384
<1>1. b \in 0..255 /\ t \in Nat /\ t < 65536
  BY FieldTypes DEF FieldFits
<1>2. /\ Width(w) = f.width /\ LowTag(w) = Low(t, 6)
      /\ w = FieldInfo(f)[1] /\ w1 = FieldInfo(f)[2]
      /\ word(at + 2) = FieldInfo(f)[3] /\ word(at + 3) = FieldInfo(f)[4]
      /\ f.width = 8 => word(at + 4) = FieldInfo(f)[5]
  BY WordAt
<1>3. /\ u \in 0..255 /\ v \in Nat
      /\ ((t % 64) + (u + v * 256) * 64) % 65536 = t
  <2>1. /\ (t \div 64) % 256 \in 0..255 /\ t \div 16384 \in 0..3
        /\ ((t % 64) + (((t \div 64) % 256) + (t \div 16384) * 256) * 64) % 65536 = t
    <3> HIDE DEF t
    <3> QED
      BY <1>1, TagParts
  <2> HIDE DEF t
  <2> QED
    BY <2>1
<1>4. /\ f.width = 4 => w[2] = f.array_size
      /\ w1 = Word1(f)
      /\ word(at + 2) = <<f.data_offset, 0>> /\ word(at + 3) = <<f.data_size, 0>>
      /\ f.width = 8 => word(at + 4) = <<f.array_size, 0>>
  <2>1. CASE f.width = 4
    <3>1. /\ w = Word0(2, f, f.array_size) /\ w1 = Word1(f)
          /\ word(at + 2) = <<f.data_offset, 0>> /\ word(at + 3) = <<f.data_size, 0>>
      BY <1>2, <2>1, Formats
    <3> QED
      BY <2>1, <3>1 DEF Word0
  <2>2. CASE f.width = 8
    BY <1>2, <2>2, Formats
  <2> QED
    BY <2>1, <2>2
<1>5. w1[1] = b + u * 256 /\ w1[2] = v
  <2>1. /\ w1[1] = Low(b, 8) + Shift(Low(High(t, 6), 8), 8) /\ w1[2] = High(t, 14)
    BY <1>4 DEF Word1
  <2>2. Low(b, 8) = b
    <3>1. b \in 0..127
      BY FieldTypes
    <3> HIDE DEF b
    <3> QED
      BY <3>1, Bits
  <2> QED
    BY <2>1, <2>2, Bits
<1>6. Width(word(at)) # 2 /\ Width(word(at)) # 1
  BY <1>2
<1> HIDE DEF w, w1
<1>7. (b + u * 256) % 256 = b /\ (b + u * 256) \div 256 = u
  <2> HIDE DEF b, u
  <2> QED
    BY <1>1, <1>3, Bits4
<1>8. Tag(at) = t
  <2>1. Tag(at) = Low(LowTag(w) + Shift(High(w1[1], 8) + Shift(w1[2], 8), 6), 16)
    BY <1>6, Zenon DEF Tag, w, w1
  <2>2. High(w1[1], 8) = u /\ Shift(w1[2], 8) = v * 256
    BY <1>5, <1>7, Bits
  <2>3. LowTag(w) = t % 64
    BY <1>2, Bits
  <2>4. Tag(at) = ((t % 64) + (u + v * 256) * 64) % 65536
    <3> HIDE DEF t, u, v, b
    <3> QED
      BY <2>1, <2>2, <2>3, Bits
  <2> QED
    BY <1>3, <2>4
<1>9. Unpack(at) = [array_size |-> IF Width(w) = 4 THEN w[2] ELSE word(at + 4)[1],
                    size_offset |-> Low(w1[1], 8),
                    data_offset |-> word(at + 2)[1], data_size |-> word(at + 3)[1]]
  BY <1>6, Zenon DEF Unpack, w, w1
<1>10. Low(w1[1], 8) = b
  BY <1>5, <1>7, Bits
<1>11. (IF Width(w) = 4 THEN w[2] ELSE word(at + 4)[1]) = f.array_size
  BY <1>2, <1>4
<1>12. word(at + 2)[1] = f.data_offset /\ word(at + 3)[1] = f.data_size
  BY <1>4
<1> QED
  BY <1>8, <1>9, <1>10, <1>11, <1>12, Zenon DEF Values

LEMMA Unpacked ==
    ASSUME NEW f \in Fields, FieldFits(f), NEW at \in Nat, At(at, f)
    PROVE  Tag(at) = f.tag /\ Unpack(at) = Values(f)
BY FieldTypes, Unpacked1, Unpacked2, Unpacked4

-----------------------------------------------------------------------------
(* Where a field is in the descriptor.                                     *)

Bound == msg \in Messages /\ descriptor = PB_BIND(msg)

LEMMA MessageFields ==
    ASSUME msg \in Messages
    PROVE  /\ msg \in Seq(Fields) /\ Len(msg) \in Nat
           /\ \A k \in 1..Len(msg) : msg[k] \in Fields /\ FieldFits(msg[k])
           /\ \A j, k \in 1..Len(msg) : j < k => msg[j].tag < msg[k].tag
<1>1. /\ msg \in Seq(Fields)
      /\ \A k \in 1..Len(msg) : FieldFits(msg[k])
      /\ \A j, k \in 1..Len(msg) : j < k => msg[j].tag < msg[k].tag
  BY MessagesAssumption
<1> QED
  BY <1>1

Infos == [j \in 1..Len(msg) |-> FieldInfo(msg[j])]
Submsgs == [j \in 1..Len(msg) |-> SubmsgInfo(msg[j])]

LEMMA BeforeIs ==
    ASSUME msg \in Messages, NEW k \in Nat, k <= Len(msg)
    PROVE  Len(Before(k)) = k /\ \A j \in 1..k : Before(k)[j] = msg[j]
BY MessageFields DEF Before

LEMMA Prefixed ==
    ASSUME msg \in Messages, NEW k \in Nat, k <= Len(msg)
    PROVE  /\ FieldInfos(Before(k)) = First(k, Infos)
           /\ SubmsgInfos(Before(k)) = First(k, Submsgs)
<1>1. Len(Before(k)) = k /\ \A j \in 1..k : Before(k)[j] = msg[j]
  BY BeforeIs
<1>2. \A j \in 1..k : j \in 1..Len(msg)
  BY MessageFields
<1>3. [j \in 1..Len(Before(k)) |-> FieldInfo(Before(k)[j])] = [j \in 1..k |-> Infos[j]]
  BY <1>1, <1>2 DEF Infos
<1>4. [j \in 1..Len(Before(k)) |-> SubmsgInfo(Before(k)[j])] = [j \in 1..k |-> Submsgs[j]]
  BY <1>1, <1>2 DEF Submsgs
<1> QED
  BY <1>3, <1>4, Zenon DEF FieldInfos, SubmsgInfos, First

LEMMA Whole ==
    /\ FieldInfos(msg) = First(Len(msg), Infos)
    /\ SubmsgInfos(msg) = First(Len(msg), Submsgs)
<1>1. /\ [j \in 1..Len(msg) |-> FieldInfo(msg[j])] = [j \in 1..Len(msg) |-> Infos[j]]
      /\ [j \in 1..Len(msg) |-> SubmsgInfo(msg[j])] = [j \in 1..Len(msg) |-> Submsgs[j]]
  BY DEF Infos, Submsgs
<1> QED
  BY <1>1, Zenon DEF FieldInfos, SubmsgInfos, First

LEMMA InfoTypes ==
    ASSUME msg \in Messages
    PROVE  Infos \in [1..Len(msg) -> Seq(Word)] /\ Submsgs \in [1..Len(msg) -> Seq(Nat)]
<1>1. ASSUME NEW j \in 1..Len(msg) PROVE FieldInfo(msg[j]) \in Seq(Word)
  BY MessageFields, Header
<1>2. ASSUME NEW j \in 1..Len(msg) PROVE SubmsgInfo(msg[j]) \in Seq(Nat)
  <2>1. msg[j].tag \in Nat
    BY MessageFields, FieldTypes
  <2> QED
    BY <2>1 DEF SubmsgInfo
<1> QED
  BY <1>1, <1>2 DEF Infos, Submsgs

\* Its words.
LEMMA InfoPlace ==
    ASSUME Bound, NEW i \in Nat, i < Len(msg)
    PROVE  LET at == Len(FieldInfos(Before(i)))
               f == msg[i + 1]
           IN  /\ at \in Nat /\ f \in Fields /\ FieldFits(f) /\ At(at, f)
               /\ at + f.width <= Len(FieldInfos(msg))
               /\ Len(FieldInfos(Before(i + 1))) = at + f.width
<1> DEFINE at == Len(FieldInfos(Before(i)))
           f == msg[i + 1]
           n == Len(msg)
<1>1. /\ msg \in Messages /\ n \in Nat /\ i + 1 \in 1..n /\ i + 1 \in Nat /\ i + 1 <= n
      /\ f \in Fields /\ FieldFits(f) /\ f.width \in Nat
  <2>1. /\ msg \in Messages /\ n \in Nat /\ i + 1 \in 1..n
        /\ \A k \in 1..n : msg[k] \in Fields /\ FieldFits(msg[k])
    BY MessageFields DEF Bound
  <2>2. f \in Fields /\ FieldFits(f)
    BY <2>1
  <2>3. f.width \in {1, 2, 4, 8}
    BY <2>2, FieldTypes, Zenon
  <2> QED
    BY <2>1, <2>2, <2>3
<1>2. Infos[i + 1] = FieldInfo(f)
  BY <1>1 DEF Infos
<1>3. Len(FieldInfo(f)) = f.width
  BY <1>1, Header
<1>4. i <= n
  BY <1>1
<1> HIDE DEF f
<1>5. FieldInfos(msg) = First(n, Infos)
  BY Whole
<1>6. Infos \in [1..n -> Seq(Word)] /\ i < n
  BY <1>1, InfoTypes
<1> DEFINE q == Infos
<1>10. /\ FieldInfos(Before(i)) = First(i, q)
       /\ FieldInfos(Before(i + 1)) = First(i + 1, q)
  BY <1>1, <1>4, Prefixed
<1>11. n \in Nat /\ q \in [1..n -> Seq(Word)] /\ n <= n
  BY <1>1, <1>6
<1> HIDE DEF n, q
<1>12. /\ Len(First(i, q)) \in Nat
       /\ Len(First(i, q)) + Len(q[i + 1]) <= Len(First(n, q))
       /\ Longer(First(i + 1, q), First(i, q), q[i + 1])
       /\ Has(First(n, q), Len(First(i, q)), q[i + 1])
  BY <1>6, <1>11, FirstPlace
<1>13. FieldInfos(msg) \in Seq(Word)
  <2>1. First(n, q) \in Seq(Word)
    BY <1>11, FirstType
  <2> QED
    BY <1>5, <2>1 DEF q
<1>7. descriptor.field_info = Append(FieldInfos(msg), <<0, 0>>)
  BY DEF Bound, PB_BIND
<1>8. /\ at \in Nat /\ at + f.width <= Len(FieldInfos(msg))
      /\ Len(FieldInfos(Before(i + 1))) = at + f.width
      /\ \A j \in 1..f.width : FieldInfos(msg)[at + j] = FieldInfo(f)[j]
  BY <1>2, <1>3, <1>5, <1>10, <1>12 DEF q, Has, Longer
<1> HIDE DEF at
<1>9. At(at, f)
  <2> SUFFICES ASSUME NEW j \in 0..f.width - 1 PROVE word(at + j) = FieldInfo(f)[j + 1]
    BY DEF At
  <2> DEFINE p == at + j + 1
             s == FieldInfos(msg)
  <2>1. p \in 1..Len(s) /\ j + 1 \in 1..f.width /\ p = at + (j + 1)
    <3>1. /\ at \in Nat /\ at + f.width <= Len(s) /\ f.width \in Nat /\ j \in 0..f.width - 1
          /\ Len(s) \in Nat
      BY <1>1, <1>8, <1>13
    <3> HIDE DEF s
    <3> QED
      BY <3>1
  <2>2. s[p] = FieldInfo(f)[j + 1]
    BY <1>8, <2>1
  <2>3. s \in Seq(Word) /\ <<0, 0>> \in Word
    BY <1>13 DEF Word
  <2>4. word(at + j) = Append(s, <<0, 0>>)[p]
    BY <1>7, Zenon DEF word
  <2> HIDE DEF s, p
  <2>5. Append(s, <<0, 0>>)[p] = s[p]
    BY <2>1, <2>3
  <2> QED
    BY <2>2, <2>4, <2>5
<1> QED
  BY <1>1, <1>8, <1>9 DEF at, f

\* Its place among the submessages.
LEMMA SubmsgPlace ==
    ASSUME Bound, NEW i \in Nat, i < Len(msg)
    PROVE  LET sub == Len(SubmsgInfos(Before(i)))
               f == msg[i + 1]
           IN  /\ sub \in Nat
               /\ Len(SubmsgInfos(Before(i + 1))) = sub + IF IS_SUBMSG(f.type) THEN 1 ELSE 0
               /\ IS_SUBMSG(f.type) => descriptor.submsg_info[sub + 1] = f.tag
<1> DEFINE sub == Len(SubmsgInfos(Before(i)))
           f == msg[i + 1]
           n == Len(msg)
<1>1. /\ msg \in Messages /\ n \in Nat /\ i + 1 \in 1..n /\ i + 1 \in Nat /\ i + 1 <= n
      /\ f \in Fields /\ f.tag \in Nat
  <2>1. /\ msg \in Messages /\ n \in Nat /\ i + 1 \in 1..n
        /\ \A k \in 1..n : msg[k] \in Fields
    BY MessageFields DEF Bound
  <2>2. f \in Fields
    BY <2>1
  <2>3. f.tag \in Nat
    BY <2>2, FieldTypes, Zenon
  <2> QED
    BY <2>1, <2>2, <2>3
<1>2. Submsgs[i + 1] = SubmsgInfo(f)
  BY <1>1 DEF Submsgs
<1>3. /\ Len(SubmsgInfo(f)) = IF IS_SUBMSG(f.type) THEN 1 ELSE 0
      /\ IS_SUBMSG(f.type) => SubmsgInfo(f)[1] = f.tag
  BY <1>1 DEF SubmsgInfo
<1>4. i <= n
  BY <1>1
<1> HIDE DEF f
<1>5. SubmsgInfos(msg) = First(n, Submsgs)
  BY Whole
<1>6. Submsgs \in [1..n -> Seq(Nat)] /\ i < n
  BY <1>1, InfoTypes
<1> DEFINE q == Submsgs
<1>10. /\ SubmsgInfos(Before(i)) = First(i, q)
       /\ SubmsgInfos(Before(i + 1)) = First(i + 1, q)
  BY <1>1, <1>4, Prefixed
<1>11. n \in Nat /\ q \in [1..n -> Seq(Nat)] /\ n <= n
  BY <1>1, <1>6
<1> HIDE DEF n, q
<1>12. /\ Len(First(i, q)) \in Nat
       /\ Len(First(i, q)) + Len(q[i + 1]) <= Len(First(n, q))
       /\ Longer(First(i + 1, q), First(i, q), q[i + 1])
       /\ Has(First(n, q), Len(First(i, q)), q[i + 1])
  BY <1>6, <1>11, FirstPlace
<1>13. SubmsgInfos(msg) \in Seq(Nat)
  <2>1. First(n, q) \in Seq(Nat)
    BY <1>11, FirstType
  <2> QED
    BY <1>5, <2>1 DEF q
<1>7. descriptor.submsg_info = Append(SubmsgInfos(msg), 0)
  BY DEF Bound, PB_BIND
<1>8. /\ sub \in Nat
      /\ Len(SubmsgInfos(Before(i + 1))) = sub + IF IS_SUBMSG(f.type) THEN 1 ELSE 0
      /\ IS_SUBMSG(f.type) => /\ sub + 1 <= Len(SubmsgInfos(msg))
                              /\ SubmsgInfos(msg)[sub + 1] = f.tag
  <2>1. q[i + 1] = SubmsgInfo(f) /\ SubmsgInfos(msg) = First(n, q) /\ sub = Len(First(i, q))
    BY <1>2, <1>5, <1>10 DEF q
  <2> QED
    BY <1>3, <1>10, <1>12, <2>1 DEF Has, Longer
<1> HIDE DEF sub
<1>9. ASSUME IS_SUBMSG(f.type) PROVE descriptor.submsg_info[sub + 1] = f.tag
  <2> DEFINE s == SubmsgInfos(msg)
             p == sub + 1
  <2>1. s \in Seq(Nat) /\ p \in 1..Len(s) /\ s[p] = f.tag
    BY <1>8, <1>9, <1>13
  <2> HIDE DEF s, p
  <2>2. Append(s, 0)[p] = f.tag
    BY <2>1
  <2> QED
    BY <1>7, <2>2 DEF s, p
<1> QED
  BY <1>8, <1>9 DEF sub, f

\* The required fields before it.
Required(k) == {j \in 1..k : HTYPE(msg[j].type) = REQUIRED}

LEMMA RequiredPlace ==
    ASSUME NEW i \in Nat
    PROVE  /\ Cardinality(Required(i)) \in Nat
           /\ Cardinality(Required(i + 1)) =
                  Cardinality(Required(i))
                  + IF HTYPE(msg[i + 1].type) = REQUIRED THEN 1 ELSE 0
<1>1. IsFiniteSet(Required(i)) /\ Cardinality(Required(i)) \in Nat
  <2>1. IsFiniteSet(1..i)
    BY FS_Interval
  <2>2. Required(i) \subseteq 1..i
    BY DEF Required
  <2> QED
    BY <2>1, <2>2, FS_Subset, FS_CardinalityType
<1>2. CASE HTYPE(msg[i + 1].type) = REQUIRED
  <2>1. Required(i + 1) = Required(i) \cup {i + 1} /\ i + 1 \notin Required(i)
    BY <1>2 DEF Required
  <2>2. Cardinality(Required(i) \cup {i + 1}) = Cardinality(Required(i)) + 1
    BY <1>1, <2>1, FS_AddElement, Zenon
  <2> QED
    BY <1>1, <1>2, <2>1, <2>2
<1>3. CASE HTYPE(msg[i + 1].type) # REQUIRED
  <2>1. Required(i + 1) = Required(i)
    BY <1>3 DEF Required
  <2> QED
    BY <1>1, <1>3, <2>1
<1> QED
  BY <1>1, <1>2, <1>3

-----------------------------------------------------------------------------
(* What the iterator does at a field.                                      *)

\* The field it is at, and its place in the descriptor.
LEMMA Place ==
    ASSUME Bound, NEW it \in pb_field_iter_t, it.index < Len(msg), SameField(it)
    PROVE  LET f == msg[it.index + 1]
               at == it.field_info_index
           IN  /\ it.index \in Nat /\ at \in Nat
               /\ f \in Fields /\ FieldFits(f) /\ At(at, f)
               /\ at + f.width <= Len(FieldInfos(msg))
               /\ at + f.width = Len(FieldInfos(Before(it.index + 1)))
               /\ Width(word(at)) = f.width /\ LowTag(word(at)) = Low(f.tag, 6)
               /\ TypeOf(word(at)) = f.type
<1> DEFINE i == it.index
           f == msg[i + 1]
           at == it.field_info_index
<1>1. i \in Nat /\ i < Len(msg) /\ at = Len(FieldInfos(Before(i)))
  BY DEF pb_field_iter_t, SameField
<1>2. /\ at \in Nat /\ f \in Fields /\ FieldFits(f) /\ At(at, f)
      /\ at + f.width <= Len(FieldInfos(msg))
      /\ Len(FieldInfos(Before(i + 1))) = at + f.width
  BY <1>1, InfoPlace
<1>3. /\ Width(word(at)) = f.width /\ LowTag(word(at)) = Low(f.tag, 6)
      /\ TypeOf(word(at)) = f.type
  BY <1>2, WordAt
<1> QED
  BY <1>1, <1>2, <1>3

\* An iterator has these indexes; another one's indexes, and these values.
IndexesAre(it, a, b, c, d) ==
    /\ it \in pb_field_iter_t
    /\ it.index = a /\ it.field_info_index = b
    /\ it.required_field_index = c /\ it.submessage_index = d

ValuesAre(it, old, a, b, c, d, x, p, y, z) ==
    /\ it \in pb_field_iter_t
    /\ it.index = old.index /\ it.field_info_index = old.field_info_index
    /\ it.required_field_index = old.required_field_index
    /\ it.submessage_index = old.submessage_index
    /\ it.type = a /\ it.tag = b /\ it.array_size = c /\ it.data_size = d
    /\ it.pField = x /\ it.pData = p /\ it.pSize = y /\ it.submsg_desc = z

LEMMA SetIndexes ==
    ASSUME NEW it \in pb_field_iter_t, NEW a \in Nat, NEW b \in Nat, NEW c \in Nat, NEW d \in Nat
    PROVE  IndexesAre([it EXCEPT !.index = a, !.field_info_index = b,
                                 !.required_field_index = c, !.submessage_index = d],
                      a, b, c, d)
BY DEF pb_field_iter_t, IndexesAre

LEMMA SetValues ==
    ASSUME NEW it \in pb_field_iter_t, NEW a \in Nat, NEW b \in Nat, NEW c \in Nat, NEW d \in Nat,
           NEW x \in Int, NEW p \in Int, NEW y \in Int, NEW z \in Int
    PROVE  ValuesAre([it EXCEPT !.type = a, !.tag = b, !.array_size = c, !.data_size = d,
                                !.pField = x, !.pData = p, !.pSize = y, !.submsg_desc = z],
                     it, a, b, c, d, x, p, y, z)
BY DEF pb_field_iter_t, ValuesAre

\* load_descriptor_values loads what is in the field list.
LEMMA LoadedIt ==
    ASSUME Bound, NEW it \in pb_field_iter_t, it.index < Len(msg), SameField(it)
    PROVE  /\ Loaded(it) \in pb_field_iter_t
           /\ Loaded(it).index = it.index /\ SameField(Loaded(it))
           /\ Holds(Loaded(it), msg[it.index + 1])
<1> DEFINE i == it.index
           f == msg[i + 1]
           at == it.field_info_index
           data == IF ATYPE(f.type) = POINTER THEN Pointee ELSE f.data_offset
           size == IF f.size_offset # 0 THEN f.data_offset - f.size_offset
                   ELSE IF IS_ARRAY(f.type) THEN ArraySize ELSE NULL
           submsg == IF IS_SUBMSG(f.type) THEN f.tag ELSE NULL
           new == [it EXCEPT !.type = f.type, !.tag = f.tag, !.array_size = f.array_size,
                             !.data_size = f.data_size, !.pField = f.data_offset,
                             !.pData = data, !.pSize = size, !.submsg_desc = submsg]
<1>1. /\ i \in Nat /\ at \in Nat /\ f \in Fields /\ FieldFits(f) /\ At(at, f)
      /\ TypeOf(word(at)) = f.type
  BY Place
<1>2. Tag(at) = f.tag /\ Unpack(at) = Values(f)
  BY <1>1, Unpacked
<1>3. /\ Unpack(at).array_size = f.array_size /\ Unpack(at).size_offset = f.size_offset
      /\ Unpack(at).data_offset = f.data_offset /\ Unpack(at).data_size = f.data_size
  BY <1>2 DEF Values
<1>4. IS_SUBMSG(f.type) => descriptor.submsg_info[it.submessage_index + 1] = f.tag
  <2>1. it.submessage_index = Len(SubmsgInfos(Before(i)))
    BY DEF SameField
  <2> QED
    BY <1>1, <2>1, SubmsgPlace
<1>5. ~(i >= descriptor.field_count)
  <2>1. descriptor.field_count = Len(msg) /\ Len(msg) \in Nat
    BY MessageFields DEF Bound, PB_BIND
  <2> QED
    BY <1>1, <2>1
<1>6. submsg = IF IS_SUBMSG(f.type) THEN descriptor.submsg_info[it.submessage_index + 1] ELSE NULL
  BY <1>4
<1>7. Loaded(it) = new
  <2> HIDE DEF submsg
  <2>1. Loaded(it) =
          [it EXCEPT !.type = TypeOf(word(at)), !.tag = Tag(at),
                     !.array_size = Unpack(at).array_size, !.data_size = Unpack(at).data_size,
                     !.pField = Unpack(at).data_offset,
                     !.pData = IF ATYPE(TypeOf(word(at))) = POINTER THEN Pointee
                               ELSE Unpack(at).data_offset,
                     !.pSize = IF Unpack(at).size_offset # 0
                               THEN Unpack(at).data_offset - Unpack(at).size_offset
                               ELSE IF IS_ARRAY(TypeOf(word(at))) THEN ArraySize
                               ELSE NULL,
                     !.submsg_desc = IF IS_SUBMSG(TypeOf(word(at)))
                                     THEN descriptor.submsg_info[it.submessage_index + 1]
                                     ELSE NULL]
    BY <1>5, Zenon DEF Loaded
  <2> QED
    BY <1>1, <1>2, <1>3, <1>6, <2>1, Zenon
<1>8. data \in Int /\ size \in Int /\ submsg \in Int
  BY <1>1, FieldTypes DEF ArraySize, Pointee, NULL
<1>9. /\ new \in pb_field_iter_t
      /\ new.index = it.index /\ new.field_info_index = it.field_info_index
      /\ new.required_field_index = it.required_field_index
      /\ new.submessage_index = it.submessage_index
      /\ new.tag = f.tag /\ new.type = f.type /\ new.data_size = f.data_size
      /\ new.array_size = f.array_size /\ new.pField = f.data_offset
      /\ new.pData = data /\ new.pSize = size /\ new.submsg_desc = submsg
  <2> DEFINE t == f.type
             u == f.tag
             a == f.array_size
             d == f.data_size
             o == f.data_offset
  <2>1. /\ t \in Nat /\ u \in Nat /\ a \in Nat /\ d \in Nat /\ o \in Int
    <3>1. f \in Fields
      BY <1>1
    <3> HIDE DEF f
    <3> QED
      BY <3>1, FieldTypes, Zenon DEF t, u, a, d, o
  <2> HIDE DEF data, size, submsg, t, u, a, d, o
  <2>2. ValuesAre([it EXCEPT !.type = t, !.tag = u, !.array_size = a, !.data_size = d,
                             !.pField = o, !.pData = data, !.pSize = size,
                             !.submsg_desc = submsg],
                  it, t, u, a, d, o, data, size, submsg)
    BY <1>8, <2>1, SetValues, Zenon
  <2>3. new = [it EXCEPT !.type = t, !.tag = u, !.array_size = a, !.data_size = d,
                         !.pField = o, !.pData = data, !.pSize = size,
                         !.submsg_desc = submsg]
    BY Zenon DEF t, u, a, d, o
  <2>4. ValuesAre(new, it, t, u, a, d, o, data, size, submsg)
    BY <2>2, <2>3, Zenon
  <2> QED
    BY <2>4, Zenon DEF ValuesAre, t, u, a, d, o
<1> HIDE DEF new
<1>10. SameField(new)
  BY <1>9 DEF SameField
<1>11. Holds(new, f)
  BY <1>9 DEF Holds
<1> QED
  BY <1>7, <1>9, <1>10, <1>11

\* advance_iterator goes to the next field, and from the last to the first.
LEMMA AdvancedIt ==
    ASSUME Bound, NEW it \in pb_field_iter_t, msg # <<>>, it.index <= Len(msg),
           it.index < Len(msg) => SameField(it)
    PROVE  /\ Advanced(it) \in pb_field_iter_t
           /\ Advanced(it).index = IF it.index + 1 >= Len(msg) THEN 0 ELSE it.index + 1
           /\ Advanced(it).index < Len(msg)
           /\ SameField(Advanced(it))
<1> DEFINE i == it.index
           n == Len(msg)
           f == msg[i + 1]
           at == it.field_info_index
<1>1. /\ i \in Nat /\ at \in Nat /\ it.required_field_index \in Nat /\ it.submessage_index \in Nat
      /\ n \in Nat /\ n > 0 /\ msg \in Messages
      /\ descriptor.field_count = n
  BY MessageFields DEF pb_field_iter_t, Bound, PB_BIND
<1>2. CASE i + 1 >= n
  <2> DEFINE new == [it EXCEPT !.index = 0, !.field_info_index = 0,
                               !.submessage_index = 0, !.required_field_index = 0]
  <2>1. Advanced(it) = new
    BY <1>1, <1>2 DEF Advanced, Restarted
  <2>2. /\ new \in pb_field_iter_t /\ new.index = 0 /\ new.field_info_index = 0
        /\ new.required_field_index = 0 /\ new.submessage_index = 0
    BY DEF pb_field_iter_t
  <2>3. 0 = Len(FieldInfos(Before(0))) /\ 0 = Len(SubmsgInfos(Before(0)))
    <3>1. First(0, Infos) = <<>> /\ First(0, Submsgs) = <<>>
      BY <1>1, InfoTypes, FlatTail
    <3>2. FieldInfos(Before(0)) = First(0, Infos) /\ SubmsgInfos(Before(0)) = First(0, Submsgs)
      BY <1>1, Prefixed
    <3> QED
      BY <3>1, <3>2
  <2>4. 0 = Cardinality({k \in 1..0 : HTYPE(msg[k].type) = REQUIRED})
    <3>1. {k \in 1..0 : HTYPE(msg[k].type) = REQUIRED} = {}
      OBVIOUS
    <3> QED
      BY <3>1, FS_EmptySet
  <2> HIDE DEF new
  <2>5. SameField(new)
    BY <2>2, <2>3, <2>4 DEF SameField
  <2> QED
    BY <1>1, <1>2, <2>1, <2>2, <2>5
<1>3. CASE i + 1 < n
  <2> DEFINE required == IF HTYPE(f.type) = REQUIRED THEN 1 ELSE 0
             submsg == IF IS_SUBMSG(f.type) THEN 1 ELSE 0
             new == [it EXCEPT !.index = i + 1, !.field_info_index = at + f.width,
                               !.required_field_index = it.required_field_index + required,
                               !.submessage_index = it.submessage_index + submsg]
             words == at + f.width
             r == it.required_field_index + required
             s == it.submessage_index + submsg
  <2>0. i < n /\ SameField(it)
    BY <1>1, <1>3
  <2>1. /\ f.width \in Nat /\ at + f.width = Len(FieldInfos(Before(i + 1)))
        /\ Width(word(at)) = f.width /\ TypeOf(word(at)) = f.type
    <3>1. /\ f \in Fields /\ at + f.width = Len(FieldInfos(Before(i + 1)))
          /\ Width(word(at)) = f.width /\ TypeOf(word(at)) = f.type
      BY <2>0, Place
    <3>2. f.width \in Nat
      <4>1. f \in Fields
        BY <3>1
      <4> HIDE DEF f
      <4>2. f.width \in {1, 2, 4, 8}
        BY <4>1, FieldTypes, Zenon
      <4> QED
        BY <4>2
    <3> QED
      BY <3>1, <3>2
  <2>2. Advanced(it) = new
    <3>1. ~(i + 1 >= descriptor.field_count)
      BY <1>1, <1>3
    <3>2. Advanced(it) =
            [it EXCEPT !.index = it.index + 1,
                       !.field_info_index = it.field_info_index + Width(word(at)),
                       !.required_field_index =
                           it.required_field_index
                           + IF HTYPE(TypeOf(word(at))) = REQUIRED THEN 1 ELSE 0,
                       !.submessage_index =
                           it.submessage_index + IF IS_SUBMSG(TypeOf(word(at))) THEN 1 ELSE 0]
      BY <3>1 DEF Advanced
    <3> QED
      BY <2>1, <3>2, Zenon
  <2>3. required \in Nat /\ submsg \in Nat
    OBVIOUS
  <2>4. /\ it.required_field_index + required = Cardinality(Required(i + 1))
        /\ it.submessage_index + submsg = Len(SubmsgInfos(Before(i + 1)))
    <3>1. /\ it.required_field_index = Cardinality(Required(i))
          /\ it.submessage_index = Len(SubmsgInfos(Before(i)))
      BY <2>0 DEF SameField, Required
    <3>2. Cardinality(Required(i + 1)) = Cardinality(Required(i)) + required
      BY <1>1, RequiredPlace
    <3>3. Len(SubmsgInfos(Before(i + 1))) = Len(SubmsgInfos(Before(i))) + submsg
      BY <1>1, <2>0, SubmsgPlace
    <3> QED
      BY <3>1, <3>2, <3>3
  <2>5. /\ new \in pb_field_iter_t /\ new.index = i + 1 /\ new.field_info_index = at + f.width
        /\ new.required_field_index = it.required_field_index + required
        /\ new.submessage_index = it.submessage_index + submsg
    <3>1. i + 1 \in Nat /\ words \in Nat /\ r \in Nat /\ s \in Nat
      BY <1>1, <2>1, <2>3, SMTT(30)
    <3> HIDE DEF words, r, s
    <3>2. IndexesAre([it EXCEPT !.index = i + 1, !.field_info_index = words,
                                !.required_field_index = r, !.submessage_index = s],
                     i + 1, words, r, s)
      BY <3>1, SetIndexes, Zenon
    <3>3. new = [it EXCEPT !.index = i + 1, !.field_info_index = words,
                           !.required_field_index = r, !.submessage_index = s]
      BY Zenon DEF words, r, s
    <3>4. IndexesAre(new, i + 1, words, r, s)
      BY <3>2, <3>3, Zenon
    <3> QED
      BY <3>4, Zenon DEF IndexesAre, words, r, s
  <2> HIDE DEF new
  <2>6. SameField(new)
    BY <2>1, <2>4, <2>5 DEF SameField, Required
  <2> QED
    BY <1>1, <1>3, <2>2, <2>5, <2>6
<1> QED
  BY <1>1, <1>2, <1>3

-----------------------------------------------------------------------------
(* Walks and searches.                                                     *)

OnField(it) == it \in pb_field_iter_t /\ it.index < Len(msg) /\ SameField(it)
FieldOf(it) == msg[it.index + 1]

LEMMA LoadedOn ==
    ASSUME Bound, NEW it, OnField(it)
    PROVE  /\ OnField(Loaded(it)) /\ Loaded(it).index = it.index
           /\ Holds(Loaded(it), FieldOf(it))
<1>1. it \in pb_field_iter_t /\ it.index < Len(msg) /\ SameField(it)
  BY DEF OnField
<1>2. /\ Loaded(it) \in pb_field_iter_t /\ Loaded(it).index = it.index
      /\ SameField(Loaded(it)) /\ Holds(Loaded(it), FieldOf(it))
  BY <1>1, LoadedIt DEF FieldOf
<1> QED
  BY <1>1, <1>2 DEF OnField

\* The candidates of a search are the fields it may be for.
LEMMA CandidateIs ==
    ASSUME Bound, NEW it, OnField(it)
    PROVE  Candidate(it) <=> IF call = "find" THEN Low(FieldOf(it).tag, 6) = Low(tag, 6)
                             ELSE LTYPE(FieldOf(it).type) = EXTENSION
<1> DEFINE w == word(it.field_info_index)
<1>1. LowTag(w) = Low(FieldOf(it).tag, 6) /\ TypeOf(w) = FieldOf(it).type
  <2>1. it \in pb_field_iter_t /\ it.index < Len(msg) /\ SameField(it)
    BY DEF OnField
  <2> QED
    BY <2>1, Place DEF FieldOf
<1>2. Candidate(it) <=> IF call = "find" THEN LowTag(w) = Low(tag, 6)
                        ELSE LTYPE(TypeOf(w)) = EXTENSION
  BY Zenon DEF Candidate
<1> QED
  BY <1>1, <1>2, Zenon

\* One turn of the loop at a field.
LEMMA SeenIs ==
    ASSUME Bound, call \in {"find", "find_extension"}, NEW it, OnField(it),
           NEW seen, seen = IF Candidate(it) THEN Loaded(it) ELSE it
    PROVE  /\ OnField(seen) /\ seen.index = it.index
           /\ Candidate(it) /\ IsIt(seen) <=> Sought(FieldOf(it))
           /\ Candidate(it) => Holds(seen, FieldOf(it))
<1>1. /\ OnField(Loaded(it)) /\ Loaded(it).index = it.index
      /\ Holds(Loaded(it), FieldOf(it))
  BY LoadedOn
<1>2. OnField(seen) /\ seen.index = it.index
  BY <1>1
<1>3. Candidate(it) => Holds(seen, FieldOf(it))
  BY <1>1
<1>4. Candidate(it) /\ IsIt(seen) <=> Sought(FieldOf(it))
  <2>1. CASE call = "find"
    <3>1. Candidate(it) <=> Low(FieldOf(it).tag, 6) = Low(tag, 6)
      BY <2>1, CandidateIs
    <3>2. IsIt(seen) <=> seen.tag = tag /\ LTYPE(seen.type) # EXTENSION
      BY <2>1 DEF IsIt
    <3>3. Sought(FieldOf(it)) <=> FieldOf(it).tag = tag /\ LTYPE(FieldOf(it).type) # EXTENSION
      BY <2>1 DEF Sought
    <3>4. Candidate(it) => seen.tag = FieldOf(it).tag /\ seen.type = FieldOf(it).type
      BY <1>3 DEF Holds
    <3> QED
      BY <3>1, <3>2, <3>3, <3>4, Zenon
  <2>2. CASE call # "find"
    <3>1. Candidate(it) <=> LTYPE(FieldOf(it).type) = EXTENSION
      BY <2>2, CandidateIs
    <3>2. IsIt(seen)
      BY <2>2 DEF IsIt
    <3>3. Sought(FieldOf(it)) <=> LTYPE(FieldOf(it).type) = EXTENSION
      BY <2>2 DEF Sought
    <3> QED
      BY <3>1, <3>2, <3>3
  <2> QED
    BY <2>1, <2>2
<1> QED
  BY <1>2, <1>3, <1>4

\* The fields passed from a start to a place, of n.
PassedFrom(s, here, n) ==
    IF s <= here /\ here < n THEN s + 2..here + 1
    ELSE (s + 2..n) \cup IF here < n THEN 1..here + 1 ELSE {}

LEMMA PassedNext ==
    ASSUME NEW n \in Nat, n > 0, NEW here \in 0..n, NEW s \in 0..n,
           NEW j, j = IF here + 1 >= n THEN 0 ELSE here + 1
    PROVE  /\ j # s => PassedFrom(s, j, n) \subseteq PassedFrom(s, here, n) \cup {j + 1}
           /\ j = s => 1..n \subseteq PassedFrom(s, here, n) \cup {j + 1}
<1>1. CASE here + 1 < n
  <2>1. j = here + 1
    BY <1>1
  <2>2. ASSUME j # s, NEW k \in PassedFrom(s, j, n)
        PROVE  k \in PassedFrom(s, here, n) \cup {j + 1}
    BY <1>1, <2>1, <2>2 DEF PassedFrom
  <2>3. ASSUME j = s, NEW k \in 1..n
        PROVE  k \in PassedFrom(s, here, n) \cup {j + 1}
    BY <1>1, <2>1, <2>3 DEF PassedFrom
  <2> QED
    BY <2>2, <2>3
<1>2. CASE here + 1 >= n
  <2>1. j = 0
    BY <1>2
  <2>2. ASSUME j # s, NEW k \in PassedFrom(s, j, n)
        PROVE  k \in PassedFrom(s, here, n) \cup {j + 1}
    BY <1>2, <2>1, <2>2 DEF PassedFrom
  <2>3. ASSUME j = s, NEW k \in 1..n
        PROVE  k \in PassedFrom(s, here, n) \cup {j + 1}
    BY <1>2, <2>1, <2>3 DEF PassedFrom
  <2> QED
    BY <2>2, <2>3
<1> QED
  BY <1>1, <1>2

-----------------------------------------------------------------------------
(* The inductive invariant.                                                *)

LEMMA StillOn ==
    ASSUME msg' = msg
    PROVE  /\ SameField(iter)' <=> SameField(iter')
           /\ Holds(iter, msg[iter.index + 1])' <=> Holds(iter', FieldOf(iter'))
           /\ ZeroIter' = ZeroIter
<1>1. {k \in 1..iter.index : HTYPE(msg[k].type) = REQUIRED}'
      = {k \in 1..iter'.index : HTYPE(msg[k].type) = REQUIRED}
  OBVIOUS
<1> QED
  BY <1>1 DEF SameField, Before, Holds, FieldOf, ZeroIter

\* The index of words of an iterator at a field.
LEMMA WordsBelow ==
    ASSUME Bound, NEW it, OnField(it)
    PROVE  it.index \in 0..Len(msg) /\ it.field_info_index <= Len(FieldInfos(msg))
<1> DEFINE f == msg[it.index + 1]
           at == it.field_info_index
<1>1. it \in pb_field_iter_t /\ it.index < Len(msg) /\ SameField(it)
  BY DEF OnField
<1>2. /\ it.index \in Nat /\ at \in Nat /\ f \in Fields
      /\ at + f.width <= Len(FieldInfos(msg)) /\ at + f.width = Len(FieldInfos(Before(it.index + 1)))
  BY <1>1, Place
<1>3. f.width \in {1, 2, 4, 8}
  <2> HIDE DEF f
  <2> QED
    BY <1>2, FieldTypes
<1>4. Len(msg) \in Nat
  BY MessageFields DEF Bound
<1>5. Len(FieldInfos(msg)) \in Nat
  <2>1. FieldInfos(msg) = First(Len(msg), Infos) /\ Infos \in [1..Len(msg) -> Seq(Word)]
    BY Whole, InfoTypes DEF Bound
  <2>2. FieldInfos(msg) \in Seq(Word)
    BY <1>4, <2>1, FirstType
  <2> QED
    BY <2>2
<1> HIDE DEF f, at
<1>6. at <= Len(FieldInfos(msg))
  BY <1>2, <1>3, <1>5
<1> QED
  BY <1>1, <1>2, <1>4, <1>6 DEF at

\* Between calls.
LEMMA CalmInv ==
    ASSUME Bound, msg # <<>>, UNCHANGED desc, OnField(iter'), Holds(iter', FieldOf(iter')),
           call' = "none", start' \in 0..Len(msg), result' \in BOOLEAN
    PROVE  IterInv'
<1>1. msg' = msg /\ descriptor' = descriptor
  BY DEF desc
<1>2. /\ iter' \in pb_field_iter_t /\ iter'.index < Len(msg) /\ SameField(iter')
      /\ iter'.index \in 0..Len(msg) /\ iter'.field_info_index <= Len(FieldInfos(msg))
  BY WordsBelow DEF OnField
<1>3. (descriptor = PB_BIND(msg))'
  BY <1>1 DEF Bound
<1>4. TypeOK'
  <2>1. /\ msg' \in Messages /\ call' \in {"none", "find", "find_extension"}
        /\ start' \in 0..Len(msg') /\ result' \in BOOLEAN /\ iter' \in pb_field_iter_t'
    BY <1>1, <1>2 DEF Bound, pb_field_iter_t
  <2>2. iter'.index \in IF msg' = <<>> THEN {0} ELSE 0..Len(msg')
    BY <1>1, <1>2
  <2>3. ~(iter'.index = Len(msg'))
    BY <1>1, <1>2
  <2>4. iter'.field_info_index <= Len(FieldInfos(msg'))
    BY <1>1, <1>2
  <2> QED
    BY <2>1, <2>2, <2>3, <2>4 DEF TypeOK
<1>5. IndexesAgree'
  BY <1>1, <1>2, StillOn DEF IndexesAgree
<1>6. ValuesAreOfTheField'
  BY <1>1, <1>2, StillOn DEF ValuesAreOfTheField
<1>7. SearchInv'
  BY <1>1 DEF SearchInv
<1> QED
  BY <1>3, <1>4, <1>5, <1>6, <1>7 DEF IterInv

\* In a search, which has passed the fields that Passed names.
LEMMA BusyInv ==
    ASSUME Bound, msg # <<>>, UNCHANGED desc, call' \in {"find", "find_extension"},
           iter' \in pb_field_iter_t, iter'.index \in 0..Len(msg),
           iter'.field_info_index <= Len(FieldInfos(msg)),
           iter'.index = Len(msg) => call' = "find",
           iter'.index < Len(msg) => SameField(iter'),
           start' \in 0..Len(msg), result' \in BOOLEAN, PassedInv'
    PROVE  IterInv'
<1>1. msg' = msg /\ descriptor' = descriptor
  BY DEF desc
<1>2. (descriptor = PB_BIND(msg))'
  BY <1>1 DEF Bound
<1>3. TypeOK'
  <2>1. /\ msg' \in Messages /\ call' \in {"none", "find", "find_extension"}
        /\ start' \in 0..Len(msg') /\ result' \in BOOLEAN /\ iter' \in pb_field_iter_t'
    BY <1>1 DEF Bound, pb_field_iter_t
  <2>2. /\ iter'.index \in IF msg' = <<>> THEN {0} ELSE 0..Len(msg')
        /\ iter'.index = Len(msg') /\ msg' # <<>> => call' = "find"
        /\ iter'.field_info_index <= Len(FieldInfos(msg'))
    BY <1>1
  <2> QED
    BY <2>1, <2>2 DEF TypeOK
<1>4. IndexesAgree'
  BY <1>1, StillOn DEF IndexesAgree
<1>5. ValuesAreOfTheField'
  BY DEF ValuesAreOfTheField
<1>6. SearchInv'
  BY <1>1 DEF SearchInv
<1> QED
  BY <1>2, <1>3, <1>4, <1>5, <1>6 DEF IterInv

\* At a message without fields.
LEMMA EmptyInv ==
    ASSUME Bound, msg = <<>>, UNCHANGED desc, iter' = ZeroIter,
           call' \in {"none", "find_extension"}, start' = 0, result' \in BOOLEAN
    PROVE  IterInv'
<1>1. msg' = msg /\ descriptor' = descriptor /\ Len(msg) = 0
  BY DEF desc
<1>2. (descriptor = PB_BIND(msg))'
  BY <1>1 DEF Bound
<1>3. ZeroIter \in pb_field_iter_t /\ ZeroIter.index = 0 /\ ZeroIter.field_info_index = 0
  BY DEF ZeroIter, pb_field_iter_t, NULL
<1>4. Len(FieldInfos(msg)) = 0
  <2>1. Infos \in [1..0 -> Seq(Word)] /\ FieldInfos(msg) = First(0, Infos)
    BY <1>1, Whole, InfoTypes DEF Bound
  <2>2. First(0, Infos) = <<>>
    BY <2>1, FlatTail
  <2> QED
    BY <2>1, <2>2
<1>5. TypeOK'
  <2>1. /\ msg' \in Messages /\ call' \in {"none", "find", "find_extension"}
        /\ start' \in 0..Len(msg') /\ result' \in BOOLEAN /\ iter' \in pb_field_iter_t'
    BY <1>1, <1>3 DEF Bound, pb_field_iter_t
  <2>2. /\ iter'.index \in IF msg' = <<>> THEN {0} ELSE 0..Len(msg')
        /\ ~(iter'.index = Len(msg') /\ msg' # <<>>)
        /\ iter'.field_info_index <= Len(FieldInfos(msg'))
    BY <1>1, <1>3, <1>4
  <2> QED
    BY <2>1, <2>2 DEF TypeOK
<1>6. IndexesAgree' /\ ValuesAreOfTheField'
  BY <1>1, <1>3 DEF IndexesAgree, ValuesAreOfTheField
<1>7. PassedInv'
  <2>1. Passed' = {}
    BY <1>1, <1>3 DEF Passed
  <2> QED
    BY <2>1 DEF PassedInv
<1>8. SearchInv'
  BY <1>1, <1>7, StillOn DEF SearchInv
<1> QED
  BY <1>2, <1>5, <1>6, <1>8 DEF IterInv

LEMMA ZeroOn ==
    ASSUME Bound
    PROVE  /\ ZeroIter \in pb_field_iter_t /\ ZeroIter.index = 0 /\ SameField(ZeroIter)
           /\ ZeroIter.field_info_index = 0 /\ ZeroIter.tag = 0
           /\ msg = <<>> => Loaded(ZeroIter) = ZeroIter /\ Advanced(ZeroIter) = ZeroIter
           /\ msg # <<>> => OnField(ZeroIter)
<1>1. /\ ZeroIter \in pb_field_iter_t /\ ZeroIter.index = 0
      /\ ZeroIter.field_info_index = 0 /\ ZeroIter.required_field_index = 0
      /\ ZeroIter.submessage_index = 0 /\ ZeroIter.tag = 0
  BY DEF ZeroIter, pb_field_iter_t, NULL
<1>2. Len(msg) \in Nat /\ (msg # <<>> => Len(msg) > 0) /\ (msg = <<>> => Len(msg) = 0)
  BY MessageFields DEF Bound
<1>3. SameField(ZeroIter)
  <2>1. 0 = Len(FieldInfos(Before(0))) /\ 0 = Len(SubmsgInfos(Before(0)))
    <3>1. First(0, Infos) = <<>> /\ First(0, Submsgs) = <<>>
      BY <1>2, InfoTypes, FlatTail DEF Bound
    <3>2. FieldInfos(Before(0)) = First(0, Infos) /\ SubmsgInfos(Before(0)) = First(0, Submsgs)
      BY <1>2, Prefixed DEF Bound
    <3> QED
      BY <3>1, <3>2
  <2>2. 0 = Cardinality({k \in 1..0 : HTYPE(msg[k].type) = REQUIRED})
    <3>1. {k \in 1..0 : HTYPE(msg[k].type) = REQUIRED} = {}
      OBVIOUS
    <3> QED
      BY <3>1, FS_EmptySet
  <2> QED
    BY <1>1, <2>1, <2>2 DEF SameField
<1>4. ASSUME msg = <<>>
      PROVE  Loaded(ZeroIter) = ZeroIter /\ Advanced(ZeroIter) = ZeroIter
  <2>1. descriptor.field_count = 0
    BY <1>2, <1>4 DEF Bound, PB_BIND
  <2>2. Loaded(ZeroIter) = ZeroIter
    BY <1>1, <2>1 DEF Loaded
  <2>3. Advanced(ZeroIter) = Restarted(ZeroIter)
    BY <1>1, <2>1 DEF Advanced
  <2>4. Restarted(ZeroIter) = ZeroIter
    <3>1. /\ [ZeroIter EXCEPT !.index = 0] = ZeroIter
          /\ [ZeroIter EXCEPT !.field_info_index = 0] = ZeroIter
          /\ [ZeroIter EXCEPT !.submessage_index = 0] = ZeroIter
          /\ [ZeroIter EXCEPT !.required_field_index = 0] = ZeroIter
      BY DEF ZeroIter
    <3>2. Restarted(ZeroIter) =
              [[[[ZeroIter EXCEPT !.index = 0] EXCEPT !.field_info_index = 0]
                   EXCEPT !.submessage_index = 0] EXCEPT !.required_field_index = 0]
      BY DEF Restarted
    <3> QED
      BY <3>1, <3>2
  <2> QED
    BY <2>2, <2>3, <2>4
<1>5. msg # <<>> => OnField(ZeroIter)
  BY <1>1, <1>2, <1>3 DEF OnField
<1> QED
  BY <1>1, <1>3, <1>4, <1>5

LEMMA InitInv == Init => IterInv
<1> SUFFICES ASSUME Init PROVE IterInv
  OBVIOUS
<1>1. Bound /\ iter = Loaded(ZeroIter) /\ call = "none" /\ start = 0 /\ result \in BOOLEAN
  BY DEF Init, Bound
<1>2. Len(msg) \in Nat
  BY <1>1, MessageFields DEF Bound
<1>3. CASE msg = <<>>
  <2>1. /\ iter = ZeroIter /\ iter \in pb_field_iter_t /\ iter.index = 0
        /\ iter.field_info_index = 0 /\ Len(msg) = 0
    BY <1>1, <1>3, ZeroOn
  <2>2. Len(FieldInfos(msg)) = 0
    <3>1. Infos \in [1..0 -> Seq(Word)] /\ FieldInfos(msg) = First(0, Infos)
      BY <1>1, <2>1, Whole, InfoTypes DEF Bound
    <3>2. First(0, Infos) = <<>>
      BY <3>1, FlatTail
    <3> QED
      BY <3>1, <3>2
  <2>3. TypeOK
    BY <1>1, <1>3, <2>1, <2>2 DEF TypeOK, Bound
  <2>4. IndexesAgree /\ ValuesAreOfTheField /\ SearchInv
    BY <1>1, <1>3, <2>1 DEF IndexesAgree, ValuesAreOfTheField, SearchInv
  <2> QED
    BY <1>1, <2>3, <2>4 DEF IterInv, Bound
<1>4. CASE msg # <<>>
  <2>1. OnField(iter) /\ iter.index = 0 /\ Holds(iter, FieldOf(iter))
    <3>1. OnField(ZeroIter) /\ ZeroIter.index = 0
      BY <1>1, <1>4, ZeroOn
    <3>2. /\ OnField(Loaded(ZeroIter)) /\ Loaded(ZeroIter).index = ZeroIter.index
          /\ Holds(Loaded(ZeroIter), FieldOf(ZeroIter))
      BY <1>1, <3>1, LoadedOn
    <3> QED
      BY <1>1, <3>1, <3>2 DEF FieldOf
  <2>2. iter.index \in 0..Len(msg) /\ iter.field_info_index <= Len(FieldInfos(msg))
    BY <1>1, <2>1, WordsBelow
  <2>3. iter \in pb_field_iter_t /\ iter.index < Len(msg) /\ SameField(iter)
    BY <2>1 DEF OnField
  <2>4. TypeOK
    BY <1>1, <1>2, <1>4, <2>2, <2>3 DEF TypeOK, Bound
  <2>5. IndexesAgree /\ ValuesAreOfTheField /\ SearchInv
    BY <1>1, <1>4, <2>1, <2>3 DEF IndexesAgree, ValuesAreOfTheField, SearchInv, FieldOf
  <2> QED
    BY <1>1, <2>4, <2>5 DEF IterInv, Bound
<1> QED
  BY <1>3, <1>4

\* What the invariant says of a state.
LEMMA Known ==
    ASSUME IterInv
    PROVE  /\ Bound /\ Len(msg) \in Nat /\ (msg # <<>> <=> Len(msg) > 0)
           /\ call \in {"none", "find", "find_extension"} /\ start \in 0..Len(msg)
           /\ result \in BOOLEAN /\ iter \in pb_field_iter_t
           /\ iter.index \in 0..Len(msg) /\ iter.field_info_index <= Len(FieldInfos(msg))
           /\ iter.index < Len(msg) => OnField(iter)
           /\ msg # <<>> /\ call # "find" => iter.index < Len(msg)
           /\ msg = <<>> => call # "find" /\ iter = ZeroIter /\ start = 0
           /\ msg # <<>> /\ call = "none" => Holds(iter, FieldOf(iter))
           /\ call # "none" => PassedInv
<1>1. Bound /\ Len(msg) \in Nat /\ (msg # <<>> <=> Len(msg) > 0)
  <2>1. Bound
    BY DEF IterInv, TypeOK, Bound
  <2>2. msg \in Seq(Fields)
    BY <2>1, MessageFields DEF Bound
  <2> QED
    BY <2>1, <2>2
<1>2. TypeOK /\ IndexesAgree /\ ValuesAreOfTheField /\ SearchInv
  BY DEF IterInv
<1>3. /\ call \in {"none", "find", "find_extension"} /\ start \in 0..Len(msg)
      /\ result \in BOOLEAN /\ iter \in pb_field_iter_t
      /\ iter.field_info_index <= Len(FieldInfos(msg))
      /\ iter.index \in 0..Len(msg)
      /\ iter.index = Len(msg) /\ msg # <<>> => call = "find"
  BY <1>1, <1>2 DEF TypeOK
<1>4. iter.index < Len(msg) => OnField(iter)
  BY <1>2, <1>3 DEF OnField, IndexesAgree
<1>5. msg # <<>> /\ call # "find" => iter.index < Len(msg)
  BY <1>1, <1>3
<1>6. msg = <<>> => call # "find" /\ iter = ZeroIter /\ start = 0
  BY <1>1, <1>2, <1>3 DEF SearchInv
<1>7. msg # <<>> /\ call = "none" => Holds(iter, FieldOf(iter))
  BY <1>2, <1>5 DEF ValuesAreOfTheField, FieldOf
<1>8. call # "none" => PassedInv
  BY <1>2 DEF SearchInv
<1> QED
  BY <1>1, <1>3, <1>4, <1>5, <1>6, <1>7, <1>8

-----------------------------------------------------------------------------
(* The steps.                                                              *)

LEMMA NextFieldInv ==
    ASSUME IterInv, NextField
    PROVE  IterInv'
<1>1. /\ Bound /\ Len(msg) \in Nat /\ (msg # <<>> <=> Len(msg) > 0)
      /\ start \in 0..Len(msg) /\ iter \in pb_field_iter_t
  BY Known
<1>2. /\ call = "none" /\ call' = "none" /\ start' = start /\ UNCHANGED desc
      /\ iter' = Loaded(Advanced(iter)) /\ result' \in BOOLEAN
  BY DEF NextField
<1>3. CASE msg = <<>>
  <2>1. iter = ZeroIter /\ start = 0
    BY <1>3, Known
  <2>2. iter' = ZeroIter
    BY <1>1, <1>2, <1>3, <2>1, ZeroOn
  <2> QED
    BY <1>1, <1>2, <1>3, <2>1, <2>2, EmptyInv
<1>4. CASE msg # <<>>
  <2>1. OnField(iter) /\ iter.index < Len(msg)
    BY <1>2, <1>4, Known
  <2>2. OnField(Advanced(iter))
    <3>1. iter.index <= Len(msg) /\ (iter.index < Len(msg) => SameField(iter))
      BY <1>1, <2>1 DEF OnField, pb_field_iter_t
    <3> QED
      BY <1>1, <1>4, <3>1, AdvancedIt DEF OnField
  <2>3. /\ OnField(iter') /\ iter'.index = Advanced(iter).index
        /\ Holds(iter', FieldOf(Advanced(iter)))
    BY <1>1, <1>2, <2>2, LoadedOn
  <2>4. Holds(iter', FieldOf(iter'))
    BY <2>3 DEF FieldOf
  <2> QED
    BY <1>1, <1>2, <1>4, <2>3, <2>4, CalmInv
<1> QED
  BY <1>3, <1>4

\* A search that goes to a field has passed none behind it.
LEMMA FindInv ==
    ASSUME IterInv, NEW t \in Tags, Find(t)
    PROVE  IterInv'
<1>1. /\ Bound /\ Len(msg) \in Nat /\ (msg # <<>> <=> Len(msg) > 0)
      /\ start \in 0..Len(msg) /\ iter \in pb_field_iter_t /\ result \in BOOLEAN
      /\ iter.index \in 0..Len(msg) /\ iter.field_info_index <= Len(FieldInfos(msg))
  BY Known
<1>2. call = "none" /\ tag' = t /\ start' = iter.index /\ UNCHANGED desc
  BY DEF Find
<1>3. t \in Nat /\ t # 0
  BY TagsAssumption
<1>4. CASE UNCHANGED <<iter, call>> /\ result' \in BOOLEAN
  <2>1. CASE msg = <<>>
    <3>1. iter = ZeroIter /\ ZeroIter.index = 0
      BY <1>1, <2>1, Known, ZeroOn
    <3> QED
      BY <1>1, <1>2, <1>4, <2>1, <3>1, EmptyInv
  <2>2. CASE msg # <<>>
    <3>1. OnField(iter) /\ Holds(iter, FieldOf(iter))
      BY <1>2, <2>2, Known
    <3> QED
      BY <1>1, <1>2, <1>4, <2>2, <3>1, CalmInv
  <2> QED
    BY <2>1, <2>2
<1>5. CASE /\ iter.tag # t /\ t <= descriptor.largest_tag /\ call' = "find"
           /\ iter' = IF t < iter.tag THEN [iter EXCEPT !.index = descriptor.field_count]
                      ELSE iter
           /\ UNCHANGED result
  <2>1. msg # <<>>
    <3> SUFFICES ASSUME msg = <<>> PROVE FALSE
      OBVIOUS
    <3>1. descriptor.largest_tag = 0
      BY <1>1 DEF Bound, PB_BIND
    <3> QED
      BY <1>3, <1>5, <3>1
  <2>2. OnField(iter) /\ Holds(iter, FieldOf(iter)) /\ iter.index < Len(msg)
    BY <1>2, <2>1, Known
  <2>3. descriptor.field_count = Len(msg)
    BY <1>1 DEF Bound, PB_BIND
  <2>4. msg' = msg
    BY <1>2 DEF desc
  <2>5. CASE t < iter.tag
    <3>1. /\ iter' = [iter EXCEPT !.index = Len(msg)] /\ iter' \in pb_field_iter_t
          /\ iter'.index = Len(msg) /\ iter'.field_info_index = iter.field_info_index
      BY <1>1, <1>5, <2>3, <2>5 DEF pb_field_iter_t
    <3>2. Passed' = (iter.index + 2)..Len(msg)
      <4>1. ~(iter'.index < Len(msg'))
        BY <1>1, <2>4, <3>1
      <4>2. Passed' = (start' + 2)..Len(msg')
        BY <4>1 DEF Passed
      <4> QED
        BY <1>2, <2>4, <4>2
    <3>3. ASSUME NEW k \in Passed' PROVE msg[k].tag # t
      <4>1. k \in 1..Len(msg) /\ iter.index + 1 \in 1..Len(msg) /\ iter.index + 1 < k
        BY <1>1, <2>2, <3>2
      <4>2. msg[iter.index + 1].tag < msg[k].tag
        BY <1>1, <4>1, MessageFields DEF Bound
      <4>3. msg[iter.index + 1].tag = iter.tag
        BY <2>2 DEF Holds, FieldOf
      <4>4. msg[k] \in Fields /\ msg[iter.index + 1] \in Fields
        BY <1>1, <4>1, MessageFields DEF Bound
      <4>5. msg[k].tag \in Nat /\ msg[iter.index + 1].tag \in Nat
        BY <4>4, FieldTypes
      <4> QED
        BY <1>3, <2>5, <4>2, <4>3, <4>5
    <3>4. PassedInv'
      BY <1>2, <1>5, <2>2, <2>4, <3>3 DEF PassedInv, Sought
    <3> QED
      BY <1>1, <1>2, <1>5, <2>1, <3>1, <3>4, BusyInv
  <2>6. CASE ~(t < iter.tag)
    <3>1. iter' = iter
      BY <1>5, <2>6
    <3>2. Passed' = {}
      BY <1>1, <1>2, <2>2, <2>4, <3>1 DEF Passed
    <3>3. PassedInv'
      BY <1>2, <2>2, <2>4, <3>2 DEF PassedInv
    <3> QED
      BY <1>1, <1>2, <1>5, <2>1, <2>2, <3>1, <3>3, BusyInv DEF OnField
  <2> QED
    BY <2>5, <2>6
<1> QED
  BY <1>4, <1>5 DEF Find

LEMMA FindExtensionInv ==
    ASSUME IterInv, FindExtension
    PROVE  IterInv'
<1>1. /\ Bound /\ Len(msg) \in Nat /\ (msg # <<>> <=> Len(msg) > 0)
      /\ iter \in pb_field_iter_t /\ result \in BOOLEAN
      /\ iter.index \in 0..Len(msg) /\ iter.field_info_index <= Len(FieldInfos(msg))
  BY Known
<1>2. /\ call = "none" /\ start' = iter.index /\ UNCHANGED <<desc, iter, tag>>
      /\ call' \in {"none", "find_extension"} /\ result' \in BOOLEAN
  BY <1>1 DEF FindExtension
<1>3. CASE msg = <<>>
  <2>1. iter = ZeroIter /\ ZeroIter.index = 0
    BY <1>1, <1>3, Known, ZeroOn
  <2> QED
    BY <1>1, <1>2, <1>3, <2>1, EmptyInv
<1>4. CASE msg # <<>>
  <2>1. OnField(iter) /\ Holds(iter, FieldOf(iter)) /\ iter.index < Len(msg)
    BY <1>2, <1>4, Known
  <2>2. CASE call' = "none"
    BY <1>1, <1>2, <1>4, <2>1, <2>2, CalmInv
  <2>3. CASE call' = "find_extension"
    <3>1. msg' = msg
      BY <1>2 DEF desc
    <3>2. Passed' = {}
      BY <1>1, <1>2, <2>1, <3>1 DEF Passed
    <3>3. PassedInv'
      BY <2>3, <3>2 DEF PassedInv
    <3> QED
      BY <1>1, <1>2, <1>4, <2>1, <2>3, <3>3, BusyInv DEF OnField
  <2> QED
    BY <1>2, <2>2, <2>3
<1> QED
  BY <1>3, <1>4

\* What a turn of the loop does, at the field it comes to.
LEMMA Turn ==
    ASSUME Bound, call \in {"find", "find_extension"}, Search,
           NEW next, next = Advanced(iter), OnField(next)
    PROVE  /\ UNCHANGED <<desc, start, tag>>
           /\ Sought(FieldOf(next)) =>
                  /\ OnField(iter') /\ Holds(iter', FieldOf(iter'))
                  /\ result' = TRUE /\ call' = "none"
           /\ ~Sought(FieldOf(next)) /\ next.index = start =>
                  /\ OnField(iter') /\ Holds(iter', FieldOf(iter')) /\ iter'.index = start
                  /\ result' = FALSE /\ call' = "none"
           /\ ~Sought(FieldOf(next)) /\ next.index # start =>
                  /\ OnField(iter') /\ iter'.index = next.index
                  /\ UNCHANGED <<result, call>>
<1> DEFINE seen == IF Candidate(next) THEN Loaded(next) ELSE next
<1>1. /\ UNCHANGED <<desc, start, tag>>
      /\ \/ /\ Candidate(next) /\ IsIt(seen)
            /\ iter' = seen /\ result' = TRUE /\ call' = "none"
         \/ /\ ~(Candidate(next) /\ IsIt(seen))
            /\ \/ /\ seen.index = start
                  /\ iter' = Loaded(seen) /\ result' = FALSE /\ call' = "none"
               \/ /\ seen.index # start
                  /\ iter' = seen /\ UNCHANGED <<result, call>>
  BY Zenon DEF Search, Back, GoneRound
<1>2. /\ OnField(seen) /\ seen.index = next.index
      /\ (Candidate(next) /\ IsIt(seen)) <=> Sought(FieldOf(next))
      /\ Candidate(next) => Holds(seen, FieldOf(next))
  BY SeenIs
<1> HIDE DEF seen
<1>3. OnField(Loaded(seen)) /\ Loaded(seen).index = seen.index
      /\ Holds(Loaded(seen), FieldOf(seen))
  BY <1>2, LoadedOn
<1>4. CASE Sought(FieldOf(next))
  <2>1. /\ Candidate(next) /\ iter' = seen /\ result' = TRUE /\ call' = "none"
    BY <1>1, <1>2, <1>4
  <2>2. FieldOf(iter') = FieldOf(next)
    BY <1>2, <2>1 DEF FieldOf
  <2> QED
    BY <1>1, <1>2, <1>4, <2>1, <2>2
<1>5. CASE ~Sought(FieldOf(next)) /\ next.index = start
  <2>1. iter' = Loaded(seen) /\ result' = FALSE /\ call' = "none"
    BY <1>1, <1>2, <1>5
  <2>2. FieldOf(iter') = FieldOf(seen)
    BY <1>3, <2>1 DEF FieldOf
  <2> QED
    BY <1>1, <1>2, <1>3, <1>5, <2>1, <2>2
<1>6. CASE ~Sought(FieldOf(next)) /\ next.index # start
  BY <1>1, <1>2, <1>6
<1> QED
  BY <1>4, <1>5, <1>6

\* A search ends where it should, and goes on having passed one field more.
LEMMA SearchStep ==
    ASSUME IterInv, Search
    PROVE  /\ IterInv'
           /\ call' = "none" => result' = There /\ (~There => iter'.index = start)
<1>1. /\ Bound /\ Len(msg) \in Nat /\ (msg # <<>> <=> Len(msg) > 0)
      /\ start \in 0..Len(msg) /\ iter \in pb_field_iter_t /\ iter.index \in 0..Len(msg)
      /\ result \in BOOLEAN
  BY Known
<1>2. call \in {"find", "find_extension"} /\ PassedInv
  BY Known DEF Search
<1> DEFINE n == Len(msg)
           next == Advanced(iter)
           j == next.index
<1>3. CASE msg = <<>>
  <2>1. iter = ZeroIter /\ start = 0 /\ call = "find_extension" /\ ZeroIter.index = 0
    BY <1>1, <1>2, <1>3, Known, ZeroOn
  <2>2. next = ZeroIter /\ Loaded(ZeroIter) = ZeroIter
    BY <1>1, <1>3, <2>1, ZeroOn
  <2>3. ~Candidate(ZeroIter)
    <3>1. word(0) = <<0, 0>>
      <4>1. descriptor.field_info = Append(FieldInfos(msg), <<0, 0>>)
        BY <1>1 DEF Bound, PB_BIND
      <4>2. FieldInfos(msg) = <<>>
        <5>1. Infos \in [1..0 -> Seq(Word)] /\ FieldInfos(msg) = First(0, Infos)
          BY <1>1, <1>3, Whole, InfoTypes DEF Bound
        <5> QED
          BY <5>1, FlatTail
      <4> QED
        BY <4>1, <4>2 DEF word
    <3>2. ZeroIter.field_info_index = 0
      BY <1>1, ZeroOn
    <3>3. Candidate(ZeroIter) <=> LTYPE(TypeOf(<<0, 0>>)) = EXTENSION
      BY <2>1, <3>1, <3>2 DEF Candidate
    <3>4. LTYPE(TypeOf(<<0, 0>>)) = 0
      BY DEF LTYPE, TypeOf, Low, High
    <3> QED
      BY <3>3, <3>4 DEF EXTENSION
  <2>4. iter' = ZeroIter /\ result' = FALSE /\ call' = "none" /\ UNCHANGED <<desc, start>>
    <3>1. /\ next = ZeroIter /\ ZeroIter.index = start
          /\ ~(Candidate(next) /\ IsIt(IF Candidate(next) THEN Loaded(next) ELSE next))
          /\ (IF Candidate(next) THEN Loaded(next) ELSE next) = ZeroIter
      BY <2>1, <2>2, <2>3
    <3> DEFINE seen == IF Candidate(next) THEN Loaded(next) ELSE next
    <3>2. /\ UNCHANGED <<desc, start, tag>>
          /\ \/ Candidate(next) /\ IsIt(seen)
             \/ seen.index = start /\ iter' = Loaded(seen) /\ result' = FALSE /\ call' = "none"
             \/ seen.index # start
      BY Zenon DEF Search, Back, GoneRound
    <3> QED
      BY <2>2, <3>1, <3>2
  <2>5. ~There
    BY <1>1, <1>3 DEF There
  <2>6. result' = There
    <3>1. There = FALSE
      BY <2>5 DEF There
    <3> QED
      BY <2>4, <3>1
  <2>7. IterInv'
    BY <1>1, <1>3, <2>1, <2>4, EmptyInv
  <2> QED
    BY <2>1, <2>4, <2>6, <2>7
<1>4. CASE msg # <<>>
  <2>1. OnField(next) /\ j = IF iter.index + 1 >= n THEN 0 ELSE iter.index + 1
    <3>1. iter.index <= Len(msg) /\ (iter.index < Len(msg) => SameField(iter))
      BY <1>1, Known DEF OnField
    <3> QED
      BY <1>1, <1>4, <3>1, AdvancedIt DEF OnField
  <2>2. /\ j # start => PassedFrom(start, j, n) \subseteq Passed \cup {j + 1}
        /\ j = start => 1..n \subseteq Passed \cup {j + 1}
    <3>1. Passed = PassedFrom(start, iter.index, n)
      BY DEF Passed, PassedFrom
    <3>2. n \in Nat /\ n > 0 /\ iter.index \in 0..n /\ start \in 0..n
      BY <1>1, <1>4
    <3>3. j = IF iter.index + 1 >= n THEN 0 ELSE iter.index + 1
      BY <2>1
    <3> HIDE DEF n, next
    <3>4. /\ j # start =>
                 PassedFrom(start, j, n) \subseteq PassedFrom(start, iter.index, n) \cup {j + 1}
          /\ j = start => 1..n \subseteq PassedFrom(start, iter.index, n) \cup {j + 1}
      BY <3>2, <3>3, PassedNext
    <3> QED
      BY <3>1, <3>4
  <2>3. j \in Nat /\ j + 1 \in 1..n
    <3>1. /\ n \in Nat /\ n > 0 /\ iter.index \in 0..n
          /\ j = IF iter.index + 1 >= n THEN 0 ELSE iter.index + 1
      BY <1>1, <1>4, <2>1
    <3> HIDE DEF n, next
    <3> QED
      BY <3>1
  <2>4. UNCHANGED <<desc, start, tag>>
    BY <1>1, <1>2, <2>1, Turn
  <2>5. CASE Sought(FieldOf(next))
    <3>1. OnField(iter') /\ Holds(iter', FieldOf(iter')) /\ result' = TRUE /\ call' = "none"
      BY <1>1, <1>2, <2>1, <2>5, Turn
    <3>2. There
      BY <2>3, <2>5 DEF There, FieldOf
    <3>3. result' = There
      <4>1. There = TRUE
        BY <3>2 DEF There
      <4> QED
        BY <3>1, <4>1
    <3>4. IterInv'
      BY <1>1, <1>4, <2>4, <3>1, CalmInv
    <3> QED
      BY <3>2, <3>3, <3>4
  <2>6. CASE ~Sought(FieldOf(next)) /\ j = start
    <3>1. /\ OnField(iter') /\ Holds(iter', FieldOf(iter')) /\ iter'.index = start
          /\ result' = FALSE /\ call' = "none"
      BY <1>1, <1>2, <2>1, <2>6, Turn
    <3>2. ~There
      <4> SUFFICES ASSUME NEW k \in 1..Len(msg), Sought(msg[k]) PROVE FALSE
        BY DEF There
      <4>1. k \in Passed \/ k = j + 1
        BY <2>2, <2>6
      <4> QED
        BY <1>2, <2>6, <4>1 DEF PassedInv, FieldOf
    <3>3. result' = There
      <4>1. There = FALSE
        BY <3>2 DEF There
      <4> QED
        BY <3>1, <4>1
    <3>4. IterInv'
      BY <1>1, <1>4, <2>4, <3>1, CalmInv
    <3> QED
      BY <3>1, <3>3, <3>4
  <2>7. CASE ~Sought(FieldOf(next)) /\ j # start
    <3>1. OnField(iter') /\ iter'.index = j /\ UNCHANGED <<result, call>>
      BY <1>1, <1>2, <2>1, <2>7, Turn
    <3>2. msg' = msg /\ start' = start /\ tag' = tag
      BY <2>4 DEF desc
    <3>3. Passed' = PassedFrom(start, j, n)
      BY <3>1, <3>2 DEF Passed, PassedFrom
    <3>4. ASSUME NEW k \in Passed' PROVE ~Sought(msg[k])
      <4>1. k \in Passed \/ k = j + 1
        BY <2>2, <2>7, <3>3, <3>4
      <4> QED
        BY <1>2, <2>7, <4>1 DEF PassedInv, FieldOf
    <3>5. PassedInv'
      <4>1. \A k \in Passed' : ~Sought(msg[k])'
        BY <3>1, <3>2, <3>4 DEF Sought
      <4>2. (call = "find" => start < Len(msg))'
        BY <1>2, <3>1, <3>2 DEF PassedInv
      <4> QED
        BY <4>1, <4>2 DEF PassedInv
    <3>6. /\ iter' \in pb_field_iter_t /\ iter'.index \in 0..Len(msg) /\ iter'.index # Len(msg)
          /\ SameField(iter') /\ iter'.field_info_index <= Len(FieldInfos(msg))
      <4>1. iter' \in pb_field_iter_t /\ iter'.index < Len(msg) /\ SameField(iter')
        BY <3>1 DEF OnField
      <4>2. iter'.index \in 0..Len(msg) /\ iter'.field_info_index <= Len(FieldInfos(msg))
        BY <1>1, <3>1, WordsBelow
      <4> QED
        BY <1>1, <4>1, <4>2
    <3>7. IterInv'
      BY <1>1, <1>2, <1>4, <2>4, <3>1, <3>2, <3>5, <3>6, BusyInv
    <3> QED
      BY <1>2, <3>1, <3>7
  <2> QED
    BY <2>5, <2>6, <2>7
<1> QED
  BY <1>3, <1>4

LEMMA StutterInv ==
    ASSUME IterInv, UNCHANGED vars
    PROVE  IterInv'
<1>1. /\ descriptor' = descriptor /\ msg' = msg /\ iter' = iter /\ call' = call
      /\ start' = start /\ tag' = tag /\ result' = result
  BY DEF vars, desc
<1>2. SameField(iter)' <=> SameField(iter)
  BY <1>1, StillOn
<1>3. Holds(iter, msg[iter.index + 1])' <=> Holds(iter, msg[iter.index + 1])
  BY <1>1, StillOn DEF FieldOf
<1>4. TypeOK'
  <2>1. TypeOK
    BY DEF IterInv
  <2> QED
    BY <1>1, <2>1, Zenon DEF TypeOK, pb_field_iter_t
<1>5. IndexesAgree' /\ ValuesAreOfTheField'
  BY <1>1, <1>2, <1>3 DEF IterInv, IndexesAgree, ValuesAreOfTheField
<1>6. SearchInv'
  <2>1. Passed' = Passed
    BY <1>1 DEF Passed
  <2>2. \A k \in Passed : Sought(msg[k])' <=> Sought(msg[k])
    BY <1>1 DEF Sought
  <2> QED
    BY <1>1, <2>1, <2>2, StillOn DEF IterInv, SearchInv, PassedInv
<1> QED
  BY <1>1, <1>4, <1>5, <1>6 DEF IterInv

LEMMA NextInv ==
    ASSUME IterInv, [Next]_vars
    PROVE  IterInv'
<1>1. CASE NextField
  BY <1>1, NextFieldInv
<1>2. ASSUME NEW t \in Tags, Find(t) PROVE IterInv'
  BY <1>2, FindInv
<1>3. CASE FindExtension
  BY <1>3, FindExtensionInv
<1>4. CASE Search
  BY <1>4, SearchStep
<1>5. CASE UNCHANGED vars
  BY <1>5, StutterInv
<1> QED
  BY <1>1, <1>2, <1>3, <1>4, <1>5 DEF Next

\* All of it holds in all reachable states: what pb_field_iter_next, _find and
\* _find_extension and their helpers do keeps it.
THEOREM IterInvariant == Spec => []IterInv
<1>1. Init => IterInv
  BY InitInv
<1>2. IterInv /\ [Next]_vars => IterInv'
  BY NextInv
<1> QED
  BY <1>1, <1>2, PTL DEF Spec

-----------------------------------------------------------------------------
(* The theorems.                                                           *)

\* The iterator is one of a field of its message, or of the place behind the last
\* one, where only the forced restart of pb_field_iter_find leaves it.
THEOREM IteratorTypes == Spec => []TypeOK
<1>1. IterInv => TypeOK
  BY DEF IterInv
<1> QED
  BY <1>1, IterInvariant, PTL

\* However often advance_iterator restarts, and wherever a search stops, the four
\* indexes speak of one field.
THEOREM IndexesStayTogether == Spec => []IndexesAgree
<1>1. IterInv => IndexesAgree
  BY DEF IterInv
<1> QED
  BY <1>1, IterInvariant, PTL

\* What load_descriptor_values unpacks is what PB_BIND packed, in each format, and
\* between calls it is that of the field the iterator is at.
THEOREM UnpackedIsPacked == Spec => []ValuesAreOfTheField
<1>1. IterInv => ValuesAreOfTheField
  BY DEF IterInv
<1> QED
  BY <1>1, IterInvariant, PTL

\* pb_field_iter_find and pb_field_iter_find_extension find what is in the message,
\* from wherever they begin, and come back if it is not.
THEOREM SearchFinds == Spec => FoundIfThere
<1>1. ASSUME IterInv, [Next]_vars
      PROVE  [call # "none" /\ call' = "none" =>
                 /\ result' = There
                 /\ ~There => iter'.index = start]_vars
  <2>1. CASE Search
    BY <1>1, <2>1, SearchStep
  <2>2. CASE call = "none"
    BY <2>2
  <2>3. CASE UNCHANGED vars
    BY <2>3
  <2> QED
    BY <1>1, <2>1, <2>2, <2>3 DEF Next, NextField, Find, FindExtension
<1> QED
  BY <1>1, IterInvariant, PTL DEF Spec, FoundIfThere

\* pb_field_iter_find answers without a search only for the field it is at and for
\* tags above the largest, which no field of the message has.
THEOREM RefusalIsRight == Spec => RefusedIfAbsent
<1>1. ASSUME IterInv, NEW t \in Tags, t = tag', Find(t), call' = "none"
      PROVE  result' = (\E k \in 1..Len(msg) : msg[k].tag = t)
  <2>1. /\ Bound /\ Len(msg) \in Nat /\ (msg # <<>> <=> Len(msg) > 0) /\ iter \in pb_field_iter_t
    BY <1>1, Known
  <2>2. call = "none" /\ t \in Nat /\ t # 0
    BY <1>1, TagsAssumption DEF Find
  <2>3. CASE iter.tag = t /\ result' = TRUE
    <3>1. msg # <<>>
      <4>1. msg = <<>> => iter = ZeroIter /\ ZeroIter.tag = 0
        BY <1>1, <2>1, Known, ZeroOn
      <4> QED
        BY <2>2, <2>3, <4>1
    <3>2. /\ iter.index < Len(msg) /\ iter.index \in 0..Len(msg) /\ Holds(iter, FieldOf(iter))
      BY <1>1, <2>2, <3>1, Known
    <3>3. msg[iter.index + 1].tag = t
      BY <2>3, <3>2 DEF Holds, FieldOf
    <3>4. iter.index + 1 \in 1..Len(msg)
      BY <2>1, <3>2
    <3> QED
      BY <2>3, <3>3, <3>4
  <2>4. CASE t > descriptor.largest_tag /\ result' = FALSE
    <3>1. ASSUME NEW k \in 1..Len(msg) PROVE msg[k].tag # t
      <4>1. msg # <<>> /\ Len(msg) \in 1..Len(msg)
        BY <2>1
      <4>2. descriptor.largest_tag = msg[Len(msg)].tag
        BY <2>1, <4>1 DEF Bound, PB_BIND
      <4>3. k < Len(msg) => msg[k].tag < msg[Len(msg)].tag
        BY <2>1, <4>1, MessageFields DEF Bound
      <4>4. msg[k] \in Fields /\ msg[Len(msg)] \in Fields
        BY <2>1, <4>1, MessageFields DEF Bound
      <4>5. msg[k].tag \in Nat /\ msg[Len(msg)].tag \in Nat
        BY <4>4, FieldTypes
      <4>6. k < Len(msg) \/ k = Len(msg)
        BY <2>1
      <4> QED
        BY <2>2, <2>4, <4>2, <4>3, <4>5, <4>6
    <3> QED
      BY <2>4, <3>1
  <2> QED
    BY <1>1, <2>2, <2>3, <2>4 DEF Find
<1>2. ASSUME IterInv
      PROVE  [\A t \in Tags : t = tag' /\ Find(t) /\ call' = "none" =>
                  result' = (\E k \in 1..Len(msg) : msg[k].tag = t)]_vars
  BY <1>1, <1>2
<1> QED
  BY <1>2, IterInvariant, PTL DEF RefusedIfAbsent
=============================================================================
