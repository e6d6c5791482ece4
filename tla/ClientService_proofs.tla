--------------------------- MODULE ClientService_proofs ---------------------------
(***************************************************************************)
(* The order of statuses and commands, for every value of the constants:   *)
(* over timeouts, resends, stale answers and new connections.  And, from   *)
(* it, that the client implements StatusService.                           *)
(***************************************************************************)
EXTENDS InternalClient_safety, ClientService, SequenceTheorems

-----------------------------------------------------------------------------
(* Bytes in a row.                                                         *)

\* A byte that moves from one stream to the next stays where it is in the row.
LEMMA MoveKeepsRow ==
    ASSUME NEW s \in Seq(Byte), NEW t \in Seq(Byte), t # <<>>
    PROVE  /\ Append(s, Head(t)) \in Seq(Byte) /\ Tail(t) \in Seq(Byte)
           /\ Append(s, Head(t)) \o Tail(t) = s \o t
<1> DEFINE u == Append(s, Head(t)) \o Tail(t)
           v == s \o t
<1>1. /\ Head(t) \in Byte /\ Tail(t) \in Seq(Byte) /\ Len(Tail(t)) = Len(t) - 1
      /\ \A i \in 1..Len(Tail(t)) : Tail(t)[i] = t[i + 1]
      /\ Head(t) = t[1] /\ Len(t) \in Nat \ {0} /\ Len(s) \in Nat
  BY HeadTailProperties, EmptySeq, LenProperties
<1>2. /\ Append(s, Head(t)) \in Seq(Byte) /\ Len(Append(s, Head(t))) = Len(s) + 1
      /\ \A i \in 1..Len(s) : Append(s, Head(t))[i] = s[i]
      /\ Append(s, Head(t))[Len(s) + 1] = Head(t)
  BY <1>1, AppendProperties
<1>3. u \in Seq(Byte) /\ v \in Seq(Byte) /\ Len(u) = Len(v) /\ Len(v) = Len(s) + Len(t)
  BY <1>1, <1>2, ConcatProperties
<1>4. \A i \in 1..Len(u) : u[i] = v[i]
  <2> SUFFICES ASSUME NEW i \in 1..Len(s) + Len(t) PROVE u[i] = v[i]
    BY <1>3
  <2>1. u[i] = IF i <= Len(s) + 1 THEN Append(s, Head(t))[i] ELSE Tail(t)[i - (Len(s) + 1)]
    BY <1>1, <1>2, ConcatProperties
  <2>2. v[i] = IF i <= Len(s) THEN s[i] ELSE t[i - Len(s)]
    BY ConcatProperties
  <2>3. CASE i <= Len(s)
    BY <1>1, <1>2, <2>1, <2>2, <2>3
  <2>4. CASE i = Len(s) + 1
    BY <1>1, <1>2, <2>1, <2>2, <2>4
  <2>5. CASE i > Len(s) + 1
    BY <1>1, <2>1, <2>2, <2>5
  <2> QED
    BY <1>1, <2>3, <2>4, <2>5
<1> QED
  BY <1>1, <1>2, <1>3, <1>4, SeqEqual

\* Where the bytes of a row come from.
LEMMA RowParts ==
    ASSUME NEW s \in Seq(Byte), NEW t \in Seq(Byte)
    PROVE  /\ s \o t \in Seq(Byte)
           /\ Len(s) \in Nat /\ Len(t) \in Nat /\ Len(s \o t) = Len(s) + Len(t)
           /\ \A i \in 1..Len(s) : (s \o t)[i] = s[i]
           /\ \A i \in 1..Len(t) : (s \o t)[Len(s) + i] = t[i]
<1>1. Len(s) \in Nat /\ Len(t) \in Nat
  BY LenProperties
<1>2. \A i \in 1..Len(t) : (s \o t)[Len(s) + i] = t[i]
  <2> TAKE i \in 1..Len(t)
  <2>1. Len(s) + i \in 1..Len(s) + Len(t) /\ ~(Len(s) + i <= Len(s)) /\ Len(s) + i - Len(s) = i
    BY <1>1
  <2> QED
    BY <2>1, ConcatProperties
<1>3. \A i \in 1..Len(s) : (s \o t)[i] = s[i]
  BY <1>1, ConcatProperties
<1> QED
  BY <1>1, <1>2, <1>3, ConcatProperties

\* What is known of a row is known of its end.
LEMMA EndKeeps ==
    ASSUME NEW s \in Seq(Byte), NEW t \in Seq(Byte), NEW lo \in Int, NEW hi \in Int, NEW q
    PROVE  /\ Ordered(s \o t) => Ordered(t)
           /\ Recent(s \o t, lo, hi) => Recent(t, lo, hi)
           /\ Answered(s \o t, q) => Answered(t, q)
<1>1. /\ Len(s) \in Nat /\ Len(t) \in Nat /\ Len(s \o t) = Len(s) + Len(t)
      /\ \A i \in 1..Len(t) : (s \o t)[Len(s) + i] = t[i] /\ Len(s) + i \in 1..Len(s \o t)
  BY RowParts
<1>2. ASSUME Ordered(s \o t) PROVE Ordered(t)
  <2> SUFFICES ASSUME NEW i \in 1..Len(t), NEW j \in 1..Len(t), i < j,
                      IsCommand(t[i]), IsCommand(t[j])
               PROVE  \/ t[i].msg.re < t[j].msg.re
                      \/ t[i].msg = t[j].msg /\ t[i].pos < t[j].pos
    BY DEF Ordered
  <2> DEFINE p == Len(s) + i
             r == Len(s) + j
  <2>1. /\ p < r /\ p \in 1..Len(s \o t) /\ r \in 1..Len(s \o t)
        /\ (s \o t)[p] = t[i] /\ (s \o t)[r] = t[j]
    BY <1>1
  <2> HIDE DEF p, r
  <2>2. \/ (s \o t)[p].msg.re < (s \o t)[r].msg.re
        \/ /\ (s \o t)[p].msg = (s \o t)[r].msg
           /\ (s \o t)[p].pos < (s \o t)[r].pos
    BY <1>2, <2>1 DEF Ordered
  <2> QED
    BY <2>1, <2>2
<1>3. ASSUME Recent(s \o t, lo, hi) PROVE Recent(t, lo, hi)
  BY <1>1, <1>3 DEF Recent
<1>4. ASSUME Answered(s \o t, q) PROVE Answered(t, q)
  BY <1>1, <1>4 DEF Answered
<1> QED
  BY <1>2, <1>3, <1>4
-----------------------------------------------------------------------------
(* What is in transit on a connection: the row of bytes that the client    *)
(* has read or will read, and the queue of messages to the gateway.        *)

Rows == Seq(Byte)
Queues == Seq(ClientMessage)

\* A new connection has nothing in transit.
LEMMA TransitEmpty == \A lo, hi : Transit(<<>>, <<>>, lo, hi)
BY DEF Transit, Ordered, Recent, Answered, Queued

\* Bytes are consumed from the front of the row.
LEMMA TransitEnd ==
    ASSUME NEW s \in Rows, NEW t \in Rows, NEW q, NEW lo \in Int, NEW hi \in Int,
           Transit(s \o t, q, lo, hi)
    PROVE  Transit(t, q, lo, hi)
BY EndKeeps DEF Transit, Rows

\* Fewer settled statuses, or a newer one.
LEMMA TransitWeaker ==
    ASSUME NEW s \in Rows, NEW q \in Queues, NEW lo \in Int, NEW hi \in Int,
           Transit(s, q, lo, hi),
           NEW lo2 \in Int, NEW hi2 \in Int, lo2 <= lo, hi <= hi2
    PROVE  Transit(s, q, lo2, hi2)
<1>1. \A n \in lo + 1..hi : n \in lo2 + 1..hi2
  OBVIOUS
<1>2. Recent(s, lo2, hi2)
  BY <1>1 DEF Transit, Recent
<1>3. Queued(q, lo2, hi2)
  BY <1>1 DEF Transit, Queued
<1> QED
  BY <1>2, <1>3 DEF Transit

\* Where the messages of a longer queue come from.
LEMMA QueueParts ==
    ASSUME NEW q \in Queues, NEW m \in ClientMessage
    PROVE  /\ Append(q, m) \in Queues /\ Len(q) \in Nat
           /\ Len(Append(q, m)) = Len(q) + 1
           /\ \A i \in 1..Len(q) : Append(q, m)[i] = q[i]
           /\ Append(q, m)[Len(q) + 1] = m
BY AppendProperties, LenProperties DEF Queues

\* A message that is no status changes nothing.
LEMMA TransitOther ==
    ASSUME NEW s \in Rows, NEW q \in Queues, NEW lo \in Int, NEW hi \in Int,
           Transit(s, q, lo, hi), NEW m \in ClientMessage, ~IsStatus(m)
    PROVE  Transit(s, Append(q, m), lo, hi)
<1> DEFINE p == Append(q, m)
<1>1. \A i \in 1..Len(p) : IsStatus(p[i]) => i \in 1..Len(q) /\ p[i] = q[i]
  BY QueueParts
<1> HIDE DEF p
<1>2. Answered(s, p)
  BY <1>1 DEF Transit, Answered
<1>3. Queued(p, lo, hi)
  BY <1>1 DEF Transit, Queued
<1> QED
  BY <1>2, <1>3 DEF Transit, p

\* A status is newer than all that is in transit.
LEMMA TransitStatus ==
    ASSUME NEW s \in Rows, NEW q \in Queues, NEW lo \in Int, NEW hi \in Int,
           lo <= hi, Transit(s, q, lo, hi),
           NEW m \in ClientMessage, IsStatus(m) => m.n = hi + 1
    PROVE  Transit(s, Append(q, m), lo, hi + 1)
<1> DEFINE p == Append(q, m)
<1>0. Transit(s, q, lo, hi + 1)
  BY TransitWeaker
<1>1. \A i \in 1..Len(p) : \/ i \in 1..Len(q) /\ p[i] = q[i]
                           \/ i = Len(q) + 1 /\ p[i] = m
  BY QueueParts
<1>2. Len(q) \in Nat
  BY QueueParts
<1> HIDE DEF p
<1>3. \A i \in 1..Len(q) : IsStatus(q[i]) => q[i].n \in lo + 1..hi
  BY DEF Transit, Queued
<1>4. Answered(s, p)
  <2> SUFFICES ASSUME NEW i \in 1..Len(s), NEW k \in 1..Len(p),
                      IsCommand(s[i]), IsStatus(p[k])
               PROVE  s[i].msg.re < p[k].n
    BY DEF Answered
  <2>1. s[i].msg.re \in lo + 1..hi
    BY DEF Transit, Recent
  <2>2. CASE k \in 1..Len(q) /\ p[k] = q[k]
    BY <2>2 DEF Transit, Answered
  <2>3. CASE p[k] = m
    BY <2>1, <2>3
  <2> QED
    BY <1>1, <2>2, <2>3
<1>5. \A k \in 1..Len(p) : IsStatus(p[k]) => p[k].n \in lo + 1..hi + 1
  <2> TAKE k \in 1..Len(p)
  <2> HAVE IsStatus(p[k])
  <2>1. CASE k \in 1..Len(q) /\ p[k] = q[k]
    BY <1>3, <2>1
  <2>2. CASE p[k] = m
    BY <2>2
  <2> QED
    BY <1>1, <2>1, <2>2
<1>6. \A i, j \in 1..Len(p) :
         i < j /\ IsStatus(p[i]) /\ IsStatus(p[j]) => p[i].n < p[j].n
  <2> SUFFICES ASSUME NEW i \in 1..Len(p), NEW j \in 1..Len(p), i < j,
                      IsStatus(p[i]), IsStatus(p[j])
               PROVE  p[i].n < p[j].n
    OBVIOUS
  <2>1. i \in 1..Len(q) /\ p[i] = q[i]
    BY <1>1, <1>2
  <2>2. CASE j \in 1..Len(q) /\ p[j] = q[j]
    BY <2>1, <2>2 DEF Transit, Queued
  <2>3. CASE p[j] = m
    BY <1>3, <2>1, <2>3
  <2> QED
    BY <1>1, <2>2, <2>3
<1>7. Queued(p, lo, hi + 1)
  BY <1>5, <1>6 DEF Queued
<1> QED
  BY <1>0, <1>4, <1>7 DEF Transit, p

\* When all statuses are settled there is nothing of one in transit.
LEMMA TransitSettled ==
    ASSUME NEW s \in Rows, NEW q \in Queues, NEW n \in Int, Transit(s, q, n, n),
           NEW lo \in Int, NEW hi \in Int
    PROVE  Transit(s, q, lo, hi)
<1>1. n + 1..n = {}
  OBVIOUS
<1>2. \A i \in 1..Len(s) : ~IsCommand(s[i])
  BY <1>1 DEF Transit, Recent
<1>3. \A k \in 1..Len(q) : ~IsStatus(q[k])
  BY <1>1 DEF Transit, Queued
<1> QED
  BY <1>2, <1>3 DEF Transit, Ordered, Recent, Answered, Queued

\* The queue shrinks, or the end of the row is cut off.
LEMMA TransitLoss ==
    ASSUME NEW s \in Rows, NEW t \in Rows, NEW q \in Queues, NEW lo \in Int, NEW hi \in Int,
           Transit(s \o t, q, lo, hi)
    PROVE  /\ Transit(s \o t, <<>>, lo, hi)
           /\ Transit(s, q, lo, hi) /\ Transit(s, <<>>, lo, hi)
           /\ q # <<>> => Transit(s \o t, Tail(q), lo, hi)
<1>1. \A r : Answered(r, <<>>) /\ Queued(<<>>, lo, hi)
  BY DEF Answered, Queued
<1>2. /\ Len(s \o t) = Len(s) + Len(t) /\ Len(s) \in Nat /\ Len(t) \in Nat
      /\ \A i \in 1..Len(s) : (s \o t)[i] = s[i] /\ i \in 1..Len(s \o t)
  BY RowParts DEF Rows
<1>3. Ordered(s)
  BY <1>2 DEF Transit, Ordered
<1>4. Recent(s, lo, hi)
  BY <1>2 DEF Transit, Recent
<1>5. Answered(s, q)
  BY <1>2 DEF Transit, Answered
<1>6. ASSUME q # <<>> PROVE Transit(s \o t, Tail(q), lo, hi)
  <2>1. /\ Len(q) \in Nat /\ Len(Tail(q)) = Len(q) - 1
        /\ \A i \in 1..Len(Tail(q)) : Tail(q)[i] = q[i + 1]
    BY <1>6, HeadTailProperties, LenProperties DEF Queues
  <2>2. \A i \in 1..Len(Tail(q)) : i + 1 \in 1..Len(q)
    BY <2>1
  <2>3. \A i, j \in 1..Len(Tail(q)) : i < j => i + 1 < j + 1
    BY <2>1
  <2>4. Answered(s \o t, Tail(q))
    BY <2>1, <2>2 DEF Transit, Answered
  <2>5. Queued(Tail(q), lo, hi)
    BY <2>1, <2>2, <2>3 DEF Transit, Queued
  <2> QED
    BY <2>4, <2>5 DEF Transit
<1> QED
  BY <1>1, <1>3, <1>4, <1>5, <1>6 DEF Transit

\* A byte of no command may come in anywhere in the row.
LEMMA TransitInsert ==
    ASSUME NEW s \in Rows, NEW t \in Rows, NEW q, NEW lo \in Int, NEW hi \in Int,
           Transit(s \o t, q, lo, hi), NEW b \in Byte, ~IsCommand(b)
    PROVE  Transit(Append(s, b) \o t, q, lo, hi)
<1> DEFINE r == s \o t
           u == Append(s, b) \o t
           Old(i) == IF i <= Len(s) THEN i ELSE i - 1
<1>1. /\ Len(r) = Len(s) + Len(t) /\ Len(s) \in Nat /\ Len(t) \in Nat
      /\ \A i \in 1..Len(s) : r[i] = s[i]
      /\ \A i \in 1..Len(t) : r[Len(s) + i] = t[i]
  BY RowParts DEF Rows
<1>2. /\ Append(s, b) \in Rows /\ Len(Append(s, b)) = Len(s) + 1
      /\ \A i \in 1..Len(s) : Append(s, b)[i] = s[i]
      /\ Append(s, b)[Len(s) + 1] = b
  BY AppendProperties DEF Rows
<1>3. /\ Len(u) = Len(s) + 1 + Len(t)
      /\ \A i \in 1..Len(s) + 1 : u[i] = Append(s, b)[i]
      /\ \A i \in 1..Len(t) : u[Len(s) + 1 + i] = t[i]
  BY <1>1, <1>2, RowParts DEF Rows
<1> HIDE DEF r, u
<1>4. ASSUME NEW i \in 1..Len(u), IsCommand(u[i])
      PROVE  /\ i # Len(s) + 1
             /\ Old(i) \in 1..Len(r) /\ u[i] = r[Old(i)]
  <2>1. i # Len(s) + 1
    <3> SUFFICES ASSUME i = Len(s) + 1 PROVE FALSE
      OBVIOUS
    <3>1. u[i] = b
      BY <1>1, <1>2, <1>3
    <3> QED
      BY <1>4, <3>1
  <2>2. CASE i <= Len(s)
    <3>1. i \in 1..Len(s) /\ Old(i) = i /\ i \in 1..Len(s) + 1 /\ i \in 1..Len(r)
      BY <1>1, <2>2
    <3> HIDE DEF Old
    <3> QED
      BY <1>1, <1>2, <1>3, <2>1, <3>1
  <2>3. CASE i > Len(s) + 1
    <3> DEFINE k == i - Len(s) - 1
    <3>1. /\ k \in 1..Len(t) /\ Len(s) + 1 + k = i /\ Len(s) + k = Old(i)
          /\ Old(i) \in 1..Len(r)
      BY <1>1, <1>3, <2>3
    <3> HIDE DEF k, Old
    <3>2. u[i] = t[k] /\ r[Old(i)] = t[k]
      BY <1>1, <1>3, <3>1
    <3> QED
      BY <2>1, <3>1, <3>2
  <2> QED
    BY <1>1, <1>3, <2>1, <2>2, <2>3
<1>5. ASSUME NEW i \in 1..Len(u), NEW j \in 1..Len(u), i < j,
             i # Len(s) + 1, j # Len(s) + 1
      PROVE  Old(i) < Old(j)
  BY <1>1, <1>3, <1>5
<1> HIDE DEF Old
<1>6. Ordered(u)
  <2> SUFFICES ASSUME NEW i \in 1..Len(u), NEW j \in 1..Len(u), i < j,
                      IsCommand(u[i]), IsCommand(u[j])
               PROVE  \/ u[i].msg.re < u[j].msg.re
                      \/ u[i].msg = u[j].msg /\ u[i].pos < u[j].pos
    BY DEF Ordered
  <2>1. /\ Old(i) \in 1..Len(r) /\ u[i] = r[Old(i)]
        /\ Old(j) \in 1..Len(r) /\ u[j] = r[Old(j)]
        /\ Old(i) < Old(j)
    BY <1>4, <1>5
  <2>2. Ordered(r)
    BY DEF Transit, r
  <2>3. IsCommand(r[Old(i)]) /\ IsCommand(r[Old(j)])
    BY <2>1
  <2>4. \/ r[Old(i)].msg.re < r[Old(j)].msg.re
        \/ r[Old(i)].msg = r[Old(j)].msg /\ r[Old(i)].pos < r[Old(j)].pos
    BY <2>1, <2>2, <2>3 DEF Ordered
  <2> QED
    BY <2>1, <2>4
<1>7. Recent(u, lo, hi)
  BY <1>4 DEF Transit, Recent, r
<1>8. Answered(u, q)
  BY <1>4 DEF Transit, Answered, r
<1> QED
  BY <1>6, <1>7, <1>8 DEF Transit, u

\* The bytes of a frame name its message and their places in it.
LEMMA FrameBytes ==
    ASSUME NEW a \in ServerMessage
    PROVE  /\ Frame(a) \in Rows /\ Len(Frame(a)) = HeaderLen + BodyLen(a)
           /\ \A i \in 1..Len(Frame(a)) : Frame(a)[i].msg = a /\ Frame(a)[i].pos = i
<1>1. HeaderLen + BodyLen(a) \in Nat
  BY BodyLenNat, ProtocolAssumption
<1>2. Len(Frame(a)) = HeaderLen + BodyLen(a)
  BY <1>1 DEF Frame, Bytes
<1>3. \A i \in 1..Len(Frame(a)) : Frame(a)[i] = [msg |-> a, pos |-> 0 + i]
  BY <1>1, <1>2 DEF Frame, Bytes
<1>4. \A i \in 1..Len(Frame(a)) : Frame(a)[i].msg = a /\ Frame(a)[i].pos = i
  BY <1>1, <1>2, <1>3
<1> QED
  BY <1>2, <1>4, FrameType DEF Rows

\* A command answers the status it was asked for, and fits in a frame.
LEMMA CommandAnswers ==
    ASSUME NEW m \in ClientMessage, NEW a \in Answers(m), a.kind = "deviceCommand"
    PROVE  IsStatus(m) /\ a.re = m.n /\ BodyLen(a) = CommandLen
<1>1. m.kind = "deviceStatus"
  BY DEF Answers
<1>2. a \in [kind : {"deviceCommand"}, re : {m.n}, device : GatewayDevices,
             data : Payloads]
  BY <1>1 DEF Answers, Unset, Undecodable
<1> QED
  BY <1>1, <1>2 DEF IsStatus, BodyLen

\* The gateway takes the first message of the queue and appends its answer.
LEMMA TransitAnswer ==
    ASSUME NEW s \in Rows, NEW q \in Queues, NEW lo \in Int, NEW hi \in Int,
           Transit(s, q, lo, hi), q # <<>>, NEW a \in Answers(Head(q))
    PROVE  Transit(s \o Frame(a), Tail(q), lo, hi)
<1> DEFINE f == Frame(a)
           r == s \o f
<1>1. /\ Len(q) \in Nat \ {0} /\ Head(q) = q[1] /\ q[1] \in ClientMessage
      /\ Len(Tail(q)) = Len(q) - 1
      /\ \A i \in 1..Len(Tail(q)) : Tail(q)[i] = q[i + 1]
  BY HeadTailProperties, EmptySeq DEF Queues
<1>2. \A i \in 1..Len(Tail(q)) : i + 1 \in 1..Len(q) /\ 1 < i + 1
  BY <1>1
<1>3. a \in ServerMessage
  BY <1>1, AnswersType
<1>4. f \in Rows /\ \A i \in 1..Len(f) : f[i].msg = a /\ f[i].pos = i
  BY <1>3, FrameBytes
<1>5. Len(f) = HeaderLen + BodyLen(a)
  BY <1>3, FrameBytes
<1> HIDE DEF f
<1>6. /\ Len(s) \in Nat /\ Len(f) \in Nat /\ Len(r) = Len(s) + Len(f)
      /\ \A i \in 1..Len(s) : r[i] = s[i]
      /\ \A i \in 1..Len(f) : r[Len(s) + i] = f[i]
  BY <1>4, RowParts DEF Rows
<1>7. \A i \in 1..Len(r) : \/ i \in 1..Len(s) /\ r[i] = s[i]
                           \/ /\ i - Len(s) \in 1..Len(f) /\ ~(i \in 1..Len(s))
                              /\ r[i].msg = a /\ r[i].pos = i - Len(s)
  <2> TAKE i \in 1..Len(r)
  <2>1. CASE i <= Len(s)
    BY <1>6, <2>1
  <2>2. CASE i > Len(s)
    <3>1. i - Len(s) \in 1..Len(f) /\ Len(s) + (i - Len(s)) = i
      BY <1>6, <2>2
    <3>2. r[i] = f[i - Len(s)]
      BY <1>6, <3>1
    <3> QED
      BY <1>4, <2>2, <3>1, <3>2
  <2> QED
    BY <1>6, <2>1, <2>2
<1>8. a.kind = "deviceCommand" =>
        /\ IsStatus(q[1]) /\ a.re = q[1].n /\ a.re \in lo + 1..hi
        /\ Len(f) = HeaderLen + CommandLen
  <2> HAVE a.kind = "deviceCommand"
  <2>1. IsStatus(q[1]) /\ a.re = q[1].n /\ BodyLen(a) = CommandLen
    BY <1>1, CommandAnswers
  <2>2. q[1].n \in lo + 1..hi
    BY <1>1, <2>1 DEF Transit, Queued
  <2> QED
    BY <1>5, <2>1, <2>2
<1> HIDE DEF r
<1>9. \A i \in 1..Len(s) : IsCommand(s[i]) =>
        /\ s[i].msg.re \in lo + 1..hi /\ s[i].pos <= HeaderLen + CommandLen
        /\ IsStatus(q[1]) => s[i].msg.re < q[1].n
  BY <1>1 DEF Transit, Recent, Answered
<1>10. Ordered(r)
  <2> SUFFICES ASSUME NEW i \in 1..Len(r), NEW j \in 1..Len(r), i < j,
                      IsCommand(r[i]), IsCommand(r[j])
               PROVE  \/ r[i].msg.re < r[j].msg.re
                      \/ r[i].msg = r[j].msg /\ r[i].pos < r[j].pos
    BY DEF Ordered
  <2>1. CASE j \in 1..Len(s) /\ r[j] = s[j]
    <3>1. i \in 1..Len(s) /\ r[i] = s[i]
      BY <1>6, <1>7, <2>1
    <3> QED
      BY <2>1, <3>1 DEF Transit, Ordered
  <2>2. CASE r[j].msg = a /\ i \in 1..Len(s) /\ r[i] = s[i]
    BY <1>8, <1>9, <2>2 DEF IsCommand
  <2>3. CASE /\ r[i].msg = a /\ r[i].pos = i - Len(s)
             /\ r[j].msg = a /\ r[j].pos = j - Len(s)
    BY <1>6, <2>3
  <2> QED
    BY <1>7, <2>1, <2>2, <2>3
<1>11. Recent(r, lo, hi)
  <2> SUFFICES ASSUME NEW i \in 1..Len(r), IsCommand(r[i])
               PROVE  /\ r[i].msg.re \in lo + 1..hi
                      /\ r[i].pos <= HeaderLen + CommandLen
    BY DEF Recent
  <2>1. CASE i \in 1..Len(s) /\ r[i] = s[i]
    BY <1>9, <2>1
  <2>2. CASE r[i].msg = a /\ r[i].pos = i - Len(s) /\ i - Len(s) \in 1..Len(f)
    BY <1>6, <1>8, <2>2 DEF IsCommand
  <2> QED
    BY <1>7, <2>1, <2>2
<1>12. \A k \in 1..Len(Tail(q)) : /\ k + 1 \in 1..Len(q) /\ Tail(q)[k] = q[k + 1]
                                  /\ IsStatus(q[1]) /\ IsStatus(Tail(q)[k]) =>
                                       q[1].n < Tail(q)[k].n
  <2> TAKE k \in 1..Len(Tail(q))
  <2>1. k + 1 \in 1..Len(q) /\ 1 \in 1..Len(q) /\ 1 < k + 1 /\ Tail(q)[k] = q[k + 1]
    BY <1>1, <1>2
  <2> QED
    BY <2>1 DEF Transit, Queued
<1>13. Answered(r, Tail(q))
  <2> SUFFICES ASSUME NEW i \in 1..Len(r), NEW k \in 1..Len(Tail(q)),
                      IsCommand(r[i]), IsStatus(Tail(q)[k])
               PROVE  r[i].msg.re < Tail(q)[k].n
    BY DEF Answered
  <2>1. CASE i \in 1..Len(s) /\ r[i] = s[i]
    BY <1>12, <2>1 DEF Transit, Answered
  <2>2. CASE r[i].msg = a
    BY <1>8, <1>12, <2>2 DEF IsCommand
  <2> QED
    BY <1>7, <2>1, <2>2
<1>14. Queued(Tail(q), lo, hi)
  <2>1. \A k \in 1..Len(Tail(q)) : IsStatus(Tail(q)[k]) => Tail(q)[k].n \in lo + 1..hi
    BY <1>12 DEF Transit, Queued
  <2>2. ASSUME NEW i \in 1..Len(Tail(q)), NEW j \in 1..Len(Tail(q)), i < j,
               IsStatus(Tail(q)[i]), IsStatus(Tail(q)[j])
        PROVE  Tail(q)[i].n < Tail(q)[j].n
    <3>1. i + 1 < j + 1
      BY <2>2
    <3> QED
      BY <1>12, <2>2, <3>1 DEF Transit, Queued
  <2> QED
    BY <2>1, <2>2 DEF Queued
<1> QED
  BY <1>10, <1>11, <1>13, <1>14 DEF Transit, r, f

\* A reply that passes the check ends with the last byte of the command in it.
LEMMA CommandBytes ==
    ASSUME NEW s \in Rows, NEW own, checkCommand(s, own) = OK
    PROVE  \E k \in 1..Len(s) :
              /\ k = Len(s) /\ IsCommand(s[k]) /\ s[k].msg = Decode(s)
              /\ s[k].pos = HeaderLen + CommandLen
<1>1. Decode(s).kind = "deviceCommand"
  BY CommandChecked DEF DeviceCommand, Rows
<1>2. IsBody(s) /\ Decode(s) = Head(s).msg
  BY <1>1 DEF Decode, Undecodable
<1> DEFINE m == Head(s).msg
<1>3. s = Bytes(m, HeaderLen, CommandLen)
  BY <1>1, <1>2 DEF IsBody, Body, BodyLen
<1> HIDE DEF m
<1>4. CommandLen \in Nat \ {0}
  BY ProtocolAssumption
<1>5. Len(s) = CommandLen
  BY <1>3, <1>4 DEF Bytes
<1>6. s[CommandLen] = [msg |-> m, pos |-> HeaderLen + CommandLen]
  BY <1>3, <1>4 DEF Bytes
<1>7. /\ CommandLen \in 1..Len(s) /\ CommandLen = Len(s)
      /\ s[CommandLen].msg = m /\ s[CommandLen].pos = HeaderLen + CommandLen
  BY <1>4, <1>5, <1>6
<1> QED
  BY <1>1, <1>2, <1>7 DEF IsCommand, m

\* Once a command is saved, nothing of the statuses up to the one it answers is
\* in transit any more.
LEMMA TransitSave ==
    ASSUME NEW s \in Rows, NEW t \in Rows, NEW q \in Queues, NEW lo \in Int, NEW hi \in Int,
           Transit(s \o t, q, lo, hi), NEW own, checkCommand(s, own) = OK
    PROVE  /\ Decode(s).re \in lo + 1..hi
           /\ Transit(t, q, Decode(s).re, hi)
<1> DEFINE r == s \o t
           n == Decode(s).re
<1>1. PICK k \in 1..Len(s) :
         /\ k = Len(s) /\ IsCommand(s[k]) /\ s[k].msg = Decode(s)
         /\ s[k].pos = HeaderLen + CommandLen
  BY CommandBytes
<1>2. /\ Len(s) \in Nat /\ Len(t) \in Nat /\ Len(r) = Len(s) + Len(t)
      /\ r[k] = s[k] /\ k \in 1..Len(r)
      /\ \A i \in 1..Len(t) : r[Len(s) + i] = t[i]
  BY RowParts DEF Rows
<1>3. n \in lo + 1..hi
  BY <1>1, <1>2 DEF Transit, Recent
<1>4. Transit(t, q, lo, hi)
  BY TransitEnd
<1>5. \A i \in 1..Len(t) : Len(s) + i \in 1..Len(r) /\ k < Len(s) + i
  BY <1>1, <1>2
<1> HIDE DEF r
<1>6. ASSUME NEW i \in 1..Len(t), IsCommand(t[i])
      PROVE  n < t[i].msg.re
  <2>1. t[i].msg.re \in lo + 1..hi /\ t[i].pos <= HeaderLen + CommandLen
    BY <1>4, <1>6 DEF Transit, Recent
  <2>2. \/ r[k].msg.re < t[i].msg.re
        \/ r[k].pos < t[i].pos
    BY <1>1, <1>2, <1>5, <1>6 DEF Transit, Ordered, r
  <2>3. ~(HeaderLen + CommandLen < t[i].pos)
    <3>1. t[i] \in Byte
      BY ElementOfSeq DEF Rows
    <3>2. t[i].pos \in Nat
      BY <3>1 DEF Byte
    <3> QED
      BY <2>1, <3>2, ProtocolAssumption
  <2> QED
    BY <1>1, <1>2, <2>2, <2>3
<1>7. Recent(t, n, hi)
  <2> SUFFICES ASSUME NEW i \in 1..Len(t), IsCommand(t[i])
               PROVE  t[i].msg.re \in n + 1..hi /\ t[i].pos <= HeaderLen + CommandLen
    BY DEF Recent
  <2>1. t[i].msg.re \in lo + 1..hi /\ t[i].pos <= HeaderLen + CommandLen
    BY <1>4 DEF Transit, Recent
  <2> QED
    BY <1>3, <1>6, <2>1
<1>8. Queued(q, n, hi)
  <2>1. ASSUME NEW j \in 1..Len(q), IsStatus(q[j]) PROVE q[j].n \in n + 1..hi
    <3>1. q[j].n \in lo + 1..hi
      BY <2>1 DEF Transit, Queued
    <3>2. r[k].msg.re < q[j].n
      BY <1>1, <1>2, <2>1 DEF Transit, Answered, r
    <3> QED
      BY <1>1, <1>2, <1>3, <3>1, <3>2
  <2> QED
    BY <1>4, <2>1 DEF Transit, Queued
<1> QED
  BY <1>3, <1>4, <1>7, <1>8 DEF Transit

-----------------------------------------------------------------------------
(* The state of the connection.                                            *)

LEMMA StreamType ==
    ASSUME TypeOK
    PROVE  /\ got \in Rows /\ rx \in Rows /\ wire \in Rows /\ tx \in Queues
           /\ Stream \in Rows /\ rx \o wire \in Rows /\ got \o rx \in Rows
           /\ Stream = got \o (rx \o wire)
<1>1. got \in Rows /\ rx \in Rows /\ wire \in Rows /\ tx \in Queues
  BY DEF TypeOK, ReadType, NetType, Rows, Queues
<1>2. rx \o wire \in Rows /\ got \o rx \in Rows
  BY <1>1, ConcatProperties DEF Rows
<1>3. Stream \in Rows
  BY <1>1, <1>2, ConcatProperties DEF Rows, Stream
<1>4. Stream = got \o (rx \o wire)
  BY <1>1, ConcatAssociative DEF Rows, Stream
<1> QED
  BY <1>1, <1>2, <1>3, <1>4

LEMMA SettledRange ==
    ASSUME TypeOK, LatestInv
    PROVE  /\ lastSaved \in Nat /\ statusNo \in Nat
           /\ Settled \in Int /\ lastSaved <= Settled /\ Settled <= statusNo
<1>1. lastSaved \in Nat /\ statusNo \in Nat /\ lastSaved <= statusNo
  BY ClientAssumption DEF TypeOK, HistType, LatestInv
<1>2. quiet => lastSaved < statusNo
  BY DEF LatestInv
<1> QED
  BY <1>1, <1>2 DEF Settled

\* Between calls no read is under way and the last save is what is settled.
LEMMA IdleSettled ==
    ASSUME LatestInv, phase = "idle"
    PROVE  /\ ~quiet /\ got = <<>> /\ Settled = lastSaved
BY DEF LatestInv, Settled, OnNewConnection, ReadPhases, SizePhases

\* A step that leaves the streams alone.
LEMMA SameStreams ==
    ASSUME TypeOK, OrderInv, UNCHANGED <<got, rx, wire, tx>>,
           Settled' \in Int, Settled' <= Settled,
           statusNo' \in Int, statusNo <= statusNo'
    PROVE  TransitInv'
<1>1. Stream' = Stream /\ Stream \in Rows /\ tx \in Queues
  BY StreamType DEF Stream
<1>2. Settled \in Int /\ statusNo \in Int
  BY SettledRange DEF OrderInv
<1>3. Transit(Stream, tx, Settled', statusNo')
  BY <1>1, <1>2, TransitWeaker DEF OrderInv, TransitInv
<1> QED
  BY <1>1, <1>3 DEF TransitInv

\* A step that drops what the read in progress has consumed.
LEMMA DropsRead ==
    ASSUME TypeOK, OrderInv, UNCHANGED <<rx, wire, tx>>, got' = <<>>,
           Settled' \in Int, Settled' <= Settled, statusNo' = statusNo
    PROVE  TransitInv'
<1>1. Settled \in Int /\ statusNo \in Int
  BY SettledRange DEF OrderInv
<1>2. rx \o wire \in Rows /\ got \in Rows /\ tx \in Queues /\ Stream = got \o (rx \o wire)
  BY StreamType
<1>3. Transit(rx \o wire, tx, Settled, statusNo)
  BY <1>1, <1>2, TransitEnd DEF OrderInv, TransitInv
<1>4. Transit(rx \o wire, tx, Settled', statusNo)
  BY <1>1, <1>2, <1>3, TransitWeaker
<1>5. Stream' = rx \o wire
  <2>1. rx \in Seq(Byte)
    BY DEF TypeOK, NetType
  <2>2. <<>> \o rx = rx
    BY <2>1, ConcatEmptySeq
  <2> QED
    BY <2>2 DEF Stream
<1> QED
  BY <1>4, <1>5 DEF TransitInv

\* A step that begins a new connection or ends one.
LEMMA NewStreams ==
    ASSUME NEW l, Reset(l), got' = <<>> PROVE TransitInv'
<1>1. <<>> \o <<>> \o <<>> = <<>>
  <2>1. <<>> \in Seq(Byte)
    BY EmptySeq
  <2>2. <<>> \o <<>> = <<>>
    BY <2>1, ConcatEmptySeq
  <2> QED
    BY <2>2
<1>2. Stream' = <<>> /\ tx' = <<>>
  BY <1>1 DEF Reset, Stream
<1> QED
  BY <1>2, TransitEmpty DEF TransitInv

\* A call that goes on, and one that returns.
LEMMA GoesOnLatest ==
    ASSUME LatestInv, Go, phase # "idle", phase' # "idle", got' = <<>>,
           UNCHANGED <<statusNo, lastSaved>>
    PROVE  LatestInv'
BY DEF LatestInv, Go

LEMMA ReturnsLatest ==
    ASSUME LatestInv, NEW r, Return(r), lastSaved' <= statusNo, statusNo' = statusNo
    PROVE  LatestInv' /\ Settled' = lastSaved' /\ got' = <<>>
<1>1. phase' = "idle" /\ got' = <<>> /\ quiet' = FALSE
  BY DEF Return, NoRead
<1>2. LatestInv'
  BY <1>1 DEF LatestInv
<1>3. Settled' = lastSaved'
  BY <1>1 DEF Settled, OnNewConnection
<1> QED
  BY <1>1, <1>2, <1>3

\* A call that returns and saves nothing.
LEMMA ReturnsOrder ==
    ASSUME TypeOK, OrderInv, NEW r, Return(r), UNCHANGED <<statusNo, lastSaved>>
    PROVE  /\ LatestInv' /\ got' = <<>>
           /\ Settled' \in Int /\ Settled' <= Settled
BY SettledRange, ReturnsLatest DEF OrderInv

\* One that goes on without changing connections.
LEMMA GoesOnOrder ==
    ASSUME TypeOK, OrderInv, Go, phase # "idle", phase' # "idle", got' = <<>>,
           UNCHANGED <<statusNo, lastSaved>>, OnNewConnection' => OnNewConnection
    PROVE  /\ LatestInv'
           /\ Settled' \in Int /\ Settled' <= Settled
<1>1. LatestInv /\ LatestInv'
  BY GoesOnLatest DEF OrderInv
<1>2. /\ lastSaved \in Nat /\ statusNo \in Nat
      /\ lastSaved <= statusNo
      /\ quiet' = quiet /\ (quiet => lastSaved < statusNo)
  BY <1>1, SettledRange DEF Go, LatestInv
<1>3. Settled' \in Int /\ Settled' <= Settled
  BY <1>2 DEF Settled
<1> QED
  BY <1>1, <1>3

-----------------------------------------------------------------------------
(* Every step keeps the order.                                             *)

LEMMA InitConnectionOrder ==
    ASSUME TypeOK, OrderInv, NEW d \in Devices, InitConnection(d)
    PROVE  OrderInv'
<1>1. phase = "idle" /\ ~quiet /\ got = <<>> /\ Settled = lastSaved
  BY IdleSettled DEF InitConnection, OrderInv
<1>2. /\ call' = "init" /\ got' = got /\ quiet' = quiet
      /\ statusNo' = statusNo /\ lastSaved' = lastSaved
  BY DEF InitConnection, read
<1>3. LatestInv'
  BY <1>1, <1>2 DEF OrderInv, LatestInv
<1>4. Settled' = lastSaved
  BY <1>1, <1>2 DEF Settled, OnNewConnection
<1>5. CASE UNCHANGED net
  <2>1. UNCHANGED <<got, rx, wire, tx>>
    BY <1>2, <1>5 DEF net
  <2> QED
    BY <1>1, <1>2, <1>3, <1>4, <2>1, SettledRange, SameStreams DEF OrderInv
<1>6. CASE Reset("up")
  BY <1>1, <1>2, <1>3, <1>6, NewStreams DEF OrderInv
<1> QED
  BY <1>5, <1>6 DEF InitConnection

\* Streams that are empty together are empty each.
LEMMA EmptyStreams ==
    ASSUME TypeOK, tx \o wire \o rx = <<>> PROVE tx = <<>> /\ wire = <<>> /\ rx = <<>>
<1> DEFINE S == ClientMessage \cup Byte
<1>1. tx \in Seq(S) /\ wire \in Seq(S) /\ rx \in Seq(S)
  <2>1. ClientMessage \subseteq S /\ Byte \subseteq S
    OBVIOUS
  <2>2. tx \in Seq(ClientMessage) /\ wire \in Seq(Byte) /\ rx \in Seq(Byte)
    BY DEF TypeOK, NetType
  <2> HIDE DEF S
  <2> QED
    BY <2>1, <2>2, SeqMonotonic
<1> HIDE DEF S
<1>2. tx \o wire \in Seq(S)
  BY <1>1, ConcatProperties
<1>3. tx \o wire = <<>> /\ rx = <<>>
  BY <1>1, <1>2, ConcatEqualIffEmpty
<1> QED
  BY <1>1, <1>3, ConcatEqualIffEmpty

\* What a message sent leaves in transit: it joins the queue or is lost, and it
\* may be the last one of its connection.
LEMMA SendKeeps ==
    ASSUME TypeOK, NEW m, NEW r, SendMessage(m, r), got' = got,
           NEW lo \in Int, NEW hi \in Int,
           Transit(Stream, tx, lo, hi), Transit(Stream, Append(tx, m), lo, hi)
    PROVE  Transit(Stream', tx', lo, hi)
<1>1. /\ got \o rx \in Rows /\ wire \in Rows /\ tx \in Queues /\ rx' = rx
      /\ Stream = (got \o rx) \o wire
  BY StreamType, SendCases DEF Stream
<1>2. CASE wire' = wire
  <2>1. Stream' = Stream
    BY <1>1, <1>2 DEF Stream
  <2>2. Transit(Stream, <<>>, lo, hi)
    BY <1>1, TransitLoss
  <2>3. tx' = tx \/ tx' = <<>> \/ tx' = Append(tx, m)
    BY SendCases
  <2> QED
    BY <2>1, <2>2, <2>3
<1>3. CASE wire' = <<>> /\ (tx' = tx \/ tx' = <<>>)
  <2>1. Stream' = got \o rx
    <3>1. (got \o rx) \o <<>> = got \o rx
      BY <1>1, ConcatEmptySeq DEF Rows
    <3> QED
      BY <1>1, <1>3, <3>1 DEF Stream
  <2>2. Transit(got \o rx, tx, lo, hi) /\ Transit(got \o rx, <<>>, lo, hi)
    BY <1>1, TransitLoss
  <2> QED
    BY <1>3, <2>1, <2>2
<1> QED
  BY <1>2, <1>3, SendCases

\* A new status is the newest of what is in transit.
LEMMA StatusJoins ==
    ASSUME TypeOK, NEW m, NEW lo \in Int, NEW hi \in Int, lo <= hi,
           m \in ClientMessage, IsStatus(m) => m.n = hi + 1,
           Transit(Stream, tx, lo, hi), NEW r, SendMessage(m, r), got' = got
    PROVE  Transit(Stream', tx', lo, hi + 1)
<1>1. Stream \in Rows /\ tx \in Queues /\ hi + 1 \in Int
  BY StreamType
<1>2. Transit(Stream, Append(tx, m), lo, hi + 1)
  BY <1>1, TransitStatus
<1>3. Transit(Stream, tx, lo, hi + 1)
  BY <1>1, TransitWeaker
<1> QED
  BY <1>1, <1>2, <1>3, SendKeeps

LEMMA SendStatusOrder ==
    ASSUME TypeOK, OrderInv, NEW t \in Timeouts, SendStatus(t)
    PROVE  OrderInv'
<1> DEFINE status == [kind |-> "deviceStatus", n |-> statusNo + 1,
                      device |-> device]
<1>1. phase = "idle" /\ ~quiet /\ got = <<>> /\ Settled = lastSaved
  BY IdleSettled DEF SendStatus, OrderInv
<1>2. /\ call' = "status" /\ statusNo' = statusNo + 1 /\ lastSaved' = lastSaved
  BY DEF SendStatus
<1>3. /\ lastSaved \in Nat /\ statusNo \in Nat /\ lastSaved <= statusNo
  BY <1>1, SettledRange DEF OrderInv
<1>4. PICK m \in Serialized(status), r \in Sent :
        /\ SendMessage(m, r)
        /\ \/ UNCHANGED <<quiet, phase, read>>
           \/ /\ message' = m /\ quiet' = (tx \o wire \o rx = <<>>)
              /\ StartRead("replySize", HeaderLen)
  BY DEF SendStatus
<1>5. m \in ClientMessage /\ (IsStatus(m) => m.n = statusNo + 1)
  <2>1. status \in ClientMessage
    BY <1>3 DEF TypeOK, AppType, ClientMessage
  <2>2. m \in ClientMessage
    BY <1>4, <2>1, SerializedType
  <2>3. m \in {EmptyMessage, GarbledMessage, status}
    BY <1>4 DEF Serialized
  <2> QED
    BY <2>2, <2>3 DEF EmptyMessage, GarbledMessage, IsStatus
<1>6. got' = got
  BY <1>1, <1>4 DEF StartRead, read
<1>8. LatestInv'
  <2>1. CASE UNCHANGED <<quiet, phase>>
    BY <1>1, <1>2, <1>3, <1>6, <2>1 DEF LatestInv
  <2>2. CASE message' = m /\ StartRead("replySize", HeaderLen)
    BY <1>1, <1>2, <1>3, <1>5, <1>6, <2>2 DEF LatestInv, StartRead
  <2> QED
    BY <1>4, <2>1, <2>2
<1>9. Transit(Stream', tx', lastSaved, statusNo + 1)
  BY <1>1, <1>3, <1>4, <1>5, <1>6, StatusJoins DEF OrderInv, TransitInv
<1>10. TransitInv'
  <2>1. CASE ~quiet' /\ phase' \in {"idle", "replySize"}
    <3>1. Settled' = lastSaved
      BY <1>2, <2>1 DEF Settled, OnNewConnection
    <3> QED
      BY <1>2, <1>9, <3>1 DEF TransitInv
  <2>2. CASE quiet' /\ phase' = "replySize" /\ tx \o wire \o rx = <<>>
    <3>1. Settled' = statusNo
      BY <1>2, <1>3, <2>2 DEF Settled, OnNewConnection
    <3>2. tx = <<>> /\ Stream = <<>>
      <4>1. tx = <<>> /\ wire = <<>> /\ rx = <<>>
        BY <2>2, EmptyStreams
      <4>2. Stream = got \o (rx \o wire) /\ rx \o wire \in Seq(Byte) /\ wire \in Seq(Byte)
        BY StreamType DEF Rows
      <4>3. rx \o wire = wire
        BY <4>1, <4>2, ConcatEmptySeq
      <4> QED
        BY <1>1, <4>1, <4>2, <4>3, ConcatEmptySeq
    <3>3. Transit(Stream, tx, statusNo, statusNo)
      BY <3>2, TransitEmpty
    <3>4. Transit(Stream', tx', statusNo, statusNo + 1)
      BY <1>3, <1>4, <1>5, <1>6, <3>3, StatusJoins
    <3> QED
      BY <1>2, <3>1, <3>4 DEF TransitInv
  <2>3. CASE UNCHANGED <<quiet, phase>>
    BY <1>1, <2>1, <2>3
  <2>4. CASE phase' = "replySize" /\ quiet' = (tx \o wire \o rx = <<>>)
    BY <2>1, <2>2, <2>4
  <2> QED
    BY <1>4, <2>3, <2>4 DEF StartRead
<1> QED
  BY <1>8, <1>10 DEF OrderInv

LEMMA OtherCallsOrder ==
    ASSUME TypeOK, OrderInv, RejectStatus \/ DestroyConnection
    PROVE  OrderInv'
<1>1. phase = "idle" /\ ~quiet /\ got = <<>> /\ Settled = lastSaved
  BY IdleSettled DEF RejectStatus, DestroyConnection, OrderInv
<1>2. /\ phase' = phase /\ got' = got /\ quiet' = quiet
      /\ statusNo' = statusNo /\ lastSaved' = lastSaved
  BY DEF RejectStatus, DestroyConnection, read, hist
<1>3. LatestInv'
  BY <1>1, <1>2 DEF OrderInv, LatestInv
<1>4. CASE RejectStatus
  <2>1. UNCHANGED <<got, rx, wire, tx>>
    BY <1>2, <1>4 DEF RejectStatus, net
  <2>2. Settled' = lastSaved
    BY <1>1, <1>2 DEF Settled, OnNewConnection
  <2> QED
    BY <1>1, <1>2, <1>3, <2>1, <2>2, SettledRange, SameStreams DEF OrderInv
<1>5. CASE DestroyConnection
  BY <1>1, <1>2, <1>3, <1>5, NewStreams DEF DestroyConnection, OrderInv
<1> QED
  BY <1>4, <1>5

LEMMA SendConnectOrder ==
    ASSUME TypeOK, OrderInv, SendConnect PROVE OrderInv'
<1> DEFINE connect == [kind |-> "deviceConnect", n |-> 0, device |-> device]
<1>1. /\ phase = "sendConnect" /\ got = <<>>
      /\ statusNo' = statusNo /\ lastSaved' = lastSaved
  BY DEF SendConnect, OrderInv, LatestInv, ReadPhases, SizePhases
<1>2. PICK m \in Serialized(connect), r \in Sent :
        /\ SendMessage(m, r)
        /\ \/ \E c : Return(c)
           \/ StartRead("respSize", HeaderLen) /\ Go
  BY DEF SendConnect
<1>3. m \in ClientMessage /\ ~IsStatus(m)
  <2>1. connect \in ClientMessage
    BY DEF TypeOK, AppType, ClientMessage
  <2>2. m \in {EmptyMessage, GarbledMessage, connect}
    BY <1>2 DEF Serialized
  <2> QED
    BY <1>2, <2>1, <2>2, SerializedType DEF EmptyMessage, GarbledMessage, IsStatus
<1>5. LatestInv' /\ got' = <<>> /\ Settled' \in Int /\ Settled' <= Settled
  <2>1. CASE \E c : Return(c)
    BY <1>1, <2>1, ReturnsOrder
  <2>2. CASE StartRead("respSize", HeaderLen) /\ Go
    <3>1. phase # "idle" /\ phase' # "idle" /\ got' = <<>>
      BY <1>1, <2>2 DEF StartRead
    <3>2. OnNewConnection' => OnNewConnection
      BY <1>1, <2>2 DEF OnNewConnection, Go
    <3> QED
      BY <1>1, <2>2, <3>1, <3>2, GoesOnOrder
  <2> QED
    BY <1>2, <2>1, <2>2
<1>6. Stream \in Rows /\ tx \in Queues
  BY StreamType
<1>7. Settled \in Int /\ statusNo \in Int
  BY SettledRange DEF OrderInv
<1>8. Transit(Stream, tx, Settled', statusNo)
  BY <1>5, <1>6, <1>7, TransitWeaker DEF OrderInv, TransitInv
<1>9. Transit(Stream, Append(tx, m), Settled', statusNo)
  BY <1>3, <1>5, <1>6, <1>7, <1>8, TransitOther
<1>10. Transit(Stream', tx', Settled', statusNo)
  BY <1>1, <1>2, <1>5, <1>7, <1>8, <1>9, SendKeeps
<1> QED
  BY <1>1, <1>5, <1>10 DEF OrderInv, TransitInv

LEMMA ReconnectOrder ==
    ASSUME TypeOK, OrderInv, Reconnect PROVE OrderInv'
<1>1. /\ phase = "reconnect"
      /\ statusNo' = statusNo /\ lastSaved' = lastSaved
      /\ Reset("up") \/ Reset("none")
  BY DEF Reconnect
<1>2. LatestInv' /\ got' = <<>>
  <2>1. CASE \E c : Return(c)
    BY <1>1, <2>1, ReturnsOrder
  <2>2. CASE NoRead("sendConnect") /\ Go
    BY <1>1, <2>2, GoesOnLatest DEF NoRead, OrderInv
  <2> QED
    BY <2>1, <2>2 DEF Reconnect
<1> QED
  BY <1>1, <1>2, NewStreams DEF OrderInv

LEMMA ResendOrder ==
    ASSUME TypeOK, WaitInv, OrderInv, Resend PROVE OrderInv'
<1>1. /\ phase = "resend" /\ call = "status" /\ got = <<>>
      /\ statusNo' = statusNo /\ lastSaved' = lastSaved
  BY DEF Resend, OrderInv, LatestInv, WaitInv, InitPhases, ReadPhases, SizePhases
<1>2. PICK r \in Sent :
        /\ SendMessage(message, r)
        /\ \/ \E c : Return(c)
           \/ StartRead("retrySize", HeaderLen) /\ Go
  BY DEF Resend
<1>3. /\ statusNo \in Nat /\ lastSaved \in Nat /\ lastSaved < statusNo
      /\ message \in ClientMessage /\ (IsStatus(message) => message.n = statusNo)
  BY <1>1, SettledRange DEF OrderInv, LatestInv, TypeOK, PcType
<1>5. /\ LatestInv' /\ got' = <<>>
      /\ Settled' \in Int /\ Settled' <= statusNo - 1
  <2>1. CASE \E c : Return(c)
    BY <1>1, <1>3, <2>1, ReturnsLatest DEF OrderInv
  <2>2. CASE StartRead("retrySize", HeaderLen) /\ Go
    <3>1. phase' = "retrySize" /\ got' = <<>> /\ quiet' = quiet
      BY <2>2 DEF StartRead, Go
    <3>2. LatestInv'
      BY <1>1, <2>2, <3>1, GoesOnLatest DEF OrderInv
    <3>3. Settled' \in {statusNo - 1, lastSaved}
      BY <1>1, <3>1 DEF Settled, OnNewConnection
    <3> QED
      BY <1>3, <3>1, <3>2, <3>3
  <2> QED
    BY <1>2, <2>1, <2>2
<1>6. Stream \in Rows /\ tx \in Queues
  BY StreamType
<1>7. Settled = statusNo
  BY <1>1 DEF Settled, OnNewConnection
<1>8. Transit(Stream, tx, Settled', statusNo - 1)
  BY <1>3, <1>5, <1>6, <1>7, TransitSettled DEF OrderInv, TransitInv
<1>9. Transit(Stream', tx', Settled', statusNo)
  <2>1. statusNo - 1 \in Int /\ statusNo - 1 + 1 = statusNo
    BY <1>3
  <2>2. Transit(Stream', tx', Settled', statusNo - 1 + 1)
    BY <1>1, <1>2, <1>3, <1>5, <1>8, <2>1, StatusJoins
  <2> QED
    BY <2>1, <2>2
<1> QED
  BY <1>1, <1>5, <1>9 DEF OrderInv, TransitInv

LEMMA ReadByteOrder ==
    ASSUME TypeOK, OrderInv, ReadByte PROVE OrderInv'
<1>1. /\ got' = Append(got, Head(rx)) /\ rx' = Tail(rx) /\ rx # <<>>
      /\ wire' = wire /\ tx' = tx /\ phase \in ReadPhases
      /\ UNCHANGED <<call, phase, message, statusNo, lastSaved, quiet>>
  BY DEF ReadByte, pc, hist
<1>2. got \in Seq(Byte) /\ rx \in Seq(Byte)
  BY DEF TypeOK, ReadType, NetType
<1>3. got' \o rx' = got \o rx
  BY <1>1, <1>2, MoveKeepsRow
<1>4. Stream' = Stream
  BY <1>1, <1>3 DEF Stream
<1>5. Settled' = Settled
  BY <1>1 DEF Settled, OnNewConnection
<1>6. LatestInv'
  BY <1>1 DEF OrderInv, LatestInv
<1> QED
  BY <1>1, <1>4, <1>5, <1>6 DEF OrderInv, TransitInv

LEMMA BadByteOrder ==
    ASSUME TypeOK, OrderInv, BadByte PROVE OrderInv'
<1>1. /\ got' = Append(got, NoByte) /\ rx' = rx /\ wire' = wire /\ tx' = tx
      /\ phase \in ReadPhases
      /\ UNCHANGED <<call, phase, message, statusNo, lastSaved, quiet>>
  BY DEF BadByte, ReadPhases, pc, net, hist
<1>2. /\ got \in Rows /\ rx \o wire \in Rows /\ Stream = got \o (rx \o wire)
      /\ rx \in Rows /\ wire \in Rows
  BY StreamType
<1>3. NoByte \in Byte /\ ~IsCommand(NoByte)
  BY NoByteType DEF NoByte, Undecodable, IsCommand
<1>4. Settled \in Int /\ statusNo \in Int
  BY SettledRange DEF OrderInv
<1>5. Transit(Append(got, NoByte) \o (rx \o wire), tx, Settled, statusNo)
  BY <1>2, <1>3, <1>4, TransitInsert DEF OrderInv, TransitInv
<1>6. Stream' = Append(got, NoByte) \o (rx \o wire)
  <2> DEFINE s == Append(got, NoByte)
  <2>1. s \in Seq(Byte) /\ rx \in Seq(Byte) /\ wire \in Seq(Byte)
    BY <1>2, <1>3, AppendProperties DEF Rows
  <2> HIDE DEF s
  <2>2. (s \o rx) \o wire = s \o (rx \o wire)
    BY <2>1, ConcatAssociative
  <2> QED
    BY <1>1, <2>2 DEF Stream, s
<1>7. Settled' = Settled
  BY <1>1 DEF Settled, OnNewConnection
<1>8. LatestInv'
  BY <1>1 DEF OrderInv, LatestInv
<1> QED
  BY <1>1, <1>5, <1>6, <1>7, <1>8 DEF OrderInv, TransitInv

\* What the order depends on.
orderVars == <<call, phase, message, statusNo, lastSaved, quiet, got, rx, wire, tx>>

LEMMA UnchangedOrder ==
    ASSUME OrderInv, UNCHANGED orderVars PROVE OrderInv'
<1>1. LatestInv'
  BY DEF OrderInv, LatestInv, orderVars
<1>2. Stream' = Stream /\ Settled' = Settled /\ tx' = tx /\ statusNo' = statusNo
  BY DEF Stream, Settled, OnNewConnection, orderVars
<1> QED
  BY <1>1, <1>2 DEF OrderInv, TransitInv

LEMMA SizeResultOrder ==
    ASSUME TypeOK, OrderInv, NEW n \in Nat, SizeResult(n) PROVE OrderInv'
<1>1. UNCHANGED <<rx, wire, tx, statusNo, lastSaved>>
  BY DEF SizeResult, net
<1>2. LatestInv' /\ got' = <<>> /\ Settled' \in Int /\ Settled' <= Settled
  <2>1. CASE \E c : Return(c)
    BY <1>1, <2>1, ReturnsOrder
  <2>2. CASE /\ Go
             /\ \/ phase = "respSize" /\ StartRead("respBody", n)
                \/ phase = "replySize" /\ NoRead("reconnect")
                \/ phase \in {"replySize", "retrySize"} /\ StartRead("replyBody", n)
    <3>1. phase # "idle" /\ phase' # "idle" /\ got' = <<>>
      BY <2>2 DEF StartRead, NoRead
    <3>2. OnNewConnection' => OnNewConnection
      BY <2>2 DEF OnNewConnection, StartRead, NoRead, Go
    <3> QED
      BY <1>1, <2>2, <3>1, <3>2, GoesOnOrder
  <2> QED
    BY <2>1, <2>2 DEF SizeResult
<1> QED
  BY <1>1, <1>2, DropsRead DEF OrderInv

LEMMA ConnectResultOrder ==
    ASSUME TypeOK, OrderInv, NEW s, ConnectResult(s) PROVE OrderInv'
<1>1. UNCHANGED <<rx, wire, tx, statusNo, lastSaved>>
  BY DEF ConnectResult, net
<1>2. LatestInv' /\ got' = <<>> /\ Settled' \in Int /\ Settled' <= Settled
  <2>1. CASE \E c : Return(c)
    BY <1>1, <2>1, ReturnsOrder
  <2>2. CASE phase = "respBody" /\ call = "status" /\ NoRead("resend") /\ Go
    <3>1. phase # "idle" /\ phase' # "idle" /\ got' = <<>>
      BY <2>2 DEF NoRead
    <3>2. OnNewConnection' => OnNewConnection
      BY <2>2 DEF OnNewConnection
    <3> QED
      BY <1>1, <2>2, <3>1, <3>2, GoesOnOrder
  <2> QED
    BY <2>1, <2>2 DEF ConnectResult
<1> QED
  BY <1>1, <1>2, DropsRead DEF OrderInv

\* The three ways a send_status ends that has received a reply: nothing is saved,
\* the empty command, or the command of a status that was not settled yet.
LEMMA StatusResultCases ==
    ASSUME TypeOK, OrderInv, NEW s \in {got, <<>>}, StatusResult(s)
    PROVE  \/ Return(COMMAND_INCORRECT) /\ saved' = saved /\ lastSaved' = lastSaved
           \/ Return(OK) /\ saved' = EmptyCommand /\ lastSaved' = lastSaved
           \/ /\ Return(OK) /\ saved'.block /\ saved'.re = lastSaved'
              /\ lastSaved' \in Settled + 1..statusNo
              /\ Transit(rx \o wire, tx, lastSaved', statusNo)
<1>1. got \in Rows /\ rx \o wire \in Rows /\ tx \in Queues /\ Stream = got \o (rx \o wire)
  BY StreamType
<1>2. /\ lastSaved \in Nat /\ statusNo \in Nat /\ Settled \in Int /\ lastSaved <= Settled
  BY SettledRange DEF OrderInv
<1>3. CASE checkCommand(s, device) = OK
  <2>1. s = got
    BY <1>3 DEF checkCommand, OK, NOT_OK
  <2>2. /\ Decode(got).re \in Settled + 1..statusNo
        /\ Transit(rx \o wire, tx, Decode(got).re, statusNo)
    BY <1>1, <1>2, <1>3, <2>1, TransitSave DEF OrderInv, TransitInv
  <2>3. Parsed(s).re = Decode(got).re /\ Parsed(s).block
    BY <1>3, <2>1 DEF Parsed, Command
  <2>4. Return(OK) /\ saved' = Parsed(s)
        /\ lastSaved' = IF Parsed(s).re > lastSaved THEN Parsed(s).re ELSE lastSaved
    BY <1>3 DEF StatusResult, OK, NOT_OK
  <2>5. lastSaved' = Decode(got).re
    BY <1>2, <2>2, <2>3, <2>4
  <2> QED
    BY <2>2, <2>3, <2>4, <2>5
<1>4. CASE checkCommand(s, device) # OK
  <2>1. Parsed(s) = EmptyCommand /\ EmptyCommand.re = 0
    BY <1>4 DEF Parsed, EmptyCommand
  <2>2. lastSaved = IF EmptyCommand.re > lastSaved THEN EmptyCommand.re ELSE lastSaved
    BY <1>2, <2>1
  <2> QED
    BY <2>1, <2>2 DEF StatusResult
<1> QED
  BY <1>3, <1>4

LEMMA StatusResultOrder ==
    ASSUME TypeOK, OrderInv, NEW s \in {got, <<>>}, StatusResult(s)
    PROVE  OrderInv'
<1>1. UNCHANGED <<rx, wire, tx, statusNo>>
  BY DEF StatusResult, net
<1>2. CASE lastSaved' = lastSaved
  <2>1. \E c : Return(c)
    BY DEF StatusResult
  <2> QED
    BY <1>1, <1>2, <2>1, ReturnsOrder, DropsRead DEF OrderInv
<1>3. CASE /\ Return(OK) /\ lastSaved' \in Settled + 1..statusNo
           /\ Transit(rx \o wire, tx, lastSaved', statusNo)
  <2>1. lastSaved' <= statusNo
    BY <1>3, SettledRange DEF OrderInv
  <2>2. LatestInv' /\ Settled' = lastSaved' /\ got' = <<>>
    BY <1>1, <1>3, <2>1, ReturnsLatest DEF OrderInv
  <2>3. Stream' = rx \o wire
    <3>1. <<>> \o rx = rx
      BY ConcatEmptySeq, StreamType DEF Rows
    <3> QED
      BY <1>1, <2>2, <3>1 DEF Stream
  <2> QED
    BY <1>1, <1>3, <2>2, <2>3 DEF OrderInv, TransitInv
<1> QED
  BY <1>2, <1>3, StatusResultCases

LEMMA StepsOrder ==
    ASSUME TypeOK, WaitInv, OrderInv, Steps PROVE OrderInv'
<1>1. CASE Delay
  BY <1>1, UnchangedOrder DEF Delay, orderVars, pc, net
<1> QED
  BY <1>1, StepCases, SendConnectOrder, ReconnectOrder, ResendOrder, ReadByteOrder,
     BadByteOrder, SizeResultOrder, ConnectResultOrder, StatusResultOrder

\* The environment moves bytes along, answers, or loses what is in transit.
LEMMA EnvironmentOrder ==
    ASSUME TypeOK, OrderInv, Environment PROVE OrderInv'
<1>1. UNCHANGED <<call, phase, message, statusNo, lastSaved, quiet, got>>
  BY EnvironmentShape DEF pc, read
<1>2. LatestInv' /\ Settled' = Settled
  BY <1>1 DEF OrderInv, LatestInv, Settled, OnNewConnection
<1>3. /\ got \in Rows /\ rx \in Rows /\ wire \in Rows /\ tx \in Queues
      /\ Stream \in Rows /\ got \o rx \in Rows
      /\ Stream = got \o (rx \o wire)
  BY StreamType
<1>4. Settled \in Int /\ statusNo \in Int
  BY SettledRange DEF OrderInv
<1>5. Transit(Stream, tx, Settled, statusNo)
  BY DEF OrderInv, TransitInv
<1>6. SUFFICES Transit(Stream', tx', Settled, statusNo)
  BY <1>1, <1>2 DEF OrderInv, TransitInv
<1>7. CASE Deliver
  <2>1. /\ rx' = Append(rx, Head(wire)) /\ wire' = Tail(wire) /\ wire # <<>> /\ tx' = tx
    BY <1>7 DEF Deliver
  <2>2. rx' \in Seq(Byte) /\ wire' \in Seq(Byte) /\ rx' \o wire' = rx \o wire
    BY <1>3, <2>1, MoveKeepsRow DEF Rows
  <2>3. Stream' = got \o (rx' \o wire')
    <3>1. got \in Seq(Byte)
      BY <1>3 DEF Rows
    <3>2. (got \o rx') \o wire' = got \o (rx' \o wire')
      <4> DEFINE s == rx'
                 t == wire'
      <4>1. s \in Seq(Byte) /\ t \in Seq(Byte)
        BY <2>2
      <4> HIDE DEF s, t
      <4>2. (got \o s) \o t = got \o (s \o t)
        BY <3>1, <4>1, ConcatAssociative
      <4> QED
        BY <4>2 DEF s, t
    <3> QED
      BY <1>1, <3>2 DEF Stream
  <2> QED
    BY <1>3, <1>5, <2>1, <2>2, <2>3
<1>8. CASE GatewayAnswers
  <2>1. /\ tx # <<>> /\ tx' = Tail(tx) /\ rx' = rx
    BY <1>8 DEF GatewayAnswers
  <2>2. PICK a \in Answers(Head(tx)) : wire' = wire \o Frame(a)
    BY <1>8 DEF GatewayAnswers
  <2>3. Frame(a) \in Seq(Byte)
    <3>1. Head(tx) \in ClientMessage
      BY <1>3, <2>1, HeadTailProperties DEF Queues
    <3> QED
      BY <3>1, AnswersType, FrameType
  <2>4. Stream' = Stream \o Frame(a)
    <3>1. got \o rx \in Seq(Byte) /\ wire \in Seq(Byte)
      BY <1>3 DEF Rows
    <3>2. ((got \o rx) \o wire) \o Frame(a) = (got \o rx) \o (wire \o Frame(a))
      <4> DEFINE front == got \o rx
                 back == Frame(a)
      <4>1. front \in Seq(Byte) /\ wire \in Seq(Byte) /\ back \in Seq(Byte)
        BY <2>3, <3>1
      <4> HIDE DEF front, back
      <4>2. (front \o wire) \o back = front \o (wire \o back)
        BY <4>1, ConcatAssociative
      <4> QED
        BY <4>2 DEF front, back
    <3> QED
      BY <1>1, <2>1, <2>2, <3>2 DEF Stream
  <2> QED
    BY <1>3, <1>4, <1>5, <2>1, <2>4, TransitAnswer
<1>9. CASE GatewayIgnores
  <2>1. tx # <<>> /\ tx' = Tail(tx) /\ Stream' = Stream
    BY <1>1, <1>9 DEF GatewayIgnores, Stream
  <2> QED
    BY <1>3, <1>4, <1>5, <2>1, TransitLoss DEF Stream
<1>10. CASE GatewayCloses
  <2>1. tx' = <<>> /\ Stream' = Stream
    BY <1>1, <1>10 DEF GatewayCloses, Closes, Stream
  <2> QED
    BY <1>3, <1>4, <1>5, <2>1, TransitLoss DEF Stream
<1>11. CASE LinkLost
  <2>1. tx' = <<>> /\ wire' = <<>> /\ rx' = rx
    BY <1>11 DEF LinkLost, Dies
  <2>2. Stream' = got \o rx
    <3>1. (got \o rx) \o <<>> = got \o rx
      BY <1>3, ConcatEmptySeq DEF Rows
    <3> QED
      BY <1>1, <2>1, <3>1 DEF Stream
  <2>3. Transit(got \o rx, <<>>, Settled, statusNo)
    BY <1>3, <1>4, <1>5, TransitLoss DEF Stream
  <2> QED
    BY <2>1, <2>2, <2>3
<1>12. CASE LossSeen
  BY <1>1, <1>5, <1>12 DEF LossSeen, Stream
<1> QED
  BY <1>7, <1>8, <1>9, <1>10, <1>11, <1>12 DEF Environment

LEMMA OrderStep ==
    TypeOK /\ WaitInv /\ OrderInv /\ [Next]_vars => OrderInv'
<1> SUFFICES ASSUME TypeOK, WaitInv, OrderInv, [Next]_vars PROVE OrderInv'
  OBVIOUS
<1>1. CASE UNCHANGED vars
  BY <1>1, UnchangedOrder DEF vars, pc, read, net, hist, orderVars
<1> QED
  BY <1>1, InitConnectionOrder, SendStatusOrder, OtherCallsOrder, StepsOrder,
     EnvironmentOrder DEF Next, Calls

LEMMA OrderInit == Init => OrderInv
<1> SUFFICES ASSUME Init PROVE OrderInv
  OBVIOUS
<1>1. Stream = <<>>
  <2>1. <<>> \in Seq(Byte)
    BY EmptySeq
  <2>2. <<>> \o <<>> = <<>>
    BY <2>1, ConcatEmptySeq
  <2> QED
    BY <2>2 DEF Init, Stream
<1>2. tx = <<>>
  BY DEF Init
<1>3. LatestInv
  BY DEF Init, LatestInv
<1> QED
  BY <1>1, <1>2, <1>3, TransitEmpty DEF OrderInv, TransitInv

LEMMA Ordering ==
    Spec => [](TypeOK /\ ContextInv /\ WaitInv /\ OrderInv)
<1>1. Init => TypeOK /\ ContextInv /\ WaitInv /\ OrderInv
  BY InitType, ContextInit, OrderInit DEF Init, WaitInv
<1>2. TypeOK /\ ContextInv /\ WaitInv /\ OrderInv /\ [Next]_vars
      => (TypeOK /\ ContextInv /\ WaitInv /\ OrderInv)'
  BY NextType, ContextStep, WaitStep, OrderStep
<1> QED
  BY <1>1, <1>2, PTL DEF Spec

\* The statuses sent on a connection: the next one is newer than all of them.
LEMMA NextTaken ==
    ASSUME TypeOK, TakenInv, NEW m \in ClientMessage, NEW r, SendMessage(m, r),
           statusNo' \in Nat, statusNo <= statusNo',
           IsStatus(m) => m.n = statusNo' /\ \A k \in 1..Len(taken) : taken[k] < m.n,
           ~OnNewConnection'
    PROVE  TakenInv'
<1>1. taken' = taken \/ (IsStatus(m) /\ taken' = Append(taken, m.n))
  BY DEF SendMessage
<1>2. taken \in Seq(Nat) /\ m.n \in Nat /\ statusNo \in Nat
  BY ClientAssumption DEF TypeOK, HistType, ConnType, ClientMessage
<1>3. \A k \in 1..Len(taken) : taken[k] \in Nat /\ taken[k] <= statusNo'
  BY <1>2 DEF TakenInv
<1>4. CASE taken' = taken
  BY <1>3, <1>4 DEF TakenInv, StatusOncePerConnection
<1>5. CASE IsStatus(m) /\ taken' = Append(taken, m.n)
  <2>1. /\ Len(taken) \in Nat /\ Len(taken') = Len(taken) + 1
        /\ \A k \in 1..Len(taken) : taken'[k] = taken[k]
        /\ taken'[Len(taken) + 1] = m.n
    BY <1>2, <1>5, AppendProperties, LenProperties
  <2>2. \A k \in 1..Len(taken') : \/ k \in 1..Len(taken) /\ taken'[k] = taken[k]
                                  \/ k = Len(taken) + 1 /\ taken'[k] = m.n
    BY <2>1
  <2>3. \A k \in 1..Len(taken') : taken'[k] <= statusNo'
    BY <1>3, <1>5, <2>2
  <2>4. ASSUME NEW i \in 1..Len(taken'), NEW j \in 1..Len(taken'), i < j
        PROVE  taken'[i] < taken'[j]
    <3>1. i \in 1..Len(taken) /\ taken'[i] = taken[i]
      BY <2>1, <2>2, <2>4
    <3>2. CASE j \in 1..Len(taken) /\ taken'[j] = taken[j]
      BY <2>4, <3>1, <3>2 DEF TakenInv, StatusOncePerConnection
    <3>3. CASE taken'[j] = m.n
      BY <1>5, <3>1, <3>3
    <3> QED
      BY <2>2, <3>2, <3>3
  <2> QED
    BY <2>3, <2>4 DEF TakenInv, StatusOncePerConnection
<1> QED
  BY <1>1, <1>4, <1>5

\* A new connection has taken none.
LEMMA NoneTaken == ASSUME taken' = <<>> PROVE TakenInv'
BY DEF TakenInv, StatusOncePerConnection

\* A step that sends nothing.
LEMMA SameTaken ==
    ASSUME TakenInv, UNCHANGED <<taken, statusNo>>, OnNewConnection' => OnNewConnection
    PROVE  TakenInv'
BY DEF TakenInv, StatusOncePerConnection

LEMMA CallsTake ==
    ASSUME TypeOK, TakenInv, Calls PROVE TakenInv'
<1>1. ASSUME NEW d \in Devices, InitConnection(d) PROVE TakenInv'
  <2>1. CASE Reset("up")
    BY <2>1, NoneTaken DEF Reset
  <2>2. CASE UNCHANGED conn
    BY <1>1, <2>2, SameTaken DEF InitConnection, OnNewConnection, conn
  <2> QED
    BY <1>1, <2>1, <2>2 DEF InitConnection
<1>2. ASSUME NEW t \in Timeouts, SendStatus(t) PROVE TakenInv'
  <2> DEFINE status == [kind |-> "deviceStatus", n |-> statusNo + 1,
                        device |-> device]
  <2>1. statusNo \in Nat /\ statusNo' = statusNo + 1 /\ phase = "idle"
    BY <1>2, ClientAssumption DEF TypeOK, HistType, SendStatus
  <2>2. PICK m \in Serialized(status), r \in Sent : SendMessage(m, r)
    BY <1>2 DEF SendStatus
  <2>3. status \in ClientMessage
    BY <2>1 DEF TypeOK, AppType, ClientMessage
  <2>4. m \in ClientMessage /\ m \in {EmptyMessage, GarbledMessage, status}
    BY <2>2, <2>3, SerializedType DEF Serialized
  <2>5. IsStatus(m) => m.n = statusNo + 1
    BY <2>4 DEF EmptyMessage, GarbledMessage, IsStatus
  <2>6. \A k \in 1..Len(taken) : taken[k] < statusNo + 1
    <3>1. \A k \in 1..Len(taken) : taken[k] \in Nat /\ taken[k] <= statusNo
      BY DEF TypeOK, HistType, ConnType, TakenInv
    <3> QED
      BY <2>1, <3>1
  <2>7. ~OnNewConnection'
    BY <1>2, <2>1 DEF SendStatus, StartRead, OnNewConnection
  <2> HIDE DEF status
  <2> QED
    BY <2>1, <2>2, <2>4, <2>5, <2>6, <2>7, NextTaken
<1>3. CASE RejectStatus
  BY <1>3, SameTaken DEF RejectStatus, OnNewConnection, hist, conn
<1>4. CASE DestroyConnection
  BY <1>4, NoneTaken DEF DestroyConnection, Reset
<1> QED
  BY <1>1, <1>2, <1>3, <1>4 DEF Calls

LEMMA StepsTake ==
    ASSUME TypeOK, WaitInv, OrderInv, TakenInv, Steps PROVE TakenInv'
<1>1. CASE SendConnect
  <2> DEFINE connect == [kind |-> "deviceConnect", n |-> 0, device |-> device]
  <2>1. PICK m \in Serialized(connect), r \in Sent : SendMessage(m, r)
    BY <1>1 DEF SendConnect
  <2>2. m \in {EmptyMessage, GarbledMessage, connect}
    BY <2>1 DEF Serialized, IsStatus
  <2>3. ~IsStatus(m)
    BY <2>2 DEF EmptyMessage, GarbledMessage, IsStatus
  <2>4. taken' = taken
    BY <2>1, <2>3 DEF SendMessage
  <2>5. OnNewConnection' => OnNewConnection
    BY <1>1 DEF SendConnect, OnNewConnection, Return, NoRead, StartRead, Go
  <2> QED
    BY <1>1, <2>4, <2>5, SameTaken DEF SendConnect
<1>2. CASE Reconnect
  BY <1>2, NoneTaken DEF Reconnect, Reset
<1>3. CASE Resend
  <2>1. phase = "resend" /\ call = "status" /\ statusNo' = statusNo
    BY <1>3 DEF Resend, WaitInv, InitPhases
  <2>2. PICK r \in Sent : SendMessage(message, r)
    BY <1>3 DEF Resend
  <2>3. taken = <<>>
    BY <2>1 DEF TakenInv, OnNewConnection
  <2>4. /\ message \in ClientMessage /\ statusNo \in Nat
        /\ IsStatus(message) => message.n = statusNo
    BY <2>1, ClientAssumption DEF TypeOK, PcType, HistType, OrderInv, LatestInv
  <2>5. ~OnNewConnection'
    BY <1>3 DEF Resend, OnNewConnection, Return, NoRead, StartRead
  <2> QED
    BY <2>1, <2>2, <2>3, <2>4, <2>5, NextTaken
<1>4. CASE ReadByte \/ BadByte \/ Delay
  BY <1>4, SameTaken DEF ReadByte, BadByte, Delay, OnNewConnection, pc, hist, conn
<1>5. ASSUME NEW n \in Nat, SizeResult(n) PROVE TakenInv'
  <2>1. OnNewConnection' => OnNewConnection
    BY <1>5 DEF SizeResult, OnNewConnection, Return, NoRead, StartRead, Go
  <2> QED
    BY <1>5, <2>1, SameTaken DEF SizeResult, conn
<1>6. ASSUME NEW s, ConnectResult(s) PROVE TakenInv'
  <2>1. OnNewConnection' => OnNewConnection
    BY <1>6 DEF ConnectResult, OnNewConnection, Return, NoRead, Go
  <2> QED
    BY <1>6, <2>1, SameTaken DEF ConnectResult, conn
<1>7. ASSUME NEW s, StatusResult(s) PROVE TakenInv'
  <2>1. ~OnNewConnection'
    BY <1>7, ReturnNoRead DEF StatusResult, OnNewConnection
  <2> QED
    BY <1>7, <2>1, SameTaken DEF StatusResult, conn
<1> QED
  BY <1>1, <1>2, <1>3, <1>4, <1>5, <1>6, <1>7, StepCases

LEMMA TakenStep ==
    TypeOK /\ WaitInv /\ OrderInv /\ TakenInv /\ [Next]_vars => TakenInv'
<1> SUFFICES ASSUME TypeOK, WaitInv, OrderInv, TakenInv, [Next]_vars PROVE TakenInv'
  OBVIOUS
<1>1. CASE Environment
  <2>1. UNCHANGED <<call, phase, statusNo>>
    BY <1>1, EnvironmentShape DEF pc
  <2>2. taken' = taken
    BY <1>1 DEF Environment, Deliver, GatewayAnswers, GatewayIgnores, GatewayCloses,
       LinkLost, LossSeen, hist, conn
  <2> QED
    BY <2>1, <2>2, SameTaken DEF OnNewConnection
<1>2. CASE UNCHANGED vars
  BY <1>2, SameTaken DEF vars, pc, hist, conn, OnNewConnection
<1> QED
  BY <1>1, <1>2, CallsTake, StepsTake DEF Next

\* On no connection is a status followed by itself or by an earlier one, whether
\* the gateway has received it or not, however often it was sent again and
\* however many connections came before.
THEOREM StatusesInOrder == Spec => []StatusOncePerConnection
<1>1. Init => TakenInv
  BY DEF Init, TakenInv, StatusOncePerConnection
<1>2. TypeOK /\ WaitInv /\ OrderInv /\ TakenInv /\ [Next]_vars => TakenInv'
  BY TakenStep
<1>3. TakenInv => StatusOncePerConnection
  BY DEF TakenInv
<1> QED
  BY <1>1, <1>2, <1>3, Ordering, PTL DEF Spec

-----------------------------------------------------------------------------
(* What the application is told.                                           *)

Others == (ReturnCodes \cup {1}) \ {OK, UNABLE_TO_CONNECT, CONTEXT_INCORRECT}

LEMMA CodesDiffer ==
    /\ NOT_OK \in Others /\ COMMAND_INCORRECT \in Others
    /\ OK # COMMAND_INCORRECT
    /\ \A s, own : connectResponseCode(s, own) \in Others \cup {OK}
<1>1. NOT_OK \in Others /\ COMMAND_INCORRECT \in Others /\ OK # COMMAND_INCORRECT
  BY DEF Others, ReturnCodes, OK, NOT_OK, CONTEXT_INCORRECT, UNABLE_TO_CONNECT,
     COMMAND_INCORRECT
<1> QED
  BY <1>1, ConnectCodes DEF Others

\* A step inside a call, as the application sees it: nothing to see, a return
\* that saves nothing, a return that saves.
Unseen == phase' # "idle" /\ UNCHANGED <<rc, saved, lastSaved, statusNo>>

EndsUnsaved ==
    /\ phase' = "idle" /\ UNCHANGED <<saved, lastSaved, statusNo>>
    /\ \/ rc' \in Others
       \/ call = "init" /\ rc' = OK
       \/ call # "init" /\ rc' = UNABLE_TO_CONNECT

EndsSaved ==
    /\ phase = "replyBody" /\ phase' = "idle" /\ rc' = OK /\ statusNo' = statusNo
    /\ \/ saved' = EmptyCommand /\ lastSaved' = lastSaved
       \/ /\ saved'.block /\ saved'.re = lastSaved'
          /\ lastSaved' \in Settled + 1..statusNo

LEMMA StepOutcome ==
    ASSUME TypeOK, WaitInv, OrderInv, Steps
    PROVE  Unseen \/ EndsUnsaved \/ EndsSaved
<1>0. phase # "idle" /\ (call = "init" => phase \in InitPhases)
  BY StepShape DEF WaitInv
<1>1. ASSUME NEW c \in Others, Return(c), UNCHANGED <<saved, lastSaved, statusNo>>
      PROVE  EndsUnsaved
  BY <1>1, ReturnNoRead DEF EndsUnsaved
<1>2. ASSUME call # "init", Return(UNABLE_TO_CONNECT),
             UNCHANGED <<saved, lastSaved, statusNo>>
      PROVE  EndsUnsaved
  BY <1>2, ReturnNoRead DEF EndsUnsaved
<1>3. CASE SendConnect
  <2>1. UNCHANGED <<saved, lastSaved, statusNo>>
    BY <1>3 DEF SendConnect
  <2>2. \/ call = "init" /\ Return(NOT_OK)
        \/ call # "init" /\ Return(UNABLE_TO_CONNECT)
        \/ phase' = "respSize" /\ rc' = rc
    BY <1>3 DEF SendConnect, StartRead, Go
  <2> QED
    BY <1>1, <1>2, <2>1, <2>2, CodesDiffer DEF Unseen
<1>4. CASE Reconnect
  <2>1. UNCHANGED <<saved, lastSaved, statusNo>>
    BY <1>4 DEF Reconnect
  <2>2. call # "init"
    BY <1>0, <1>4 DEF Reconnect, InitPhases
  <2>3. Return(UNABLE_TO_CONNECT) \/ (phase' = "sendConnect" /\ rc' = rc)
    BY <1>4 DEF Reconnect, NoRead, Go
  <2> QED
    BY <1>2, <2>1, <2>2, <2>3 DEF Unseen
<1>5. CASE Resend
  <2>1. UNCHANGED <<saved, lastSaved, statusNo>>
    BY <1>5 DEF Resend
  <2>2. Return(NOT_OK) \/ (phase' = "retrySize" /\ rc' = rc)
    BY <1>5 DEF Resend, StartRead, Go
  <2> QED
    BY <1>1, <2>1, <2>2, CodesDiffer DEF Unseen
<1>6. CASE ReadByte \/ BadByte \/ Delay
  BY <1>0, <1>6 DEF ReadByte, BadByte, Delay, app, pc, hist, Unseen
<1>7. ASSUME NEW n \in Nat, SizeResult(n) PROVE Unseen \/ EndsUnsaved
  <2>1. UNCHANGED <<saved, lastSaved, statusNo>>
    BY <1>7 DEF SizeResult
  <2>2. Return(NOT_OK) \/ (phase' # "idle" /\ rc' = rc)
    BY <1>7 DEF SizeResult, StartRead, NoRead, Go
  <2> QED
    BY <1>1, <2>1, <2>2, CodesDiffer DEF Unseen
<1>8. ASSUME NEW s, ConnectResult(s) PROVE Unseen \/ EndsUnsaved
  <2> DEFINE code == connectResponseCode(s, device)
  <2>1. UNCHANGED <<saved, lastSaved, statusNo>>
    BY <1>8 DEF ConnectResult
  <2>2. code \in Others \cup {OK}
    BY CodesDiffer
  <2>3. \/ call = "init" /\ Return(code)
        \/ call # "init" /\ Return(UNABLE_TO_CONNECT)
        \/ phase' # "idle" /\ rc' = rc
    BY <1>8 DEF ConnectResult, NoRead, Go
  <2> HIDE DEF code
  <2>4. CASE call = "init" /\ Return(code)
    BY <2>1, <2>2, <2>4, ReturnNoRead DEF EndsUnsaved
  <2> QED
    BY <1>2, <2>1, <2>3, <2>4 DEF Unseen
<1>9. ASSUME NEW s \in {got, <<>>}, StatusResult(s) PROVE EndsUnsaved \/ EndsSaved
  <2>1. statusNo' = statusNo /\ phase = "replyBody"
    BY <1>9 DEF StatusResult
  <2>2. CASE Return(COMMAND_INCORRECT) /\ saved' = saved /\ lastSaved' = lastSaved
    BY <1>1, <2>1, <2>2, CodesDiffer
  <2>3. CASE /\ Return(OK)
             /\ \/ saved' = EmptyCommand /\ lastSaved' = lastSaved
                \/ /\ saved'.block /\ saved'.re = lastSaved'
                   /\ lastSaved' \in Settled + 1..statusNo
    BY <2>1, <2>3, ReturnNoRead DEF EndsSaved
  <2> QED
    BY <1>9, <2>2, <2>3, StatusResultCases
<1> QED
  BY <1>3, <1>4, <1>5, <1>6, <1>7, <1>8, <1>9, StepCases

\* A command that is saved is newer than what was settled.
LEMMA SavesNext ==
    ASSUME TypeOK, WaitInv, OrderInv, Next, Saves
    PROVE  saved'.re \in Settled + 1..statusNo
<1>1. phase = "replyBody" /\ phase' = "idle" /\ saved'.re > 0 /\ rc' = OK
  BY DEF Saves
<1>2. Steps
  <2>1. ~Calls
    BY <1>1 DEF Calls, InitConnection, SendStatus, RejectStatus, DestroyConnection
  <2>2. ~Environment
    BY <1>1, EnvironmentShape DEF pc
  <2> QED
    BY <2>1, <2>2 DEF Next
<1>3. call # "init"
  BY <1>1 DEF WaitInv, InitPhases
<1>4. EmptyCommand.re = 0 /\ OK \notin Others \cup {UNABLE_TO_CONNECT}
  BY DEF EmptyCommand, Others, OK, UNABLE_TO_CONNECT
<1> QED
  BY <1>1, <1>2, <1>3, <1>4, StepOutcome DEF Unseen, EndsUnsaved, EndsSaved

\* Commands are saved in the order of the statuses they answer, each at most
\* once: an answer that arrives after its timeout, or the answers to both copies
\* of a status, never bring an old command back.
THEOREM CommandsNeverGoBack == Spec => CommandsInOrder
<1>1. TypeOK /\ WaitInv /\ OrderInv /\ [Next]_vars =>
        [Saves => saved'.re > lastSaved]_vars
  <2> SUFFICES ASSUME TypeOK, WaitInv, OrderInv, Next, Saves
               PROVE  saved'.re > lastSaved
    OBVIOUS
  <2>1. lastSaved \in Nat /\ Settled \in Int /\ lastSaved <= Settled /\ statusNo \in Nat
    BY SettledRange DEF OrderInv
  <2> QED
    BY <2>1, SavesNext
<1> QED
  BY <1>1, Ordering, PTL DEF Spec, CommandsInOrder

\* A saved command answers a status that was sent; and the status of this very
\* call when nothing was in transit as it began.
THEOREM RepliesPair == Spec => PairedReplies
<1>1. TypeOK /\ WaitInv /\ OrderInv /\ [Next]_vars =>
        [Saves => /\ saved'.re <= statusNo
                  /\ quiet => saved'.re = statusNo]_vars
  <2> SUFFICES ASSUME TypeOK, WaitInv, OrderInv, Next, Saves
               PROVE  saved'.re <= statusNo /\ (quiet => saved'.re = statusNo)
    OBVIOUS
  <2>1. Settled \in Int /\ statusNo \in Nat
    BY SettledRange DEF OrderInv
  <2>2. saved'.re \in Settled + 1..statusNo
    BY SavesNext
  <2>3. quiet => Settled = statusNo - 1
    BY DEF Saves, Settled, OnNewConnection
  <2> QED
    BY <2>1, <2>2, <2>3
<1> QED
  BY <1>1, Ordering, PTL DEF Spec, PairedReplies

-----------------------------------------------------------------------------
(* The client implements StatusService.                                    *)

LEMMA ServiceInit == Init => Service!Init
BY DEF Init, NoCommand, Service!Init, Service!None

\* What the service sees of a call and of a saved command.
LEMMA ServiceView ==
    /\ NoCommand.block = FALSE
    /\ EmptyCommand.block = TRUE /\ EmptyCommand.re = 0
BY DEF NoCommand, EmptyCommand

LEMMA InitConnectionServes ==
    ASSUME ContextInv, NEW d \in Devices, InitConnection(d)
    PROVE  Service!InitFails \/ Service!InitRefused \/ Service!InitBegins
<1>1. /\ phase = "idle" /\ ~context /\ call' = "init"
      /\ saved' = saved /\ statusNo' = statusNo /\ lastSaved' = lastSaved
  BY DEF InitConnection
<1>2. CASE rc' = UNABLE_TO_CONNECT /\ UNCHANGED <<context, phase>>
  BY <1>1, <1>2 DEF Service!InitFails
<1>3. CASE context' /\ rc' = NOT_OK /\ UNCHANGED phase
  BY <1>1, <1>3, CodesDiffer DEF Service!InitRefused, Others
<1>4. CASE context' /\ phase' = "sendConnect" /\ UNCHANGED rc
  BY <1>1, <1>4 DEF Service!InitBegins
<1> QED
  BY <1>2, <1>3, <1>4 DEF InitConnection

LEMMA SendStatusServes ==
    ASSUME NEW t \in Timeouts, SendStatus(t)
    PROVE  Service!StatusNotSent \/ Service!StatusBegins
<1>1. /\ phase = "idle" /\ context /\ context' = context /\ call' = "status"
      /\ saved' = saved /\ statusNo' = statusNo + 1 /\ lastSaved' = lastSaved
  BY DEF SendStatus
<1>2. CASE rc' \in {UNABLE_TO_CONNECT, NOT_OK} /\ UNCHANGED phase
  BY <1>1, <1>2, CodesDiffer DEF Service!StatusNotSent, Service!Failures, Others
<1>3. CASE phase' = "replySize" /\ UNCHANGED rc
  BY <1>1, <1>3 DEF Service!StatusBegins
<1> QED
  BY <1>2, <1>3 DEF SendStatus, StartRead

LEMMA OtherCallsServe ==
    /\ RejectStatus => Service!StatusRefused
    /\ DestroyConnection => Service!Destroy
<1>1. ASSUME RejectStatus PROVE Service!StatusRefused
  <2>1. /\ phase = "idle" /\ phase' = phase /\ context' = context
        /\ saved' = saved /\ statusNo' = statusNo /\ lastSaved' = lastSaved
        /\ rc' \in IF context THEN {NOT_OK} ELSE {CONTEXT_INCORRECT}
    BY <1>1 DEF RejectStatus, app, hist
  <2> QED
    BY <2>1, CodesDiffer DEF Service!StatusRefused, Others
<1>2. ASSUME DestroyConnection PROVE Service!Destroy
  BY <1>2, ServiceView DEF DestroyConnection, Service!Destroy, Service!None
<1> QED
  BY <1>1, <1>2

LEMMA StepsServe ==
    ASSUME TypeOK, ContextInv, WaitInv, OrderInv, Steps
    PROVE  \/ Service!InitEnds \/ Service!StatusFails
           \/ Service!StatusAnswered \/ Service!StatusWipes
           \/ UNCHANGED Service!vars
<1>1. /\ phase # "idle" /\ call \in {"init", "status"}
      /\ call' = call /\ context' = context
  BY StepShape DEF ContextInv
<1>2. CASE Unseen
  BY <1>1, <1>2 DEF Unseen, Service!vars
<1>3. CASE EndsUnsaved
  <2>1. CASE call = "init"
    BY <1>1, <1>3, <2>1 DEF EndsUnsaved, Service!InitEnds, Others
  <2>2. CASE call = "status"
    BY <1>1, <1>3, <2>2 DEF EndsUnsaved, Service!StatusFails, Service!Failures, Others
  <2> QED
    BY <1>1, <2>1, <2>2
<1>4. CASE EndsSaved
  <2>1. call = "status"
    BY <1>1, <1>4 DEF EndsSaved, WaitInv, InitPhases
  <2>2. CASE saved' = EmptyCommand /\ lastSaved' = lastSaved
    BY <1>1, <1>4, <2>1, <2>2, ServiceView DEF EndsSaved, Service!StatusWipes
  <2>3. CASE /\ saved'.block /\ saved'.re = lastSaved'
             /\ lastSaved' \in Settled + 1..statusNo
    <3>1. lastSaved' \in lastSaved + 1..statusNo
      <4>1. /\ lastSaved \in Nat /\ statusNo \in Nat
            /\ Settled \in Int /\ lastSaved <= Settled
        BY SettledRange DEF OrderInv
      <4> QED
        BY <2>3, <4>1
    <3> QED
      BY <1>1, <1>4, <2>1, <2>3, <3>1 DEF EndsSaved, Service!StatusAnswered
  <2> QED
    BY <1>4, <2>2, <2>3 DEF EndsSaved
<1> QED
  BY <1>2, <1>3, <1>4, StepOutcome

LEMMA ServiceStep ==
    TypeOK /\ ContextInv /\ WaitInv /\ OrderInv /\ [Next]_vars => [Service!Next]_(Service!vars)
<1> SUFFICES ASSUME TypeOK, ContextInv, WaitInv, OrderInv, [Next]_vars
             PROVE  Service!Next \/ UNCHANGED Service!vars
  OBVIOUS
<1>1. CASE Environment
  BY <1>1, EnvironmentShape DEF app, pc, Service!vars
<1>2. CASE UNCHANGED vars
  BY <1>2 DEF vars, app, pc, hist, Service!vars
<1> QED
  BY <1>1, <1>2, InitConnectionServes, SendStatusServes, OtherCallsServe, StepsServe
  DEF Next, Calls, Service!Next

\* Whatever the network and the gateway do, the application sees the calls of
\* StatusService: a call that fails leaves the saved command alone, one that
\* returns OK replaces it by a newer one or by the empty one, and only
\* init_connection and destroy_connection decide who has a Context.
THEOREM Implementation == Spec => ImplementsService
BY Ordering, ServiceInit, ServiceStep, PTL DEF Spec, ImplementsService, Service!Spec
=============================================================================
