---------------------------- MODULE ReadTimeout_proofs ----------------------------
(***************************************************************************)
(* How long a read waits, for an `unsigned` of any width, any timeout and  *)
(* any number of bytes.  TimeInv is inductive.                             *)
(***************************************************************************)
EXTENDS ReadTimeout, TLAPS

-----------------------------------------------------------------------------
(* Arithmetic modulo m.                                                    *)

\* Division with remainder.
LEMMA Division ==
    ASSUME NEW a \in Nat, NEW m \in Nat \ {0}
    PROVE  \E q \in Nat, r \in 0..m - 1 : a = q * m + r /\ a % m = r
<1>1. a % m \in 0..m - 1
  BY SMT
<1>2. a = (a \div m) * m + (a % m) /\ a \div m \in Nat
  BY SMT
<1> QED
  BY <1>1, <1>2

\* The remainder is unique.
LEMMA Remainder ==
    ASSUME NEW m \in Nat \ {0}, NEW q \in Nat, NEW r \in 0..m - 1
    PROVE  (q * m + r) % m = r
  BY SMTT(30)

\* What fits does not wrap.
LEMMA NoWrap == ASSUME NEW m \in Nat \ {0}, NEW a \in 0..m - 1
              PROVE  a % m = a
  BY SMT

\* A counter that wraps at each addition is the sum, wrapped once.
LEMMA AddWrapped ==
    ASSUME NEW m \in Nat \ {0}, NEW a \in Nat, NEW d \in Nat
    PROVE  ((a % m) + d) % m = (a + d) % m
<1>1. PICK q \in Nat, r \in 0..m - 1 : a = q * m + r /\ a % m = r
  BY Division
<1>2. PICK p \in Nat, s \in 0..m - 1 : r + d = p * m + s /\ (r + d) % m = s
  <2>1. r + d \in Nat
    BY SMT
  <2> QED
    BY <2>1, Division
<1>3. a + d = (q + p) * m + s
  BY <1>1, <1>2, SMT
<1>4. (a + d) % m = s
  BY <1>3, Remainder, q + p \in Nat
<1> QED
  BY <1>1, <1>2, <1>4

\* Between two multiples of d there is room for d.
LEMMA NextMultiple ==
    ASSUME NEW a \in Nat, NEW b \in Nat, NEW d \in Nat \ {0}, a * d < b * d
    PROVE  (a + 1) * d <= b * d
  BY SMT

-----------------------------------------------------------------------------

\* The constants, and that a timeout is a number of delays.
LEMMA Constants ==
    ASSUME NEW t \in Nat
    PROVE  /\ UIntMod \in Nat \ {0}
           /\ delay_constant \in Nat \ {0}
           /\ t * Second \in Nat
           /\ \E b \in Nat : t * Second = b * delay_constant
<1>1. PICK k \in Nat : Second = k * delay_constant
  BY ReadAssumption DEF ReadAssumption
<1>2. t * k \in Nat /\ t * (k * delay_constant) = (t * k) * delay_constant
  BY ReadAssumption, SMT DEF ReadAssumption
<1> QED
  BY <1>1, <1>2, ReadAssumption, SMT DEF ReadAssumption

\* A delay keeps the counter right, and is one that the timeout still allows.
LEMMA DelayKeeps == TimeInv /\ Delay => TimeInv'
<1> SUFFICES ASSUME TimeInv, Delay
             PROVE  TimeInv'
  OBVIOUS
<1>1. /\ slept \in Nat /\ timeout \in Nat
      /\ slept * delay_constant \in Nat
      /\ time_spent = (slept * delay_constant) % UIntMod
      /\ slept * delay_constant <= timeout * Second
      /\ time_spent < (timeout * Second) % UIntMod
  <2>1. slept \in Nat /\ timeout \in Nat
    BY DEF TimeInv, TypeOK
  <2>2. slept * delay_constant \in Nat
    BY <2>1, ReadAssumption, SMT DEF ReadAssumption
  <2> QED
    BY <2>1, <2>2 DEF TimeInv, Delay, NeverLonger, Unsigned
<1>2. UIntMod \in Nat \ {0} /\ delay_constant \in Nat \ {0}
  BY <1>1, Constants
<1>3. (slept + 1) * delay_constant = slept * delay_constant + delay_constant
  BY <1>1, <1>2, SMT
<1>4. NeverLonger'
  <2>1. PICK b \in Nat : timeout * Second = b * delay_constant
    BY <1>1, Constants
  <2>2. slept * delay_constant # timeout * Second
    BY <1>1
  <2>3. slept * delay_constant < b * delay_constant
    BY <1>1, <2>1, <2>2, <1>2, SMT
  <2>4. (slept + 1) * delay_constant <= b * delay_constant
    BY <1>1, <1>2, <2>3, NextMultiple
  <2> QED
    BY <2>1, <2>4 DEF NeverLonger, Delay, args
<1>5. time_spent' = Unsigned(slept' * delay_constant)
  <2>1. time_spent' = (time_spent + delay_constant) % UIntMod /\ slept' = slept + 1
    BY DEF Delay, Unsigned
  <2>2. (((slept * delay_constant) % UIntMod) + delay_constant) % UIntMod
            = (slept * delay_constant + delay_constant) % UIntMod
    BY <1>1, <1>2, AddWrapped
  <2> QED
    BY <2>1, <2>2, <1>1, <1>3 DEF Unsigned
<1>6. time_spent' \in 0..UIntMod - 1
  <2>1. slept * delay_constant + delay_constant \in Nat
    BY <1>1, <1>2, SMT
  <2> QED
    BY <2>1, <1>2, <1>3, <1>5, Division DEF Unsigned, Delay
<1> QED
  BY <1>1, <1>4, <1>5, <1>6 DEF TimeInv, TypeOK, Delay, args

\* TimeInv holds at first.
LEMMA TimeInit == Init => TimeInv
<1>1. UIntMod \in Nat \ {0} /\ 0 * delay_constant = 0 /\ 0 * Second = 0
  BY ReadAssumption, SMT DEF ReadAssumption
<1>2. 0 % UIntMod = 0 /\ 0 \in 0..UIntMod - 1
  BY <1>1, NoWrap
<1> QED
  BY <1>1, <1>2, ReadAssumption
     DEF Init, TimeInv, TypeOK, NeverLonger, Unsigned, ReadAssumption

\* So does a call with nothing slept.
LEMMA BeginKeeps ==
    ASSUME NEW k \in {"size", "message"}, NEW n \in Nat, NEW t \in Nat, Begin(k, n, t)
    PROVE  TimeInv'
<1>1. UIntMod \in Nat \ {0} /\ 0 * delay_constant = 0 /\ t * Second \in Nat
  BY Constants, ReadAssumption, SMT DEF ReadAssumption
<1>2. 0 % UIntMod = 0 /\ 0 \in 0..UIntMod - 1
  BY <1>1, NoWrap
<1>3. TypeOK'
  BY <1>2 DEF Begin, TypeOK
<1>4. NeverLonger' /\ (time_spent = Unsigned(slept * delay_constant))'
  BY <1>1, <1>2 DEF Begin, NeverLonger, Unsigned
<1> QED
  BY <1>3, <1>4 DEF TimeInv

\* TimeInv is inductive.
LEMMA TimeNext == TimeInv /\ [Next]_vars => TimeInv'
<1> SUFFICES ASSUME TimeInv, [Next]_vars
             PROVE  TimeInv'
  OBVIOUS
<1>1. CASE ReadByte
  BY <1>1 DEF ReadByte, TimeInv, TypeOK, NeverLonger, Unsigned, args
<1>2. CASE Delay
  BY <1>2, DelayKeeps
<1>3. CASE TimedOut
  BY <1>3 DEF TimedOut, TimeInv, TypeOK, NeverLonger, Unsigned, args
<1>4. CASE Finish
  BY <1>4 DEF Finish, TimeInv, TypeOK, NeverLonger, Unsigned, args
<1>5. CASE Arrive
  BY <1>5 DEF Arrive, TimeInv, TypeOK, NeverLonger, Unsigned, args
<1>6. CASE Begins
  BY <1>6, BeginKeeps, ReadAssumption DEF Begins, ReadAssumption
<1>7. CASE UNCHANGED vars
  BY <1>7 DEF vars, args, TimeInv, TypeOK, NeverLonger, Unsigned
<1> QED
  BY <1>1, <1>2, <1>3, <1>4, <1>5, <1>6, <1>7 DEF Next, Steps

\* The counter never leaves the range of an unsigned, and no read takes more bytes
\* than it was asked for.
THEOREM CounterInRange == Spec => []TypeOK
<1>1. TimeInv => TypeOK
  BY DEF TimeInv
<1> QED
  BY <1>1, TimeInit, TimeNext, PTL DEF Spec

\* No read sleeps longer than its timeout, whatever wraps.
THEOREM SleepIsBounded == Spec => []NeverLonger
<1>1. TimeInv => NeverLonger
  BY DEF TimeInv
<1> QED
  BY <1>1, TimeInit, TimeNext, PTL DEF Spec

\* A read that gives up has slept for its whole timeout, if that is in range.
THEOREM TimeoutIsWhole == Spec => GivesUpInTime
<1>1. TimeInv /\ [Next]_vars
          => [InRange(timeout) /\ TimedOut => slept * delay_constant = timeout * Second]_vars
  <2> SUFFICES ASSUME TimeInv, InRange(timeout), TimedOut
               PROVE  slept * delay_constant = timeout * Second
    OBVIOUS
  <2>1. /\ slept \in Nat /\ timeout \in Nat
        /\ time_spent = (slept * delay_constant) % UIntMod
        /\ slept * delay_constant <= timeout * Second
        /\ time_spent >= (timeout * Second) % UIntMod
    BY DEF TimeInv, TypeOK, TimedOut, NeverLonger, Unsigned
  <2>2. UIntMod \in Nat \ {0} /\ delay_constant \in Nat \ {0} /\ timeout * Second \in Nat
    BY <2>1, Constants
  <2>3. timeout * Second + delay_constant <= UIntMod
    BY DEF InRange
  <2>4. slept * delay_constant \in Nat
    BY <2>1, <2>2, SMT
  <2>5. slept * delay_constant \in 0..UIntMod - 1 /\ timeout * Second \in 0..UIntMod - 1
    BY <2>1, <2>2, <2>3, <2>4, SMT
  <2>6. time_spent = slept * delay_constant /\ time_spent >= timeout * Second
    BY <2>1, <2>2, <2>5, NoWrap
  <2> QED
    BY <2>1, <2>2, <2>4, <2>6, SMT
<1> QED
  BY <1>1, TimeInit, TimeNext, PTL DEF Spec, GivesUpInTime
=============================================================================
