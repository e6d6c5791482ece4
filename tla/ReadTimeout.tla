---------------------------------- MODULE ReadTimeout ----------------------------------
(***************************************************************************)
(* The loops of readSizeFromSocket and readMessageFromSocket with their    *)
(* counter of milliseconds as it is: an `unsigned`, compared with a        *)
(* product of unsigneds, both of which may wrap.  InternalClient counts    *)
(* delays and knows nothing of it.                                         *)
(***************************************************************************)
EXTENDS Integers

CONSTANTS
    UIntMod,        \* unsigned is arithmetic modulo this
    Second,         \* 1000
    delay_constant, \* 100
    HeaderLen,      \* 4
    Sizes,          \* commandSize of the messages
    Timeouts        \* in seconds

ASSUME ReadAssumption ==
    /\ delay_constant \in Nat \ {0}
    /\ Second \in Nat /\ \E k \in 0..Second : Second = k * delay_constant
    /\ UIntMod \in Nat /\ delay_constant < UIntMod
    /\ HeaderLen \in Nat /\ Sizes \subseteq Nat
    /\ Timeouts \subseteq Nat

VARIABLES
    kind,       \* which of the two functions
    size,       \* how many bytes it reads
    timeout,    \* its argument
    i,          \* bytes read
    available,  \* bytes the socket has
    time_spent,
    result,     \* "reading" during the call; then "all" bytes or "nothing"
    slept       \* history: delays of the call

vars == <<kind, size, timeout, i, available, time_spent, result, slept>>
args == <<kind, size, timeout>>

\* An unsigned expression.
Unsigned(n) == n % UIntMod

Init ==
    /\ kind = "size" /\ size = HeaderLen /\ timeout = 0
    /\ i = 0 /\ available = 0 /\ time_spent = 0
    /\ result = "nothing" /\ slept = 0

\* A call, on a socket with whatever came in since the last one.
Begin(k, n, t) ==
    /\ result # "reading"
    /\ kind' = k /\ size' = n /\ timeout' = t
    /\ i' = 0 /\ time_spent' = 0 /\ slept' = 0
    /\ result' = "reading"
    /\ available' \in 0..n

\* mutant: each byte has the timeout to itself
ReadByte_Resets ==
    /\ result = "reading" /\ i < size /\ available > 0
    /\ available' = available - 1
    /\ i' = i + 1 /\ time_spent' = 0
    /\ UNCHANGED <<args, result, slept>>

\* A byte is there; readSizeFromSocket gives up should the read fail all the
\* same, readMessageFromSocket takes the -1 for a byte.
ReadByte ==
    /\ result = "reading" /\ i < size /\ available > 0
    /\ available' = available - 1
    /\ \/ i' = i + 1 /\ UNCHANGED result
       \/ kind = "size" /\ result' = "nothing" /\ UNCHANGED i
    /\ UNCHANGED <<args, time_spent, slept>>

\* No byte is there, and there may be time left.
Waiting == result = "reading" /\ i < size /\ available = 0

\* mutant: the counter is a byte (and the history stands still, to be finite)
Delay_Byte ==
    /\ Waiting /\ time_spent < Unsigned(timeout * Second)
    /\ time_spent' = (time_spent + delay_constant) % 256
    /\ UNCHANGED <<args, i, available, result, slept>>

\* mutant: the counter is wider than the bound
Delay_Wide ==
    /\ Waiting /\ time_spent < Unsigned(timeout * Second)
    /\ time_spent' = time_spent + delay_constant
    /\ slept' = slept + 1
    /\ UNCHANGED <<args, i, available, result>>

\* mutant: the test of the timeout allows one delay more
Delay_Equal ==
    /\ Waiting /\ time_spent <= Unsigned(timeout * Second)
    /\ time_spent' = Unsigned(time_spent + delay_constant)
    /\ slept' = slept + 1
    /\ UNCHANGED <<args, i, available, result>>

Delay ==
    /\ Waiting /\ time_spent < Unsigned(timeout * Second)
    /\ time_spent' = Unsigned(time_spent + delay_constant)
    /\ slept' = slept + 1
    /\ UNCHANGED <<args, i, available, result>>

\* 0 and "" are returned, whatever was read.
TimedOut ==
    /\ Waiting /\ time_spent >= Unsigned(timeout * Second)
    /\ result' = "nothing"
    /\ UNCHANGED <<args, i, available, time_spent, slept>>

Finish ==
    /\ result = "reading" /\ i = size
    /\ result' = "all"
    /\ UNCHANGED <<args, i, available, time_spent, slept>>

\* A byte comes in; bytes behind those of this call change nothing.
Arrive ==
    /\ result = "reading" /\ i + available < size
    /\ available' = available + 1
    /\ UNCHANGED <<args, i, time_spent, result, slept>>

Steps == ReadByte \/ Delay \/ TimedOut \/ Finish

Begins == \E t \in Timeouts : \/ Begin("size", HeaderLen, t)
                              \/ \E n \in Sizes : Begin("message", n, t)

Next == Steps \/ Arrive \/ Begins

Spec == Init /\ [][Next]_vars
\* A call in progress runs on; nothing is assumed of the socket.
FairSpec == Spec /\ WF_vars(Steps)

-----------------------------------------------------------------------------
(* Properties.                                                             *)

\* The types of the variables; neither the counter nor the loop leaves its range.
TypeOK == /\ kind \in {"size", "message"}
          /\ size \in Nat /\ i \in 0..size /\ available \in Nat
          /\ timeout \in Nat /\ time_spent \in 0..UIntMod - 1
          /\ result \in {"reading", "all", "nothing"}
          /\ slept \in Nat

\* However its bytes come in, a call sleeps no longer than its timeout, all
\* bytes together.  That is so even if the product or the counter wraps: after
\* the whole timeout both have wrapped alike, and the counter is the bound.
NeverLonger == slept * delay_constant <= timeout * Second

\* The longest timeouts that neither wrap nor let the counter wrap.
InRange(t) == t * Second + delay_constant <= UIntMod

\* A call gives up waiting only when it has slept for exactly its timeout, so
\* long as the timeout in milliseconds fits into an unsigned: this is why
\* InternalClient may count delays instead.
GivesUpInTime ==
    [][InRange(timeout) /\ TimedOut => slept * delay_constant = timeout * Second]_vars

\* The call returns, though a byte may come in just before every timeout, and
\* though the counter may pass its bound by wrapping and never equal it.
Returns == (result = "reading") ~> (result # "reading")

-----------------------------------------------------------------------------
\* The inductive invariant: the counter is what was slept, wrapped.
TimeInv == /\ TypeOK
           /\ time_spent = Unsigned(slept * delay_constant)
           /\ NeverLonger
=============================================================================
