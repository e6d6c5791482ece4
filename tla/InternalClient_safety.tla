-------------------------- MODULE InternalClient_safety --------------------------
(***************************************************************************)
(* Safety of InternalClient for every value of its constants: memory, the  *)
(* bound on waiting, the addressee of a saved command and what an OK of    *)
(* init_connection means.  Each from its inductive invariant.              *)
(***************************************************************************)
EXTENDS InternalClient_proofs

\* The steps of a call that is under way, as one list.
LEMMA StepCases ==
    ASSUME TypeOK, Steps
    PROVE  \/ SendConnect \/ Reconnect \/ Resend \/ ReadByte \/ BadByte \/ Delay
           \/ \E n \in Nat : SizeResult(n)
           \/ ConnectResult(got) \/ ConnectResult(<<>>)
           \/ StatusResult(got) \/ StatusResult(<<>>)
<1>1. CASE SizeRead
  <2>1. got \in Seq(Byte)
    BY DEF TypeOK, ReadType
  <2> QED
    BY <1>1, <2>1, SizesNat DEF SizeRead
<1>2. CASE TimedOut
  BY <1>2 DEF TimedOut
<1>3. CASE MessageRead
  BY <1>3 DEF MessageRead
<1>4. CASE SizeFails
  BY <1>4 DEF SizeFails
<1> QED
  BY <1>1, <1>2, <1>3, <1>4 DEF Steps

\* How a step inside a call goes on: it returns, or it enters another phase.
LEMMA StepShape ==
    ASSUME TypeOK, Steps
    PROVE  /\ phase # "idle"
           /\ call' = call
           /\ context' = context
           /\ device' = device
           /\ saved' = saved \/ StatusResult(got) \/ StatusResult(<<>>)
<1>1. CASE SendConnect
  BY <1>1 DEF SendConnect, Return, Go
<1>2. CASE Reconnect
  BY <1>2 DEF Reconnect, Return, Go
<1>3. CASE Resend
  BY <1>3 DEF Resend, Return, Go
<1>4. CASE ReadByte
  BY <1>4 DEF ReadByte, app, pc, ReadPhases, SizePhases
<1>5. CASE Delay
  BY <1>5 DEF Delay, app, pc, ReadPhases, SizePhases
<1>6. ASSUME NEW n \in Nat, SizeResult(n)
      PROVE  /\ phase # "idle" /\ call' = call
             /\ context' = context /\ device' = device /\ saved' = saved
  BY <1>6 DEF SizeResult, Return, Go
<1>7. ASSUME NEW s, ConnectResult(s)
      PROVE  /\ phase # "idle" /\ call' = call
             /\ context' = context /\ device' = device /\ saved' = saved
  BY <1>7 DEF ConnectResult, Return, Go
<1>8. ASSUME NEW s, StatusResult(s)
      PROVE  /\ phase # "idle" /\ call' = call
             /\ context' = context /\ device' = device
  BY <1>8 DEF StatusResult, Return
<1>9. CASE BadByte
  BY <1>9 DEF BadByte, app, pc, ReadPhases, SizePhases
<1> QED
  BY <1>1, <1>2, <1>3, <1>4, <1>5, <1>6, <1>7, <1>8, <1>9, StepCases

\* The environment touches neither the Context nor the call in progress.
LEMMA EnvironmentShape ==
    Environment => UNCHANGED <<app, pc, read, waited, statusNo, lastSaved, quiet>>
BY DEF Environment, Deliver, GatewayAnswers, GatewayIgnores, GatewayCloses,
   LinkLost, LossSeen, hist

-----------------------------------------------------------------------------
(* A call has a Context.                                                   *)

LEMMA ContextStep == TypeOK /\ ContextInv /\ [Next]_vars => ContextInv'
<1> SUFFICES ASSUME TypeOK, ContextInv, [Next]_vars PROVE ContextInv'
  OBVIOUS
<1>1. ASSUME NEW d \in Devices, InitConnection(d) PROVE ContextInv'
  BY <1>1 DEF InitConnection, ContextInv
<1>2. ASSUME NEW t \in Timeouts, SendStatus(t) PROVE ContextInv'
  BY <1>2 DEF SendStatus, ContextInv
<1>3. CASE RejectStatus
  BY <1>3 DEF RejectStatus, ContextInv, app
<1>4. CASE DestroyConnection
  BY <1>4 DEF DestroyConnection, ContextInv
<1>5. CASE Steps
  BY <1>5, StepShape DEF ContextInv
<1>6. CASE Environment
  BY <1>6, EnvironmentShape DEF ContextInv, app, pc
<1>7. CASE UNCHANGED vars
  BY <1>7 DEF ContextInv, vars, app, pc
<1> QED
  BY <1>1, <1>2, <1>3, <1>4, <1>5, <1>6, <1>7 DEF Next, Calls

LEMMA ContextInit == Init => ContextInv
BY DEF Init, ContextInv

-----------------------------------------------------------------------------
(* Memory.                                                                 *)

\* The null buffer is no block; every other message is one.
LEMMA BlocksNat == /\ Blocks(EmptyMessage) = 0
                   /\ \A m : Blocks(m) \in {0, 1}
BY DEF Blocks

\* A call that goes on keeps its buffer, one that returns frees it.
LEMMA GoesOnHeap ==
    ASSUME NoLeak, Go, phase' # "idle", context' = context, saved' = saved
    PROVE  NoLeak'
BY DEF NoLeak, Owned, Go

LEMMA ReturnsHeap ==
    ASSUME TypeOK, NoLeak, NEW r, Return(r), Freed, context' = context,
           saved' = saved
    PROVE  NoLeak'
<1>1. heap \in Int /\ heap = Owned
  BY DEF TypeOK, AppType, NoLeak
<1>2. message' = EmptyMessage /\ heap' = heap - Blocks(message)
  BY DEF Return, Freed
<1>3. heap' = Owned'
  BY <1>1, <1>2, BlocksNat DEF Owned
<1> QED
  BY <1>2, <1>3 DEF NoLeak

LEMMA SendStatusHeap ==
    ASSUME TypeOK, HeapInv, NEW t \in Timeouts, SendStatus(t)
    PROVE  NoLeak'
<1>1. /\ phase = "idle" /\ message = EmptyMessage /\ heap \in Int
      /\ heap = Owned
  BY DEF SendStatus, HeapInv, NoLeak, TypeOK, AppType
<1>2. context' = context /\ saved' = saved
  BY DEF SendStatus
<1>3. \/ /\ message' = message /\ heap' = heap /\ phase' = phase
      \/ /\ heap' = heap + Blocks(message')
         /\ phase' = "replySize"
  BY DEF SendStatus, StartRead
<1>4. heap' = Owned'
  BY <1>1, <1>2, <1>3, BlocksNat DEF Owned
<1> QED
  BY <1>1, <1>2, <1>3, <1>4 DEF NoLeak, HeapInv

LEMMA StatusResultHeap ==
    ASSUME TypeOK, HeapInv, NEW s \in Seq(Byte), StatusResult(s)
    PROVE  NoLeak'
<1>1. CASE UNCHANGED saved /\ Freed /\ Return(COMMAND_INCORRECT)
  BY <1>1, ReturnsHeap DEF StatusResult, HeapInv
<1>2. CASE /\ Return(OK) /\ saved' = Parsed(s)
           /\ heap' = heap - Blocks(message) + IF saved.block THEN 0 ELSE 1
  <2>1. phase # "idle" /\ context /\ context' = context
    BY DEF StatusResult, HeapInv, ContextInv
  <2>2. saved'.block /\ message' = EmptyMessage
    BY <1>2, ParsedType DEF Return
  <2>3. heap \in Int /\ heap = Owned
    BY DEF TypeOK, AppType, HeapInv, NoLeak
  <2>4. heap' = Owned'
    BY <1>2, <2>1, <2>2, <2>3, BlocksNat DEF Owned
  <2> QED
    BY <2>1, <2>2, <2>4 DEF NoLeak
<1> QED
  BY <1>1, <1>2 DEF StatusResult

LEMMA StepsHeap == ASSUME TypeOK, HeapInv, Steps PROVE NoLeak'
<1>0. NoLeak
  BY DEF HeapInv
<1>1. CASE SendConnect
  <2>1. context' = context /\ saved' = saved
    BY <1>1 DEF SendConnect
  <2>2. CASE \E r : Return(r) /\ Freed
    BY <1>0, <2>1, <2>2, ReturnsHeap
  <2>3. CASE StartRead("respSize", HeaderLen) /\ Go
    BY <1>0, <2>1, <2>3, GoesOnHeap DEF StartRead
  <2> QED
    BY <1>1, <2>2, <2>3 DEF SendConnect
<1>2. CASE Reconnect
  BY <1>0, <1>2, ReturnsHeap, GoesOnHeap DEF Reconnect, NoRead
<1>3. CASE Resend
  BY <1>0, <1>3, ReturnsHeap, GoesOnHeap DEF Resend, StartRead
<1>4. CASE ReadByte
  BY <1>0, <1>4 DEF ReadByte, NoLeak, Owned, app, pc
<1>5. CASE Delay
  BY <1>0, <1>5 DEF Delay, NoLeak, Owned, app, pc
<1>6. ASSUME NEW n \in Nat, SizeResult(n) PROVE NoLeak'
  BY <1>0, <1>6, ReturnsHeap, GoesOnHeap DEF SizeResult, StartRead, NoRead
<1>7. ASSUME NEW s, ConnectResult(s) PROVE NoLeak'
  BY <1>0, <1>7, ReturnsHeap, GoesOnHeap DEF ConnectResult, NoRead
<1>8. got \in Seq(Byte) /\ <<>> \in Seq(Byte)
  BY DEF TypeOK, ReadType
<1>9. CASE BadByte
  BY <1>0, <1>9 DEF BadByte, NoLeak, Owned, app, pc
<1> QED
  BY <1>1, <1>2, <1>3, <1>4, <1>5, <1>6, <1>7, <1>8, <1>9, StepCases,
     StatusResultHeap

LEMMA HeapStep == TypeOK /\ HeapInv /\ [Next]_vars => HeapInv'
<1> SUFFICES ASSUME TypeOK, HeapInv, [Next]_vars PROVE NoLeak'
  BY ContextStep DEF HeapInv
<1>1. ASSUME NEW d \in Devices, InitConnection(d) PROVE NoLeak'
  <2>1. /\ phase = "idle" /\ ~context /\ message = EmptyMessage
        /\ heap \in Int /\ heap = Owned /\ ~saved.block
    BY <1>1 DEF InitConnection, HeapInv, NoLeak, TypeOK, AppType
  <2>2. /\ saved' = saved /\ message' = message
        /\ \/ context' = context /\ heap' = heap
           \/ context' = TRUE /\ heap' = heap + 1
    BY <1>1 DEF InitConnection
  <2>3. heap' = Owned'
    BY <2>1, <2>2, BlocksNat DEF Owned
  <2> QED
    BY <2>1, <2>2, <2>3 DEF NoLeak
<1>2. CASE RejectStatus
  BY <1>2 DEF RejectStatus, HeapInv, NoLeak, Owned, app
<1>3. CASE DestroyConnection
  <2>1. /\ phase' = "idle" /\ message' = EmptyMessage /\ ~context'
        /\ ~saved'.block
    BY <1>3 DEF DestroyConnection, HeapInv, NoLeak, NoCommand
  <2>2. /\ heap' = heap - (IF context THEN 1 ELSE 0)
                        - (IF saved.block THEN 1 ELSE 0)
        /\ heap = Owned /\ message = EmptyMessage
    BY <1>3 DEF DestroyConnection, HeapInv, NoLeak
  <2>3. heap' = Owned'
    BY <2>1, <2>2, BlocksNat DEF Owned
  <2> QED
    BY <2>1, <2>3 DEF NoLeak
<1>4. CASE Environment
  BY <1>4, EnvironmentShape DEF HeapInv, NoLeak, Owned, app, pc
<1>5. CASE UNCHANGED vars
  BY <1>5 DEF HeapInv, NoLeak, Owned, vars, app, pc
<1> QED
  BY <1>1, <1>2, <1>3, <1>4, <1>5, SendStatusHeap, StepsHeap DEF Next, Calls

LEMMA HeapInit == Init => HeapInv
<1> SUFFICES ASSUME Init PROVE NoLeak
  BY ContextInit DEF HeapInv
<1>1. heap = 0 /\ ~context /\ ~saved.block /\ message = EmptyMessage
  BY DEF Init, NoCommand
<1> QED
  BY <1>1, BlocksNat DEF NoLeak, Owned

\* No sequence of calls, failures of malloc, timeouts and lost connections
\* leaks a block or frees one twice.
THEOREM MemorySafe == Spec => []NoLeak
<1>1. Init => TypeOK /\ HeapInv
  BY InitType, HeapInit
<1>2. TypeOK /\ HeapInv /\ [Next]_vars => (TypeOK /\ HeapInv)'
  BY NextType, HeapStep
<1>3. HeapInv => NoLeak
  BY DEF HeapInv
<1> QED
  BY <1>1, <1>2, <1>3, PTL DEF Spec

-----------------------------------------------------------------------------
(* Bounded waiting.                                                        *)

\* The numbers the bound is made of.
LEMMA WaitNumbers ==
    TypeOK => /\ timeout \in Nat /\ ConnectTimeout \in Nat
              /\ waited \in Nat /\ spent \in Nat
BY ClientAssumption DEF TypeOK, PcType, ReadType, HistType

LEMMA ReturnWaits == ASSUME NEW r, Return(r) PROVE WaitInv'
<1>1. phase' = "idle" /\ waited' = 0 /\ spent' = 0
  BY DEF Return, NoRead
<1> QED
  BY <1>1 DEF WaitInv

\* Entering a phase: what was waited before it must fit into its budget.
LEMMA GoesOnWaits ==
    ASSUME TypeOK, WaitInv, ContextInv, Go, phase # "idle",
           spent' = 0, phase' # "idle",
           call = "init" => phase' \in InitPhases,
           waited <= WaitedBefore'
    PROVE  WaitInv'
<1>1. call' = call /\ timeout' = timeout /\ waited' = waited
  BY DEF Go
<1>2. waited' \in Nat /\ timeout \in Nat /\ ConnectTimeout \in Nat
  BY <1>1, WaitNumbers
<1>3. 0 <= Limit'
  BY <1>1, <1>2 DEF Limit
<1>4. waited' <= WaitedBefore' /\ spent' = 0
  BY <1>1
<1>5. waited' <= WaitedBefore' + spent'
  BY <1>1, <1>2, <1>4 DEF WaitedBefore
<1>6. call' \in {"init", "status"} /\ (call' = "init" => phase' \in InitPhases)
  BY <1>1 DEF ContextInv
<1>7. spent' <= Limit'
  BY <1>3
<1> QED
  BY <1>5, <1>6, <1>7 DEF WaitInv

\* The transitions between the phases, with the budget each one leaves.
LEMMA BudgetSize ==
    ASSUME TypeOK, WaitInv, ContextInv, NEW n \in Nat, SizeResult(n)
    PROVE  WaitInv'
<1> USE WaitNumbers
<1>1. CASE Return(NOT_OK)
  BY <1>1, ReturnWaits
<1>2. CASE phase = "respSize" /\ StartRead("respBody", n) /\ Go
  <2>1. /\ phase' = "respBody" /\ spent' = 0
        /\ call' = call /\ timeout' = timeout
    BY <1>2 DEF StartRead, Go
  <2>2. waited <= WaitedBefore'
    BY <1>2, <2>1 DEF WaitInv, WaitedBefore, Limit
  <2> QED
    BY <1>2, <2>1, <2>2, GoesOnWaits DEF InitPhases
<1>3. CASE phase = "replySize" /\ NoRead("reconnect") /\ Go
  <2>1. /\ phase' = "reconnect" /\ spent' = 0
        /\ call' = call /\ timeout' = timeout
    BY <1>3 DEF NoRead, Go
  <2>2. call # "init"
    BY <1>3 DEF WaitInv, InitPhases
  <2>3. waited <= WaitedBefore'
    BY <1>3, <2>1, <2>2 DEF WaitInv, WaitedBefore, Limit
  <2> QED
    BY <1>3, <2>1, <2>2, <2>3, GoesOnWaits
<1>4. CASE phase \in {"replySize", "retrySize"} /\ StartRead("replyBody", n) /\ Go
  <2>1. /\ phase' = "replyBody" /\ spent' = 0
        /\ call' = call /\ timeout' = timeout
    BY <1>4 DEF StartRead, Go
  <2>2. call # "init"
    BY <1>4 DEF WaitInv, InitPhases
  <2>3. waited <= WaitedBefore'
    BY <1>4, <2>1, <2>2 DEF WaitInv, WaitedBefore, Limit
  <2> QED
    BY <1>4, <2>1, <2>2, <2>3, GoesOnWaits
<1> QED
  BY <1>1, <1>2, <1>3, <1>4 DEF SizeResult

LEMMA BudgetConnect ==
    ASSUME TypeOK, WaitInv, ContextInv, NEW s, ConnectResult(s)
    PROVE  WaitInv'
<1> USE WaitNumbers
<1>1. CASE \E r : Return(r)
  BY <1>1, ReturnWaits
<1>2. CASE phase = "respBody" /\ call = "status" /\ NoRead("resend") /\ Go
  <2>1. /\ phase' = "resend" /\ spent' = 0
        /\ call' = call /\ timeout' = timeout
    BY <1>2 DEF NoRead, Go
  <2>2. waited <= WaitedBefore'
    BY <1>2, <2>1 DEF WaitInv, WaitedBefore, Limit
  <2> QED
    BY <1>2, <2>1, <2>2, GoesOnWaits
<1> QED
  BY <1>1, <1>2 DEF ConnectResult

LEMMA BudgetSend ==
    ASSUME TypeOK, WaitInv, ContextInv, SendConnect \/ Reconnect \/ Resend
    PROVE  WaitInv'
<1> USE WaitNumbers
<1>1. CASE \E r : Return(r)
  BY <1>1, ReturnWaits
<1>2. CASE phase = "sendConnect" /\ StartRead("respSize", HeaderLen) /\ Go
  <2>1. /\ phase' = "respSize" /\ spent' = 0
        /\ call' = call /\ timeout' = timeout
    BY <1>2 DEF StartRead, Go
  <2>2. waited <= WaitedBefore'
    BY <1>2, <2>1 DEF WaitInv, WaitedBefore, ReadPhases, SizePhases
  <2> QED
    BY <1>2, <2>1, <2>2, GoesOnWaits DEF InitPhases
<1>3. CASE phase = "reconnect" /\ NoRead("sendConnect") /\ Go
  <2>1. /\ phase' = "sendConnect" /\ spent' = 0
        /\ call' = call /\ timeout' = timeout
    BY <1>3 DEF NoRead, Go
  <2>2. waited <= WaitedBefore'
    BY <1>3, <2>1 DEF WaitInv, WaitedBefore, ReadPhases, SizePhases, InitPhases
  <2> QED
    BY <1>3, <2>1, <2>2, GoesOnWaits DEF InitPhases
<1>4. CASE phase = "resend" /\ StartRead("retrySize", HeaderLen) /\ Go
  <2>1. /\ phase' = "retrySize" /\ spent' = 0
        /\ call' = call /\ timeout' = timeout
    BY <1>4 DEF StartRead, Go
  <2>2. call # "init"
    BY <1>4 DEF WaitInv, InitPhases
  <2>3. waited <= WaitedBefore'
    BY <1>4, <2>1, <2>2 DEF WaitInv, WaitedBefore, ReadPhases, SizePhases
  <2> QED
    BY <1>4, <2>1, <2>2, <2>3, GoesOnWaits
<1> QED
  BY <1>1, <1>2, <1>3, <1>4 DEF SendConnect, Reconnect, Resend

LEMMA DelayWaits ==
    ASSUME TypeOK, WaitInv, Delay PROVE WaitInv'
<1>1. /\ phase \in ReadPhases /\ phase' = phase /\ call' = call
      /\ timeout' = timeout
      /\ spent' = spent + 1 /\ waited' = waited + 1 /\ spent < Limit
  BY DEF Delay, pc
<1>2. phase # "idle"
  BY <1>1 DEF ReadPhases, SizePhases
<1>3. WaitedBefore' = WaitedBefore /\ Limit' = Limit
  BY <1>1 DEF WaitedBefore, Limit
<1>4. WaitedBefore \in Nat /\ Limit \in Nat
  BY WaitNumbers DEF WaitedBefore, Limit
<1>5. waited' <= WaitedBefore' + spent' /\ spent' <= Limit'
  BY <1>1, <1>2, <1>3, <1>4, WaitNumbers DEF WaitInv
<1> QED
  BY <1>1, <1>2, <1>5 DEF WaitInv

LEMMA UnchangedWaits ==
    ASSUME WaitInv, UNCHANGED <<call, phase, timeout, spent, waited>>
    PROVE  WaitInv'
BY DEF WaitInv, WaitedBefore, Limit

LEMMA CallsWait ==
    ASSUME TypeOK, WaitInv, Calls PROVE WaitInv'
<1> USE WaitNumbers
<1>1. ASSUME NEW d \in Devices, InitConnection(d) PROVE WaitInv'
  <2>1. /\ waited = 0 /\ spent = 0 /\ waited' = 0 /\ spent' = 0
        /\ call' = "init" /\ phase' \in {"idle", "sendConnect"}
    BY <1>1 DEF InitConnection, WaitInv, read, ReadPhases, SizePhases
  <2>2. timeout' = timeout
    BY <1>1 DEF InitConnection
  <2> QED
    BY <2>1, <2>2 DEF WaitInv, WaitedBefore, Limit, InitPhases
<1>2. ASSUME NEW t \in Timeouts, SendStatus(t) PROVE WaitInv'
  <2>1. /\ waited = 0 /\ spent = 0 /\ waited' = 0 /\ phase = "idle"
        /\ call' = "status"
    BY <1>2 DEF SendStatus, WaitInv, ReadPhases, SizePhases
  <2>2. \/ phase' = "idle" /\ spent' = 0
        \/ phase' = "replySize" /\ spent' = 0 /\ timeout' = t
    <3>1. UNCHANGED <<phase, read>> \/ (StartRead("replySize", HeaderLen) /\ timeout' = t)
      BY <1>2 DEF SendStatus
    <3> QED
      BY <2>1, <3>1 DEF StartRead, read
  <2>3. t \in Nat
    BY ClientAssumption
  <2> QED
    BY <2>1, <2>2, <2>3 DEF WaitInv, WaitedBefore, Limit
<1>3. CASE RejectStatus
  BY <1>3 DEF RejectStatus, WaitInv, read, hist
<1>4. CASE DestroyConnection
  BY <1>4 DEF DestroyConnection, WaitInv, read
<1> QED
  BY <1>1, <1>2, <1>3, <1>4 DEF Calls

LEMMA WaitStep ==
    TypeOK /\ WaitInv /\ ContextInv /\ [Next]_vars => WaitInv'
<1> SUFFICES ASSUME TypeOK, WaitInv, ContextInv, [Next]_vars PROVE WaitInv'
  OBVIOUS
<1>1. CASE Steps
  <2>1. CASE ReadByte
    BY <2>1, UnchangedWaits DEF ReadByte, pc, hist
  <2>2. ASSUME NEW s, StatusResult(s) PROVE WaitInv'
    BY <2>2, ReturnWaits DEF StatusResult
  <2>3. CASE BadByte
    BY <2>3, UnchangedWaits DEF BadByte, pc, hist
  <2> QED
    BY <1>1, <2>1, <2>2, <2>3, StepCases, BudgetSize, BudgetConnect, BudgetSend,
       DelayWaits
<1>2. CASE Environment
  BY <1>2, EnvironmentShape, UnchangedWaits DEF pc, read
<1>3. CASE UNCHANGED vars
  BY <1>3, UnchangedWaits DEF vars, pc, read, hist
<1> QED
  BY <1>1, <1>2, <1>3, CallsWait DEF Next

\* For any timeouts, a call waits at most the sum of the timeouts of the reads
\* it can go through: two of init_connection, five of send_status.
THEOREM WaitingIsBounded == Spec => []WaitBounded
<1>1. Init => TypeOK /\ ContextInv /\ WaitInv
  <2>1. Init => WaitInv
    BY DEF Init, WaitInv
  <2> QED
    BY <2>1, InitType, ContextInit
<1>2. TypeOK /\ ContextInv /\ WaitInv /\ [Next]_vars
      => (TypeOK /\ ContextInv /\ WaitInv)'
  BY NextType, ContextStep, WaitStep
<1>3. TypeOK /\ WaitInv => WaitBounded
  <2> SUFFICES ASSUME TypeOK, WaitInv PROVE WaitBounded
    OBVIOUS
  <2>1. CASE phase = "idle"
    BY <2>1, WaitNumbers DEF WaitInv, WaitBounded
  <2>2. CASE phase # "idle"
    <3>1. call = "init" => waited <= 2 * ConnectTimeout
      BY <2>2, WaitNumbers
      DEF WaitInv, WaitedBefore, Limit, InitPhases, ReadPhases, SizePhases
    <3>2. WaitedBefore <= 2 * timeout + 2 * ConnectTimeout
      BY WaitNumbers DEF WaitedBefore
    <3>3. waited <= WaitedBefore + Limit
      BY <2>2, WaitNumbers DEF WaitInv, WaitedBefore, Limit
    <3>4. CASE phase \in {"respSize", "respBody"}
      BY <2>2, <3>4, WaitNumbers DEF WaitInv, WaitedBefore, Limit, WaitBounded
    <3>5. CASE phase \notin {"respSize", "respBody"}
      <4>1. call # "init" => waited <= 3 * timeout + 2 * ConnectTimeout
        BY <3>2, <3>3, <3>5, WaitNumbers DEF Limit, WaitedBefore
      <4> QED
        BY <3>1, <4>1 DEF WaitBounded
    <3> QED
      BY <3>4, <3>5
  <2> QED
    BY <2>1, <2>2
<1> QED
  BY <1>1, <1>2, <1>3, PTL DEF Spec

-----------------------------------------------------------------------------
(* The addressee of a saved command.                                       *)

LEMMA StatusResultDevice ==
    ASSUME TypeOK, DeviceInv, NEW s \in Seq(Byte), StatusResult(s)
    PROVE  ForThisDevice'
<1>1. device' = device
  BY DEF StatusResult
<1>2. CASE saved' = saved
  BY <1>1, <1>2 DEF DeviceInv, ForThisDevice
<1>3. CASE saved' = Parsed(s)
  <2>1. CASE checkCommand(s, device) = OK
    <3>1. Decode(s).device = device /\ device \notin Unterminated
      BY <2>1, CommandChecked
    <3>2. saved'.device = device
      BY <1>3, <2>1, <3>1 DEF Parsed, Command
    <3> QED
      BY <1>1, <3>1, <3>2 DEF ForThisDevice
  <2>2. CASE checkCommand(s, device) # OK
    BY <1>3, <2>2 DEF Parsed, EmptyCommand, ForThisDevice
  <2> QED
    BY <2>1, <2>2
<1> QED
  BY <1>2, <1>3 DEF StatusResult

LEMMA DeviceStep == TypeOK /\ DeviceInv /\ [Next]_vars => DeviceInv'
<1> SUFFICES ASSUME TypeOK, DeviceInv, [Next]_vars PROVE ForThisDevice'
  BY ContextStep DEF DeviceInv
<1>1. ASSUME NEW d \in Devices, InitConnection(d) PROVE ForThisDevice'
  BY <1>1 DEF InitConnection, DeviceInv, ContextInv, ForThisDevice, NoCommand
<1>2. ASSUME NEW t \in Timeouts, SendStatus(t) PROVE ForThisDevice'
  BY <1>2 DEF SendStatus, DeviceInv, ForThisDevice
<1>3. CASE RejectStatus
  BY <1>3 DEF RejectStatus, DeviceInv, ForThisDevice, app
<1>4. CASE DestroyConnection
  BY <1>4 DEF DestroyConnection, ForThisDevice, NoCommand
<1>5. CASE Steps
  <2>1. got \in Seq(Byte) /\ <<>> \in Seq(Byte)
    BY DEF TypeOK, ReadType
  <2>2. device' = device
    BY <1>5, StepShape
  <2>3. CASE saved' = saved
    BY <2>2, <2>3 DEF DeviceInv, ForThisDevice
  <2> QED
    BY <1>5, <2>1, <2>3, StepShape, StatusResultDevice
<1>6. CASE Environment
  BY <1>6, EnvironmentShape DEF DeviceInv, ForThisDevice, app
<1>7. CASE UNCHANGED vars
  BY <1>7 DEF DeviceInv, ForThisDevice, vars, app
<1> QED
  BY <1>1, <1>2, <1>3, <1>4, <1>5, <1>6, <1>7 DEF Next, Calls

\* However the gateway mixes up its answers and the stream is cut, what is
\* saved was addressed to the device of this Context.
THEOREM CommandsAreForThisDevice == Spec => []ForThisDevice
<1>1. Init => TypeOK /\ DeviceInv
  <2>1. Init => ForThisDevice
    BY DEF Init, ForThisDevice, NoCommand
  <2> QED
    BY <2>1, InitType, ContextInit DEF DeviceInv
<1>2. TypeOK /\ DeviceInv /\ [Next]_vars => (TypeOK /\ DeviceInv)'
  BY NextType, DeviceStep
<1>3. DeviceInv => ForThisDevice
  BY DEF DeviceInv
<1> QED
  BY <1>1, <1>2, <1>3, PTL DEF Spec

-----------------------------------------------------------------------------
(* What an OK of init_connection means.                                    *)

\* The code is OK only for a response that is.
LEMMA OkResponse ==
    ASSUME NEW s, ConnectResponseToInternalClientCode(s) = OK
    PROVE  Decode(s).responseType = "OK"
BY DEF ConnectResponseToInternalClientCode, OK, NOT_OK, DEVICE_ALREADY_CONNECTED,
   MODULE_NOT_SUPPORTED, DEVICE_TYPE_NOT_SUPPORTED,
   HIGHER_PRIORITY_ALREADY_CONNECTED

\* The gateway has granted this device, or answered without one.
Granted(own) == own \in granted \/ (own = ZeroDevice /\ Absent \in granted)

LEMMA AcceptedIsGranted ==
    ASSUME NEW s \in Seq(Byte), Honest(s, granted), NEW own,
           connectResponseCode(s, own) = OK
    PROVE  Granted(own)
<1> DEFINE m == Decode(s)
           d == IF m.device = Absent THEN ZeroDevice ELSE m.device
<1>1. checkConnectResponse(s, own) = OK
  BY DEF connectResponseCode, OK
<1>2. ConnectResponseToInternalClientCode(s) = OK
  BY <1>1 DEF connectResponseCode
<1>3. m.responseType = "OK"
  BY <1>2, OkResponse
<1>4. s # <<>> /\ m.kind = "deviceConnectResponse" /\ SameDevice(d, own)
  BY <1>1 DEF checkConnectResponse, OK, NOT_OK, DEVICE_INCORRECT
<1>5. IsBody(s)
  BY <1>4 DEF Decode, Undecodable
<1>6. m = s[1].msg /\ 1 \in 1..Len(s)
  BY <1>4, <1>5 DEF Decode
<1>7. m.device \in granted
  BY <1>3, <1>4, <1>6 DEF Honest
<1> QED
  BY <1>4, <1>7 DEF SameDevice, Granted

\* Bytes keep what they say when they move and when more is granted.
LEMMA HonestParts ==
    ASSUME NEW s \in Seq(Byte), NEW g, Honest(s, g)
    PROVE  /\ s # <<>> => Honest(Tail(s), g)
           /\ \A t \in Seq(Byte) : t # <<>> /\ Honest(t, g)
                                     => Honest(Append(s, Head(t)), g)
           /\ \A t \in Seq(Byte) : Honest(t, g) => Honest(s \o t, g)
           /\ \A h : g \subseteq h => Honest(s, h)
<1>1. ASSUME s # <<>> PROVE Honest(Tail(s), g)
  BY <1>1 DEF Honest
<1>2. ASSUME NEW t \in Seq(Byte), t # <<>>, Honest(t, g)
      PROVE  Honest(Append(s, Head(t)), g)
  <2>1. Head(t) = t[1] /\ 1 \in 1..Len(t)
    BY <1>2
  <2> QED
    BY <1>2, <2>1 DEF Honest
<1>3. ASSUME NEW t \in Seq(Byte), Honest(t, g) PROVE Honest(s \o t, g)
  BY <1>3 DEF Honest
<1>4. ASSUME NEW h, g \subseteq h PROVE Honest(s, h)
  BY <1>4 DEF Honest
<1> QED
  BY <1>1, <1>2, <1>3, <1>4

LEMMA HonestFrame ==
    ASSUME NEW a \in ServerMessage, NEW g,
           a.kind = "deviceConnectResponse" /\ a.responseType = "OK"
             => a.device \in g
    PROVE  Honest(Frame(a), g)
<1>1. HeaderLen + BodyLen(a) \in Nat
  BY BodyLenNat, ProtocolAssumption
<1>2. \A i \in 1..Len(Frame(a)) : Frame(a)[i].msg = a
  BY <1>1 DEF Frame, Bytes
<1> QED
  BY <1>2 DEF Honest

LEMMA HonestEmpty == \A g : Honest(<<>>, g)
BY DEF Honest

\* A byte that was never received grants nothing.
LEMMA HonestNoByte ==
    ASSUME NEW s \in Seq(Byte), NEW g, Honest(s, g) PROVE Honest(Append(s, NoByte), g)
BY DEF Honest, NoByte, Undecodable

\* The bytes the client holds or will get are honest.
HonestBytes == \A s \in {got, rx, wire} : Honest(s, granted)

\* A step that starts a new read or none.
LEMMA NewRead ==
    ASSUME NEW p, NEW n, StartRead(p, n) \/ NoRead(p) PROVE got' = <<>>
BY DEF StartRead, NoRead

LEMMA ReturnNoRead ==
    ASSUME NEW r, Return(r) PROVE got' = <<>> /\ phase' = "idle" /\ rc' = r
BY DEF Return, NoRead

\* A step that adds no bytes, but may drop the read in progress and what is on
\* the wire.
LEMMA SameBytes ==
    ASSUME HonestBytes, got' = <<>> \/ got' = got, rx' = rx,
           wire' = wire \/ wire' = <<>>, granted' = granted
    PROVE  HonestBytes'
<1>1. \A s \in {got', rx', wire'} : s \in {<<>>, got, rx, wire}
  OBVIOUS
<1> QED
  BY <1>1, HonestEmpty DEF HonestBytes

LEMMA NoBytes ==
    ASSUME NEW l, Reset(l), got' = <<>> PROVE HonestBytes'
<1>1. \A s \in {got', rx', wire'} : s = <<>>
  BY DEF Reset
<1> QED
  BY <1>1, HonestEmpty DEF HonestBytes

LEMMA BytesCalls ==
    ASSUME TypeOK, HonestBytes, phase = "idle" => got = <<>>, Calls
    PROVE  HonestBytes'
<1>1. ASSUME NEW d \in Devices, InitConnection(d) PROVE HonestBytes'
  <2>1. got' = got /\ got = <<>>
    BY <1>1 DEF InitConnection, read
  <2>2. Reset("up") \/ UNCHANGED <<net, granted>>
    BY <1>1 DEF InitConnection, conn
  <2> QED
    BY <2>1, <2>2, NoBytes, SameBytes DEF net
<1>2. ASSUME NEW t \in Timeouts, SendStatus(t) PROVE HonestBytes'
  <2>1. rx' = rx /\ (wire' = wire \/ wire' = <<>>) /\ granted' = granted
    BY <1>2, SendCases, Zenon DEF SendStatus
  <2>2. got' = <<>> \/ got' = got
    BY <1>2 DEF SendStatus, StartRead, read
  <2> QED
    BY <2>1, <2>2, SameBytes
<1>3. CASE RejectStatus
  BY <1>3, SameBytes DEF RejectStatus, read, net, hist, conn
<1>4. CASE DestroyConnection
  <2>1. got' = <<>>
    BY <1>4 DEF DestroyConnection, read
  <2> QED
    BY <1>4, <2>1, NoBytes DEF DestroyConnection
<1> QED
  BY <1>1, <1>2, <1>3, <1>4 DEF Calls

LEMMA BytesSteps ==
    ASSUME TypeOK, HonestBytes, Steps
    PROVE  /\ HonestBytes'
           /\ phase' \notin ReadPhases => got' = <<>>
<1>1. CASE SendConnect
  <2>1. got' = <<>>
    BY <1>1 DEF SendConnect, StartRead, Return, NoRead
  <2>2. rx' = rx /\ (wire' = wire \/ wire' = <<>>) /\ granted' = granted
    BY <1>1, SendCases, Zenon DEF SendConnect
  <2> QED
    BY <2>1, <2>2, SameBytes
<1>2. CASE Reconnect
  <2>1. got' = <<>>
    BY <1>2 DEF Reconnect, Return, NoRead
  <2>2. (\E l : Reset(l)) \/ UNCHANGED <<net, granted>>
    BY <1>2 DEF Reconnect, conn
  <2> QED
    BY <2>1, <2>2, NoBytes, SameBytes DEF net
<1>3. CASE Resend
  <2>1. got' = <<>>
    BY <1>3 DEF Resend, StartRead, Return, NoRead
  <2>2. rx' = rx /\ (wire' = wire \/ wire' = <<>>) /\ granted' = granted
    BY <1>3, SendCases, Zenon DEF Resend
  <2> QED
    BY <2>1, <2>2, SameBytes
<1>4. CASE ReadByte
  <2>1. /\ got \in Seq(Byte) /\ rx \in Seq(Byte) /\ rx # <<>>
        /\ got' = Append(got, Head(rx)) /\ rx' = Tail(rx) /\ wire' = wire
        /\ granted' = granted /\ phase' = phase /\ phase \in ReadPhases
    BY <1>4 DEF ReadByte, TypeOK, ReadType, NetType, pc, hist, conn
  <2>2. Honest(got', granted) /\ Honest(rx', granted) /\ Honest(wire', granted)
    BY <2>1, HonestParts DEF HonestBytes
  <2> QED
    BY <2>1, <2>2 DEF HonestBytes
<1>5. CASE Delay
  BY <1>5, SameBytes DEF Delay, pc, net, conn
<1>6. ASSUME NEW n \in Nat, SizeResult(n)
      PROVE  got' = <<>> /\ UNCHANGED <<net, granted>>
  BY <1>6 DEF SizeResult, Return, StartRead, NoRead, conn
<1>7. ASSUME NEW s, ConnectResult(s)
      PROVE  got' = <<>> /\ UNCHANGED <<net, granted>>
  BY <1>7 DEF ConnectResult, Return, NoRead, conn
<1>8. ASSUME NEW s, StatusResult(s)
      PROVE  got' = <<>> /\ UNCHANGED <<net, granted>>
  BY <1>8 DEF StatusResult, Return, NoRead, conn
<1>9. CASE got' = <<>> /\ UNCHANGED <<net, granted>>
  BY <1>9, SameBytes DEF net
<1>10. CASE BadByte
  <2>1. /\ got \in Seq(Byte) /\ got' = Append(got, NoByte)
        /\ rx' = rx /\ wire' = wire /\ granted' = granted
        /\ phase' = phase /\ phase \in ReadPhases
    BY <1>10 DEF BadByte, TypeOK, ReadType, pc, net, hist, conn
  <2>2. Honest(got', granted)
    BY <2>1, HonestNoByte DEF HonestBytes
  <2> QED
    BY <2>1, <2>2 DEF HonestBytes
<1> QED
  BY <1>1, <1>2, <1>3, <1>4, <1>5, <1>6, <1>7, <1>8, <1>9, <1>10, StepCases

LEMMA BytesEnvironment ==
    ASSUME TypeOK, HonestBytes, Environment
    PROVE  HonestBytes' /\ granted \subseteq granted'
<1>1. got' = got
  BY EnvironmentShape DEF read
<1>2. CASE Deliver
  <2>1. /\ rx \in Seq(Byte) /\ wire \in Seq(Byte) /\ wire # <<>>
        /\ rx' = Append(rx, Head(wire)) /\ wire' = Tail(wire)
        /\ granted' = granted
    BY <1>2 DEF Deliver, TypeOK, NetType, hist, conn
  <2>2. Honest(got', granted) /\ Honest(rx', granted) /\ Honest(wire', granted)
    BY <1>1, <2>1, HonestParts DEF HonestBytes
  <2> QED
    BY <2>1, <2>2 DEF HonestBytes
<1>3. CASE GatewayAnswers
  <2>1. Head(tx) \in ClientMessage
    BY <1>3 DEF TypeOK, NetType, GatewayAnswers
  <2>2. PICK a \in Answers(Head(tx)) :
          /\ wire' = wire \o Frame(a)
          /\ granted' = IF /\ a.kind = "deviceConnectResponse"
                           /\ a.responseType = "OK"
                        THEN granted \cup {a.device} ELSE granted
    BY <1>3 DEF GatewayAnswers
  <2>3. a \in ServerMessage
    BY <2>1, AnswersType
  <2>4. granted \subseteq granted'
    BY <2>2
  <2>5. Honest(Frame(a), granted') /\ Frame(a) \in Seq(Byte)
    BY <2>2, <2>3, HonestFrame, FrameType
  <2>6. /\ got \in Seq(Byte) /\ rx \in Seq(Byte) /\ wire \in Seq(Byte)
        /\ rx' = rx
    BY <1>3 DEF GatewayAnswers, TypeOK, ReadType, NetType
  <2>7. Honest(got, granted') /\ Honest(rx, granted') /\ Honest(wire, granted')
    BY <2>4, <2>6, HonestParts DEF HonestBytes
  <2>8. Honest(wire', granted')
    BY <2>2, <2>5, <2>6, <2>7, HonestParts
  <2> QED
    BY <1>1, <2>4, <2>6, <2>7, <2>8 DEF HonestBytes
<1>4. CASE LinkLost
  <2>1. /\ rx' = rx /\ wire' = <<>> /\ granted' = granted
    BY <1>4 DEF LinkLost, Dies, hist, conn
  <2>2. \A s \in {got', rx', wire'} : s \in {<<>>, got, rx}
    BY <1>1, <2>1
  <2> QED
    BY <2>1, <2>2, HonestEmpty DEF HonestBytes
<1>5. CASE GatewayIgnores \/ GatewayCloses \/ LossSeen
  <2>1. rx' = rx /\ wire' = wire /\ granted' = granted
    BY <1>5 DEF GatewayIgnores, GatewayCloses, Closes, LossSeen, hist, conn
  <2> QED
    BY <1>1, <2>1, SameBytes
<1> QED
  BY <1>2, <1>3, <1>4, <1>5 DEF Environment

\* Only a connect response that passed the check ends init_connection with OK.
LEMMA AgreementSteps ==
    ASSUME TypeOK, WaitInv, HonestBytes, Steps PROVE HandshakeAgreement'
<1> SUFFICES ASSUME call' = "init", phase' = "idle", rc' = OK
             PROVE  Granted(device)'
  BY DEF HandshakeAgreement, Granted
<1>0. call = "init" /\ phase # "idle" /\ device' = device
  BY StepShape
<1>1. CASE SendConnect
  BY <1>0, <1>1, ReturnNoRead
  DEF SendConnect, StartRead, OK, NOT_OK, UNABLE_TO_CONNECT
<1>2. CASE Reconnect
  BY <1>2, ReturnNoRead DEF Reconnect, NoRead, OK, UNABLE_TO_CONNECT
<1>3. CASE Resend
  BY <1>3, ReturnNoRead DEF Resend, StartRead, OK, NOT_OK
<1>4. CASE ReadByte \/ BadByte \/ Delay
  BY <1>0, <1>4 DEF ReadByte, BadByte, Delay, pc
<1>5. ASSUME NEW n \in Nat, SizeResult(n) PROVE FALSE
  BY <1>5, ReturnNoRead DEF SizeResult, StartRead, NoRead, OK, NOT_OK
<1>6. ASSUME NEW s \in Seq(Byte), Honest(s, granted), ConnectResult(s)
      PROVE  Granted(device)'
  <2>1. connectResponseCode(s, device) = OK /\ granted' = granted
    BY <1>0, <1>6, ReturnNoRead DEF ConnectResult, conn
  <2>2. Granted(device)
    BY <1>6, <2>1, AcceptedIsGranted
  <2> QED
    BY <1>0, <2>1, <2>2 DEF Granted
<1>7. ASSUME NEW s, StatusResult(s) PROVE FALSE
  BY <1>0, <1>7 DEF StatusResult, WaitInv, InitPhases
<1>8. /\ got \in Seq(Byte) /\ Honest(got, granted)
      /\ <<>> \in Seq(Byte) /\ Honest(<<>>, granted)
  BY HonestEmpty DEF HonestBytes, TypeOK, ReadType
<1> QED
  BY <1>1, <1>2, <1>3, <1>4, <1>5, <1>6, <1>7, <1>8, StepCases

LEMMA AnswerStep ==
    TypeOK /\ WaitInv /\ AnswerInv /\ [Next]_vars => AnswerInv'
<1> SUFFICES ASSUME TypeOK, WaitInv, AnswerInv, [Next]_vars PROVE AnswerInv'
  OBVIOUS
<1>1. HonestBytes /\ (phase \notin ReadPhases => got = <<>>)
  BY DEF AnswerInv, HonestBytes
<1>2. phase = "idle" => got = <<>>
  BY <1>1 DEF ReadPhases, SizePhases
<1>3. CASE Calls
  <2>1. phase' \notin ReadPhases => got' = <<>>
    <3>1. ASSUME NEW d \in Devices, InitConnection(d) PROVE got' = <<>>
      BY <1>2, <3>1 DEF InitConnection, read
    <3>2. ASSUME NEW t \in Timeouts, SendStatus(t) PROVE got' = <<>>
      BY <1>2, <3>2 DEF SendStatus, StartRead, read
    <3>3. CASE RejectStatus \/ DestroyConnection
      BY <1>2, <3>3 DEF RejectStatus, DestroyConnection, read
    <3> QED
      BY <1>3, <3>1, <3>2, <3>3 DEF Calls
  <2>2. HandshakeAgreement'
    <3>1. ASSUME NEW d \in Devices, InitConnection(d) PROVE HandshakeAgreement'
      BY <3>1 DEF InitConnection, HandshakeAgreement, OK, NOT_OK, UNABLE_TO_CONNECT
    <3>2. ASSUME NEW t \in Timeouts, SendStatus(t) PROVE HandshakeAgreement'
      BY <3>2 DEF SendStatus, HandshakeAgreement
    <3>3. CASE RejectStatus \/ DestroyConnection
      BY <3>3 DEF RejectStatus, DestroyConnection, HandshakeAgreement
    <3> QED
      BY <1>3, <3>1, <3>2, <3>3 DEF Calls
  <2> QED
    BY <1>1, <1>2, <1>3, <2>1, <2>2, BytesCalls DEF AnswerInv, HonestBytes
<1>4. CASE Steps
  BY <1>1, <1>4, BytesSteps, AgreementSteps DEF AnswerInv, HonestBytes
<1>5. CASE Environment
  <2>1. /\ HonestBytes' /\ granted \subseteq granted'
        /\ got' = got /\ phase' = phase
        /\ call' = call /\ rc' = rc /\ device' = device
    BY <1>1, <1>5, BytesEnvironment, EnvironmentShape DEF app, pc, read
  <2>2. HandshakeAgreement'
    BY <2>1 DEF AnswerInv, HandshakeAgreement
  <2> QED
    BY <1>1, <2>1, <2>2 DEF AnswerInv, HonestBytes
<1>6. CASE UNCHANGED vars
  BY <1>6 DEF AnswerInv, HandshakeAgreement, vars, app, pc, read, net, hist,
     conn
<1> QED
  BY <1>3, <1>4, <1>5, <1>6 DEF Next

\* When init_connection says OK, a connect response OK for this device came
\* from the gateway over this very connection: no other message, no cut frame
\* and no byte of an earlier connection can pass for one.
THEOREM OkMeansGranted == Spec => []HandshakeAgreement
<1>1. Init => TypeOK /\ ContextInv /\ WaitInv /\ AnswerInv
  <2>1. Init => WaitInv
    BY DEF Init, WaitInv
  <2>2. Init => AnswerInv
    BY HonestEmpty DEF Init, AnswerInv, HandshakeAgreement
  <2> QED
    BY <2>1, <2>2, InitType, ContextInit
<1>2. TypeOK /\ ContextInv /\ WaitInv /\ AnswerInv /\ [Next]_vars
      => (TypeOK /\ ContextInv /\ WaitInv /\ AnswerInv)'
  BY NextType, ContextStep, WaitStep, AnswerStep
<1>3. AnswerInv => HandshakeAgreement
  BY DEF AnswerInv
<1> QED
  BY <1>1, <1>2, <1>3, PTL DEF Spec

-----------------------------------------------------------------------------
(* Who owns the Context after init_connection.                             *)

\* No answer to the connect message is reported as one of these two.
LEMMA ConnectCodes ==
    \A s, own : connectResponseCode(s, own)
                   \in (ReturnCodes \cup {1}) \ {UNABLE_TO_CONNECT, CONTEXT_INCORRECT}
BY DEF connectResponseCode, ConnectResponseToInternalClientCode, ReturnCodes, OK,
   NOT_OK, CONTEXT_INCORRECT, UNABLE_TO_CONNECT, COMMAND_INCORRECT, DEVICE_INCORRECT,
   DEVICE_ALREADY_CONNECTED, MODULE_NOT_SUPPORTED, DEVICE_TYPE_NOT_SUPPORTED,
   HIGHER_PRIORITY_ALREADY_CONNECTED

\* However the handshake of init_connection ends, it does not return the code of
\* a failed connect.
LEMMA HandshakeReturns ==
    ASSUME TypeOK, WaitInv, Steps, call = "init", phase' = "idle"
    PROVE  rc' # UNABLE_TO_CONNECT
<1>0. phase \in InitPhases /\ phase # "idle"
  BY StepShape DEF WaitInv
<1>1. CASE SendConnect
  BY <1>1, ReturnNoRead DEF SendConnect, StartRead, NOT_OK, UNABLE_TO_CONNECT
<1>2. CASE Reconnect \/ Resend
  BY <1>0, <1>2 DEF Reconnect, Resend, InitPhases
<1>3. CASE ReadByte \/ BadByte \/ Delay
  BY <1>0, <1>3 DEF ReadByte, BadByte, Delay, pc
<1>4. ASSUME NEW n \in Nat, SizeResult(n) PROVE FALSE
  BY <1>0, <1>4 DEF SizeResult, StartRead, InitPhases
<1>5. ASSUME NEW s, ConnectResult(s) PROVE rc' # UNABLE_TO_CONNECT
  BY <1>5, ReturnNoRead, ConnectCodes DEF ConnectResult
<1>6. ASSUME NEW s, StatusResult(s) PROVE FALSE
  BY <1>0, <1>6 DEF StatusResult, InitPhases
<1> QED
  BY <1>1, <1>2, <1>3, <1>4, <1>5, <1>6, StepCases

LEMMA OwnershipStep ==
    TypeOK /\ ContextInv /\ WaitInv /\ HandleOwnership /\ [Next]_vars
      => HandleOwnership'
<1> SUFFICES ASSUME TypeOK, ContextInv, WaitInv, HandleOwnership, [Next]_vars
             PROVE  HandleOwnership'
  OBVIOUS
<1>1. ASSUME NEW d \in Devices, InitConnection(d) PROVE HandleOwnership'
  BY <1>1 DEF InitConnection, HandleOwnership, NOT_OK, UNABLE_TO_CONNECT
<1>2. ASSUME NEW t \in Timeouts, SendStatus(t) PROVE HandleOwnership'
  BY <1>2 DEF SendStatus, HandleOwnership
<1>3. CASE RejectStatus \/ DestroyConnection
  BY <1>3 DEF RejectStatus, DestroyConnection, HandleOwnership
<1>4. CASE Steps
  BY <1>4, StepShape, HandshakeReturns DEF ContextInv, HandleOwnership
<1>5. CASE Environment
  BY <1>5, EnvironmentShape DEF HandleOwnership, app, pc
<1>6. CASE UNCHANGED vars
  BY <1>6 DEF HandleOwnership, vars, app, pc
<1> QED
  BY <1>1, <1>2, <1>3, <1>4, <1>5, <1>6 DEF Next, Calls

\* The return code of init_connection tells the caller whether there is a
\* Context to destroy, whichever of its exits it took.
THEOREM OwnerIsTold == Spec => []HandleOwnership
<1>1. Init => TypeOK /\ ContextInv /\ WaitInv /\ HandleOwnership
  BY InitType, ContextInit DEF Init, WaitInv, HandleOwnership
<1>2. TypeOK /\ ContextInv /\ WaitInv /\ HandleOwnership /\ [Next]_vars
      => (TypeOK /\ ContextInv /\ WaitInv /\ HandleOwnership)'
  BY NextType, ContextStep, WaitStep, OwnershipStep
<1> QED
  BY <1>1, <1>2, PTL DEF Spec

-----------------------------------------------------------------------------
(* A Context without a socket.                                             *)

\* -1 survives the way through size_t.
LEMMA NotOkSurvives == ToInt(SizeT(NOT_OK)) = NOT_OK
<1>1. SizeMod \in Nat /\ SizeMod > 2
  BY ClientAssumption
<1>2. (-1) % SizeMod = SizeMod - 1
  BY <1>1, SMT
<1>3. ~(SizeMod - 1 < SizeMod \div 2)
  BY <1>1, SMT
<1> QED
  BY <1>1, <1>2, <1>3 DEF ToInt, SizeT, NOT_OK

\* On a closed socket a send_status ends before it has sent anything.
LEMMA StrandedStatus ==
    ASSUME Stranded, NEW t \in Timeouts, SendStatus(t)
    PROVE  Stranded' /\ rc' = UNABLE_TO_CONNECT
<1>1. PICK m, r :
        /\ SendMessage(m, r)
        /\ \/ /\ ToInt(r) <= 0
              /\ rc' = IF ToInt(r) = NOT_OK THEN UNABLE_TO_CONNECT ELSE NOT_OK
              /\ UNCHANGED <<message, timeout, quiet, heap, phase, read>>
           \/ ToInt(r) > 0
  BY DEF SendStatus
<1>2. r = SizeT(NOT_OK) /\ link' = link
  BY <1>1 DEF SendMessage, Connected, Stranded
<1>3. ToInt(r) = -1
  BY <1>2, NotOkSurvives DEF NOT_OK
<1>4. rc' = UNABLE_TO_CONNECT /\ phase' = phase
  BY <1>1, <1>3 DEF NOT_OK
<1> QED
  BY <1>2, <1>4 DEF SendStatus, Stranded

LEMMA StrandedStep ==
    ASSUME TypeOK, Stranded, context', Next
    PROVE  /\ Stranded'
           /\ rc' \in {UNABLE_TO_CONNECT, NOT_OK}
           /\ statusNo' # statusNo => rc' = UNABLE_TO_CONNECT
<1>1. ASSUME NEW d \in Devices, InitConnection(d) PROVE FALSE
  BY <1>1 DEF InitConnection, Stranded
<1>2. ASSUME NEW t \in Timeouts, SendStatus(t)
      PROVE  Stranded' /\ rc' = UNABLE_TO_CONNECT
  BY <1>2, StrandedStatus
<1>3. CASE RejectStatus
  BY <1>3 DEF RejectStatus, Stranded, app, net, hist
<1>4. CASE DestroyConnection
  BY <1>4 DEF DestroyConnection
<1>5. CASE Steps
  BY <1>5, StepShape DEF Stranded
<1>6. CASE Environment
  BY <1>6 DEF Environment, Deliver, GatewayAnswers, GatewayIgnores, GatewayCloses,
     LinkLost, LossSeen, Closes, Dies, Stranded
<1> QED
  BY <1>1, <1>2, <1>3, <1>4, <1>5, <1>6 DEF Next, Calls

\* Once a reconnect has left the Context without a socket, no send_status gets
\* one again and none goes on as if it had: each returns UNABLE_TO_CONNECT,
\* whatever the width of size_t.
THEOREM NobodyReconnects == Spec => StaysStranded
<1>1. TypeOK /\ [Next]_vars =>
        [Stranded /\ context' =>
            /\ Stranded'
            /\ rc' \in {UNABLE_TO_CONNECT, NOT_OK}
            /\ statusNo' # statusNo => rc' = UNABLE_TO_CONNECT]_vars
  BY StrandedStep
<1> QED
  BY <1>1, TypeCorrect, PTL DEF Spec, StaysStranded
=============================================================================
