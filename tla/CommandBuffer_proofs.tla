--------------------------- MODULE CommandBuffer_proofs ---------------------------
(***************************************************************************)
(* What get_command promises, for commands and buffers of every length.    *)
(* OrderInv is inductive: it says what every cell may hold, in the Context *)
(* and in the application's buffer.                                        *)
(***************************************************************************)
EXTENDS CommandBuffer, TLAPS

\* nullptr points to no block.
LEMMA NullType == /\ nullptr \in Pointer
                  /\ ~nullptr.block
                  /\ Len(nullptr.cells) = 0
<1>1. <<>> \in Seq(Nat) /\ Len(<<>>) = 0
  OBVIOUS
<1> QED
  BY <1>1 DEF nullptr, Pointer

\* Blocks of memory have the type of what a pointer points to.
LEMMA BlockType ==
    ASSUME NEW n \in Nat, NEW k \in Nat
    PROVE  /\ Block(Filled(n, k)) \in Pointer
           /\ Block(Filled(n, k)).block
           /\ Len(Block(Filled(n, k)).cells) = n
           /\ \A i \in 1..n : Block(Filled(n, k)).cells[i] = k
BY DEF Block, Filled, Pointer

\* realloc gives a block of the new size that starts with the old bytes.
LEMMA ReallocType ==
    ASSUME NEW p \in Pointer, NEW n \in Nat
    PROVE  /\ Realloc(p, n) \in Pointer
           /\ Realloc(p, n).block
           /\ Len(Realloc(p, n).cells) = n
BY DEF Realloc, Block, Pointer

\* A memcpy that fits leaves a block of the same size, whose first n bytes are
\* those of the source and whose others are untouched.
LEMMA MemcpyType ==
    ASSUME NEW p \in Pointer, NEW from \in Pointer, NEW n \in Nat,
           n <= Len(p.cells), n <= Len(from.cells)
    PROVE  /\ Memcpy(p, from, n) \in Pointer
           /\ Memcpy(p, from, n).block
           /\ Len(Memcpy(p, from, n).cells) = Len(p.cells)
           /\ \A i \in 1..Len(p.cells) :
                  Memcpy(p, from, n).cells[i] =
                      IF i <= n THEN from.cells[i] ELSE p.cells[i]
<1> DEFINE c == [i \in 1..Len(p.cells) |->
                     IF i <= n THEN from.cells[i] ELSE p.cells[i]]
<1>1. \A i \in 1..Len(p.cells) : c[i] \in Nat
  BY DEF Pointer
<1>2. c \in Seq(Nat) /\ Len(c) = Len(p.cells)
  BY <1>1 DEF Pointer
<1> QED
  BY <1>2 DEF Memcpy, Block, Pointer

\* Delivering the latest command into a block that holds nothing newer, in
\* order, keeps the order: this is the heart of NewestFirst.
LEMMA DeliverKeeps ==
    ASSUME OrderInv, commandSize > 0,
           NEW p \in Pointer, NEW size \in Nat,
           size = Len(p.cells), commandSize <= size,
           \A i, j \in 1..Len(p.cells) :
               commandSize < i /\ i < j => p.cells[i] >= p.cells[j],
           \A i \in 1..Len(p.cells) : commandSize < i => p.cells[i] <= latest,
           Deliver(p, size),
           UNCHANGED <<context, commandSize, commandData, latest>>,
           lost' \in 0..MaxLost, heap' \in Int
    PROVE  /\ OrderInv'
           /\ command'.data.block
           /\ \A i \in 1..commandSize : command'.data.cells[i] = latest
<1> DEFINE q == Memcpy(p, commandData, commandSize)
<1>1. /\ commandSize \in Nat /\ commandData \in Pointer /\ latest \in Nat
      /\ commandSize = Len(commandData.cells)
      /\ \A i \in 1..commandSize : commandData.cells[i] = latest
  BY BufferAssumption DEF OrderInv, TypeOK, SizesAgree, CellsInv
<1>2. /\ q \in Pointer /\ q.block /\ Len(q.cells) = size
      /\ \A i \in 1..size : q.cells[i] =
             IF i <= commandSize THEN commandData.cells[i] ELSE p.cells[i]
  BY <1>1, MemcpyType
<1>3. command' = [data |-> q, size_in_bytes |-> size] /\ rc' = OK
  BY DEF Deliver
<1>4. /\ command'.data = q /\ command'.size_in_bytes = size
      /\ command' \in [data : Pointer, size_in_bytes : Nat]
  BY <1>2, <1>3
<1>5. \A i \in 1..commandSize : q.cells[i] = latest
  <2> HIDE DEF q
  <2> SUFFICES ASSUME NEW i \in 1..commandSize PROVE q.cells[i] = latest
    OBVIOUS
  <2>1. i \in 1..size /\ i <= commandSize
    BY <1>1
  <2>2. q.cells[i] = commandData.cells[i]
    BY <1>2, <2>1, Zenon
  <2> QED
    BY <1>1, <2>2
<1>6. \A i \in 1..size : q.cells[i] <= latest
  <2> SUFFICES ASSUME NEW i \in 1..size PROVE q.cells[i] <= latest
    OBVIOUS
  <2>1. CASE i <= commandSize
    BY <1>1, <1>2, <2>1
  <2>2. CASE commandSize < i
    BY <1>1, <1>2, <2>2
  <2> QED
    BY <1>1, <2>1, <2>2
<1>7. \A i, j \in 1..size : i < j => q.cells[i] >= q.cells[j]
  <2> SUFFICES ASSUME NEW i \in 1..size, NEW j \in 1..size, i < j
               PROVE  q.cells[i] >= q.cells[j]
    OBVIOUS
  <2>1. CASE i <= commandSize
    BY <2>1, <1>1, <1>5, <1>6
  <2>2. CASE commandSize < i
    BY <2>2, <1>1, <1>2
  <2> QED
    BY <2>1, <2>2, <1>1
<1>8. TypeOK'
  BY <1>3, <1>4 DEF OrderInv, TypeOK, ReturnCodes
<1>9. SizesAgree' /\ CellsInv' /\ NewestFirst'
  BY <1>1, <1>2, <1>4, <1>6, <1>7 DEF SizesAgree, CellsInv, NewestFirst
<1> HIDE DEF q
<1> QED
  BY <1>1, <1>2, <1>4, <1>5, <1>8, <1>9 DEF OrderInv

\* Without a block there is no cell to speak of.
LEMMA NoCells ==
    ASSUME NEW k
    PROVE  /\ \A i \in 1..Len(nullptr.cells) :
                  nullptr.cells[i] = k /\ nullptr.cells[i] <= k
           /\ \A i, j \in 1..Len(nullptr.cells) :
                  i < j => nullptr.cells[i] >= nullptr.cells[j]
<1>1. 1..Len(nullptr.cells) = {}
  BY NullType
<1> QED
  BY <1>1

\* OrderInv holds at first.
LEMMA OrderInit == Init => OrderInv
<1> SUFFICES ASSUME Init
             PROVE  OrderInv
  OBVIOUS
<1>1. /\ command \in [data : Pointer, size_in_bytes : Nat]
      /\ command.data = nullptr /\ commandData = nullptr /\ commandSize = 0
  BY NullType DEF Init, Empty
<1>2. context \in BOOLEAN
  BY DEF Init
<1>3. TypeOK
  BY <1>1, <1>2, BufferAssumption, NullType DEF Init, TypeOK, ReturnCodes
<1>4. SizesAgree
  BY <1>1, NullType DEF SizesAgree
<1>5. CellsInv /\ NewestFirst
  BY <1>1, NoCells, NullType DEF CellsInv, NewestFirst
<1> QED
  BY <1>3, <1>4, <1>5 DEF OrderInv

\* What each of the three ways to a full buffer leads to.
LEMMA AllocateKeeps ==
    ASSUME OrderInv, commandSize > 0, AllocateBuffer,
           UNCHANGED <<context, commandSize, commandData, latest>>
    PROVE  /\ OrderInv'
           /\ rc' = OK => \A i \in 1..commandSize : command'.data.cells[i] = latest
<1>1. /\ commandSize \in Nat /\ latest \in Nat /\ heap \in Int
      /\ lost' \in 0..MaxLost /\ command \in [data : Pointer, size_in_bytes : Nat]
  BY BufferAssumption DEF OrderInv, TypeOK, AllocateBuffer
<1>2. CASE /\ Deliver(Block(Filled(commandSize, 0)), commandSize)
           /\ heap' = heap + 1
  <2> DEFINE p == Block(Filled(commandSize, 0))
  <2>1. /\ p \in Pointer /\ Len(p.cells) = commandSize
        /\ \A i \in 1..commandSize : p.cells[i] = 0
    BY <1>1, BlockType
  <2> HIDE DEF p
  <2>2. /\ \A i, j \in 1..Len(p.cells) :
               commandSize < i /\ i < j => p.cells[i] >= p.cells[j]
        /\ \A i \in 1..Len(p.cells) : commandSize < i => p.cells[i] <= latest
    BY <2>1, <1>1
  <2>3. Deliver(p, commandSize) /\ heap' \in Int
    BY <1>1, <1>2 DEF p
  <2> QED
    BY <1>1, <2>1, <2>2, <2>3, DeliverKeeps
<1>3. CASE /\ rc' = NOT_OK
           /\ command' = [command EXCEPT !.data = nullptr]
           /\ UNCHANGED heap
  <2>1. /\ command'.data = nullptr /\ nullptr \in Pointer
        /\ command' \in [data : Pointer, size_in_bytes : Nat]
    BY <1>1, <1>3, NullType
  <2>2. TypeOK'
    BY <1>1, <1>3, <2>1 DEF OrderInv, TypeOK, ReturnCodes
  <2>3. SizesAgree' /\ NewestFirst'
    BY <2>1, NoCells, NullType DEF OrderInv, SizesAgree, NewestFirst
  <2>4. CellsInv'
    BY <2>1, NoCells, NullType DEF OrderInv, CellsInv
  <2> QED
    BY <1>3, <2>2, <2>3, <2>4 DEF OrderInv, OK, NOT_OK
<1> QED
  BY <1>2, <1>3 DEF AllocateBuffer

LEMMA GrowKeeps ==
    ASSUME OrderInv, commandSize > 0, GrowBuffer,
           UNCHANGED <<context, commandSize, commandData, latest>>
    PROVE  /\ OrderInv'
           /\ rc' = OK => \A i \in 1..commandSize : command'.data.cells[i] = latest
<1>1. /\ commandSize \in Nat /\ latest \in Nat /\ heap' \in Int
      /\ lost \in 0..MaxLost /\ command \in [data : Pointer, size_in_bytes : Nat]
      /\ MaxLost \in Nat
  BY BufferAssumption DEF OrderInv, TypeOK, GrowBuffer
<1>2. CASE /\ Deliver(Realloc(command.data, commandSize), commandSize)
           /\ UNCHANGED lost
  <2> DEFINE p == Realloc(command.data, commandSize)
  <2>1. p \in Pointer /\ Len(p.cells) = commandSize
    BY <1>1, ReallocType
  <2> HIDE DEF p
  <2>2. /\ \A i, j \in 1..Len(p.cells) :
               commandSize < i /\ i < j => p.cells[i] >= p.cells[j]
        /\ \A i \in 1..Len(p.cells) : commandSize < i => p.cells[i] <= latest
    BY <2>1, <1>1
  <2>3. Deliver(p, commandSize) /\ lost' \in 0..MaxLost
    BY <1>1, <1>2 DEF p
  <2> QED
    BY <1>1, <2>1, <2>2, <2>3, DeliverKeeps
<1>3. CASE /\ lost < MaxLost
           /\ rc' = NOT_OK
           /\ command' = [command EXCEPT !.data = nullptr]
           /\ lost' = lost + 1
  <2>1. /\ command'.data = nullptr /\ nullptr \in Pointer
        /\ command' \in [data : Pointer, size_in_bytes : Nat]
    BY <1>1, <1>3, NullType
  <2>2. TypeOK'
    BY <1>1, <1>3, <2>1 DEF OrderInv, TypeOK, ReturnCodes
  <2>3. SizesAgree' /\ NewestFirst'
    BY <2>1, NoCells, NullType DEF OrderInv, SizesAgree, NewestFirst
  <2>4. CellsInv'
    BY <2>1, NoCells, NullType DEF OrderInv, CellsInv
  <2> QED
    BY <1>3, <2>2, <2>3, <2>4 DEF OrderInv, OK, NOT_OK
<1> QED
  BY <1>2, <1>3 DEF GrowBuffer

LEMMA ReuseKeeps ==
    ASSUME OrderInv, commandSize > 0, ReuseBuffer,
           UNCHANGED <<context, commandSize, commandData, latest>>
    PROVE  /\ OrderInv'
           /\ \A i \in 1..commandSize : command'.data.cells[i] = latest
<1>1. /\ commandSize \in Nat /\ latest \in Nat /\ heap' \in Int
      /\ lost' \in 0..MaxLost
      /\ command.data \in Pointer /\ command.size_in_bytes \in Nat
      /\ command.size_in_bytes = Len(command.data.cells)
  BY BufferAssumption DEF OrderInv, TypeOK, SizesAgree, ReuseBuffer
<1>2. /\ commandSize <= command.size_in_bytes
      /\ Deliver(command.data, command.size_in_bytes)
  BY DEF ReuseBuffer
<1>3. /\ \A i, j \in 1..Len(command.data.cells) :
             i < j => command.data.cells[i] >= command.data.cells[j]
      /\ \A i \in 1..Len(command.data.cells) : command.data.cells[i] <= latest
  BY DEF OrderInv, NewestFirst, CellsInv
<1> QED
  BY <1>1, <1>2, <1>3, DeliverKeeps

\* get_command keeps the invariant, and an OK delivers the latest command.
LEMMA GetCommandKeeps ==
    ASSUME OrderInv, GetCommand
    PROVE  /\ OrderInv'
           /\ rc' = OK => \A i \in 1..commandSize : command'.data.cells[i] = latest
<1>1. UNCHANGED <<context, commandSize, commandData, latest>>
  BY DEF GetCommand
<1>2. ASSUME NEW code \in {CONTEXT_INCORRECT, NO_COMMAND_AVAILABLE, NOT_OK},
             Refuse(code)
      PROVE  OrderInv' /\ rc' # OK
  BY <1>1, <1>2
     DEF Refuse, OrderInv, TypeOK, SizesAgree, CellsInv, NewestFirst, ReturnCodes,
         OK, NOT_OK, CONTEXT_INCORRECT, NO_COMMAND_AVAILABLE
<1>3. CASE commandSize > 0 /\ (AllocateBuffer \/ GrowBuffer \/ ReuseBuffer)
  BY <1>1, <1>3, AllocateKeeps, GrowKeeps, ReuseKeeps
<1> QED
  BY <1>2, <1>3 DEF GetCommand

\* Every step keeps the invariant.
LEMMA OrderNext == OrderInv /\ [Next]_vars => OrderInv'
<1> SUFFICES ASSUME OrderInv, [Next]_vars
             PROVE  OrderInv'
  OBVIOUS
<1>1. /\ commandSize \in Nat /\ latest \in Nat /\ heap \in Int
      /\ command \in [data : Pointer, size_in_bytes : Nat]
      /\ MaxLength \in Nat /\ MaxCommands \in Nat
      /\ commandData \in Pointer
  BY BufferAssumption DEF OrderInv, TypeOK
<1>2. CASE Connect
  BY <1>2 DEF Connect, OrderInv, TypeOK, SizesAgree, CellsInv, NewestFirst
<1>3. ASSUME NEW n \in 0..MaxLength, SaveCommand(n)
      PROVE  OrderInv'
  <2> DEFINE b == Block(Filled(n, latest + 1))
  <2>1. /\ b \in Pointer /\ Len(b.cells) = n
        /\ \A i \in 1..n : b.cells[i] = latest + 1
    BY <1>1, BlockType
  <2> HIDE DEF b
  <2>2. /\ commandData' = b /\ commandSize' = n /\ latest' = latest + 1
        /\ latest < MaxCommands
        /\ UNCHANGED <<context, command, rc, lost>>
        /\ heap' = heap - Blocks(commandData) + 1
    BY <1>3 DEF SaveCommand, b
  <2>3. Blocks(commandData) \in Int
    BY DEF Blocks
  <2>4. TypeOK'
    BY <1>1, <2>1, <2>2, <2>3 DEF OrderInv, TypeOK
  <2>5. \A i \in 1..Len(command.data.cells) : command.data.cells[i] <= latest + 1
    BY <1>1 DEF OrderInv, CellsInv, Pointer
  <2>6. SizesAgree' /\ CellsInv' /\ NewestFirst'
    BY <2>1, <2>2, <2>5 DEF OrderInv, SizesAgree, CellsInv, NewestFirst
  <2> QED
    BY <2>4, <2>6 DEF OrderInv
<1>4. CASE Destroy
  <2>1. Blocks(commandData) \in Int
    BY DEF Blocks
  <2>2. context' \in BOOLEAN
    BY <1>4 DEF Destroy
  <2>3. commandSize' \in 0..MaxLength /\ heap' \in Int
    BY <1>1, <1>4, <2>1 DEF Destroy
  <2>4. TypeOK'
    BY <1>4, <2>2, <2>3, NullType DEF Destroy, OrderInv, TypeOK, ReturnCodes
  <2>5. SizesAgree' /\ CellsInv' /\ NewestFirst'
    BY <1>4, NoCells, NullType
       DEF Destroy, OrderInv, SizesAgree, CellsInv, NewestFirst
  <2> QED
    BY <2>4, <2>5 DEF OrderInv
<1>5. CASE GetCommand
  BY <1>5, GetCommandKeeps
<1>6. ASSUME NEW n \in OwnSizes, Allocate(n)
      PROVE  OrderInv'
  <2> DEFINE b == Block(Filled(n, 0))
  <2>0. n \in Nat /\ n > 0
    BY BufferAssumption
  <2>1. /\ b \in Pointer /\ Len(b.cells) = n /\ b.block
        /\ \A i \in 1..n : b.cells[i] = 0
    BY <2>0, BlockType
  <2> HIDE DEF b
  <2>2. UNCHANGED <<context, commandSize, commandData, latest, lost>>
    BY <1>6 DEF Allocate
  <2>3. CASE command' = [data |-> b, size_in_bytes |-> n] /\ heap' = heap + 1 /\ rc' = OK
    <3>1. TypeOK'
      BY <1>1, <2>0, <2>1, <2>2, <2>3 DEF OrderInv, TypeOK, ReturnCodes
    <3>2. command'.data = b /\ command'.size_in_bytes = n
      BY <2>3
    <3>3. SizesAgree' /\ CellsInv' /\ NewestFirst'
      BY <1>1, <2>0, <2>1, <2>2, <3>2 DEF OrderInv, SizesAgree, CellsInv, NewestFirst
    <3> QED
      BY <3>1, <3>3 DEF OrderInv
  <2>4. CASE rc' = NOT_OK /\ UNCHANGED <<command, heap>>
    BY <2>2, <2>4
       DEF OrderInv, TypeOK, SizesAgree, CellsInv, NewestFirst, ReturnCodes
  <2> QED
    BY <1>6, <2>3, <2>4 DEF Allocate, b
<1>7. CASE Deallocate
  <2>1. Blocks(command.data) \in Int /\ nullptr \in Pointer
    BY DEF Blocks, nullptr, Pointer
  <2>2. /\ command' \in [data : Pointer, size_in_bytes : Nat]
        /\ command'.data = nullptr /\ command'.size_in_bytes = 0
    BY <1>7, <2>1 DEF Deallocate, Empty
  <2>3. TypeOK'
    BY <1>1, <1>7, <2>1, <2>2 DEF Deallocate, OrderInv, TypeOK
  <2>4. SizesAgree' /\ CellsInv' /\ NewestFirst'
    BY <1>7, <2>2, NoCells, NullType
       DEF Deallocate, OrderInv, SizesAgree, CellsInv, NewestFirst
  <2> QED
    BY <2>3, <2>4 DEF OrderInv
<1>8. CASE UNCHANGED vars
  BY <1>8 DEF vars, OrderInv, TypeOK, SizesAgree, CellsInv, NewestFirst
<1> QED
  BY <1>2, <1>3, <1>4, <1>5, <1>6, <1>7, <1>8 DEF Next

\* Pointers and sizes agree: no memcpy of get_command leaves its block.
THEOREM BufferSafe == Spec => []SizesAgree
<1>1. OrderInv => SizesAgree
  BY DEF OrderInv
<1> QED
  BY <1>1, OrderInit, OrderNext, PTL DEF Spec

\* What follows the command in the buffer is older than it.
THEOREM TailIsOlder == Spec => []NewestFirst
<1>1. OrderInv => NewestFirst
  BY DEF OrderInv
<1> QED
  BY <1>1, OrderInit, OrderNext, PTL DEF Spec

\* An OK of get_command hands over the whole command saved last.
THEOREM LatestIsGot == Spec => GetsLatest
<1>1. ASSUME OrderInv, [Next]_vars
      PROVE  [GetCommand /\ rc' = OK =>
                /\ commandSize <= command'.size_in_bytes
                /\ \A i \in 1..commandSize : command'.data.cells[i] = latest]_vars
  <2> SUFFICES ASSUME GetCommand, rc' = OK
               PROVE  /\ commandSize <= command'.size_in_bytes
                      /\ \A i \in 1..commandSize : command'.data.cells[i] = latest
    OBVIOUS
  <2>1. commandSize \in Nat /\ command.size_in_bytes \in Nat
    BY <1>1 DEF OrderInv, TypeOK
  <2>2. commandSize <= command'.size_in_bytes
    BY <2>1 DEF GetCommand, Refuse, AllocateBuffer, GrowBuffer, ReuseBuffer, Deliver,
                OK, NOT_OK, CONTEXT_INCORRECT, NO_COMMAND_AVAILABLE
  <2> QED
    BY <1>1, <2>2, GetCommandKeeps
<1> QED
  BY <1>1, OrderInit, OrderNext, PTL DEF Spec, GetsLatest

\* Every block has one owner, but for those a failed realloc lost.
THEOREM BlocksAreOwned == Spec => []OneOwner
<1>1. Init => OneOwner
  BY DEF Init, OneOwner, Blocks, nullptr, Empty
<1>2. OrderInv /\ OneOwner /\ [Next]_vars => OneOwner'
  <2> SUFFICES ASSUME OrderInv, OneOwner, [Next]_vars
               PROVE  OneOwner'
    OBVIOUS
  <2>1. /\ heap \in Int /\ lost \in Int
        /\ command \in [data : Pointer, size_in_bytes : Nat]
        /\ command.data.block => command.size_in_bytes > 0
    BY DEF OrderInv, TypeOK, CellsInv
  <2>2. Blocks(nullptr) = 0 /\ \A c : Blocks(Block(c)) = 1
    BY DEF Blocks, nullptr, Block
  <2>3. Blocks(commandData) \in Int /\ Blocks(command.data) \in Int
    BY DEF Blocks
  <2>4. CASE Connect
    BY <2>4 DEF Connect, OneOwner
  <2>5. ASSUME NEW n \in 0..MaxLength, SaveCommand(n)
        PROVE  OneOwner'
    BY <2>5, <2>1, <2>2, <2>3 DEF SaveCommand, OneOwner
  <2>6. CASE Destroy
    BY <2>6, <2>1, <2>2, <2>3 DEF Destroy, OneOwner
  <2>7. CASE GetCommand
    <3>1. ~command.data.block => Blocks(command.data) = 0
      BY DEF Blocks
    <3>2. command.data.block => Blocks(command.data) = 1
      BY DEF Blocks
    <3>3. ASSUME NEW p, NEW size, Deliver(p, size)
          PROVE  Blocks(command'.data) = 1
      BY <3>3, <2>2 DEF Deliver, Memcpy
    <3>4. CASE AllocateBuffer
      BY <2>1, <2>2, <2>3, <2>7, <3>1, <3>3, <3>4
         DEF AllocateBuffer, GetCommand, OneOwner
    <3>5. CASE GrowBuffer
      BY <2>1, <2>2, <2>3, <2>7, <3>2, <3>3, <3>5 DEF GrowBuffer, GetCommand, OneOwner
    <3>6. CASE ReuseBuffer
      BY <2>1, <2>2, <2>3, <2>7, <3>2, <3>3, <3>6 DEF ReuseBuffer, GetCommand, OneOwner
    <3>7. ASSUME NEW code, Refuse(code)
          PROVE  OneOwner'
      BY <2>7, <3>7 DEF Refuse, GetCommand, OneOwner
    <3> QED
      BY <2>7, <3>4, <3>5, <3>6, <3>7 DEF GetCommand
  <2>8. ASSUME NEW n \in OwnSizes, Allocate(n)
        PROVE  OneOwner'
    BY <2>8, <2>1, <2>2, <2>3 DEF Allocate, OneOwner, Empty
  <2>9. CASE Deallocate
    BY <2>9, <2>1, <2>2, <2>3 DEF Deallocate, OneOwner, Empty
  <2>10. CASE UNCHANGED vars
    BY <2>10 DEF vars, OneOwner
  <2> QED
    BY <2>4, <2>5, <2>6, <2>7, <2>8, <2>9, <2>10 DEF Next
<1> QED
  BY <1>1, <1>2, OrderInit, OrderNext, PTL DEF Spec
=============================================================================
