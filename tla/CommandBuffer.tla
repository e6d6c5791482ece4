------------------------------ MODULE CommandBuffer ------------------------------
(***************************************************************************)
(* How a command reaches the application: Context::saveCommand keeps a     *)
(* copy in the Context, get_command copies it into a buffer of the         *)
(* application, which it allocates or grows (memory_management.cpp).  The  *)
(* buffer outlives the call: the application hands the same one over again *)
(* and again, and may free it or bring one of its own.                     *)
(*                                                                         *)
(* A block of memory is the sequence of its cells.  A cell holds the       *)
(* number of the command whose byte it is, 0 when it was never written.    *)
(***************************************************************************)
EXTENDS Integers, Sequences

CONSTANTS
    MaxLength,   \* bound: length of a command
    MaxCommands, \* bound: commands saved in a behaviour
    MaxLost,     \* bound: reallocs that fail in a behaviour
    OwnSizes     \* sizes of buffers the application allocates itself

ASSUME BufferAssumption ==
    /\ MaxLength \in Nat
    /\ MaxCommands \in Nat
    /\ MaxLost \in Nat
    /\ OwnSizes \subseteq Nat \ {0}

VARIABLES
    context,     \* the application's handle points to a Context
    commandSize, \* Context::commandSize_
    commandData, \* Context::commandData_
    command,     \* the application's struct buffer
    rc,          \* what the last call returned
    heap,        \* blocks allocated and not yet freed
    latest,      \* history: number of the command saved last
    lost         \* history: blocks whose pointer a failed realloc overwrote

vars == <<context, commandSize, commandData, command, rc, heap, latest, lost>>

-----------------------------------------------------------------------------
OK == "OK"
NOT_OK == "NOT_OK"
CONTEXT_INCORRECT == "CONTEXT_INCORRECT"
NO_COMMAND_AVAILABLE == "NO_COMMAND_AVAILABLE"
ReturnCodes == {OK, NOT_OK, CONTEXT_INCORRECT, NO_COMMAND_AVAILABLE}

\* A pointer is the block it points to; nullptr points to none.
nullptr == [block |-> FALSE, cells |-> <<>>]
Block(c) == [block |-> TRUE, cells |-> c]
Filled(n, k) == [i \in 1..n |-> k]

\* struct buffer, as deallocate leaves it.
Empty == [data |-> nullptr, size_in_bytes |-> 0]

\* realloc keeps the bytes that fit.
Realloc(p, n) ==
    Block([i \in 1..n |-> IF i <= Len(p.cells) THEN p.cells[i] ELSE 0])

\* memcpy of the first n bytes of `from` to the block p.
Memcpy(p, from, n) ==
    Block([i \in 1..Len(p.cells) |-> IF i <= n THEN from.cells[i] ELSE p.cells[i]])

Blocks(p) == IF p.block THEN 1 ELSE 0

-----------------------------------------------------------------------------
Init ==
    /\ context = FALSE /\ commandSize = 0 /\ commandData = nullptr
    /\ command = Empty
    /\ rc = OK
    /\ heap = 0 /\ latest = 0 /\ lost = 0

\* A Context with no command.
Connect ==
    /\ ~context
    /\ context' = TRUE
    /\ UNCHANGED <<commandSize, commandData, command, rc, heap, latest, lost>>

\* mutant: the old block is not deleted
SaveCommand_NoDelete(n) ==
    /\ context /\ latest < MaxCommands
    /\ latest' = latest + 1
    /\ commandSize' = n
    /\ commandData' = Block(Filled(n, latest + 1))
    /\ heap' = heap + 1
    /\ UNCHANGED <<context, command, rc, lost>>

\* saveCommand; a text of length 0 is kept as a block of size 0.
SaveCommand(n) ==
    /\ context /\ latest < MaxCommands
    /\ latest' = latest + 1
    /\ commandSize' = n
    /\ commandData' = Block(Filled(n, latest + 1))
    /\ heap' = heap - Blocks(commandData) + 1
    /\ UNCHANGED <<context, command, rc, lost>>

\* destroy_connection and ~Context; with no Context there is nothing to delete.
Destroy ==
    /\ context' = FALSE
    /\ commandSize' = 0 /\ commandData' = nullptr
    /\ heap' = heap - Blocks(commandData)
    /\ rc' = OK
    /\ UNCHANGED <<command, latest, lost>>

-----------------------------------------------------------------------------
(* get_command.                                                            *)

Refuse(code) ==
    /\ rc' = code
    /\ UNCHANGED <<command, heap, lost>>

\* mutant: the last byte is kept for a NUL
Deliver_OneLess(p, size) ==
    /\ rc' = OK
    /\ command' = [data |-> Memcpy(p, commandData, commandSize - 1),
                   size_in_bytes |-> size]

\* The memcpy at the end, into the block p of the given size.
Deliver(p, size) ==
    /\ rc' = OK
    /\ command' = [data |-> Memcpy(p, commandData, commandSize),
                   size_in_bytes |-> size]

\* A buffer of size 0 is allocated, or malloc fails.
AllocateBuffer ==
    /\ command.size_in_bytes = 0
    /\ UNCHANGED lost
    /\ \/ /\ Deliver(Block(Filled(commandSize, 0)), commandSize)
          /\ heap' = heap + 1
       \/ /\ rc' = NOT_OK
          /\ command' = [command EXCEPT !.data = nullptr]
          /\ UNCHANGED heap

\* mutant: the size of the grown buffer is not recorded
GrowBuffer_OldSize ==
    /\ command.data.block
    /\ 0 < command.size_in_bytes /\ command.size_in_bytes < commandSize
    /\ Deliver(Realloc(command.data, commandSize), command.size_in_bytes)
    /\ UNCHANGED <<heap, lost>>

\* mutant: only the part that was added is filled
GrowBuffer_AddedPart ==
    /\ command.data.block
    /\ 0 < command.size_in_bytes /\ command.size_in_bytes < commandSize
    /\ rc' = OK
    /\ command' = [data |-> Memcpy(commandData, command.data,
                                   command.size_in_bytes),
                   size_in_bytes |-> commandSize]
    /\ UNCHANGED <<heap, lost>>

\* A buffer that is too small is grown.  When realloc fails the old block
\* lives on, but the only pointer to it is overwritten.
GrowBuffer ==
    /\ command.data.block
    /\ 0 < command.size_in_bytes /\ command.size_in_bytes < commandSize
    /\ UNCHANGED heap
    /\ \/ /\ Deliver(Realloc(command.data, commandSize), commandSize)
          /\ UNCHANGED lost
       \/ /\ lost < MaxLost
          /\ rc' = NOT_OK
          /\ command' = [command EXCEPT !.data = nullptr]
          /\ lost' = lost + 1

\* A buffer that is large enough keeps its size, whatever the command's is.
ReuseBuffer ==
    /\ command.data.block
    /\ 0 < command.size_in_bytes /\ commandSize <= command.size_in_bytes
    /\ Deliver(command.data, command.size_in_bytes)
    /\ UNCHANGED <<heap, lost>>

GetCommand ==
    /\ \/ ~context /\ Refuse(CONTEXT_INCORRECT)
       \/ context /\ commandSize = 0 /\ Refuse(NO_COMMAND_AVAILABLE)
       \/ /\ context /\ commandSize > 0
          /\ \/ AllocateBuffer
             \/ /\ command.size_in_bytes > 0 /\ ~command.data.block
                /\ Refuse(NOT_OK)
             \/ GrowBuffer
             \/ ReuseBuffer
    /\ UNCHANGED <<context, commandSize, commandData, latest>>

-----------------------------------------------------------------------------
(* The application and its buffer.                                         *)

\* allocate, on an empty buffer; malloc may fail.
Allocate(n) ==
    /\ command = Empty
    /\ \/ /\ command' = [data |-> Block(Filled(n, 0)), size_in_bytes |-> n]
          /\ heap' = heap + 1 /\ rc' = OK
       \/ /\ rc' = NOT_OK
          /\ UNCHANGED <<command, heap>>
    /\ UNCHANGED <<context, commandSize, commandData, latest, lost>>

Deallocate ==
    /\ command' = Empty
    /\ heap' = heap - Blocks(command.data)
    /\ UNCHANGED <<context, commandSize, commandData, rc, latest, lost>>

-----------------------------------------------------------------------------
Next == \/ Connect
        \/ \E n \in 0..MaxLength : SaveCommand(n)
        \/ Destroy
        \/ GetCommand
        \/ \E n \in OwnSizes : Allocate(n)
        \/ Deallocate

Spec == Init /\ [][Next]_vars

-----------------------------------------------------------------------------
(* Properties.                                                             *)

Pointer == [block : BOOLEAN, cells : Seq(Nat)]

\* The types of the variables.
TypeOK == /\ context \in BOOLEAN
          /\ commandSize \in 0..MaxLength
          /\ commandData \in Pointer
          /\ command \in [data : Pointer, size_in_bytes : Nat]
          /\ rc \in ReturnCodes
          /\ heap \in Int
          /\ latest \in 0..MaxCommands
          /\ lost \in 0..MaxLost

\* Pointer and size agree, in the Context and in the application's buffer, so
\* that every memcpy of get_command stays within both blocks.  The exception is
\* the buffer a failed realloc leaves behind: null, with a size.
SizesAgree == /\ commandSize = Len(commandData.cells)
              /\ command.data.block =>
                     command.size_in_bytes = Len(command.data.cells)

\* Every block has exactly one owner, the Context or the application's buffer,
\* but for those a failed realloc in get_command lost.
OneOwner == heap = Blocks(commandData) + Blocks(command.data) + lost

\* get_command does not shorten a buffer, so what the application sees after
\* the command is what is left of longer ones: never a byte of a newer command,
\* and never something uninitialised before something initialised.
NewestFirst ==
    \A i, j \in 1..Len(command.data.cells) :
        i < j => command.data.cells[i] >= command.data.cells[j]

\* Whenever get_command returns OK, whichever way the buffer came to its size,
\* it starts with all of the command this Context saved last.
GetsLatest ==
    [][GetCommand /\ rc' = OK =>
           /\ commandSize <= command'.size_in_bytes
           /\ \A i \in 1..commandSize : command'.data.cells[i] = latest]_vars

-----------------------------------------------------------------------------
(* Inductive invariants.                                                   *)

\* The Context holds the latest command or none, no cell is newer, and the
\* buffer of a command or of the application is never empty.
CellsInv == /\ \A i \in 1..Len(commandData.cells) : commandData.cells[i] = latest
            /\ \A i \in 1..Len(command.data.cells) : command.data.cells[i] <= latest
            /\ command.data.block => command.size_in_bytes > 0
            /\ ~command.data.block => command.data = nullptr

OrderInv == TypeOK /\ SizesAgree /\ CellsInv /\ NewestFirst
=============================================================================
