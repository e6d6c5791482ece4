------------------------------- MODULE StatusService -------------------------------
(***************************************************************************)
(* What an application may rely on, whatever becomes of the network: the   *)
(* calls of the library without sockets, frames, timeouts and retries.     *)
(*                                                                         *)
(* A call begins and, some time later, ends; nothing else changes what the *)
(* library keeps.  A status is named by its number, a saved command by the *)
(* status it answers.                                                      *)
(***************************************************************************)
EXTENDS Integers

CONSTANTS
    OK,                \* the return codes
    UNABLE_TO_CONNECT,
    CONTEXT_INCORRECT,
    OtherErrors

None == -1 \* no command was ever saved in this Context

VARIABLES
    open,    \* the application has a Context
    busy,    \* the call in progress, "none" between calls
    result,  \* what the last call returned
    sent,    \* statuses sent so far
    command, \* the status the saved command answers, 0 if the command is empty
    newest   \* the newest status of which a command was saved

vars == <<open, busy, result, sent, command, newest>>

Failures == OtherErrors \cup {UNABLE_TO_CONNECT}

Init ==
    /\ open = FALSE /\ busy = "none" /\ result = OK
    /\ sent = 0 /\ command = None /\ newest = 0

-----------------------------------------------------------------------------
(* init_connection                                                         *)

\* The gateway cannot be reached: the application gets no Context.
InitFails ==
    /\ busy = "none" /\ ~open
    /\ result' = UNABLE_TO_CONNECT
    /\ UNCHANGED <<open, busy, sent, command, newest>>

\* The device is refused without asking the gateway.
InitRefused ==
    /\ busy = "none" /\ ~open
    /\ open' = TRUE
    /\ result' \in OtherErrors
    /\ UNCHANGED <<busy, sent, command, newest>>

InitBegins ==
    /\ busy = "none" /\ ~open
    /\ open' = TRUE /\ busy' = "init"
    /\ UNCHANGED <<result, sent, command, newest>>

\* However the handshake ended, the Context is the application's.
InitEnds ==
    /\ busy = "init"
    /\ busy' = "none"
    /\ result' \in OtherErrors \cup {OK}
    /\ UNCHANGED <<open, sent, command, newest>>

-----------------------------------------------------------------------------
(* send_status                                                             *)

\* Without a Context, or without data.
StatusRefused ==
    /\ busy = "none"
    /\ result' \in IF open THEN OtherErrors ELSE {CONTEXT_INCORRECT}
    /\ UNCHANGED <<open, busy, sent, command, newest>>

\* The status could not be handed to the network.
StatusNotSent ==
    /\ busy = "none" /\ open
    /\ sent' = sent + 1
    /\ result' \in Failures
    /\ UNCHANGED <<open, busy, command, newest>>

StatusBegins ==
    /\ busy = "none" /\ open
    /\ busy' = "status" /\ sent' = sent + 1
    /\ UNCHANGED <<open, result, command, newest>>

\* An error leaves the saved command alone.
StatusFails ==
    /\ busy = "status"
    /\ busy' = "none"
    /\ result' \in Failures
    /\ UNCHANGED <<open, sent, command, newest>>

\* An OK replaces the saved command by one that answers a later status than any
\* command before, if not always the one just sent.
StatusAnswered ==
    /\ busy = "status"
    /\ busy' = "none" /\ result' = OK
    /\ command' \in newest + 1..sent
    /\ newest' = command'
    /\ UNCHANGED <<open, sent>>

\* Or by an empty one.
StatusWipes ==
    /\ busy = "status"
    /\ busy' = "none" /\ result' = OK
    /\ command' = 0
    /\ UNCHANGED <<open, sent, newest>>

-----------------------------------------------------------------------------
\* destroy_connection
Destroy ==
    /\ busy = "none"
    /\ open' = FALSE /\ command' = None /\ result' = OK
    /\ UNCHANGED <<busy, sent, newest>>

Next == \/ InitFails \/ InitRefused \/ InitBegins \/ InitEnds
        \/ StatusRefused \/ StatusNotSent \/ StatusBegins
        \/ StatusFails \/ StatusAnswered \/ StatusWipes
        \/ Destroy

Spec == Init /\ [][Next]_vars
=============================================================================
