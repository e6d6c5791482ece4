------------------------------- MODULE ClientService -------------------------------
(***************************************************************************)
(* The client library implements StatusService: every step of              *)
(* InternalClient is a step of it, or leaves all of it as it is.           *)
(***************************************************************************)
EXTENDS InternalClient

Service == INSTANCE StatusService WITH
    open        <- context,
    busy        <- IF phase = "idle" THEN "none" ELSE call,
    result      <- rc,
    sent        <- statusNo,
    command     <- IF saved.block THEN saved.re ELSE -1,
    newest      <- lastSaved,
    OtherErrors <- (ReturnCodes \cup {1}) \ {OK, UNABLE_TO_CONNECT, CONTEXT_INCORRECT}

\* What the application sees of the library, over timeouts, stale answers, lost
\* connections and the reconnect sequence: who has a Context, what the return
\* codes of the calls mean for the saved command, and in which order commands
\* come.
ImplementsService == Service!Spec
=============================================================================
