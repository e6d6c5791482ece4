--------------------------- MODULE MCInternalClient ---------------------------
(* Values for the constants of InternalClient in the TLC runs.             *)
EXTENDS ClientService

\* Commands without a NUL byte, and one that holds a NUL.
Text   == {<<7>>}
Binary == {<<7, 0, 7>>}
===============================================================================
