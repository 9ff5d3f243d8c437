--------------------------- MODULE MCSessionLocks ---------------------------
(***************************************************************************)
(* Three tasks and two sessions: a stream that sends, a close that waits   *)
(* for it and a reader behind the close.                                   *)
(***************************************************************************)
EXTENDS SessionLocks

=============================================================================
