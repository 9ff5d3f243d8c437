-------------------------- MODULE MCSessionOutput --------------------------
(***************************************************************************)
(* Chunks of two bytes and a channel of two messages: messages longer than *)
(* a chunk, chunks filled exactly or half, and receivers that lag, within  *)
(* a handful of bytes.                                                     *)
(***************************************************************************)
EXTENDS SessionOutput

=============================================================================
