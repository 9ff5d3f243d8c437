-------------------------- MODULE MCTerminalStream --------------------------
(***************************************************************************)
(* Two streams through a broadcast channel and mpsc channels of one place  *)
(* and a window of one packet: for the safety properties one sends a       *)
(* message of two packets, the other a packet and a resize, and two pieces *)
(* of output make a stream lag; for the liveness property both may leave,  *)
(* and one piece fills a place.                                            *)
(***************************************************************************)
EXTENDS TerminalStream

CONSTANTS s1, s2

MCStreams == {s1, s2}
LeavingOne == {s1}
LongScript == (s1 :> <<1, 2>>) @@ (s2 :> <<1, 1, 0>>)
ShortScript == (s1 :> <<1, 1>>) @@ (s2 :> <<1, 0>>)

=============================================================================
