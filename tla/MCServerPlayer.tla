--------------------------- MODULE MCServerPlayer ---------------------------
(***************************************************************************)
(* Instances of ServerPlayer for TLC: two threads that may seek at a time. *)
(***************************************************************************)
EXTENDS ServerPlayer

CONSTANTS t1, t2
=============================================================================
