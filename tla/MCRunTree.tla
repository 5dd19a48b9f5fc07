----------------------------- MODULE MCRunTree -----------------------------
(***************************************************************************)
(* Instances of RunPack, and so of RunTree, for TLC.                       *)
(***************************************************************************)
EXTENDS RunPack
=============================================================================
