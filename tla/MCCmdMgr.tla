------------------------------ MODULE MCCmdMgr ------------------------------
(***************************************************************************)
(* Instances of CmdMgr for TLC: two threads, all kinds of requests, and a  *)
(* list that two commands fill.                                            *)
(***************************************************************************)
EXTENDS CmdMgr, TLC

CONSTANTS t1, t2, a
=============================================================================
