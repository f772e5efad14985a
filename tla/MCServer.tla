------------------------------ MODULE MCServer ------------------------------
(***************************************************************************)
(* Small instances of Server.                                              *)
(***************************************************************************)
EXTENDS Server

CONSTANTS t1, t2, t3, a, b, c
=============================================================================
