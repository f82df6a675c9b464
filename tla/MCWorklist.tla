------------------------------ MODULE MCWorklist ------------------------------
(***************************************************************************)
(* Instances of Worklist for TLC.                                          *)
(***************************************************************************)
EXTENDS Worklist

CONSTANTS s1, s2, t1, t2, u1, u2

=============================================================================
