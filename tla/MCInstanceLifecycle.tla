------------------------- MODULE MCInstanceLifecycle -------------------------
(***************************************************************************)
(* Instances of InstanceLifecycle for TLC.                                 *)
(***************************************************************************)
EXTENDS InstanceLifecycle

CONSTANTS a, b, w1, key

(* Two callers with the same key.                                          *)
OneKey == [x \in Callers |-> key]

(* A root and its child, and one that may become the child's child before  *)
(* or while the root is purged.                                            *)
Chain == <<Absent, 1>>
Late  == {<<2, 3>>}
=============================================================================
