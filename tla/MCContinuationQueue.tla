------------------------- MODULE MCContinuationQueue -------------------------
(***************************************************************************)
(* ContinuationQueue on small sets of model values.  The workers are       *)
(* interchangeable.                                                        *)
(***************************************************************************)
EXTENDS ContinuationQueue, TLC

CONSTANTS
  start,      (* The subject of START.                                     *)
  t1, t2,     (* Ordinary tokens.                                          *)
  item,       (* A work item or decision, answered by the host.            *)
  multi       (* A multi-instance entry, answered by the host, sticky.     *)

Symmetry == Permutations(Workers)
=============================================================================
