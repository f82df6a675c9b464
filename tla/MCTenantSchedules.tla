-------------------------- MODULE MCTenantSchedules --------------------------
(***************************************************************************)
(* Instances of TenantSchedules for TLC.                                   *)
(***************************************************************************)
EXTENDS TenantSchedules, TLC

CONSTANTS e1, e2, owner, procurer, a, b

(* A timer and a connector; a plain start event and another timer instead  *)
(* of the connector; and one that a timer and a connector claim.           *)
SomeGraphs ==
  { (e1 :> {"timer"}) @@ (e2 :> {"connector"}), (e1 :> {}) @@ (e2 :> {"timer"}), e1 :> Types }

(* The callers are alike.                                                  *)
Alike == Permutations(Callers)
=============================================================================
