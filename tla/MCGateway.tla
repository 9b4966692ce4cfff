------------------------------ MODULE MCGateway ------------------------------
(* Instances of GatewayProps for TLC; every .cfg named MCGateway_*.cfg uses it. *)
EXTENDS GatewayProps, TLC

(* Requests of one kind are interchangeable, so are keys and plans. *)
Symmetry == Permutations(ApplyReq) \cup Permutations(DecideReq) \cup Permutations(PlanReq)
              \cup Permutations(PlanIds) \cup Permutations(Keys)
=============================================================================
