------------------------------- MODULE MCAgent -------------------------------
(* Instances of AgentProps for TLC; every .cfg named MCAgent_*.cfg uses it. *)
EXTENDS AgentProps, TLC

(* Processes of one kind are interchangeable, so are ids, contents and keys. *)
Symmetry == Permutations(PlanProc) \cup Permutations(ApplyProc) \cup Permutations(PlanIds)
              \cup Permutations(Contents) \cup Permutations(Keys)
=============================================================================
