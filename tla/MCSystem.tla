------------------------------ MODULE MCSystem ------------------------------
(* Instances of SystemProps for TLC; every .cfg named MCSystem_*.cfg uses it. *)
EXTENDS SystemProps, TLC

(* Requests of one kind are interchangeable, so are keys and contents. *)
Symmetry == Permutations(ApplyReq) \cup Permutations(DecideReq) \cup Permutations(Keys)
              \cup Permutations(Contents) \cup Permutations(BodyKeys)
=============================================================================
