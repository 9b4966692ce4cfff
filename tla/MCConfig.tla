------------------------------ MODULE MCConfig ------------------------------
(* Instances of ConfigProps for TLC; every .cfg named MCConfig_*.cfg uses it. *)
EXTENDS ConfigProps, TLC

(* Processes are interchangeable, so are servers and credentials. *)
Symmetry == Permutations(Proc) \cup Permutations(Server) \cup Permutations(Secret)
=============================================================================
