------------------------------- MODULE MCResolve -------------------------------
(* Instances of ResolveProps for TLC; MCResolve_*.cfg use it. *)
EXTENDS ResolveProps, SequencesExt

(* Nodes 1 and 2 are folders, 3 and 4 are files or folders.  A node may have *)
(* several parents, as a secondary child has.                                *)
FolderSets == {[n \in 1..4 |-> n <= 2 \/ n \in F] : F \in SUBSET {3, 4}}
Listing(f, S) == SelectSeq(<<1, 2, 3, 4>>, LAMBDA c : c > f /\ c \in S)
MCRepositories ==
  {[children |-> <<Listing(1, A), Listing(2, B), Listing(3, C), <<>>>>, isFolder |-> F, hides |-> H] :
     A \in {{3, 4}, {2, 3, 4}}, B \in {{}, {3, 4}}, C \in SUBSET {4}, F \in FolderSets, H \in {{}, {2}}}

(* A file has no entries. *)
Sound(R) == \A n \in 1..4 : R.isFolder[n] \/ R.children[n] = <<>>
SoundRepositories == {R \in MCRepositories : Sound(R)}

(* 3 and 4 have one name. *)
MCName == <<"a", "b", "c", "c">>

(* Clear winners and ties, at the thresholds and at the top. *)
MCScores == {<<0, 40, 90, 75>>, <<0, 85, 100, 100>>, <<0, 62, 70, 80>>}

Root(s, n, d) == [site |-> s, node |-> n, depth |-> d]
MCRoots == {<<>>, <<Root("A", 1, 1)>>, <<Root("A", 1, 2), Root("B", 2, 0)>>}

Ask(k, u, m) == [named |-> TRUE, kind |-> k, unique |-> u, max |-> m]
Unnamed == [named |-> FALSE, kind |-> "file", unique |-> TRUE, max |-> 5]
MCRequests == {Unnamed, Ask("file", TRUE, 2), Ask("any", TRUE, 1), Ask("folder", FALSE, 0)}
=============================================================================
