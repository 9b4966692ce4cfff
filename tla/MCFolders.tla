------------------------------- MODULE MCFolders -------------------------------
(* Instances of FoldersProps for TLC; MCFolders_*.cfg use it. *)
EXTENDS FoldersProps
=============================================================================
