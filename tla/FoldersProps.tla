------------------------------ MODULE FoldersProps ------------------------------
(* What the folder commands promise to who runs them. *)
EXTENDS Folders

(* Every node that upload-folder makes is below the node of its parent        *)
(* directory, which has been created, and neither hidden nor below anything   *)
(* hidden: by the way down from the root (hiddenPaths and tree in             *)
(* upload-folder.go; a file is created by a goroutine, maybe much later).     *)
UploadedInPlace ==
  command = "upload" => \A i \in Entry : placed[i] # "none" =>
    /\ ~hidden[i]
    /\ under[i] = parent[i]
    /\ i # 1 => placed[parent[i]] = "whole"

(* Exit code 0 of upload-folder means that nothing is missing: the root, if   *)
(* it is not hidden, and every entry of an uploaded directory that is not     *)
(* hidden has its node, and every file that could be read its whole content,  *)
(* whatever became of the others.  An error of any request shows in the exit  *)
(* code; one of a local file does not (http_truncated is about that), and     *)
(* leaves a node with less than the file.                                     *)
UploadIsComplete ==
  command = "upload" /\ exit = "0" =>
    \A i \in Entry : ~hidden[i] /\ (i = 1 \/ placed[parent[i]] # "none") =>
      placed[i] # "none" /\ (readable[i] => placed[i] = "whole")

(* Exit code 0 of download-folder into the working directory means that every *)
(* file is there (downloadContent, wgDownload).                               *)
DownloadIsComplete ==
  command = "download" /\ inPlace /\ exit = "0" =>
    \A i \in Entry : ~dir[i] => placed[i] = "whole"

(* Exit code 0 means that no goroutine of the command is left half-way        *)
(* (wgUpload, wgDownload): nothing is still being written.                    *)
ExitWaits == exit = "0" => \A i \in Entry : job[i] \in {"none", "done"}

(* Every command ends, except a download with a folder of several pages: the  *)
(* wait group is released whatever fails.                                     *)
CommandEnds ==
  (main # "start" /\ (command = "download" => \A f \in Entry : ~HasMoreItems(f))) ~> exit # "none"

(* download-folder.go:62 says "Folders and files nodes from the repository    *)
(* are retrieved recursively."  Once started, a download retrieves every file *)
(* or ends with an error.                                                     *)
EverythingIsRetrieved ==
  (command = "download" /\ inPlace /\ main # "start") ~>
    (exit \in {"1", "2"} \/ \A i \in Entry : ~dir[i] => placed[i] = "whole")
=============================================================================
