-------------------------------- MODULE Folders --------------------------------
(***************************************************************************)
(* `alfresco node upload-folder` and `download-folder`, src/cmd/node: one    *)
(* process whose main goroutine goes through a tree, creating folders as it  *)
(* goes, and starts a goroutine for every file.  An error of any call panics *)
(* in the goroutine that made it; the root command recovers panics of the    *)
(* main goroutine only.  What a request does when it fails is HttpClient's:   *)
(* the server may have carried it out or not.                                *)
(***************************************************************************)
EXTENDS Naturals, Sequences, FiniteSets

CONSTANTS
  N,            \* entries of the tree, 1 is its root
  MaxItems,     \* maxItems, the length of a page of a listing
  MaxFaults     \* bound: failing calls in one behaviour

Entry == 1..N
Target == 0     \* the folder, in the repository or local, that receives the tree

VARIABLES
  command,      \* "upload" or "download"
  parent, dir, hidden,  \* the tree to transfer, in the order filepath.WalkDir visits it
  readable,     \* upload: files that the program can open and read to their end
  inPlace,      \* download: the directory of -d is the working directory
  main,         \* where the main goroutine is
  visited,      \* upload: entries WalkDir has visited
  tree,         \* upload: entries with a node id
  hiddenPaths,  \* upload: entries that are passed over
  frames,       \* download: calls of getChildren in progress, each with what is left of its page
  job,          \* the goroutine of a file
  group,        \* the counter of the wait group
  placed,       \* what of an entry has been transferred
  under,        \* upload: the node that is its parent there
  exit,         \* exit code of the process
  faults

source == <<command, parent, dir, hidden, readable, inPlace>>
walk == <<visited, tree, hiddenPaths>>
jobs == <<job, group>>
folderVars == <<source, main, walk, frames, jobs, placed, under, exit, faults>>

ASSUME FolderBounds == N \in Nat \ {0} /\ MaxItems \in Nat \ {0} /\ MaxFaults \in Nat

Frames == Seq([folder : Entry, todo : SUBSET Entry])

FolderTypeOK ==
  /\ command \in {"upload", "download"}
  /\ parent \in [Entry -> 0..N]
  /\ dir \in [Entry -> BOOLEAN]
  /\ hidden \in [Entry -> BOOLEAN]
  /\ readable \in [Entry -> BOOLEAN]
  /\ inPlace \in BOOLEAN
  /\ main \in {"start", "walk", "wait", "waitFailed", "failed", "return"}
  /\ visited \in 0..N
  /\ tree \subseteq Entry
  /\ hiddenPaths \subseteq Entry
  /\ frames \in Frames
  /\ job \in [Entry -> {"none", "create", "content", "panic", "dying", "done"}]
  /\ group \in 0..N
  /\ placed \in [Entry -> {"none", "empty", "part", "whole"}]
  /\ under \in [Entry -> 0..N]
  /\ exit \in {"none", "0", "1", "2"}
  /\ faults \in 0..MaxFaults

(* A tree in the order of WalkDir: what comes between a directory and one of *)
(* its entries is inside that directory.                                     *)
Tree(up, isDir) ==
  /\ up[1] = 0 /\ isDir[1]
  /\ \A i \in Entry \ {1} : up[i] \in 1..(i - 1) /\ isDir[up[i]]
  /\ \A i, j \in Entry : up[j] < i /\ i < j => up[i] >= up[j]

FolderInit ==
  /\ command \in {"upload", "download"}
  /\ parent \in [Entry -> 0..N] /\ dir \in [Entry -> BOOLEAN] /\ Tree(parent, dir)
  /\ hidden \in [Entry -> BOOLEAN] /\ (command = "download" => hidden = [i \in Entry |-> FALSE])
  /\ readable \in [Entry -> BOOLEAN]
  /\ \A i \in Entry : dir[i] \/ command = "download" => readable[i]
  /\ inPlace \in BOOLEAN /\ (command = "upload" => inPlace)
  /\ main = "start"
  /\ visited = 0 /\ tree = {} /\ hiddenPaths = {}
  /\ frames = <<>>
  /\ job = [i \in Entry |-> "none"] /\ group = 0
  /\ placed = [i \in Entry |-> "none"] /\ under = [i \in Entry |-> 0]
  /\ exit = "none"
  /\ faults = 0
-----------------------------------------------------------------------------
Running == exit = "none"
Fault == faults < MaxFaults /\ faults' = faults + 1

(* ExitWithError panics; Execute recovers it in the main goroutine and exits *)
(* at once, whatever the other goroutines do.                                *)
MainFails == main' = "failed" /\ exit' = "1"

Place(i, what) == placed' = [placed EXCEPT ![i] = what]

(* Mistake: the goroutine adds itself to the wait group, once it runs. *)
SpawnUncounted(i, first) == job' = [job EXCEPT ![i] = first] /\ UNCHANGED group
(* wg.Add(1) and the go statement. *)
Spawn(i, first) == job' = [job EXCEPT ![i] = first] /\ group' = group + 1

(* Mistake: Done is called for an error, and again by defer. *)
JobPanicsDoneTwice(i) == job' = [job EXCEPT ![i] = "panic"] /\ group' = group - 1
(* Mistake: a goroutine logs the error and ends. *)
JobPanicsRecovered(i) == job' = [job EXCEPT ![i] = "done"] /\ group' = group - 1
JobPanics(i) == job' = [job EXCEPT ![i] = "panic"] /\ UNCHANGED group

(* Mistake: Done is called by failing goroutines only. *)
JobEndsUndone(i) == job' = [job EXCEPT ![i] = "done"] /\ UNCHANGED group
JobEnds(i) == job' = [job EXCEPT ![i] = "done"] /\ group' = group - 1
-----------------------------------------------------------------------------
(* upload-folder. *)
StartUpload ==
  /\ Running /\ main = "start" /\ command = "upload"
  /\ \/ main' = "walk" /\ UNCHANGED <<exit, faults>>
     \/ MainFails /\ Fault
  /\ UNCHANGED <<source, walk, frames, jobs, placed, under>>

Visit(i) ==
  /\ Running /\ main = "walk" /\ command = "upload"
  /\ i = visited + 1
  /\ visited' = i
  /\ UNCHANGED <<source, frames>>

PassedOver(i) == hidden[i] \/ parent[i] \in hiddenPaths

(* Mistake: what is inside a hidden directory is passed over, but a directory *)
(* there is not noted as hidden itself.                                      *)
VisitHiddenOneLevel(i) ==
  /\ Visit(i)
  /\ PassedOver(i)
  /\ hiddenPaths' = IF hidden[i] THEN hiddenPaths \cup {i} ELSE hiddenPaths
  /\ UNCHANGED <<main, tree, jobs, placed, under, exit, faults>>
VisitHidden(i) ==
  /\ Visit(i)
  /\ PassedOver(i)
  /\ hiddenPaths' = IF hidden[i] \/ dir[i] THEN hiddenPaths \cup {i} ELSE hiddenPaths
  /\ UNCHANGED <<main, tree, jobs, placed, under, exit, faults>>

(* CreateNode(i) under p: the node is there when the request succeeds, and   *)
(* may be there when it fails.                                               *)
Create(i, p, what) ==
  /\ Place(i, what)
  /\ under' = [under EXCEPT ![i] = p]

VisitFolder(i) ==
  /\ Visit(i)
  /\ ~PassedOver(i) /\ dir[i]
  /\ LET p == IF parent[i] \in tree THEN parent[i] ELSE Target IN
     \/ /\ Create(i, p, "whole")
        /\ tree' = tree \cup {i}
        /\ UNCHANGED <<main, exit, faults>>
     \/ /\ Fault /\ MainFails
        /\ Create(i, p, "whole") \/ UNCHANGED <<placed, under>>
        /\ UNCHANGED tree
  /\ UNCHANGED <<hiddenPaths, jobs>>

VisitFile(i) ==
  /\ Visit(i)
  /\ ~PassedOver(i) /\ ~dir[i]
  /\ Spawn(i, "create")
  /\ UNCHANGED <<main, tree, hiddenPaths, placed, under, exit, faults>>

(* The root or a directory cannot be read: WalkDir returns the error, which  *)
(* is reported after all uploads have ended.                                 *)
EndWalk ==
  /\ Running /\ main = "walk" /\ command = "upload"
  /\ \/ visited = N /\ main' = "wait" /\ UNCHANGED faults
     \/ visited \in {0} \cup {i \in Entry : dir[i]} /\ Fault /\ main' = "waitFailed"
  /\ UNCHANGED <<source, walk, frames, jobs, placed, under, exit>>

(* createFile: CreateNode, then the content.  The node id of the parent is    *)
(* empty when the map has none, and the request fails.                       *)
FileCreate(i) ==
  /\ Running /\ job[i] = "create"
  /\ \/ /\ parent[i] \in tree
        /\ Create(i, parent[i], "empty")
        /\ job' = [job EXCEPT ![i] = "content"]
        /\ UNCHANGED <<group, faults>>
     \/ /\ IF parent[i] \in tree THEN Fault ELSE UNCHANGED faults
        /\ JobPanics(i)
        /\ UNCHANGED <<placed, under>> \/ (parent[i] \in tree /\ Create(i, parent[i], "empty"))
  /\ UNCHANGED <<source, main, walk, frames, exit>>

(* What ExecuteUploadContent sends: when the file cannot be opened, or read   *)
(* to its end, that is logged and the pipe is closed as after the whole file. *)
(* "part" is what was read by then, perhaps nothing.                          *)
Sent(i) == IF readable[i] THEN "whole" ELSE "part"

(* The error of the local file is not in what CreateNode gets to see. *)
FileContent(i) ==
  /\ Running /\ job[i] = "content" /\ command = "upload"
  /\ \/ Place(i, Sent(i)) /\ JobEnds(i) /\ UNCHANGED faults
     \/ Fault /\ JobPanics(i) /\ (Place(i, Sent(i)) \/ UNCHANGED placed)
  /\ UNCHANGED <<source, main, walk, frames, under, exit>>
-----------------------------------------------------------------------------
(* download-folder.  getChildren takes the entries of a page in order; a page *)
(* is a request, an error of os.Mkdir is ignored.                            *)
Children(f) == {c \in Entry : parent[c] = f}
FirstPage(f) == {c \in Children(f) : Cardinality({d \in Children(f) : d < c}) < MaxItems}
HasMoreItems(f) == Cardinality(Children(f)) > MaxItems

Mkdir(f) ==
  \/ Place(f, "whole") /\ UNCHANGED faults
  \/ Fault /\ UNCHANGED placed

(* os.Mkdir and the first request of getChildren for f, called with `below`. *)
EnterFolder(f, below) ==
  \/ /\ Mkdir(f)
     /\ frames' = Append(below, [folder |-> f, todo |-> FirstPage(f)])
     /\ main' = "walk"
     /\ UNCHANGED exit
  \/ /\ Fault /\ MainFails
     /\ Place(f, "whole") \/ UNCHANGED placed
     /\ frames' = below

StartDownload ==
  /\ Running /\ main = "start" /\ command = "download"
  /\ EnterFolder(1, <<>>) \/ (Fault /\ MainFails /\ UNCHANGED <<placed, frames>>)
  /\ UNCHANGED <<source, walk, jobs, under>>

Downloading == Running /\ main = "walk" /\ command = "download"
Frame == frames[Len(frames)]
Callers == SubSeq(frames, 1, Len(frames) - 1)

(* Bound: at most one goroutine for a file at a time. *)
NextEntry(c) ==
  /\ Downloading /\ frames # <<>>
  /\ c \in Frame.todo /\ \A d \in Frame.todo : c <= d
  /\ LET rest == Append(Callers, [Frame EXCEPT !.todo = @ \ {c}]) IN
     \/ dir[c] /\ EnterFolder(c, rest) /\ UNCHANGED jobs
     \/ /\ ~dir[c] /\ job[c] \in {"none", "done"}
        /\ Spawn(c, "content")
        /\ frames' = rest
        /\ UNCHANGED <<main, placed, exit, faults>>
  /\ UNCHANGED <<source, walk, under>>

(* The loop over further pages requests the next page into another buffer    *)
(* and parses the first page again.                                          *)
MorePages ==
  /\ Downloading /\ frames # <<>> /\ Frame.todo = {}
  /\ HasMoreItems(Frame.folder)
  /\ \/ /\ frames' = Append(Callers, [Frame EXCEPT !.todo = FirstPage(Frame.folder)])
        /\ UNCHANGED <<main, exit, faults>>
     \/ Fault /\ MainFails /\ UNCHANGED frames
  /\ UNCHANGED <<source, walk, jobs, placed, under>>

LastPage ==
  /\ Downloading
  /\ \/ /\ frames # <<>> /\ Frame.todo = {} /\ ~HasMoreItems(Frame.folder)
        /\ frames' = Callers
        /\ UNCHANGED main
     \/ frames = <<>> /\ main' = "wait" /\ UNCHANGED frames
  /\ UNCHANGED <<source, walk, jobs, placed, under, exit, faults>>

(* The file is created below the working directory, whatever -d is: that     *)
(* fails where there is no folder of that name.                              *)
FileDownload(i) ==
  /\ Running /\ job[i] = "content" /\ command = "download"
  /\ \/ inPlace /\ placed[parent[i]] = "whole" /\ Place(i, "whole") /\ JobEnds(i) /\ UNCHANGED faults
     \/ inPlace /\ placed[parent[i]] # "whole" /\ JobPanics(i) /\ UNCHANGED <<placed, faults>>
     \/ ~inPlace /\ (JobEnds(i) \/ JobPanics(i)) /\ UNCHANGED <<placed, faults>>
     \/ Fault /\ JobPanics(i) /\ Place(i, "none")
  /\ UNCHANGED <<source, main, walk, frames, under, exit>>
-----------------------------------------------------------------------------
(* A panic of a goroutine runs its deferred wg.Done, then ends the process.  *)
(* The Go runtime does not let main return in between, but main may pass     *)
(* wg.Wait, and may itself fail first.                                       *)
DeferredDone(i) ==
  /\ Running /\ job[i] = "panic"
  /\ job' = [job EXCEPT ![i] = "dying"]
  /\ group' = group - 1
  /\ UNCHANGED <<source, main, walk, frames, placed, under, exit, faults>>

Crash(i) ==
  /\ Running /\ job[i] = "dying"
  /\ exit' = "2"
  /\ UNCHANGED <<source, main, walk, frames, jobs, placed, under, faults>>

WaitEnds ==
  /\ Running /\ group = 0
  /\ \/ main = "wait" /\ main' = "return" /\ UNCHANGED exit
     \/ main = "waitFailed" /\ MainFails
  /\ UNCHANGED <<source, walk, frames, jobs, placed, under, faults>>

Return ==
  /\ Running /\ main = "return"
  /\ \A i \in Entry : job[i] # "dying"
  /\ exit' = "0"
  /\ UNCHANGED <<source, main, walk, frames, jobs, placed, under, faults>>
-----------------------------------------------------------------------------
UploadMain == StartUpload \/ EndWalk \/ \E i \in Entry : VisitHidden(i) \/ VisitFolder(i) \/ VisitFile(i)
DownloadMain == StartDownload \/ MorePages \/ LastPage \/ \E c \in Entry : NextEntry(c)
MainStep == UploadMain \/ DownloadMain \/ WaitEnds \/ Return
JobStep(i) == FileCreate(i) \/ FileContent(i) \/ FileDownload(i) \/ DeferredDone(i) \/ Crash(i)

FolderNext == MainStep \/ \E i \in Entry : JobStep(i)

FolderSpec == FolderInit /\ [][FolderNext]_folderVars

(* The Go scheduler runs every goroutine, and a request ends (HttpClient).   *)
FairFolderSpec ==
  FolderSpec /\ WF_folderVars(MainStep) /\ \A i \in Entry : WF_folderVars(JobStep(i))
=============================================================================
