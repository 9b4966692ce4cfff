----------------------------- MODULE FoldersProofs -----------------------------
(***************************************************************************)
(* Proofs about FolderSpec, for trees of any size, pages of any length and   *)
(* any number of failing calls.                                              *)
(***************************************************************************)
EXTENDS FoldersProps, FiniteSetTheorems, SequenceTheorems, WellFoundedInduction, TLAPS

(* The wait group counts the goroutines that have yet to call Done. *)
Counted == {i \in Entry : job[i] \in {"create", "content", "panic"}}
Counting == group = Cardinality(Counted)

(* What the walk has visited is hidden, or has a node id, or is a file with a *)
(* goroutine; only entries of a directory that has an id are transferred.     *)
EntryProgress(i) ==
  /\ i > visited => job[i] = "none" /\ placed[i] = "none"
  /\ i \in tree => dir[i] /\ placed[i] = "whole" /\ i \notin hiddenPaths
  /\ i \in hiddenPaths => hidden[i] \/ parent[i] \in hiddenPaths
  /\ i <= visited /\ exit # "1" =>
       \/ i \in hiddenPaths \cup tree
       \/ ~dir[i] /\ (job[i] # "none" \/ parent[i] \in hiddenPaths)
  /\ job[i] # "none" => ~dir[i]
  /\ job[i] # "none" \/ placed[i] # "none" => ~hidden[i] /\ (i # 1 => parent[i] \in tree)
  /\ placed[i] # "none" => under[i] = parent[i]
  /\ dir[i] /\ placed[i] # "none" /\ exit # "1" => i \in tree
  /\ job[i] = "content" => placed[i] # "none"
  /\ job[i] = "done" => placed[i] = Sent(i)

UploadProgress ==
  command = "upload" =>
    /\ tree \subseteq 1..visited /\ hiddenPaths \subseteq 1..visited
    /\ \A i \in Entry : EntryProgress(i)

MainProgress ==
  /\ command = "upload" /\ main \in {"wait", "return"} => visited = N
  /\ main = "return" => group = 0
  /\ exit = "0" => main = "return" /\ \A i \in Entry : job[i] # "dying"

FolderInv ==
  FolderTypeOK /\ Tree(parent, dir) /\ Counting /\ UploadProgress /\ MainProgress

LEMMA EntriesFinite ==
  ASSUME NEW S \in SUBSET Entry
  PROVE  IsFiniteSet(S) /\ Cardinality(S) \in 0..N
<1>1. IsFiniteSet(Entry) /\ Cardinality(Entry) = N
  BY FS_Interval, FolderBounds DEF Entry
<1> QED BY <1>1, FS_Subset, FS_CardinalityType, FolderBounds

LEMMA FolderInitInv == FolderInit => FolderInv
<1> SUFFICES ASSUME FolderInit PROVE FolderInv
  OBVIOUS
<1> USE FolderBounds DEF FolderInit
<1>1. FolderTypeOK
  BY DEF FolderTypeOK, Entry, Frames
<1>2. Counting
  <2>1. Counted = {}
    BY DEF Counted
  <2> QED BY <2>1, FS_EmptySet DEF Counting
<1>3. UploadProgress /\ MainProgress
  BY DEF UploadProgress, EntryProgress, MainProgress, Entry
<1> QED BY <1>1, <1>2, <1>3 DEF FolderInv

(* What a step does to the goroutines: it starts one, moves one on, or lets   *)
(* one call Done.                                                             *)
Started(i) == i \notin Counted /\ Counted' = Counted \cup {i} /\ group' = group + 1
Ended(i) == i \in Counted /\ Counted' = Counted \ {i} /\ group' = group - 1
Same == Counted' = Counted /\ group' = group

LEMMA JobsStep ==
  ASSUME FolderInv, [FolderNext]_folderVars
  PROVE  (\E i \in Entry : Started(i) \/ Ended(i)) \/ Same
<1> USE DEF jobs, Counted
<1>0. job \in [Entry -> {"none", "create", "content", "panic", "dying", "done"}]
  BY DEF FolderInv, FolderTypeOK
<1>1. ASSUME NEW i \in Entry, VisitFile(i) PROVE Started(i)
  <2>1. job[i] = "none"
    BY <1>1 DEF FolderInv, VisitFile, Visit, UploadProgress, EntryProgress, Entry, FolderTypeOK
  <2> QED BY <1>0, <1>1, <2>1 DEF VisitFile, Spawn, Started
<1>2. ASSUME NEW i \in Entry, NextEntry(i) PROVE Started(i) \/ Same
  BY <1>0, <1>2 DEF NextEntry, Spawn, Started, Same
<1>3. ASSUME NEW i \in Entry, JobStep(i) PROVE Ended(i) \/ Same
  <2>1. CASE FileCreate(i)
    BY <1>0, <2>1 DEF FileCreate, JobPanics, Same
  <2>2. CASE FileContent(i)
    BY <1>0, <2>2 DEF FileContent, JobPanics, JobEnds, Ended, Same
  <2>3. CASE FileDownload(i)
    BY <1>0, <2>3 DEF FileDownload, JobPanics, JobEnds, Ended, Same
  <2>4. CASE DeferredDone(i)
    BY <1>0, <2>4 DEF DeferredDone, Ended
  <2>5. CASE Crash(i)
    BY <2>5 DEF Crash, Same
  <2> QED BY <1>3, <2>1, <2>2, <2>3, <2>4, <2>5 DEF JobStep
<1>4. ASSUME NEW i \in Entry, VisitHidden(i) \/ VisitFolder(i) PROVE Same
  BY <1>4 DEF VisitHidden, VisitFolder, Same
<1>5. CASE StartUpload \/ EndWalk \/ StartDownload \/ MorePages \/ LastPage \/ WaitEnds \/ Return
  BY <1>5 DEF StartUpload, EndWalk, StartDownload, MorePages, LastPage, WaitEnds, Return, Same
<1>6. CASE UNCHANGED folderVars
  BY <1>6 DEF folderVars, Same
<1> QED BY <1>1, <1>2, <1>3, <1>4, <1>5, <1>6 DEF FolderNext, MainStep, UploadMain, DownloadMain

LEMMA CountingStep ==
  ASSUME FolderInv, [FolderNext]_folderVars
  PROVE  Counting' /\ group' \in 0..N
<1>1. Counted \in SUBSET Entry /\ Counted' \in SUBSET Entry
  BY DEF Counted
<1>2. IsFiniteSet(Counted) /\ Cardinality(Counted) \in 0..N /\ group = Cardinality(Counted)
  BY <1>1, EntriesFinite DEF FolderInv, Counting
<1>3. Cardinality(Counted') \in 0..N
  BY <1>1, EntriesFinite
<1>4. group' = Cardinality(Counted')
  <2>1. ASSUME NEW i \in Entry, Started(i) PROVE group' = Cardinality(Counted')
    BY <1>2, <2>1, FS_AddElement DEF Started
  <2>2. ASSUME NEW i \in Entry, Ended(i) PROVE group' = Cardinality(Counted')
    BY <1>2, <2>2, FS_RemoveElement DEF Ended
  <2>3. CASE Same
    BY <1>2, <2>3 DEF Same
  <2> QED BY <2>1, <2>2, <2>3, JobsStep
<1> QED BY <1>3, <1>4 DEF Counting

(* Frames keep their type whatever getChildren does with them. *)
FrameType == [folder : Entry, todo : SUBSET Entry]

LEMMA FrameTypes ==
  ASSUME frames \in Frames, frames # <<>>
  PROVE  Frame \in FrameType /\ Callers \in Frames
<1>1. frames \in Seq(FrameType)
  BY DEF Frames, FrameType
<1>2. Len(frames) \in Nat \ {0}
  BY <1>1
<1>3. Frame \in FrameType
  BY <1>1, <1>2 DEF Frame
<1>4. SubSeq(frames, 1, Len(frames) - 1) \in Seq(FrameType)
  BY <1>1, <1>2, SubSeqProperties
<1> QED BY <1>3, <1>4 DEF Frames, FrameType, Callers

LEMMA AppendTypes ==
  ASSUME NEW below \in Frames, NEW f \in Entry, NEW todo \in SUBSET Entry
  PROVE  Append(below, [folder |-> f, todo |-> todo]) \in Frames
<1>1. [folder |-> f, todo |-> todo] \in FrameType
  BY DEF FrameType
<1> QED BY <1>1 DEF Frames, FrameType

LEMMA EnterTypes ==
  ASSUME FolderTypeOK, NEW f \in Entry, NEW below \in Frames, EnterFolder(f, below)
  PROVE  /\ frames' \in Frames /\ main' \in {"walk", "failed"}
         /\ placed' \in [Entry -> {"none", "empty", "part", "whole"}]
         /\ exit' \in {"none", "0", "1", "2"} /\ faults' \in 0..MaxFaults
<1>1. FirstPage(f) \in SUBSET Entry
  BY DEF FirstPage, Children
<1>2. frames' \in Frames
  BY <1>1, AppendTypes DEF EnterFolder
<1>3. placed' \in [Entry -> {"none", "empty", "part", "whole"}]
  BY DEF EnterFolder, Mkdir, Place, FolderTypeOK
<1>4. main' \in {"walk", "failed"} /\ exit' \in {"none", "0", "1", "2"} /\ faults' \in 0..MaxFaults
  BY FolderBounds DEF EnterFolder, Mkdir, MainFails, Fault, FolderTypeOK
<1> QED BY <1>2, <1>3, <1>4

LEMMA FolderTypes ==
  ASSUME FolderInv, [FolderNext]_folderVars
  PROVE  FolderTypeOK'
<1>0. FolderTypeOK /\ group' \in 0..N
  BY CountingStep DEF FolderInv
<1>e. Entry = 1..N /\ N \in Nat \ {0} /\ MaxFaults \in Nat
  BY FolderBounds DEF Entry
<1> USE <1>0 DEF FolderTypeOK, source, walk, jobs
<1>2. CASE StartUpload \/ EndWalk
  <2>1. faults' \in 0..MaxFaults
    BY <1>2, <1>e DEF StartUpload, EndWalk, Fault
  <2> QED BY <1>2, <2>1 DEF StartUpload, EndWalk, MainFails
<1>3. ASSUME NEW i \in Entry, VisitHidden(i) \/ VisitFile(i) PROVE FolderTypeOK'
  <2>1. visited' \in 0..N
    BY <1>3, <1>e DEF VisitHidden, VisitFile, Visit
  <2> QED BY <1>3, <2>1 DEF VisitHidden, VisitFile, Visit, Spawn
<1>4. ASSUME NEW i \in Entry, VisitFolder(i) PROVE FolderTypeOK'
  <2>1. visited' \in 0..N /\ faults' \in 0..MaxFaults
    BY <1>4, <1>e DEF VisitFolder, Visit, Fault
  <2>2. under' \in [Entry -> 0..N] /\ placed' \in [Entry -> {"none", "empty", "part", "whole"}]
    <3>1. PICK p \in 0..N : Create(i, p, "whole") \/ UNCHANGED <<placed, under>>
      <4> DEFINE p == IF parent[i] \in tree THEN parent[i] ELSE Target
      <4>1. p \in 0..N
        BY <1>e DEF Target
      <4>2. Create(i, p, "whole") \/ UNCHANGED <<placed, under>>
        BY <1>4 DEF VisitFolder
      <4> QED BY <4>1, <4>2
    <3> QED BY <3>1 DEF Create, Place
  <2> QED BY <1>4, <2>1, <2>2 DEF VisitFolder, Visit, MainFails
<1>5. ASSUME NEW i \in Entry, FileCreate(i) PROVE FolderTypeOK'
  <2>1. faults' \in 0..MaxFaults
    <3>1. faults' = faults \/ Fault
      BY <1>5 DEF FileCreate
    <3> QED BY <3>1, <1>e DEF Fault
  <2>2. under' \in [Entry -> 0..N] /\ placed' \in [Entry -> {"none", "empty", "part", "whole"}]
    BY <1>5 DEF FileCreate, Create, Place
  <2> QED BY <1>5, <2>1, <2>2 DEF FileCreate, JobPanics
<1>6. ASSUME NEW i \in Entry, FileContent(i) \/ FileDownload(i) PROVE FolderTypeOK'
  <2>1. faults' \in 0..MaxFaults
    <3>1. faults' = faults \/ Fault
      BY <1>6 DEF FileContent, FileDownload
    <3> QED BY <3>1, <1>e DEF Fault
  <2>2. placed' \in [Entry -> {"none", "empty", "part", "whole"}]
    BY <1>6 DEF FileContent, Sent, FileDownload, Place
  <2> QED BY <1>6, <2>1, <2>2 DEF FileContent, FileDownload, JobPanics, JobEnds
<1>7. ASSUME NEW i \in Entry, DeferredDone(i) \/ Crash(i) PROVE FolderTypeOK'
  BY <1>7 DEF DeferredDone, Crash
<1>8. CASE WaitEnds \/ Return
  BY <1>8 DEF WaitEnds, Return, MainFails
<1>9. CASE StartDownload
  <2>1. CASE EnterFolder(1, <<>>)
    <3>1. 1 \in Entry /\ <<>> \in Frames
      BY <1>e DEF Frames
    <3> QED BY <1>9, <2>1, <3>1, EnterTypes DEF StartDownload
  <2>2. CASE Fault /\ MainFails /\ UNCHANGED <<placed, frames>>
    BY <1>9, <1>e, <2>2 DEF StartDownload, Fault, MainFails
  <2> QED BY <1>9, <2>1, <2>2 DEF StartDownload
<1>10. ASSUME NEW c \in Entry, NextEntry(c) PROVE FolderTypeOK'
  <2> DEFINE rest == Append(Callers, [Frame EXCEPT !.todo = @ \ {c}])
  <2>1. Frame \in FrameType /\ Callers \in Frames
    BY <1>10, FrameTypes DEF NextEntry
  <2>2. [Frame EXCEPT !.todo = @ \ {c}] = [folder |-> Frame.folder, todo |-> Frame.todo \ {c}]
        /\ Frame.folder \in Entry /\ Frame.todo \ {c} \in SUBSET Entry
    BY <2>1 DEF FrameType
  <2>3. rest \in Frames
    BY <2>1, <2>2, AppendTypes
  <2> HIDE DEF rest
  <2>4. CASE EnterFolder(c, rest) /\ UNCHANGED jobs
    BY <1>10, <2>3, <2>4, EnterTypes DEF NextEntry
  <2>5. CASE Spawn(c, "content") /\ frames' = rest /\ UNCHANGED <<main, placed, exit, faults>>
    BY <1>10, <2>3, <2>5 DEF NextEntry, Spawn
  <2> QED BY <1>10, <2>4, <2>5 DEF NextEntry, rest
<1>11. CASE MorePages
  <2> DEFINE again == Append(Callers, [Frame EXCEPT !.todo = FirstPage(Frame.folder)])
  <2>1. Frame \in FrameType /\ Callers \in Frames
    BY <1>11, FrameTypes DEF MorePages
  <2>2. FirstPage(Frame.folder) \in SUBSET Entry
    BY DEF FirstPage, Children
  <2>3. [Frame EXCEPT !.todo = FirstPage(Frame.folder)]
          = [folder |-> Frame.folder, todo |-> FirstPage(Frame.folder)]
        /\ Frame.folder \in Entry
    BY <2>1 DEF FrameType
  <2>4. again \in Frames
    BY <2>1, <2>2, <2>3, AppendTypes
  <2> HIDE DEF again
  <2>5. frames' = again \/ UNCHANGED frames
    BY <1>11 DEF MorePages, again
  <2>6. frames' \in Frames
    BY <2>4, <2>5
  <2>7. main' \in {main, "failed"} /\ exit' \in {exit, "1"} /\ faults' \in 0..MaxFaults
    BY <1>11, <1>e DEF MorePages, MainFails, Fault
  <2>8. UNCHANGED <<source, walk, jobs, placed, under>>
    BY <1>11 DEF MorePages
  <2> QED BY <2>6, <2>7, <2>8
<1>12. CASE LastPage
  <2>1. frames' \in Frames
    BY <1>12, FrameTypes DEF LastPage
  <2> QED BY <1>12, <2>1 DEF LastPage
<1>13. CASE UNCHANGED folderVars
  BY <1>13 DEF folderVars
<1> QED BY <1>2, <1>3, <1>4, <1>5, <1>6, <1>7, <1>8, <1>9, <1>10, <1>11, <1>12, <1>13
    DEF FolderNext, MainStep, UploadMain, DownloadMain, JobStep

(* Nothing happens any more once the process has ended. *)
LEMMA StepsRun == FolderNext => Running
<1>1. ASSUME NEW i \in Entry, JobStep(i) PROVE Running
  BY <1>1 DEF JobStep, FileCreate, FileContent, FileDownload, DeferredDone, Crash
<1>2. ASSUME UploadMain PROVE Running
  BY <1>2 DEF UploadMain, StartUpload, EndWalk, VisitHidden, VisitFolder, VisitFile, Visit
<1>3. ASSUME DownloadMain PROVE Running
  BY <1>3 DEF DownloadMain, StartDownload, MorePages, LastPage, NextEntry, Downloading
<1>4. ASSUME WaitEnds \/ Return PROVE Running
  BY <1>4 DEF WaitEnds, Return
<1> QED BY <1>1, <1>2, <1>3, <1>4 DEF FolderNext, MainStep

(* When the counter is zero no goroutine has its Done to call. *)
LEMMA NoneCounted ==
  ASSUME FolderInv, group = 0
  PROVE  Counted = {}
<1>1. IsFiniteSet(Counted)
  <2>1. Counted \in SUBSET Entry
    BY DEF Counted
  <2> QED BY <2>1, EntriesFinite
<1> QED BY <1>1, FS_EmptySet DEF FolderInv, Counting

LEMMA MainProgressStep ==
  ASSUME FolderInv, [FolderNext]_folderVars
  PROVE  MainProgress'
<1> USE DEF MainProgress, Running, source, walk, jobs
<1>0. MainProgress
  BY DEF FolderInv
<1>1. ASSUME NEW i \in Entry, JobStep(i) PROVE MainProgress'
  <2>1. exit = "none" /\ exit' \in {"none", "2"} /\ UNCHANGED <<command, main, visited>>
    BY <1>1 DEF JobStep, FileCreate, FileContent, FileDownload, DeferredDone, Crash
  <2>2. group' = group \/ i \in Counted
    BY <1>1 DEF JobStep, FileCreate, FileContent, FileDownload, DeferredDone, Crash,
                JobPanics, Counted
  <2>3. main = "return" => group' = 0
    BY <1>0, <2>2, NoneCounted
  <2> QED BY <1>0, <2>1, <2>3
<1>2. CASE UploadMain
  <2>1. exit' # "0" /\ main' \in {main, "walk", "failed", "wait", "waitFailed"} /\ UNCHANGED command
        /\ main \in {"start", "walk"}
    BY <1>2 DEF UploadMain, StartUpload, EndWalk, VisitHidden, VisitFolder, VisitFile, Visit, MainFails
  <2>2. main' = "wait" => visited' = N
    BY <1>2 DEF UploadMain, StartUpload, EndWalk, VisitHidden, VisitFolder, VisitFile, Visit, MainFails
  <2> QED BY <2>1, <2>2
<1>3. CASE DownloadMain
  <2>1. exit' # "0" /\ main' \in {main, "walk", "failed", "wait"} /\ UNCHANGED command
        /\ main \in {"start", "walk"} /\ command = "download"
    BY <1>3 DEF DownloadMain, StartDownload, MorePages, LastPage, NextEntry, Downloading,
                EnterFolder, MainFails
  <2> QED BY <2>1
<1>4. CASE WaitEnds
  BY <1>0, <1>4 DEF WaitEnds, MainFails
<1>5. CASE Return
  BY <1>0, <1>5 DEF Return
<1>6. CASE UNCHANGED folderVars
  BY <1>0, <1>6 DEF folderVars
<1> QED BY <1>1, <1>2, <1>3, <1>4, <1>5, <1>6 DEF FolderNext, MainStep

(* The walk reaches an entry that is not hidden after its directory was made. *)
LEMMA ParentMade ==
  ASSUME FolderInv, NEW i \in Entry, Visit(i), ~PassedOver(i), i # 1
  PROVE  parent[i] \in tree
<1> USE FolderBounds
<1>1. i \in Entry \ {1} /\ exit = "none" /\ command = "upload" /\ i = visited + 1 /\ visited \in 0..N
  BY DEF Visit, Running, FolderInv, FolderTypeOK
<1>2. parent[i] \in 1..(i - 1) /\ dir[parent[i]]
  BY <1>1 DEF FolderInv, Tree
<1>3. parent[i] \in Entry /\ parent[i] <= visited
  BY <1>1, <1>2 DEF Entry
<1>4. EntryProgress(parent[i])
  BY <1>1, <1>3 DEF FolderInv, UploadProgress
<1>5. parent[i] \in hiddenPaths \cup tree
  BY <1>1, <1>2, <1>3, <1>4 DEF EntryProgress
<1> QED BY <1>5 DEF PassedOver

LEMMA VisitFolderProgress ==
  ASSUME FolderInv, NEW i \in Entry, VisitFolder(i)
  PROVE  UploadProgress'
<1>t. FolderTypeOK /\ Tree(parent, dir) /\ command = "upload" /\ UploadProgress
  BY DEF FolderInv, VisitFolder, Visit
<1>e. Entry = 1..N /\ N \in Nat \ {0} /\ visited \in 0..N
  BY <1>t, FolderBounds DEF Entry, FolderTypeOK
<1>1. /\ i = visited + 1 /\ visited' = i /\ exit = "none" /\ dir[i]
      /\ ~hidden[i] /\ parent[i] \notin hiddenPaths
      /\ UNCHANGED <<parent, dir, hidden, readable, hiddenPaths, job>>
  BY DEF VisitFolder, Visit, Running, PassedOver, source, jobs
<1>2. i # 1 => parent[i] \in tree
  BY ParentMade DEF VisitFolder
<1>3. /\ job[i] = "none" /\ placed[i] = "none"
      /\ tree \subseteq 1..visited /\ hiddenPaths \subseteq 1..visited
      /\ \A j \in Entry : EntryProgress(j)
  <2>1. tree \subseteq 1..visited /\ hiddenPaths \subseteq 1..visited
        /\ \A j \in Entry : EntryProgress(j)
    BY <1>t DEF UploadProgress
  <2>2. i > visited
    BY <1>1, <1>e
  <2> QED BY <2>1, <2>2 DEF EntryProgress
<1>4. (IF parent[i] \in tree THEN parent[i] ELSE Target) = parent[i]
  BY <1>t, <1>e, <1>2, <1>3 DEF Target, Tree
<1>5. \/ Create(i, parent[i], "whole") /\ tree' = tree \cup {i} /\ exit' = exit
      \/ tree' = tree /\ exit' = "1" /\ (Create(i, parent[i], "whole") \/ UNCHANGED <<placed, under>>)
  BY <1>4 DEF VisitFolder, MainFails
<1>6. i \notin tree /\ i \notin hiddenPaths
  BY <1>1, <1>3, <1>e
<1>7. tree' \subseteq 1..visited' /\ hiddenPaths' \subseteq 1..visited'
  <2>1. 1..visited \subseteq 1..visited' /\ i \in 1..visited'
    BY <1>1, <1>e
  <2> QED BY <1>1, <1>3, <1>5, <2>1
<1>8. placed \in [Entry -> {"none", "empty", "part", "whole"}] /\ under \in [Entry -> 0..N]
  BY <1>t DEF FolderTypeOK
<1>9. ASSUME NEW j \in Entry PROVE EntryProgress(j)'
  <2>1. CASE j = i
    BY <1>1, <1>2, <1>3, <1>5, <1>6, <1>8, <1>e, <2>1 DEF EntryProgress, Create, Place
  <2>2. CASE j # i
    <3>1. EntryProgress(j) /\ (j > visited' => j > visited) /\ (j <= visited' => j <= visited)
      BY <1>1, <1>3, <1>e, <2>2
    <3>2. placed'[j] = placed[j] /\ under'[j] = under[j]
      BY <1>5, <1>8, <2>2 DEF Create, Place
    <3>3. tree \subseteq tree' /\ (j \in tree' => j \in tree)
      BY <1>5, <2>2
    <3> QED BY <1>1, <1>5, <3>1, <3>2, <3>3 DEF EntryProgress, Sent
  <2> QED BY <2>1, <2>2
<1> QED BY <1>7, <1>9 DEF UploadProgress

LEMMA VisitOtherProgress ==
  ASSUME FolderInv, NEW i \in Entry, VisitHidden(i) \/ VisitFile(i)
  PROVE  UploadProgress'
<1>t. FolderTypeOK /\ Tree(parent, dir) /\ command = "upload" /\ UploadProgress
  BY DEF FolderInv, VisitHidden, VisitFile, Visit
<1>e. Entry = 1..N /\ N \in Nat \ {0} /\ visited \in 0..N
  BY <1>t, FolderBounds DEF Entry, FolderTypeOK
<1>1. /\ i = visited + 1 /\ visited' = i /\ exit = "none"
      /\ UNCHANGED <<parent, dir, hidden, readable, tree, placed, under, exit>>
  BY DEF VisitHidden, VisitFile, Visit, Running, source
<1>3. /\ tree \subseteq 1..visited /\ hiddenPaths \subseteq 1..visited
      /\ \A j \in Entry : EntryProgress(j)
  BY <1>t DEF UploadProgress
<1>4. job[i] = "none" /\ placed[i] = "none" /\ i \notin tree /\ i \notin hiddenPaths
  <2>1. i > visited
    BY <1>1, <1>e
  <2> QED BY <1>3, <1>e, <2>1 DEF EntryProgress
<1>5. job \in [Entry -> {"none", "create", "content", "panic", "dying", "done"}]
  BY <1>t DEF FolderTypeOK
<1>6. CASE VisitHidden(i)
  <2>1. /\ hiddenPaths' = IF hidden[i] \/ dir[i] THEN hiddenPaths \cup {i} ELSE hiddenPaths
        /\ hidden[i] \/ parent[i] \in hiddenPaths
        /\ UNCHANGED job
    BY <1>6 DEF VisitHidden, PassedOver, jobs
  <2>2. tree' \subseteq 1..visited' /\ hiddenPaths' \subseteq 1..visited'
    BY <1>1, <1>3, <1>e, <2>1
  <2>3. ASSUME NEW j \in Entry PROVE EntryProgress(j)'
    <3>1. CASE j = i
      BY <1>1, <1>4, <1>e, <2>1, <3>1 DEF EntryProgress, Sent
    <3>2. CASE j # i
      <4>1. EntryProgress(j) /\ (j > visited' => j > visited) /\ (j <= visited' => j <= visited)
        BY <1>1, <1>3, <1>e, <3>2
      <4>2. hiddenPaths \subseteq hiddenPaths' /\ (j \in hiddenPaths' => j \in hiddenPaths)
        BY <2>1, <3>2
      <4> QED BY <1>1, <2>1, <4>1, <4>2 DEF EntryProgress, Sent
    <3> QED BY <3>1, <3>2
  <2> QED BY <2>2, <2>3 DEF UploadProgress
<1>7. CASE VisitFile(i)
  <2>1. /\ ~hidden[i] /\ ~dir[i] /\ UNCHANGED hiddenPaths /\ job' = [job EXCEPT ![i] = "create"]
        /\ (i # 1 => parent[i] \in tree)
    BY <1>7, ParentMade DEF VisitFile, Spawn, PassedOver
  <2>2. tree' \subseteq 1..visited' /\ hiddenPaths' \subseteq 1..visited'
    BY <1>1, <1>3, <1>e, <2>1
  <2>3. ASSUME NEW j \in Entry PROVE EntryProgress(j)'
    <3>1. CASE j = i
      BY <1>1, <1>4, <1>5, <1>e, <2>1, <3>1 DEF EntryProgress, Sent
    <3>2. CASE j # i
      <4>1. EntryProgress(j) /\ (j > visited' => j > visited) /\ (j <= visited' => j <= visited)
        BY <1>1, <1>3, <1>e, <3>2
      <4>2. job'[j] = job[j]
        BY <1>5, <2>1, <3>2
      <4> QED BY <1>1, <2>1, <4>1, <4>2 DEF EntryProgress, Sent
    <3> QED BY <3>1, <3>2
  <2> QED BY <2>2, <2>3 DEF UploadProgress
<1> QED BY <1>6, <1>7

(* A goroutine touches the entry of its file only. *)
LEMMA JobProgress ==
  ASSUME FolderInv, command = "upload", NEW i \in Entry, JobStep(i)
  PROVE  UploadProgress'
<1>t. FolderTypeOK /\ Tree(parent, dir) /\ UploadProgress /\ exit = "none"
  BY StepsRun DEF FolderInv, FolderNext, Running
<1>0. tree \subseteq 1..visited /\ hiddenPaths \subseteq 1..visited
      /\ \A j \in Entry : EntryProgress(j)
  BY <1>t DEF UploadProgress
<1>1. UNCHANGED <<parent, dir, hidden, readable, tree, hiddenPaths, visited>> /\ exit' # "1"
  BY <1>t DEF JobStep, FileCreate, FileContent, FileDownload, DeferredDone, Crash, source, walk
<1>2. /\ job[i] # "none"
      /\ job' = [job EXCEPT ![i] = job'[i]] /\ job'[i] \in {"content", "panic", "dying", "done"}
      /\ job'[i] = "done" => placed'[i] = Sent(i)
      /\ job'[i] = "content" => placed'[i] # "none"
      /\ placed' = [placed EXCEPT ![i] = placed'[i]]
      /\ under' = [under EXCEPT ![i] = under'[i]]
      /\ under'[i] \in {under[i], parent[i]}
      /\ placed'[i] # placed[i] => placed'[i] \in {"empty", "part", "whole"}
      /\ placed[i] = "none" /\ placed'[i] # "none" => under'[i] = parent[i]
  <2>t. /\ job \in [Entry -> {"none", "create", "content", "panic", "dying", "done"}]
        /\ placed \in [Entry -> {"none", "empty", "part", "whole"}] /\ under \in [Entry -> 0..N]
    BY <1>t DEF FolderTypeOK
  <2>1. CASE FileCreate(i)
    BY <2>t, <2>1 DEF FileCreate, Create, Place, JobPanics
  <2>2. CASE FileContent(i)
    <3>1. placed[i] # "none" /\ under' = under /\ job[i] = "content"
      BY <1>0, <2>2 DEF FileContent, EntryProgress
    <3> QED BY <2>t, <2>2, <3>1 DEF FileContent, Sent, Place, JobPanics, JobEnds
  <2>4. CASE DeferredDone(i)
    BY <2>t, <2>4 DEF DeferredDone
  <2>5. CASE Crash(i)
    BY <2>t, <2>5 DEF Crash, jobs
  <2> QED BY <2>1, <2>2, <2>4, <2>5 DEF JobStep, FileDownload
<1>3. ASSUME NEW j \in Entry PROVE EntryProgress(j)'
  <2>1. CASE j = i
    BY <1>0, <1>1, <1>2, <1>t, <2>1 DEF EntryProgress, Sent
  <2>2. CASE j # i
    <3>1. job'[j] = job[j] /\ placed'[j] = placed[j] /\ under'[j] = under[j]
      BY <1>2, <1>t, <2>2 DEF FolderTypeOK
    <3> QED BY <1>0, <1>1, <1>t, <3>1 DEF EntryProgress, Sent
  <2> QED BY <2>1, <2>2
<1> QED BY <1>0, <1>1, <1>3 DEF UploadProgress

(* No step changes what is transferred. *)
LEMMA SourceStays == [FolderNext]_folderVars => UNCHANGED source
<1>1. ASSUME NEW i \in Entry, JobStep(i) PROVE UNCHANGED source
  BY <1>1 DEF JobStep, FileCreate, FileContent, FileDownload, DeferredDone, Crash
<1>2. ASSUME UploadMain PROVE UNCHANGED source
  BY <1>2 DEF UploadMain, StartUpload, EndWalk, VisitHidden, VisitFolder, VisitFile, Visit
<1>3. ASSUME DownloadMain PROVE UNCHANGED source
  BY <1>3 DEF DownloadMain, StartDownload, MorePages, LastPage, NextEntry
<1>4. ASSUME WaitEnds \/ Return \/ UNCHANGED folderVars PROVE UNCHANGED source
  BY <1>4 DEF WaitEnds, Return, folderVars
<1> QED BY <1>1, <1>2, <1>3, <1>4 DEF FolderNext, MainStep

LEMMA UploadProgressStep ==
  ASSUME FolderInv, [FolderNext]_folderVars
  PROVE  UploadProgress'
<1>0. UploadProgress /\ UNCHANGED command
  BY SourceStays DEF FolderInv, source
<1>1. CASE command # "upload"
  BY <1>0, <1>1 DEF UploadProgress
<1>2. CASE command = "upload"
  <2>1. CASE StartUpload \/ EndWalk \/ WaitEnds \/ Return \/ UNCHANGED folderVars
    <3>1. UNCHANGED <<parent, dir, hidden, readable, walk, jobs, placed, under>>
      BY <2>1 DEF StartUpload, EndWalk, WaitEnds, Return, folderVars, source
    <3>2. exit = "none" \/ exit' = exit
      BY <2>1 DEF StartUpload, EndWalk, WaitEnds, Return, folderVars, Running
    <3>3. exit' # "1" => exit # "1"
      BY <3>2
    <3>4. \A j \in Entry : EntryProgress(j) => EntryProgress(j)'
      BY <3>1, <3>3 DEF EntryProgress, Sent, walk, jobs
    <3> QED BY <1>0, <1>2, <3>1, <3>4 DEF UploadProgress, walk
  <2>2. ASSUME NEW i \in Entry, VisitHidden(i) \/ VisitFolder(i) \/ VisitFile(i) PROVE UploadProgress'
    BY <2>2, VisitFolderProgress, VisitOtherProgress
  <2>3. ASSUME NEW i \in Entry, JobStep(i) PROVE UploadProgress'
    BY <1>2, <2>3, JobProgress
  <2>4. CASE DownloadMain
    BY <1>2, <2>4 DEF DownloadMain, StartDownload, MorePages, LastPage, NextEntry, Downloading
  <2> QED BY <2>1, <2>2, <2>3, <2>4 DEF FolderNext, MainStep, UploadMain
<1> QED BY <1>1, <1>2

LEMMA FolderNextInv == FolderInv /\ [FolderNext]_folderVars => FolderInv'
<1> SUFFICES ASSUME FolderInv, [FolderNext]_folderVars PROVE FolderInv'
  OBVIOUS
<1>2. Tree(parent, dir)'
  BY SourceStays DEF FolderInv, Tree, source
<1> QED BY <1>2, FolderTypes, CountingStep, UploadProgressStep, MainProgressStep DEF FolderInv

(* FolderInv is an invariant of the folder commands. *)
THEOREM FolderInvariance == FolderSpec => []FolderInv
<1> QED BY FolderInitInv, FolderNextInv, PTL DEF FolderSpec

(* The counter of the wait group never goes below zero, whatever panics, and  *)
(* every variable keeps its type.                                            *)
THEOREM FolderTypeCorrect == FolderSpec => []FolderTypeOK
<1>1. FolderInv => FolderTypeOK
  BY DEF FolderInv
<1> QED BY <1>1, FolderInvariance, PTL

(* Every node that upload-folder makes is where it belongs. *)
THEOREM Placement == FolderSpec => []UploadedInPlace
<1>1. ASSUME FolderInv PROVE UploadedInPlace
  <2> SUFFICES ASSUME command = "upload", NEW i \in Entry, placed[i] # "none"
               PROVE  ~hidden[i] /\ under[i] = parent[i] /\ (i # 1 => placed[parent[i]] = "whole")
    BY DEF UploadedInPlace
  <2>1. tree \subseteq Entry /\ \A j \in Entry : EntryProgress(j)
    BY <1>1 DEF FolderInv, FolderTypeOK, UploadProgress
  <2> QED BY <2>1 DEF EntryProgress
<1> QED BY <1>1, FolderInvariance, PTL

(* A finished upload left out nothing but what is hidden, and what could not  *)
(* be read: every other file is there with its content.                      *)
THEOREM UploadCompleteness == FolderSpec => []UploadIsComplete
<1>1. ASSUME FolderInv PROVE UploadIsComplete
  <2> SUFFICES ASSUME command = "upload", exit = "0", NEW i \in Entry, ~hidden[i],
                      i = 1 \/ placed[parent[i]] # "none"
               PROVE  placed[i] # "none" /\ (readable[i] => placed[i] = "whole")
    BY DEF UploadIsComplete
  <2>0. N \in Nat \ {0} /\ Entry = 1..N
    BY FolderBounds DEF Entry
  <2>1. /\ visited = N /\ group = 0 /\ job[i] # "dying"
        /\ tree \subseteq Entry /\ hiddenPaths \subseteq 1..visited
        /\ \A j \in Entry : EntryProgress(j)
    BY <1>1 DEF FolderInv, FolderTypeOK, UploadProgress, MainProgress
  <2>2. job[i] \in {"none", "done"}
    BY <1>1, <2>1, NoneCounted DEF FolderInv, FolderTypeOK, Counted
  <2>3. parent[i] \notin hiddenPaths
    <3>1. CASE i = 1
      BY <1>1, <2>0, <2>1, <3>1 DEF FolderInv, Tree
    <3>2. CASE i # 1
      <4>1. parent[i] \in Entry /\ dir[parent[i]] /\ placed[parent[i]] # "none"
        BY <1>1, <2>0, <3>2 DEF FolderInv, Tree
      <4>2. parent[i] \in tree
        BY <2>1, <4>1 DEF EntryProgress
      <4> QED BY <2>1, <4>1, <4>2 DEF EntryProgress
    <3> QED BY <3>1, <3>2
  <2>4. i \in tree \/ job[i] # "none"
    BY <2>0, <2>1, <2>3 DEF EntryProgress
  <2>5. placed[i] \in {"whole", Sent(i)}
    BY <2>1, <2>2, <2>4 DEF EntryProgress
  <2> QED BY <2>5 DEF Sent
<1> QED BY <1>1, FolderInvariance, PTL

(* Main reports success when every goroutine has ended. *)
THEOREM ExitAfterJobs == FolderSpec => []ExitWaits
<1>1. ASSUME FolderInv PROVE ExitWaits
  <2> SUFFICES ASSUME exit = "0", NEW i \in Entry PROVE job[i] \in {"none", "done"}
    BY DEF ExitWaits
  <2>1. group = 0 /\ job[i] # "dying"
    BY <1>1 DEF FolderInv, MainProgress
  <2> QED BY <1>1, <2>1, NoneCounted DEF FolderInv, FolderTypeOK, Counted
<1> QED BY <1>1, FolderInvariance, PTL
-----------------------------------------------------------------------------
(* Downloads.  The folders of which getChildren has been called ("entered")   *)
(* are no variable of the program: they are the calls in progress and those   *)
(* that have returned.  Whatever is in an entered folder has been entered, or *)
(* has got its goroutine, or is still to be taken from a page; and a folder   *)
(* of several pages is never left.                                           *)
InFrames(f) == \E k \in 1..Len(frames) : frames[k].folder = f
InTodo(c) == \E k \in 1..Len(frames) : frames[k].folder = parent[c] /\ c \in frames[k].todo

Taken(entered, c) ==
  c \in entered \/ (~dir[c] /\ job[c] # "none") \/ InTodo(c) \/ HasMoreItems(parent[c])

Reached(entered) ==
  /\ entered \in SUBSET Entry /\ 1 \in entered
  /\ \A f \in entered : dir[f] /\ (HasMoreItems(f) => InFrames(f))
  /\ \A k \in 1..Len(frames) : frames[k].folder \in entered
  /\ \A c \in Entry : parent[c] \in entered => Taken(entered, c)

DownloadProgress ==
  command = "download" =>
    /\ main \in {"walk", "wait", "return"} => \E entered : Reached(entered)
    /\ main \in {"wait", "return"} => frames = <<>>
    /\ inPlace => \A i \in Entry : job[i] = "done" => placed[i] = "whole"

(* A folder of one page is listed completely. *)
LEMMA OnlyPage ==
  ASSUME NEW f \in Entry, ~HasMoreItems(f)
  PROVE  FirstPage(f) = Children(f)
<1>1. Children(f) \in SUBSET Entry /\ MaxItems \in Nat /\ N \in Nat
  BY FolderBounds DEF Children
<1>2. IsFiniteSet(Children(f)) /\ Cardinality(Children(f)) \in 0..N
  BY <1>1, EntriesFinite
<1>3. ASSUME NEW c \in Children(f) PROVE Cardinality({d \in Children(f) : d < c}) < MaxItems
  <2> DEFINE before == {d \in Children(f) : d < c}
  <2>1. before \in SUBSET Entry /\ c \in Entry
    BY <1>1
  <2>2. before \subseteq Children(f) \ {c}
    BY <2>1, <1>1 DEF Entry
  <2>3. IsFiniteSet(Children(f) \ {c}) /\ Cardinality(Children(f) \ {c}) = Cardinality(Children(f)) - 1
    BY <1>2, FS_RemoveElement
  <2>4. Cardinality(before) <= Cardinality(Children(f)) - 1
    BY <2>2, <2>3, FS_Subset
  <2>5. Cardinality(before) \in 0..N
    BY <2>1, EntriesFinite
  <2>6. Cardinality(Children(f)) <= MaxItems
    BY <1>1, <1>2 DEF HasMoreItems
  <2> QED BY <1>1, <1>2, <2>4, <2>5, <2>6
<1> QED BY <1>3 DEF FirstPage

(* getChildren goes on with another list of entries to take. *)
GoesOn(on, todo) ==
  /\ on \in Frames /\ Len(on) = Len(frames) /\ Len(frames) \in Nat \ {0}
  /\ \A k \in 1..Len(frames) : on[k].folder = frames[k].folder
  /\ \A k \in 1..Len(frames) : k # Len(frames) => on[k].todo = frames[k].todo
  /\ on[Len(frames)].todo = todo

LEMMA FrameGoesOn ==
  ASSUME frames \in Frames, frames # <<>>, NEW todo \in SUBSET Entry
  PROVE  GoesOn(Append(Callers, [folder |-> Frame.folder, todo |-> todo]), todo)
<1> DEFINE on == Append(Callers, [folder |-> Frame.folder, todo |-> todo])
<1>1. Frame \in FrameType /\ Callers \in Frames
  BY FrameTypes
<1>2. frames \in Seq(FrameType) /\ Len(frames) \in Nat \ {0}
  BY DEF Frames, FrameType
<1>3. Callers \in Seq(FrameType) /\ Len(Callers) = Len(frames) - 1
      /\ \A k \in 1..(Len(frames) - 1) : Callers[k] = frames[k]
  <2> DEFINE n == Len(frames) - 1
  <2>1. n \in Nat /\ \A i \in 1..n : frames[i] \in FrameType
    BY <1>2
  <2>2. /\ SubSeq(frames, 1, n) \in Seq(FrameType)
        /\ Len(SubSeq(frames, 1, n)) = IF 1 <= n THEN n - 1 + 1 ELSE 0
        /\ \A i \in 1..(n - 1 + 1) : SubSeq(frames, 1, n)[i] = frames[1 + i - 1]
    <3> HIDE DEF n
    <3> QED BY <2>1, SubSeqProperties
  <2>3. Callers = SubSeq(frames, 1, n)
    BY DEF Callers
  <2> HIDE DEF n
  <2>4. n - 1 + 1 = n /\ (IF 1 <= n THEN n - 1 + 1 ELSE 0) = n /\ \A i \in 1..n : 1 + i - 1 = i
    BY <2>1
  <2>5. Callers \in Seq(FrameType) /\ Len(Callers) = n /\ \A i \in 1..n : Callers[i] = frames[i]
    BY <2>2, <2>3, <2>4
  <2> QED BY <2>5 DEF n
<1>4. Frame.folder \in Entry
  BY <1>1 DEF FrameType
<1>5. on \in Frames
  BY <1>1, <1>4, AppendTypes
<1>6. [folder |-> Frame.folder, todo |-> todo] \in FrameType
  BY <1>4 DEF FrameType
<1>8. Len(on) = Len(frames) /\ on[Len(frames)] = [folder |-> Frame.folder, todo |-> todo]
      /\ \A k \in 1..(Len(frames) - 1) : on[k] = Callers[k]
  BY <1>2, <1>3, <1>6
<1>9. on[Len(frames)].folder = frames[Len(frames)].folder /\ on[Len(frames)].todo = todo
  BY <1>8 DEF Frame
<1>10. ASSUME NEW k \in 1..Len(frames) PROVE k = Len(frames) \/ on[k] = frames[k]
  BY <1>2, <1>3, <1>8
<1> SUFFICES GoesOn(on, todo)
  OBVIOUS
<1> HIDE DEF on
<1> QED BY <1>2, <1>5, <1>8, <1>9, <1>10 DEF GoesOn

(* getChildren has been called for f, and its first page has come: `below`   *)
(* are the calls in progress without that for f.                             *)
LEMMA EnteredReached ==
  ASSUME FolderTypeOK, NEW below \in Frames, NEW f \in Entry, dir[f],
         frames' = Append(below, [folder |-> f, todo |-> FirstPage(f)]),
         UNCHANGED <<source, job>>,
         NEW entered \in SUBSET Entry, 1 \in entered \cup {f},
         \A g \in entered : dir[g] /\ (HasMoreItems(g) => \E k \in 1..Len(below) : below[k].folder = g),
         \A k \in 1..Len(below) : below[k].folder \in entered,
         \A c \in Entry : parent[c] \in entered =>
            \/ c \in entered \cup {f} \/ (~dir[c] /\ job[c] # "none") \/ HasMoreItems(parent[c])
            \/ \E k \in 1..Len(below) : below[k].folder = parent[c] /\ c \in below[k].todo
  PROVE  Reached(entered \cup {f})'
<1> DEFINE new == [folder |-> f, todo |-> FirstPage(f)]
           all == entered \cup {f}
<1>1. FirstPage(f) \in SUBSET Entry
  BY DEF FirstPage, Children
<1>2. new \in FrameType /\ below \in Seq(FrameType) /\ new.folder = f /\ new.todo = FirstPage(f)
  BY <1>1 DEF FrameType, Frames
<1>3. Len(below) \in Nat /\ Len(frames') = Len(below) + 1 /\ frames'[Len(below) + 1] = new
      /\ \A k \in 1..Len(below) : frames'[k] = below[k]
  <2> HIDE DEF new
  <2>1. frames' = Append(below, new)
    BY DEF new
  <2> QED BY <1>2, <2>1
<1> HIDE DEF new
<1>4. \A g : HasMoreItems(g)' = HasMoreItems(g)
  BY DEF HasMoreItems, Children, source
<1>5. ASSUME NEW g \in all PROVE dir'[g] /\ (HasMoreItems(g)' => InFrames(g)')
  <2>1. dir'[g]
    BY DEF source
  <2>2. CASE g = f
    BY <1>2, <1>3, <2>1, <2>2 DEF InFrames
  <2>3. CASE g # f
    <3>1. HasMoreItems(g) => \E k \in 1..Len(below) : below[k].folder = g
      BY <2>3
    <3>2. \A k \in 1..Len(below) : k \in 1..Len(frames') /\ frames'[k] = below[k]
      BY <1>3
    <3> QED BY <1>4, <2>1, <3>1, <3>2 DEF InFrames
  <2> QED BY <2>2, <2>3
<1>6. ASSUME NEW k \in 1..Len(frames') PROVE frames'[k].folder \in all
  <2>1. CASE k = Len(below) + 1
    BY <1>2, <1>3, <2>1
  <2>2. CASE k # Len(below) + 1
    <3>1. k \in 1..Len(below)
      BY <1>3, <2>2
    <3> QED BY <1>3, <3>1
  <2> QED BY <2>1, <2>2
<1>7. ASSUME NEW c \in Entry, parent[c] \in all PROVE Taken(all, c)'
  <2>0. UNCHANGED <<parent, dir, job>>
    BY DEF source
  <2>1. CASE parent[c] \in entered
    <3>1. CASE \E k \in 1..Len(below) : below[k].folder = parent[c] /\ c \in below[k].todo
      <4>1. PICK k \in 1..Len(below) : below[k].folder = parent[c] /\ c \in below[k].todo
        BY <3>1
      <4>2. k \in 1..Len(frames') /\ frames'[k] = below[k]
        BY <1>3
      <4> QED BY <2>0, <4>1, <4>2 DEF Taken, InTodo
    <3>2. CASE c \in all \/ (~dir[c] /\ job[c] # "none") \/ HasMoreItems(parent[c])
      BY <1>4, <2>0, <3>2 DEF Taken
    <3> QED BY <2>1, <3>1, <3>2
  <2>2. CASE parent[c] = f /\ HasMoreItems(f)
    BY <1>4, <2>0, <2>2 DEF Taken
  <2>3. CASE parent[c] = f /\ ~HasMoreItems(f)
    <3>1. c \in FirstPage(f)
      BY <2>3, OnlyPage DEF Children
    <3>2. Len(below) + 1 \in 1..Len(frames')
      BY <1>3
    <3>3. frames'[Len(below) + 1].folder = parent'[c] /\ c \in frames'[Len(below) + 1].todo
      BY <1>2, <1>3, <2>0, <2>3, <3>1
    <3> QED BY <3>2, <3>3 DEF Taken, InTodo
  <2>4. parent[c] \in entered \/ parent[c] = f
    BY <1>7
  <2> QED BY <2>1, <2>2, <2>3, <2>4
<1>8. all \in SUBSET Entry /\ 1 \in all /\ UNCHANGED parent
  BY DEF source
<1> QED BY <1>5, <1>6, <1>7, <1>8 DEF Reached
(* A step that starts no call of getChildren. *)
LEMMA ReachedStays ==
  ASSUME NEW entered, Reached(entered), UNCHANGED source,
         \A i \in Entry : job[i] # "none" => job'[i] # "none",
         \A k \in 1..Len(frames) :
            \/ \E l \in 1..Len(frames') :
                 /\ frames'[l].folder = frames[k].folder
                 /\ \A c \in frames[k].todo :
                      c \in frames'[l].todo \/ (~dir[c] /\ job'[c] # "none") \/ HasMoreItems(frames[k].folder)
            \/ frames[k].todo = {} /\ ~HasMoreItems(frames[k].folder),
         \A l \in 1..Len(frames') : \E k \in 1..Len(frames) : frames'[l].folder = frames[k].folder
  PROVE  Reached(entered)'
<1>0. UNCHANGED <<parent, dir>>
  BY DEF source
<1>1. \A g : HasMoreItems(g)' = HasMoreItems(g)
  BY DEF HasMoreItems, Children, source
<1>2. ASSUME NEW g \in entered PROVE dir'[g] /\ (HasMoreItems(g)' => InFrames(g)')
  <2>1. dir'[g] /\ (HasMoreItems(g) => InFrames(g))
    BY <1>0 DEF Reached
  <2>2. ASSUME HasMoreItems(g) PROVE InFrames(g)'
    <3>1. PICK k \in 1..Len(frames) : frames[k].folder = g
      BY <2>1, <2>2 DEF InFrames
    <3>2. PICK l \in 1..Len(frames') : frames'[l].folder = frames[k].folder
      BY <2>2, <3>1
    <3> QED BY <3>1, <3>2 DEF InFrames
  <2> QED BY <1>1, <2>1, <2>2
<1>3. \A l \in 1..Len(frames') : frames'[l].folder \in entered
  BY DEF Reached
<1>4. ASSUME NEW c \in Entry, parent[c] \in entered PROVE Taken(entered, c)'
  <2>1. Taken(entered, c)
    BY <1>4 DEF Reached
  <2>2. CASE c \in entered \/ (~dir[c] /\ job[c] # "none") \/ HasMoreItems(parent[c])
    BY <1>0, <1>1, <2>2 DEF Taken
  <2>3. CASE InTodo(c)
    <3>1. PICK k \in 1..Len(frames) : frames[k].folder = parent[c] /\ c \in frames[k].todo
      BY <2>3 DEF InTodo
    <3>2. PICK l \in 1..Len(frames') :
            /\ frames'[l].folder = frames[k].folder
            /\ c \in frames'[l].todo \/ (~dir[c] /\ job'[c] # "none") \/ HasMoreItems(frames[k].folder)
      BY <3>1
    <3> QED BY <1>0, <1>1, <3>1, <3>2 DEF Taken, InTodo
  <2> QED BY <2>1, <2>2, <2>3 DEF Taken
<1> QED BY <1>0, <1>2, <1>3, <1>4 DEF Reached

LEMMA DownloadMainReached ==
  ASSUME FolderInv, DownloadProgress, DownloadMain, main' # "failed"
  PROVE  \E entered : Reached(entered)'
<1>t. FolderTypeOK /\ Tree(parent, dir) /\ frames \in Frames
      /\ job \in [Entry -> {"none", "create", "content", "panic", "dying", "done"}]
  BY DEF FolderInv, FolderTypeOK
<1>s. UNCHANGED source
  BY SourceStays DEF FolderNext, MainStep
<1>e. 1 \in Entry /\ dir[1]
  BY <1>t, FolderBounds DEF Entry, Tree
<1>1. CASE StartDownload
  <2>1. /\ frames' = Append(<<>>, [folder |-> 1, todo |-> FirstPage(1)])
        /\ UNCHANGED job
    BY <1>1 DEF StartDownload, EnterFolder, MainFails, jobs
  <2>2. <<>> \in Frames /\ Len(<<>>) = 0
    BY DEF Frames
  <2>3. Reached({} \cup {1})'
    <3> DEFINE below == <<>>
               entered == {}
    <3>1. /\ below \in Frames /\ entered \in SUBSET Entry /\ Len(below) = 0
          /\ frames' = Append(below, [folder |-> 1, todo |-> FirstPage(1)])
          /\ \A k \in 1..Len(below) : FALSE
          /\ \A g \in entered : FALSE
      BY <2>1, <2>2
    <3> HIDE DEF below, entered
    <3>2. Reached(entered \cup {1})'
      BY <1>t, <1>s, <1>e, <2>1, <3>1, EnteredReached
    <3> QED BY <3>2 DEF entered
  <2> QED BY <2>3
<1>2. ASSUME Downloading PROVE \E entered : Reached(entered)
  BY <1>2 DEF DownloadProgress, Downloading
<1>3. ASSUME NEW c \in Entry, NextEntry(c) PROVE \E entered : Reached(entered)'
  <2>1. PICK entered : Reached(entered)
    BY <1>2, <1>3 DEF NextEntry
  <2> DEFINE rest == Append(Callers, [Frame EXCEPT !.todo = @ \ {c}])
             todo == Frame.todo \ {c}
  <2>2. /\ frames # <<>> /\ c \in Frame.todo
        /\ \/ dir[c] /\ EnterFolder(c, rest) /\ UNCHANGED jobs
           \/ ~dir[c] /\ Spawn(c, "content") /\ frames' = rest
    BY <1>3 DEF NextEntry
  <2>3. Frame \in FrameType /\ todo \in SUBSET Entry /\ Frame = frames[Len(frames)]
    BY <1>t, <2>2, FrameTypes DEF FrameType, Frame
  <2>4. rest = Append(Callers, [folder |-> Frame.folder, todo |-> todo])
    <3>0. Frame \in FrameType
      BY <2>3
    <3>1. [Frame EXCEPT !.todo = @ \ {c}] = [folder |-> Frame.folder, todo |-> Frame.todo \ {c}]
      BY <3>0 DEF FrameType
    <3> QED BY <3>1
  <2> HIDE DEF rest, todo
  <2>5. /\ rest \in Frames /\ Len(rest) = Len(frames) /\ Len(frames) \in Nat \ {0}
        /\ \A k \in 1..Len(frames) : rest[k].folder = frames[k].folder
        /\ \A k \in 1..Len(frames) : k # Len(frames) => rest[k].todo = frames[k].todo
        /\ rest[Len(frames)].todo = todo
    <3>1. GoesOn(Append(Callers, [folder |-> Frame.folder, todo |-> todo]), todo)
      BY <1>t, <2>2, <2>3, FrameGoesOn
    <3> QED BY <2>4, <3>1 DEF GoesOn
  <2>6. \A k \in 1..Len(frames) : \A d \in frames[k].todo : d = c \/ d \in rest[k].todo
    BY <2>3, <2>5 DEF todo
  <2>7. CASE dir[c] /\ EnterFolder(c, rest) /\ UNCHANGED jobs
    <3>1. frames' = Append(rest, [folder |-> c, todo |-> FirstPage(c)]) /\ UNCHANGED job
      BY <2>7 DEF EnterFolder, MainFails, jobs
    <3>2. entered \in SUBSET Entry /\ 1 \in entered \cup {c}
      BY <2>1 DEF Reached
    <3>3. ASSUME NEW g \in entered
          PROVE  dir[g] /\ (HasMoreItems(g) => \E k \in 1..Len(rest) : rest[k].folder = g)
      BY <2>1, <2>5 DEF Reached, InFrames
    <3>4. \A k \in 1..Len(rest) : rest[k].folder \in entered
      BY <2>1, <2>5 DEF Reached
    <3>5. ASSUME NEW d \in Entry, parent[d] \in entered
          PROVE  \/ d \in entered \cup {c} \/ (~dir[d] /\ job[d] # "none") \/ HasMoreItems(parent[d])
                 \/ \E k \in 1..Len(rest) : rest[k].folder = parent[d] /\ d \in rest[k].todo
      <4>1. Taken(entered, d)
        BY <2>1, <3>5 DEF Reached
      <4>2. InTodo(d) => d = c \/ \E k \in 1..Len(rest) : rest[k].folder = parent[d] /\ d \in rest[k].todo
        BY <2>5, <2>6 DEF InTodo
      <4> QED BY <4>1, <4>2 DEF Taken
    <3>6. Reached(entered \cup {c})'
      BY <1>t, <1>s, <2>5, <2>7, <3>1, <3>2, <3>3, <3>4, <3>5, EnteredReached
    <3> QED BY <3>6
  <2>8. CASE ~dir[c] /\ Spawn(c, "content") /\ frames' = rest
    <3>1. job'[c] = "content" /\ \A i \in Entry : job[i] # "none" => job'[i] # "none"
      BY <1>t, <2>8 DEF Spawn
    <3>2. ASSUME NEW k \in 1..Len(frames)
          PROVE  /\ k \in 1..Len(frames') /\ frames'[k].folder = frames[k].folder
                 /\ \A d \in frames[k].todo : d \in frames'[k].todo \/ (~dir[d] /\ job'[d] # "none")
      BY <2>5, <2>6, <2>8, <3>1
    <3>3. ASSUME NEW l \in 1..Len(frames')
          PROVE  \E k \in 1..Len(frames) : frames'[l].folder = frames[k].folder
      BY <2>5, <2>8
    <3>4. Reached(entered)'
      BY <1>s, <2>1, <3>1, <3>2, <3>3, ReachedStays
    <3> QED BY <3>4
  <2> QED BY <2>2, <2>7, <2>8
<1>4. CASE MorePages
  <2>1. PICK entered : Reached(entered)
    BY <1>2, <1>4 DEF MorePages
  <2> DEFINE todo == FirstPage(Frame.folder)
             again == Append(Callers, [Frame EXCEPT !.todo = todo])
  <2>2. /\ frames # <<>> /\ HasMoreItems(Frame.folder) /\ UNCHANGED job
        /\ frames' = again \/ UNCHANGED frames
    BY <1>4 DEF MorePages, jobs
  <2>3. todo \in SUBSET Entry /\ Frame = frames[Len(frames)] /\ Frame \in FrameType
    BY <1>t, <2>2, FrameTypes DEF FirstPage, Children, Frame
  <2>a. again = Append(Callers, [folder |-> Frame.folder, todo |-> todo])
    <3>1. [Frame EXCEPT !.todo = todo] = [folder |-> Frame.folder, todo |-> todo]
      BY <2>3 DEF FrameType
    <3> QED BY <3>1
  <2> HIDE DEF todo, again
  <2>4. /\ Len(again) = Len(frames) /\ Len(frames) \in Nat \ {0}
        /\ \A k \in 1..Len(frames) : again[k].folder = frames[k].folder
        /\ \A k \in 1..Len(frames) : k # Len(frames) => again[k].todo = frames[k].todo
    <3>1. GoesOn(Append(Callers, [folder |-> Frame.folder, todo |-> todo]), todo)
      BY <1>t, <2>2, <2>3, FrameGoesOn
    <3> QED BY <2>a, <3>1 DEF GoesOn
  <2>5. ASSUME NEW k \in 1..Len(frames)
        PROVE  /\ k \in 1..Len(frames') /\ frames'[k].folder = frames[k].folder
               /\ \A d \in frames[k].todo : d \in frames'[k].todo \/ HasMoreItems(frames[k].folder)
    BY <2>2, <2>3, <2>4
  <2>6. ASSUME NEW l \in 1..Len(frames')
        PROVE  \E k \in 1..Len(frames) : frames'[l].folder = frames[k].folder
    BY <2>2, <2>4
  <2>7. Reached(entered)'
    BY <1>s, <2>1, <2>2, <2>5, <2>6, ReachedStays
  <2> QED BY <2>7
<1>5. CASE LastPage
  <2>1. PICK entered : Reached(entered)
    BY <1>2, <1>5 DEF LastPage
  <2>2. UNCHANGED job
    BY <1>5 DEF LastPage, jobs
  <2>3. CASE frames # <<>> /\ Frame.todo = {} /\ ~HasMoreItems(Frame.folder) /\ frames' = Callers
    <3>1. /\ Len(frames) \in Nat \ {0} /\ Len(frames') = Len(frames) - 1
          /\ \A k \in 1..(Len(frames) - 1) : frames'[k] = frames[k]
      <4>1. frames \in Seq(FrameType) /\ Len(frames) \in Nat \ {0}
        BY <1>t, <2>3 DEF Frames, FrameType
      <4> DEFINE n == Len(frames) - 1
      <4>2. n \in Nat /\ \A i \in 1..n : frames[i] \in FrameType
        BY <4>1
      <4>3. frames' = SubSeq(frames, 1, n)
        BY <2>3 DEF Callers
      <4> HIDE DEF n
      <4>4. /\ Len(frames') = IF 1 <= n THEN n - 1 + 1 ELSE 0
            /\ \A i \in 1..(n - 1 + 1) : frames'[i] = frames[1 + i - 1]
        BY <4>2, <4>3, SubSeqProperties
      <4>5. Len(frames') = n /\ \A i \in 1..n : frames'[i] = frames[i]
        BY <4>2, <4>4
      <4> QED BY <4>1, <4>5 DEF n
    <3>2. ASSUME NEW k \in 1..Len(frames), k # Len(frames)
          PROVE  k \in 1..Len(frames') /\ frames'[k] = frames[k]
      BY <3>1, <3>2
    <3>3. ASSUME NEW k \in 1..Len(frames), k = Len(frames)
          PROVE  frames[k].todo = {} /\ ~HasMoreItems(frames[k].folder)
      BY <2>3, <3>3 DEF Frame
    <3>4. ASSUME NEW k \in 1..Len(frames)
          PROVE  \/ \E l \in 1..Len(frames') :
                      /\ frames'[l].folder = frames[k].folder
                      /\ \A c \in frames[k].todo :
                           \/ c \in frames'[l].todo
                           \/ ~dir[c] /\ job'[c] # "none"
                           \/ HasMoreItems(frames[k].folder)
                 \/ frames[k].todo = {} /\ ~HasMoreItems(frames[k].folder)
      BY <3>2, <3>3
    <3>5. ASSUME NEW l \in 1..Len(frames')
          PROVE  \E k \in 1..Len(frames) : frames'[l].folder = frames[k].folder
      BY <3>1
    <3>6. Reached(entered)'
      BY <1>s, <2>1, <2>2, <3>4, <3>5, ReachedStays
    <3> QED BY <3>6
  <2>4. CASE UNCHANGED frames
    <3>1. Reached(entered)'
      BY <1>s, <2>1, <2>2, <2>4, ReachedStays
    <3> QED BY <3>1
  <2> QED BY <1>5, <2>3, <2>4 DEF LastPage
<1> QED BY <1>1, <1>3, <1>4, <1>5 DEF DownloadMain
(* A file whose goroutine has ended without a panic is there. *)
LEMMA EndedIsWhole ==
  ASSUME FolderInv, [FolderNext]_folderVars, command = "download", inPlace,
         \A i \in Entry : job[i] = "done" => placed[i] = "whole",
         NEW i \in Entry, job'[i] = "done"
  PROVE  placed'[i] = "whole"
<1>t. /\ job \in [Entry -> {"none", "create", "content", "panic", "dying", "done"}]
      /\ placed \in [Entry -> {"none", "empty", "part", "whole"}]
  BY DEF FolderInv, FolderTypeOK
<1>1. ASSUME NEW j \in Entry, JobStep(j) PROVE placed'[i] = "whole"
  <2>1. CASE FileCreate(j)
    BY <1>t, <2>1 DEF FileCreate, JobPanics, Create, Place
  <2>2. CASE FileDownload(j)
    BY <1>t, <2>2 DEF FileDownload, JobPanics, JobEnds, Place
  <2>3. CASE DeferredDone(j) \/ Crash(j)
    BY <1>t, <2>3 DEF DeferredDone, Crash, jobs
  <2> QED BY <1>1, <2>1, <2>2, <2>3 DEF JobStep, FileContent
<1>2. CASE DownloadMain
  <2>1. placed'[i] \in {placed[i], "whole"}
    BY <1>t, <1>2 DEF DownloadMain, StartDownload, NextEntry, MorePages, LastPage, EnterFolder, Mkdir, Place
  <2>2. job'[i] = job[i]
    BY <1>t, <1>2 DEF DownloadMain, StartDownload, NextEntry, MorePages, LastPage, Spawn, jobs
  <2> QED BY <2>1, <2>2
<1>3. CASE WaitEnds \/ Return \/ UNCHANGED folderVars
  BY <1>3 DEF WaitEnds, Return, folderVars, jobs
<1>4. ~UploadMain
  BY DEF UploadMain, StartUpload, EndWalk, VisitHidden, VisitFolder, VisitFile, Visit
<1> QED BY <1>1, <1>2, <1>3, <1>4 DEF FolderNext, MainStep

LEMMA DownloadProgressStep ==
  ASSUME FolderInv, DownloadProgress, [FolderNext]_folderVars
  PROVE  DownloadProgress'
<1> SUFFICES ASSUME command = "download" PROVE DownloadProgress'
  BY SourceStays DEF DownloadProgress, source
<1>s. UNCHANGED source
  BY SourceStays
<1>t. job \in [Entry -> {"none", "create", "content", "panic", "dying", "done"}]
  BY DEF FolderInv, FolderTypeOK
<1>1. inPlace' => \A i \in Entry : job'[i] = "done" => placed'[i] = "whole"
  BY <1>s, EndedIsWhole DEF DownloadProgress, source
<1>2. ASSUME UNCHANGED frames, \A i \in Entry : job[i] # "none" => job'[i] # "none",
             main' \in {"walk", "wait", "return"} => main \in {"walk", "wait", "return"}
      PROVE  main' \in {"walk", "wait", "return"} => \E entered : Reached(entered)'
  <2> SUFFICES ASSUME main \in {"walk", "wait", "return"} PROVE \E entered : Reached(entered)'
    BY <1>2
  <2>1. PICK entered : Reached(entered)
    BY DEF DownloadProgress
  <2>2. Reached(entered)'
    BY <1>s, <1>2, <2>1, ReachedStays
  <2> QED BY <2>2
<1>3. ASSUME NEW j \in Entry, JobStep(j) PROVE DownloadProgress'
  <2>1. UNCHANGED <<frames, main>> /\ \A i \in Entry : job[i] # "none" => job'[i] # "none"
    BY <1>t, <1>3 DEF JobStep, FileCreate, FileContent, FileDownload, DeferredDone, Crash,
                      JobPanics, JobEnds, jobs
  <2> QED BY <1>1, <1>2, <2>1 DEF DownloadProgress
<1>4. CASE DownloadMain
  <2>1. main' = "wait" => frames' = <<>>
    BY <1>4 DEF DownloadMain, StartDownload, NextEntry, MorePages, LastPage, Downloading,
                EnterFolder, MainFails
  <2>2. main' # "return"
    BY <1>4 DEF DownloadMain, StartDownload, NextEntry, MorePages, LastPage, Downloading,
                EnterFolder, MainFails
  <2>3. main' \in {"walk", "wait", "return"} => \E entered : Reached(entered)'
    BY <1>4, DownloadMainReached
  <2> QED BY <1>1, <2>1, <2>2, <2>3 DEF DownloadProgress
<1>5. CASE WaitEnds \/ Return \/ UNCHANGED folderVars
  <2>1. UNCHANGED <<frames, job>> /\ (main' \in {"wait", "return"} => main \in {"wait", "return"})
        /\ (main' = "walk" => main = "walk")
    BY <1>5 DEF WaitEnds, Return, folderVars, jobs, MainFails
  <2> QED BY <1>1, <1>2, <2>1 DEF DownloadProgress
<1>6. ~UploadMain
  BY DEF UploadMain, StartUpload, EndWalk, VisitHidden, VisitFolder, VisitFile, Visit
<1> QED BY <1>3, <1>4, <1>5, <1>6 DEF FolderNext, MainStep

(* The order of the walk is an induction order: an entry comes after its      *)
(* directory.                                                                *)
LEMMA LeastNumber ==
  ASSUME NEW S \in SUBSET Nat, S # {}
  PROVE  \E m \in S : \A k \in S : m <= k
<1>1. PICK m \in S : \A k \in S : <<k, m>> \notin OpToRel(<, Nat)
  BY NatLessThanWellFounded, WFMin
<1>2. \A k \in S : ~(k < m)
  BY <1>1 DEF OpToRel
<1> QED BY <1>2

(* With no call of getChildren left, the whole tree has been gone through. *)
LEMMA AllReached ==
  ASSUME FolderInv, NEW entered, Reached(entered), frames = <<>>, NEW i \in Entry
  PROVE  i \in entered \/ (~dir[i] /\ job[i] # "none")
<1> DEFINE missed == {c \in Entry : ~(c \in entered \/ (~dir[c] /\ job[c] # "none"))}
<1>e. Entry = 1..N /\ N \in Nat \ {0}
  BY FolderBounds DEF Entry
<1>1. SUFFICES ASSUME missed # {} PROVE FALSE
  OBVIOUS
<1>2. missed \in SUBSET Nat
  BY <1>e
<1>3. PICK c \in missed : \A d \in missed : c <= d
  BY <1>1, <1>2, LeastNumber
<1>4. c \in Entry /\ c # 1 /\ c \notin entered /\ ~(~dir[c] /\ job[c] # "none")
  BY <1>3 DEF Reached
<1>5. parent[c] \in 1..(c - 1) /\ dir[parent[c]]
  BY <1>4 DEF FolderInv, Tree
<1>6. parent[c] \in Entry /\ parent[c] < c
  BY <1>e, <1>4, <1>5
<1>7. parent[c] \in entered
  <2>1. parent[c] \notin missed
    BY <1>3, <1>6, <1>e
  <2> QED BY <1>5, <1>6, <2>1
<1>8. Len(frames) = 0
  OBVIOUS
<1>9. ~InTodo(c) /\ ~HasMoreItems(parent[c])
  <2>1. ~InTodo(c) /\ ~InFrames(parent[c])
    BY <1>8 DEF InTodo, InFrames
  <2> QED BY <1>7, <2>1 DEF Reached
<1> QED BY <1>4, <1>7, <1>9 DEF Reached, Taken

(* A finished download into the working directory left out no file. *)
THEOREM DownloadCompleteness == FolderSpec => []DownloadIsComplete
<1>1. FolderInit => DownloadProgress
  BY DEF FolderInit, DownloadProgress
<1>2. FolderInv /\ DownloadProgress /\ [FolderNext]_folderVars => DownloadProgress'
  BY DownloadProgressStep
<1>3. ASSUME FolderInv, DownloadProgress PROVE DownloadIsComplete
  <2> SUFFICES ASSUME command = "download", inPlace, exit = "0", NEW i \in Entry, ~dir[i]
               PROVE  placed[i] = "whole"
    BY DEF DownloadIsComplete
  <2>1. main = "return" /\ group = 0 /\ job[i] # "dying"
    BY <1>3 DEF FolderInv, MainProgress
  <2>2. PICK entered : Reached(entered)
    BY <1>3, <2>1 DEF DownloadProgress
  <2>3. frames = <<>>
    BY <1>3, <2>1 DEF DownloadProgress
  <2>4. i \in entered \/ job[i] # "none"
    BY <1>3, <2>2, <2>3, AllReached
  <2>5. job[i] # "none"
    BY <2>2, <2>4 DEF Reached
  <2>6. job[i] = "done"
    BY <1>3, <2>1, <2>5, NoneCounted DEF FolderInv, FolderTypeOK, Counted
  <2> QED BY <1>3, <2>6 DEF DownloadProgress
<1> QED BY <1>1, <1>2, <1>3, FolderInvariance, PTL DEF FolderSpec

-----------------------------------------------------------------------------
(* Why a command ends, if no folder of a download has several pages: every   *)
(* step lowers a tuple of numbers.  In the order of WalkDir, what is inside  *)
(* an entry follows it at once.                                              *)
OnePage == command = "download" => \A f \in Entry : ~HasMoreItems(f)

Inside(a, c) == a <= c /\ \A j \in (a + 1)..c : parent[j] >= a

(* What getChildren has still to come to. *)
Ahead ==
  IF command = "upload" THEN (visited + 1)..N
  ELSE {c \in Entry : \E k \in 1..Len(frames) : \E a \in frames[k].todo : Inside(a, c)}

Stage ==
  IF main = "start" THEN 4 ELSE IF main = "walk" THEN 3
  ELSE IF main \in {"wait", "waitFailed"} THEN 2 ELSE 1

(* The steps a goroutine has left. *)
StepsLeft(j) ==
  IF j = "create" THEN 4 ELSE IF j = "content" THEN 3
  ELSE IF j = "panic" THEN 2 ELSE IF j = "dying" THEN 1 ELSE 0
Work == {w \in Entry \X (1..4) : w[2] <= StepsLeft(job[w[1]])}

Measure ==
  <<IF Running THEN 1 ELSE 0, Stage, Cardinality(Ahead), Len(frames), Cardinality(Work)>>

(* That Less has no infinite descent is proved in ResolveProofs. *)
Counts == [1..5 -> Nat]
Less(a, b) == \E i \in 1..5 : a[i] < b[i] /\ \A j \in 1..(i - 1) : a[j] = b[j]

(* Nothing that is to be taken from a page is inside anything else that is. *)
Apart ==
  \A k, l \in 1..Len(frames) : \A a \in frames[k].todo, b \in frames[l].todo :
    Inside(a, b) => k = l /\ a = b

LEMMA LessAt ==
  ASSUME NEW a, NEW b, NEW i \in 1..5, a[i] < b[i], \A j \in 1..(i - 1) : a[j] = b[j]
  PROVE  Less(a, b)
  BY DEF Less

LEMMA Fewer ==
  ASSUME NEW T, IsFiniteSet(T), NEW S \in SUBSET T, NEW x \in T, x \notin S
  PROVE  Cardinality(S) \in Nat /\ Cardinality(T) \in Nat /\ Cardinality(S) < Cardinality(T)
<1>1. IsFiniteSet(T \ {x}) /\ Cardinality(T \ {x}) = Cardinality(T) - 1
  BY FS_RemoveElement
<1>2. S \in SUBSET (T \ {x})
  OBVIOUS
<1>3. IsFiniteSet(S) /\ Cardinality(S) <= Cardinality(T \ {x})
  BY <1>1, <1>2, FS_Subset
<1>4. Cardinality(S) \in Nat /\ Cardinality(T) \in Nat
  BY <1>3, FS_CardinalityType
<1> QED BY <1>1, <1>3, <1>4

(* Intervals of the walk: of two directories around an entry one is inside   *)
(* the other, and the entries of a directory are not inside each other.      *)
LEMMA InsideFacts ==
  ASSUME FolderTypeOK, Tree(parent, dir)
  PROVE  /\ \A a \in Entry : Inside(a, a)
         /\ \A a, b, c \in Entry : Inside(a, b) /\ Inside(b, c) => Inside(a, c)
         /\ \A a, b, c \in Entry : Inside(a, c) /\ Inside(b, c) => Inside(a, b) \/ Inside(b, a)
         /\ \A c, f \in Entry : parent[c] = f => Inside(f, c) /\ f < c
         /\ \A b, c, f \in Entry : parent[b] = f /\ parent[c] = f /\ Inside(b, c) => b = c
<1>1. /\ Entry \subseteq Nat /\ \A j \in Entry : parent[j] \in Nat
      /\ \A a, c \in Entry : \A j \in (a + 1)..c : j \in Entry
  BY FolderBounds DEF FolderTypeOK, Entry
<1>2. \A a \in Entry : Inside(a, a)
  BY <1>1 DEF Inside
<1>3. ASSUME NEW a \in Entry, NEW b \in Entry, NEW c \in Entry, Inside(a, b), Inside(b, c)
      PROVE  Inside(a, c)
  <2>1. a <= c
    BY <1>1, <1>3 DEF Inside
  <2>2. ASSUME NEW j \in (a + 1)..c PROVE parent[j] >= a
    <3>1. CASE j <= b
      BY <1>1, <1>3, <3>1 DEF Inside
    <3>2. CASE j > b
      <4>1. parent[j] >= b /\ parent[j] \in Nat
        BY <1>1, <1>3, <3>2 DEF Inside
      <4> QED BY <1>1, <1>3, <4>1 DEF Inside
    <3> QED BY <1>1, <3>1, <3>2
  <2> QED BY <2>1, <2>2 DEF Inside
<1>4. ASSUME NEW a \in Entry, NEW b \in Entry, NEW c \in Entry, Inside(a, c), Inside(b, c)
      PROVE  Inside(a, b) \/ Inside(b, a)
  BY <1>1, <1>4 DEF Inside
<1>5. ASSUME NEW c \in Entry, NEW f \in Entry, parent[c] = f
      PROVE  Inside(f, c) /\ f < c
  <2>1. c # 1 /\ f \in 1..(c - 1)
    BY <1>1, <1>5, FolderBounds DEF Tree, Entry
  <2>2. ASSUME NEW j \in (f + 1)..c PROVE parent[j] >= f
    <3>1. CASE j = c
      BY <1>1, <1>5, <3>1
    <3>2. CASE j # c
      <4>1. j \in Entry /\ parent[c] < j /\ j < c
        BY <1>1, <1>5, <3>2
      <4> QED BY <1>5, <4>1 DEF Tree
    <3> QED BY <3>1, <3>2
  <2> QED BY <1>1, <2>1, <2>2 DEF Inside
<1>6. ASSUME NEW b \in Entry, NEW c \in Entry, NEW f \in Entry,
             parent[b] = f, parent[c] = f, Inside(b, c)
      PROVE  b = c
  <2>1. f < b
    BY <1>5, <1>6
  <2>2. b <= c /\ (b # c => parent[c] >= b)
    BY <1>1, <1>6 DEF Inside
  <2> QED BY <1>1, <1>6, <2>1, <2>2
<1> QED BY <1>2, <1>3, <1>4, <1>5, <1>6

(* getChildren takes c: what is left was there before, or is an entry of c.  *)
Takes(c) ==
  /\ c \in frames[Len(frames)].todo
  /\ \A k \in 1..Len(frames') : \A b \in frames'[k].todo :
       \/ k \in 1..Len(frames) /\ b \in frames[k].todo /\ ~(k = Len(frames) /\ b = c)
       \/ k = Len(frames) + 1 /\ parent[b] = c

LEMMA TakesApart ==
  ASSUME FolderTypeOK, FolderTypeOK', Tree(parent, dir), Apart, NEW c \in Entry, frames # <<>>, Takes(c),
         command = "download", UNCHANGED source
  PROVE  /\ Apart'
         /\ Cardinality(Ahead') \in Nat /\ Cardinality(Ahead) \in Nat
         /\ Cardinality(Ahead') < Cardinality(Ahead)
<1>1. /\ Len(frames) \in 1..Len(frames) /\ Len(frames) \in Nat
      /\ \A k \in 1..Len(frames) : frames[k].todo \subseteq Entry
      /\ \A k \in 1..Len(frames') : frames'[k].todo \subseteq Entry
  <2>1. frames \in Seq(FrameType) /\ frames' \in Seq(FrameType)
    BY DEF FolderTypeOK, Frames, FrameType
  <2>2. \A k \in 1..Len(frames) : frames[k] \in FrameType
    BY <2>1
  <2>3. \A k \in 1..Len(frames') : frames'[k] \in FrameType
    BY <2>1
  <2> QED BY <2>1, <2>2, <2>3 DEF FrameType
<1>2. \A a, b : Inside(a, b)' <=> Inside(a, b)
  BY DEF Inside, source
<1>3. ASSUME NEW k \in 1..Len(frames'), NEW a \in frames'[k].todo, ~Inside(c, a)
      PROVE  k \in 1..Len(frames) /\ a \in frames[k].todo
  BY <1>1, <1>3, InsideFacts DEF Takes
(* What was there before is neither around c nor inside it. *)
<1>4. ASSUME NEW k \in 1..Len(frames), NEW a \in frames[k].todo, ~(k = Len(frames) /\ a = c)
      PROVE  ~Inside(a, c) /\ ~Inside(c, a)
  BY <1>1, <1>4 DEF Apart, Takes
<1>5. ASSUME NEW k \in 1..Len(frames'), NEW l \in 1..Len(frames'),
             NEW a \in frames'[k].todo, NEW b \in frames'[l].todo, Inside(a, b)
      PROVE  k = l /\ a = b
  <2>0. a \in Entry /\ b \in Entry
    BY <1>1
  <2>1. CASE k \in 1..Len(frames) /\ a \in frames[k].todo /\ ~(k = Len(frames) /\ a = c)
    <3>1. CASE l \in 1..Len(frames) /\ b \in frames[l].todo
      BY <1>5, <2>1, <3>1 DEF Apart
    <3>2. CASE parent[b] = c
      <4>1. Inside(c, b)
        BY <2>0, <3>2, InsideFacts
      <4>2. Inside(a, c) \/ Inside(c, a)
        BY <1>5, <2>0, <4>1, InsideFacts
      <4> QED BY <1>4, <2>1, <4>2
    <3> QED BY <3>1, <3>2 DEF Takes
  <2>2. CASE k = Len(frames) + 1 /\ parent[a] = c
    <3>0. Inside(c, a)
      BY <2>0, <2>2, InsideFacts
    <3>1. CASE l \in 1..Len(frames) /\ b \in frames[l].todo /\ ~(l = Len(frames) /\ b = c)
      <4>1. Inside(c, b)
        BY <1>5, <2>0, <3>0, InsideFacts
      <4> QED BY <1>4, <3>1, <4>1
    <3>2. CASE l = Len(frames) + 1 /\ parent[b] = c
      BY <1>5, <2>0, <2>2, <3>2, InsideFacts
    <3> QED BY <3>1, <3>2 DEF Takes
  <2> QED BY <2>1, <2>2 DEF Takes
<1>6. Apart'
  BY <1>2, <1>5 DEF Apart
<1>7. Ahead' \subseteq Ahead
  <2> SUFFICES ASSUME NEW d \in Entry, NEW k \in 1..Len(frames'), NEW a \in frames'[k].todo, Inside(a, d)
               PROVE  \E l \in 1..Len(frames) : \E b \in frames[l].todo : Inside(b, d)
    BY <1>2 DEF Ahead, source, Entry
  <2>1. CASE k \in 1..Len(frames) /\ a \in frames[k].todo
    BY <2>1
  <2>2. CASE parent[a] = c
    <3>1. a \in Entry /\ Inside(c, a)
      BY <1>1, <2>2, InsideFacts
    <3>2. Inside(c, d)
      BY <3>1, InsideFacts
    <3> QED BY <1>1, <3>2 DEF Takes
  <2> QED BY <2>1, <2>2 DEF Takes
<1>8. c \in Ahead
  BY <1>1, InsideFacts DEF Ahead, Takes
<1>9. c \notin Ahead'
  <2> SUFFICES ASSUME NEW k \in 1..Len(frames'), NEW a \in frames'[k].todo, Inside(a, c) PROVE FALSE
    BY <1>2 DEF Ahead, source
  <2>1. CASE k \in 1..Len(frames) /\ a \in frames[k].todo /\ ~(k = Len(frames) /\ a = c)
    BY <1>4, <2>1
  <2>2. CASE parent[a] = c
    <3>1. a \in Entry /\ c < a
      BY <1>1, <2>2, InsideFacts
    <3> QED BY <3>1, FolderBounds DEF Inside, Entry
  <2> QED BY <2>1, <2>2 DEF Takes
<1>10. IsFiniteSet(Ahead)
  <2>1. Ahead \in SUBSET Entry
    BY DEF Ahead
  <2> QED BY <2>1, EntriesFinite
<1>11. Ahead' \in SUBSET Ahead
  BY <1>7
<1>12. Cardinality(Ahead') \in Nat /\ Cardinality(Ahead) \in Nat /\ Cardinality(Ahead') < Cardinality(Ahead)
  BY <1>8, <1>9, <1>10, <1>11, Fewer
<1> QED BY <1>6, <1>12

LEMMA OneTakes ==
  ASSUME FolderTypeOK, OnePage, NEW c \in Entry, NextEntry(c)
  PROVE  Takes(c) /\ frames # <<>> /\ command = "download" /\ UNCHANGED source
<1> DEFINE rest == Append(Callers, [folder |-> Frame.folder, todo |-> Frame.todo \ {c}])
<1>1. Frame \in FrameType /\ frames # <<>> /\ frames \in Frames /\ c \in Frame.todo
      /\ command = "download" /\ UNCHANGED source
  BY FrameTypes DEF NextEntry, Downloading, FolderTypeOK
<1>2. [Frame EXCEPT !.todo = @ \ {c}] = [folder |-> Frame.folder, todo |-> Frame.todo \ {c}]
      /\ Frame.todo \ {c} \in SUBSET Entry
  <2>1. Frame \in FrameType
    BY <1>1
  <2> QED BY <2>1 DEF FrameType
<1>3. GoesOn(rest, Frame.todo \ {c})
  BY <1>1, <1>2, FrameGoesOn
<1>4. frames' = rest \/ frames' = Append(rest, [folder |-> c, todo |-> FirstPage(c)])
  BY <1>2 DEF NextEntry, EnterFolder
<1> HIDE DEF rest
<1>5. /\ rest \in Seq(FrameType) /\ Len(rest) = Len(frames) /\ Len(frames) \in Nat \ {0}
      /\ \A k \in 1..Len(frames) : k # Len(frames) => rest[k].todo = frames[k].todo
      /\ rest[Len(frames)].todo = frames[Len(frames)].todo \ {c}
  BY <1>3 DEF GoesOn, Frame, Frames, FrameType
<1>6. ASSUME NEW k \in 1..Len(frames), NEW b \in rest[k].todo
      PROVE  b \in frames[k].todo /\ ~(k = Len(frames) /\ b = c)
  BY <1>5
<1>7. CASE frames' = rest
  BY <1>1, <1>5, <1>6, <1>7 DEF Takes, Frame
<1>8. CASE frames' = Append(rest, [folder |-> c, todo |-> FirstPage(c)])
  <2> DEFINE new == [folder |-> c, todo |-> FirstPage(c)]
  <2>1. FirstPage(c) \in SUBSET Entry /\ \A b \in FirstPage(c) : parent[b] = c
    BY DEF FirstPage, Children
  <2>2. new \in FrameType /\ new.todo = FirstPage(c)
    BY <2>1 DEF FrameType
  <2> HIDE DEF new
  <2>3. frames' = Append(rest, new)
    BY <1>8 DEF new
  <2>4. /\ Len(frames') = Len(frames) + 1 /\ frames'[Len(frames) + 1] = new
        /\ \A k \in 1..Len(frames) : frames'[k] = rest[k]
    BY <1>5, <2>2, <2>3
  <2>5. ASSUME NEW k \in 1..Len(frames'), NEW b \in frames'[k].todo
        PROVE  \/ k \in 1..Len(frames) /\ b \in frames[k].todo /\ ~(k = Len(frames) /\ b = c)
               \/ k = Len(frames) + 1 /\ parent[b] = c
    <3>1. CASE k = Len(frames) + 1
      BY <2>1, <2>2, <2>4, <3>1
    <3>2. CASE k # Len(frames) + 1
      <4>1. k \in 1..Len(frames)
        BY <1>5, <2>4, <3>2
      <4> QED BY <1>6, <2>4, <4>1
    <3> QED BY <3>1, <3>2
  <2> QED BY <1>1, <2>5 DEF Takes, Frame
<1> QED BY <1>1, <1>4, <1>7, <1>8

LEMMA CallerTypes ==
  ASSUME frames \in Frames, frames # <<>>
  PROVE  /\ Len(frames) \in Nat /\ Len(Callers) \in Nat /\ Len(Callers) < Len(frames)
         /\ Len(Callers) = Len(frames) - 1
         /\ \A k \in 1..Len(Callers) : k \in 1..Len(frames) /\ Callers[k] = frames[k]
<1>1. frames \in Seq(FrameType) /\ Len(frames) \in Nat \ {0}
  BY DEF Frames, FrameType
<1> DEFINE n == Len(frames) - 1
<1>2. n \in Nat /\ \A i \in 1..n : frames[i] \in FrameType
  BY <1>1
<1>3. /\ Len(SubSeq(frames, 1, n)) = IF 1 <= n THEN n - 1 + 1 ELSE 0
      /\ \A i \in 1..(n - 1 + 1) : SubSeq(frames, 1, n)[i] = frames[1 + i - 1]
  <2> HIDE DEF n
  <2> QED BY <1>2, SubSeqProperties
<1>4. Callers = SubSeq(frames, 1, n)
  BY DEF Callers
<1> HIDE DEF n
<1>5. n - 1 + 1 = n /\ (IF 1 <= n THEN n - 1 + 1 ELSE 0) = n /\ \A i \in 1..n : 1 + i - 1 = i
  BY <1>2
<1>6. Len(Callers) = n /\ \A i \in 1..n : Callers[i] = frames[i]
  BY <1>3, <1>4, <1>5
<1> QED BY <1>1, <1>2, <1>6 DEF n

LEMMA ApartStep ==
  ASSUME FolderInv, FolderTypeOK', OnePage => Apart, [FolderNext]_folderVars
  PROVE  (OnePage => Apart)'
<1>0. FolderTypeOK /\ Tree(parent, dir)
  BY DEF FolderInv
<1>1. UNCHANGED source
  BY DEF FolderNext, MainStep, JobStep, UploadMain, DownloadMain, StartUpload, EndWalk, VisitHidden,
         VisitFolder, VisitFile, Visit, StartDownload, NextEntry, MorePages, LastPage, FileCreate,
         FileContent, FileDownload, DeferredDone, Crash, WaitEnds, Return, folderVars
<1>2. OnePage' <=> OnePage
  BY <1>1 DEF OnePage, source, HasMoreItems, Children
<1> SUFFICES ASSUME OnePage PROVE Apart'
  BY <1>2
<1>3. \A a, b : Inside(a, b)' <=> Inside(a, b)
  BY <1>1 DEF Inside, source
<1>4. CASE UNCHANGED frames
  BY <1>3, <1>4 DEF Apart
<1>5. ASSUME NEW c \in Entry, NextEntry(c) PROVE Apart'
  BY <1>0, <1>5, OneTakes, TakesApart
<1>6. CASE StartDownload
  <2>1. CASE frames' = <<>>
    <3>1. Len(frames') = 0
      BY <2>1
    <3> QED BY <3>1 DEF Apart
  <2>2. CASE frames' = Append(<<>>, [folder |-> 1, todo |-> FirstPage(1)])
    <3> DEFINE new == [folder |-> 1, todo |-> FirstPage(1)]
    <3>1. new.todo = FirstPage(1) /\ FirstPage(1) \subseteq Entry /\ \A b \in FirstPage(1) : parent[b] = 1
      BY DEF FirstPage, Children
    <3> HIDE DEF new
    <3>2. frames' = Append(<<>>, new)
      BY <2>2 DEF new
    <3>3. Len(frames') = 1 /\ frames'[1] = new
      BY <3>2
    <3>4. 1 \in Entry
      BY FolderBounds DEF Entry
    <3>5. \A a, b \in FirstPage(1) : Inside(a, b) => a = b
      BY <1>0, <3>1, <3>4, InsideFacts
    <3> QED BY <1>3, <3>1, <3>3, <3>5 DEF Apart
  <2>3. CASE UNCHANGED frames
    BY <1>4, <2>3
  <2> QED BY <1>6, <2>1, <2>2, <2>3 DEF StartDownload, EnterFolder
<1>7. CASE MorePages
  <2>1. Frame.folder \in Entry
    BY <1>0, <1>7, FrameTypes DEF MorePages, FolderTypeOK, FrameType
  <2> QED BY <1>7, <2>1 DEF MorePages, OnePage, Downloading
<1>8. CASE LastPage
  <2>1. CASE frames # <<>> /\ frames' = Callers
    <3>1. \A k \in 1..Len(frames') : k \in 1..Len(frames) /\ frames'[k] = frames[k]
      BY <1>0, <2>1, CallerTypes DEF FolderTypeOK
    <3> QED BY <1>3, <3>1 DEF Apart
  <2> QED BY <1>4, <1>8, <2>1 DEF LastPage
<1> QED BY <1>4, <1>5, <1>6, <1>7, <1>8
    DEF FolderNext, MainStep, JobStep, UploadMain, DownloadMain, StartUpload, EndWalk, VisitHidden,
        VisitFolder, VisitFile, Visit, FileCreate, FileContent, FileDownload, DeferredDone, Crash,
        WaitEnds, Return, folderVars

LEMMA WorkFinite == IsFiniteSet(Work)
<1>1. IsFiniteSet(Entry)
  <2>1. Entry \in SUBSET Entry
    OBVIOUS
  <2> QED BY <2>1, EntriesFinite
<1>2. IsFiniteSet(1..4)
  <2>1. 1 \in Int /\ 4 \in Int
    OBVIOUS
  <2> QED BY <2>1, FS_Interval, Zenon
<1>3. IsFiniteSet(Entry \X (1..4))
  BY <1>1, <1>2, FS_Product
<1>4. Work \in SUBSET (Entry \X (1..4))
  BY DEF Work
<1> QED BY <1>3, <1>4, FS_Subset

LEMMA MeasureCounts == ASSUME FolderTypeOK PROVE Measure \in Counts
<1>1. IsFiniteSet(Ahead)
  <2>1. Ahead \in SUBSET Entry
    BY FolderBounds DEF Ahead, Entry, FolderTypeOK
  <2> QED BY <2>1, EntriesFinite
<1>2. Cardinality(Ahead) \in Nat /\ Cardinality(Work) \in Nat
  BY <1>1, WorkFinite, FS_CardinalityType
<1>3. Len(frames) \in Nat /\ Stage \in Nat
  BY DEF FolderTypeOK, Frames, Stage
<1> QED BY <1>2, <1>3 DEF Measure, Counts

(* A goroutine moves on. *)
LEMMA WorkLess ==
  ASSUME FolderTypeOK, NEW i \in Entry, NEW j, job' = [job EXCEPT ![i] = j],
         StepsLeft(j) < StepsLeft(job[i])
  PROVE  Cardinality(Work') < Cardinality(Work)
<1>1. /\ job \in [Entry -> {"none", "create", "content", "panic", "dying", "done"}]
      /\ StepsLeft(j) \in 0..4 /\ \A k : StepsLeft(k) \in 0..4
  BY DEF FolderTypeOK, StepsLeft
<1>2. job'[i] = j /\ \A k \in Entry : k # i => job'[k] = job[k]
  BY <1>1
<1>3. \A k \in Entry : StepsLeft(job'[k]) <= StepsLeft(job[k])
  BY <1>1, <1>2
<1> DEFINE w == <<i, StepsLeft(job[i])>>
<1>4. w \in Work
  BY <1>1 DEF Work
<1>5. w \notin Work'
  BY <1>1, <1>2 DEF Work
<1>6. Work' \in SUBSET Work
  BY <1>1, <1>3 DEF Work
<1> QED BY <1>4, <1>5, <1>6, WorkFinite, Fewer

(* Which part of the measure a step lowers. *)
LEMMA MeasureEnds ==
  ASSUME FolderTypeOK, FolderNext, exit' # "none"
  PROVE  Less(Measure', Measure)
<1>1. Running /\ ~Running'
  BY StepsRun DEF Running
<1>2. Measure'[1] = 0 /\ Measure[1] = 1
  BY <1>1 DEF Measure
<1> QED BY <1>2, LessAt

LEMMA MeasureStage ==
  ASSUME FolderTypeOK, exit' = exit, Stage' < Stage
  PROVE  Less(Measure', Measure)
<1>1. Measure'[1] = Measure[1] /\ Measure'[2] = Stage' /\ Measure[2] = Stage
  BY DEF Measure, Running
<1> QED BY <1>1, LessAt

LEMMA MeasureAhead ==
  ASSUME FolderTypeOK, exit' = exit, Stage' = Stage, Cardinality(Ahead') < Cardinality(Ahead)
  PROVE  Less(Measure', Measure)
<1>1. /\ Measure'[1] = Measure[1] /\ Measure'[2] = Measure[2]
      /\ Measure'[3] = Cardinality(Ahead') /\ Measure[3] = Cardinality(Ahead)
  BY DEF Measure, Running
<1>2. \A k \in 1..(3 - 1) : Measure'[k] = Measure[k]
  BY <1>1
<1> QED BY <1>1, <1>2, LessAt

LEMMA MeasureFrames ==
  ASSUME FolderTypeOK, exit' = exit, Stage' = Stage, Ahead' = Ahead, Len(frames') < Len(frames)
  PROVE  Less(Measure', Measure)
<1>1. /\ Measure'[1] = Measure[1] /\ Measure'[2] = Measure[2] /\ Measure'[3] = Measure[3]
      /\ Measure'[4] = Len(frames') /\ Measure[4] = Len(frames)
  BY DEF Measure, Running
<1>2. \A k \in 1..(4 - 1) : Measure'[k] = Measure[k]
  BY <1>1
<1> QED BY <1>1, <1>2, LessAt

LEMMA MeasureJob ==
  ASSUME FolderInv, NEW i \in Entry, JobStep(i), exit' = "none"
  PROVE  Less(Measure', Measure)
<1>0. FolderTypeOK /\ exit = "none"
  BY DEF FolderInv, JobStep, FileCreate, FileContent, FileDownload, DeferredDone, Crash, Running
<1>1. UNCHANGED <<source, main, walk, frames>>
  BY DEF JobStep, FileCreate, FileContent, FileDownload, DeferredDone, Crash
<1>2. \E j : job' = [job EXCEPT ![i] = j] /\ StepsLeft(j) < StepsLeft(job[i])
  BY DEF JobStep, FileCreate, FileContent, FileDownload, DeferredDone, Crash, JobPanics, JobEnds, StepsLeft
<1>3. Cardinality(Work') < Cardinality(Work)
  BY <1>0, <1>2, WorkLess
<1>4. Ahead' = Ahead
  BY <1>1 DEF Ahead, Inside, source, walk
<1>5. /\ Measure'[1] = Measure[1] /\ Measure'[2] = Measure[2] /\ Measure'[3] = Measure[3]
      /\ Measure'[4] = Measure[4] /\ Measure'[5] = Cardinality(Work') /\ Measure[5] = Cardinality(Work)
  BY <1>0, <1>1, <1>4 DEF Measure, Running, Stage
<1>6. \A k \in 1..(5 - 1) : Measure'[k] = Measure[k]
  BY <1>5
<1> QED BY <1>3, <1>5, <1>6, LessAt

LEMMA MeasureStep ==
  ASSUME FolderInv, FolderTypeOK', OnePage, Apart, FolderNext
  PROVE  Less(Measure', Measure)
<1>0. FolderTypeOK /\ Tree(parent, dir) /\ exit = "none"
  BY StepsRun DEF FolderInv, Running
<1> SUFFICES ASSUME exit' = "none" PROVE Less(Measure', Measure)
  BY <1>0, MeasureEnds
<1>1. ASSUME NEW i \in Entry, JobStep(i) PROVE Less(Measure', Measure)
  BY <1>1, MeasureJob
<1>2. CASE StartUpload \/ StartDownload \/ EndWalk \/ WaitEnds \/ Return
  <2>1. Stage' < Stage
    BY <1>2 DEF StartUpload, StartDownload, EnterFolder, EndWalk, WaitEnds, Return, MainFails, Stage
  <2> QED BY <1>0, <2>1, MeasureStage
<1>3. ASSUME NEW i \in Entry, VisitHidden(i) \/ VisitFolder(i) \/ VisitFile(i)
      PROVE  Less(Measure', Measure)
  <2>1. /\ command = "upload" /\ UNCHANGED <<source, main>> /\ visited' = visited + 1
        /\ visited + 1 \in Entry /\ visited \in Nat
    BY <1>0, <1>3 DEF VisitHidden, VisitFolder, VisitFile, Visit, MainFails, FolderTypeOK
  <2>2. Ahead' = (visited + 1 + 1)..N /\ Ahead = (visited + 1)..N
    BY <2>1 DEF Ahead, source
  <2>3. Ahead \in SUBSET Entry /\ Ahead' \in SUBSET Ahead /\ visited + 1 \in Ahead /\ visited + 1 \notin Ahead'
    BY <2>1, <2>2, FolderBounds DEF Entry
  <2>4. Cardinality(Ahead') < Cardinality(Ahead)
    BY <2>3, EntriesFinite, Fewer
  <2>5. Stage' = Stage
    BY <2>1 DEF Stage
  <2> QED BY <1>0, <2>4, <2>5, MeasureAhead
<1>4. ASSUME NEW c \in Entry, NextEntry(c) PROVE Less(Measure', Measure)
  <2>1. Cardinality(Ahead') < Cardinality(Ahead)
    BY <1>0, <1>4, OneTakes, TakesApart
  <2>2. main = "walk" /\ main' = "walk"
    BY <1>4 DEF NextEntry, Downloading, EnterFolder, MainFails
  <2> QED BY <1>0, <2>1, <2>2, MeasureAhead DEF Stage
<1>5. CASE MorePages
  <2>1. Frame.folder \in Entry
    BY <1>0, <1>5, FrameTypes DEF MorePages, FolderTypeOK, FrameType
  <2> QED BY <1>5, <2>1 DEF MorePages, OnePage, Downloading
<1>6. CASE LastPage
  <2>1. CASE frames = <<>>
    <3>1. main = "walk" /\ main' = "wait"
      BY <1>6, <2>1 DEF LastPage, Downloading
    <3> QED BY <1>0, <3>1, MeasureStage DEF Stage
  <2>2. CASE frames # <<>>
    <3>1. /\ Frame.todo = {} /\ frames' = Callers /\ UNCHANGED <<source, main>>
          /\ command = "download"
      BY <1>6, <2>2 DEF LastPage, Downloading
    <3>2. /\ Len(frames) \in Nat /\ Len(frames') = Len(frames) - 1 /\ Len(frames') < Len(frames)
          /\ \A k \in 1..Len(frames') : k \in 1..Len(frames) /\ frames'[k] = frames[k]
      BY <1>0, <2>2, <3>1, CallerTypes DEF FolderTypeOK
    <3>3. \A k \in 1..Len(frames) : k \in 1..Len(frames') \/ frames[k].todo = {}
      BY <3>1, <3>2 DEF Frame
    <3>4. Ahead' = Ahead
      <4>1. \A a, c : Inside(a, c)' <=> Inside(a, c)
        BY <3>1 DEF Inside, source
      <4>2. \A c \in Entry : (\E k \in 1..Len(frames') : \E a \in frames'[k].todo : Inside(a, c))
              <=> (\E k \in 1..Len(frames) : \E a \in frames[k].todo : Inside(a, c))
        BY <3>2, <3>3
      <4> QED BY <3>1, <4>1, <4>2 DEF Ahead, source
    <3>5. Stage' = Stage
      BY <3>1 DEF Stage
    <3> QED BY <1>0, <3>2, <3>4, <3>5, MeasureFrames
  <2> QED BY <2>1, <2>2
<1> QED BY <1>1, <1>2, <1>3, <1>4, <1>5, <1>6 DEF FolderNext, MainStep, UploadMain, DownloadMain

(* An upload, and a download without a folder of several pages, make only so *)
(* many steps, whatever fails: every step lowers the measure, which is made   *)
(* of natural numbers.  And where main waits there is a goroutine that has    *)
(* its Done still to call, so that the wait group never blocks for good       *)
(* (upload-folder.go and download-folder.go: wg.Add, wg.Done, wg.Wait).       *)
THEOREM CommandMakesHeadway ==
  FolderSpec =>
    /\ [](Measure \in Counts)
    /\ [][OnePage => Less(Measure', Measure)]_folderVars
    /\ [](main \in {"wait", "waitFailed"} /\ group # 0 =>
            \E i \in Entry : job[i] \in {"create", "content", "panic"})
<1> DEFINE Inv == FolderInv /\ (OnePage => Apart)
           Released == main \in {"wait", "waitFailed"} /\ group # 0 =>
                         \E i \in Entry : job[i] \in {"create", "content", "panic"}
           Headway == OnePage => Less(Measure', Measure)
<1>1. FolderInit => Inv
  <2> SUFFICES ASSUME FolderInit PROVE FolderInv /\ Apart
    OBVIOUS
  <2>1. Len(frames) = 0
    BY DEF FolderInit
  <2> QED BY <2>1, FolderInitInv DEF Apart
<1>2. Inv /\ FolderInv' /\ [FolderNext]_folderVars => Inv'
  BY ApartStep DEF FolderInv
<1>3. Inv => Measure \in Counts
  BY MeasureCounts DEF FolderInv
<1>4. Inv /\ FolderInv' /\ [FolderNext]_folderVars => [Headway]_folderVars
  BY MeasureStep DEF FolderInv
<1>5. Inv => Released
  <2>1. ASSUME FolderInv, group # 0 PROVE \E i \in Entry : job[i] \in {"create", "content", "panic"}
    <3>1. Counted # {}
      BY <2>1, FS_EmptySet DEF FolderInv, Counting
    <3> QED BY <3>1 DEF Counted
  <2> QED BY <2>1
<1> HIDE DEF Inv, Headway, Released
<1>6. FolderSpec => [](Measure \in Counts) /\ [][Headway]_folderVars /\ []Released
  BY <1>1, <1>2, <1>3, <1>4, <1>5, FolderInvariance, PTL DEF FolderSpec
<1> QED BY <1>6 DEF Headway, Released
=============================================================================
