-------------------------------- MODULE Resolve --------------------------------
(***************************************************************************)
(* alfresco-agent resolve, src/skills/alfresco-agent/cmd/alfresco-agent/     *)
(* main.go: one process looks for the node a request describes.  From every  *)
(* root it goes breadth first through the folders, listing each by calls of  *)
(* the CLI, page by page; then it scores what it found and decides.  Other   *)
(* clients may change folders meanwhile, and a listing may fail.             *)
(***************************************************************************)
EXTENDS Integers, Sequences, FiniteSets

CONSTANTS
  N,            \* nodes of the repository
  Repositories, \* [children, isFolder, hides]: what the repository may hold at first
  Name,         \* name of a node, as normalize() leaves it
  ScoreTables,  \* what buildCandidate may give the nodes; its path hints are left out
  RootLists,    \* scope.allowed_roots: sequences of [site, node, depth]
  Requests,     \* [named, kind, unique, max]: the rest of a request
  PageSize,     \* --maxItems of a listing
  MaxFaults,    \* bound: listings that fail
  MaxChanges    \* bound: folders that change

Node == 1..N
Paths == Seq(Node)

VARIABLES
  children,     \* of a folder, in the order in which it is listed
  isFolder, score,
  hides,        \* folders with entries the user may not see: more is always announced
  request, roots,
  root,         \* index of the root at work, 0 before the first
  queue,        \* paths of the folders to list: nodes from the root on
  visited,      \* folders dequeued, from this root
  current,      \* path of the folder that is being listed, or <<>>
  listed,       \* what its pages have shown so far
  found,        \* candidates, [root, path], in the order they were found
  status, best, \* the answer
  failed,       \* <<root, folder>>: listings that failed
  changed       \* folders that other clients have changed

question == <<isFolder, hides, score, request, roots>>
traversal == <<root, queue, visited>>
answer == <<status, best>>
resolveVars == <<children, question, traversal, current, listed, found, answer, failed, changed>>

Scores == 0..100

(* A folder lists a node once, however many folders the node is in. *)
ListsOnce(nodes) == \A i, j \in 1..Len(nodes) : nodes[i] = nodes[j] => i = j

ASSUME ResolveBounds ==
  N \in Nat \ {0} /\ PageSize \in Nat \ {0} /\ MaxFaults \in Nat /\ MaxChanges \in Nat
ASSUME ResolveInputs ==
  /\ \A R \in Repositories : \A f \in Node : ListsOnce(R.children[f])
  /\ \A R \in Repositories :
       R.children \in [Node -> Paths] /\ R.isFolder \in [Node -> BOOLEAN] /\ R.hides \subseteq Node
  /\ ScoreTables \subseteq [Node -> Scores]
  /\ RootLists \subseteq Seq([site : STRING, node : Node, depth : Int])
  /\ Requests \subseteq [named : BOOLEAN, kind : STRING, unique : BOOLEAN, max : Int]

End(path) == path[Len(path)]
Depth(path) == Len(path) - 1
DepthLimit(r) == IF roots[r].depth <= 0 THEN 4 ELSE roots[r].depth

(* The types, and that nothing below the depth limit is ever queued: the     *)
(* test of the depth after dequeuing (main.go:515) never has an effect.      *)
ResolveTypeOK ==
  /\ children \in [Node -> Paths]
  /\ isFolder \in [Node -> BOOLEAN] /\ hides \subseteq Node
  /\ score \in [Node -> Scores]
  /\ request \in Requests /\ roots \in RootLists
  /\ root \in 0..Len(roots)
  /\ queue \in Seq(Paths \ {<<>>}) /\ visited \subseteq Node
  /\ \A i \in 1..Len(queue) : Depth(queue[i]) <= DepthLimit(root)
  /\ current \in Paths /\ listed \in Paths
  /\ found \in Seq([root : 1..Len(roots), path : Paths \ {<<>>}])
  /\ status \in {"none", "resolved", "ambiguous", "not_found", "out_of_scope"}
  /\ best \in 0..N
  /\ failed \subseteq (1..Len(roots)) \X Node
  /\ changed \subseteq Node

ResolveInit ==
  /\ \E R \in Repositories : children = R.children /\ isFolder = R.isFolder /\ hides = R.hides
  /\ score \in ScoreTables
  /\ request \in Requests /\ roots \in RootLists
  /\ root = 0 /\ queue = <<>> /\ visited = {}
  /\ current = <<>> /\ listed = <<>>
  /\ found = <<>>
  /\ status = "none" /\ best = 0
  /\ failed = {} /\ changed = {}
-----------------------------------------------------------------------------
Working == status = "none"
Refused == ~request.named \/ roots = <<>>

Answer(s, node) == status' = s /\ best' = node

Refuse ==
  /\ Working /\ root = 0 /\ Refused
  /\ Answer(IF request.named THEN "out_of_scope" ELSE "not_found", 0)
  /\ UNCHANGED <<children, question, traversal, current, listed, found, failed, changed>>

(* Mistake: folders visited from the root before are taken as visited. *)
NextRootKeepsVisited ==
  /\ Working /\ ~Refused
  /\ queue = <<>> /\ current = <<>> /\ root < Len(roots)
  /\ root' = root + 1
  /\ queue' = <<<<roots[root'].node>>>>
  /\ UNCHANGED <<children, question, visited, current, listed, found, answer, failed, changed>>
NextRoot ==
  /\ Working /\ ~Refused
  /\ queue = <<>> /\ current = <<>> /\ root < Len(roots)
  /\ root' = root + 1
  /\ queue' = <<<<roots[root'].node>>>>
  /\ visited' = {}
  /\ UNCHANGED <<children, question, current, listed, found, answer, failed, changed>>

(* Mistake: no folder is remembered. *)
DequeueForgets ==
  /\ Working /\ current = <<>> /\ queue # <<>>
  /\ LET path == Head(queue) IN current' = IF Depth(path) > DepthLimit(root) THEN <<>> ELSE path
  /\ queue' = Tail(queue)
  /\ UNCHANGED <<children, question, root, visited, listed, found, answer, failed, changed>>
Dequeue ==
  /\ Working /\ current = <<>> /\ queue # <<>>
  /\ LET path == Head(queue) IN
     /\ visited' = visited \cup {End(path)}
     /\ current' = IF End(path) \in visited \/ Depth(path) > DepthLimit(root) THEN <<>> ELSE path
  /\ queue' = Tail(queue)
  /\ UNCHANGED <<children, question, root, listed, found, answer, failed, changed>>
-----------------------------------------------------------------------------
(* fetchAllChildren: one call of `alfresco node list` per page, from the     *)
(* number of entries seen so far on.                                         *)
Page == SubSeq(children[End(current)], Len(listed) + 1,
               IF Len(listed) + PageSize < Len(children[End(current)])
               THEN Len(listed) + PageSize ELSE Len(children[End(current)]))

HasMoreItems(page) ==
  End(current) \in hides \/ Len(listed) + Len(page) < Len(children[End(current)])

(* Mistake: an empty page does not end the loop. *)
LastPageTrusting(page, more) == ~more
LastPage(page, more) == ~more \/ page = <<>>

Matches(n) ==
  /\ request.kind = "file" => ~isFolder[n]
  /\ request.kind = "folder" => isFolder[n]

(* The nodes of a listing that are in S, in its order. *)
Kept(nodes, S) ==
  LET kept[i \in 0..Len(nodes)] ==
        IF i = 0 THEN <<>>
        ELSE IF nodes[i] \in S THEN Append(kept[i - 1], nodes[i]) ELSE kept[i - 1]
  IN  kept[Len(nodes)]

Below(path, nodes) == [i \in 1..Len(nodes) |-> Append(path, nodes[i])]
Candidates(paths) == [i \in 1..Len(paths) |-> [root |-> root, path |-> paths[i]]]

(* Mistake: one level more is queued. *)
DescendsMore(path) == Depth(path) <= DepthLimit(root)
Descends(path) == Depth(path) + 1 <= DepthLimit(root)

(* The body of the loop over the children of a folder. *)
Collect(path, nodes) ==
  /\ found' = found \o Candidates(Below(path, Kept(nodes, {n \in Node : Matches(n)})))
  /\ queue' = IF Descends(path)
              THEN queue \o Below(path, Kept(nodes, {n \in Node : isFolder[n]}))
              ELSE queue

FetchPage ==
  /\ Working /\ current # <<>>
  /\ \/ /\ LastPage(Page, HasMoreItems(Page))
        /\ Collect(current, listed \o Page)
        /\ current' = <<>> /\ listed' = <<>>
     \/ /\ ~LastPage(Page, HasMoreItems(Page))
        /\ listed' = listed \o Page
        /\ UNCHANGED <<queue, found, current>>
  /\ UNCHANGED <<children, question, root, visited, answer, failed, changed>>

(* The CLI fails, or prints no listing: the folder is skipped, with the pages *)
(* it has shown already.                                                     *)
FetchFails ==
  /\ Working /\ current # <<>>
  /\ Cardinality(failed) < MaxFaults
  /\ failed' = failed \cup {<<root, End(current)>>}
  /\ current' = <<>> /\ listed' = <<>>
  /\ UNCHANGED <<children, question, traversal, found, answer, changed>>
-----------------------------------------------------------------------------
NodeOf(i) == End(found[i].path)
SiteOf(i) == roots[found[i].root].site

(* applyDuplicatePenalties: 15 off a name that is found on several sites. *)
SitesOf(name) == {SiteOf(i) : i \in {j \in 1..Len(found) : Name[NodeOf(j)] = name}}
FinalScore(n) ==
  IF Cardinality(SitesOf(Name[n])) <= 1 THEN score[n]
  ELSE IF score[n] > 15 THEN score[n] - 15 ELSE 0
FinalScores == [i \in 1..Len(found) |-> FinalScore(NodeOf(i))]

(* The head of the stable sort: of the highest score, what was found first. *)
TopOf(final) ==
  CHOOSE i \in DOMAIN final :
    \A j \in DOMAIN final : final[j] < final[i] \/ (final[j] = final[i] /\ j >= i)

MaxCandidates == IF request.max <= 0 \/ request.max > 20 THEN 5 ELSE request.max

(* Taken from the list that was cut to MaxCandidates. *)
SecondScore(final, top) ==
  IF Len(final) = 1 \/ MaxCandidates = 1 THEN 0
  ELSE CHOOSE v \in {final[j] : j \in DOMAIN final \ {top}} :
         \A j \in DOMAIN final \ {top} : final[j] <= v

High(winner, delta) == winner >= 85 /\ delta >= 15
Medium(winner, delta) == winner >= 70 /\ delta >= 8

(* Mistake: a unique winner is not asked for more than another. *)
ClearIgnoresUnique(winner, delta) == High(winner, delta) \/ Medium(winner, delta)
Clear(winner, delta) == High(winner, delta) \/ (~request.unique /\ Medium(winner, delta))

Judge ==
  LET final == FinalScores
      top == TopOf(final)
  IN  \/ /\ Clear(final[top], final[top] - SecondScore(final, top))
         /\ Answer("resolved", NodeOf(top))
      \/ /\ ~Clear(final[top], final[top] - SecondScore(final, top))
         /\ Answer("ambiguous", 0)

Decide ==
  /\ Working /\ root > 0 /\ root = Len(roots) /\ queue = <<>> /\ current = <<>>
  /\ \/ found = <<>> /\ Answer("not_found", 0)
     \/ found # <<>> /\ Judge
  /\ UNCHANGED <<children, question, traversal, current, listed, found, failed, changed>>
-----------------------------------------------------------------------------
(* Another client removes an entry of a folder, or adds one.  Nothing is     *)
(* below itself.                                                             *)
Change(f) ==
  /\ Working /\ isFolder[f]
  /\ Cardinality(changed) < MaxChanges
  /\ \/ \E i \in 1..Len(children[f]) :
          children' = [children EXCEPT ![f] = SubSeq(@, 1, i - 1) \o SubSeq(@, i + 1, Len(@))]
     \/ \E c \in (f + 1)..N :
          /\ \A i \in 1..Len(children[f]) : children[f][i] # c
          /\ children' = [children EXCEPT ![f] = Append(@, c)]
  /\ changed' = changed \cup {f}
  /\ UNCHANGED <<question, traversal, current, listed, found, answer, failed>>
-----------------------------------------------------------------------------
AgentStep == Refuse \/ NextRoot \/ Dequeue \/ FetchPage \/ FetchFails \/ Decide

ResolveNext == AgentStep \/ \E f \in Node : Change(f)

ResolveSpec == ResolveInit /\ [][ResolveNext]_resolveVars

(* The CLI ends each call (HttpClient), and a process runs on. *)
FairResolveSpec == ResolveSpec /\ WF_resolveVars(AgentStep)
=============================================================================
