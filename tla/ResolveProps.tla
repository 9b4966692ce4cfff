------------------------------ MODULE ResolveProps ------------------------------
(* What the answer of resolve means. *)
EXTENDS Resolve

Decided == status # "none" /\ ~Refused

(* The folders that can be relied on: listed without failing, and not        *)
(* changed by another client.                                                *)
Steady(r, f) == isFolder[f] /\ f \notin changed /\ <<r, f>> \notin failed
Entries(f) == {children[f][i] : i \in 1..Len(children[f])}

(* Reference: the folders that are at most the depth limit away from a root, *)
(* and what matches in them.                                                 *)
FoldersWithin(r) ==
  LET within[d \in 0..DepthLimit(r)] ==
        IF d = 0 THEN {roots[r].node}
        ELSE LET near == within[d - 1] IN
             near \cup {c \in UNION {Entries(f) : f \in {g \in near : Steady(r, g)}} : isFolder[c]}
  IN  within[DepthLimit(r)]

MatchesIn(r, f) == {<<r, f, c>> : c \in {e \in Entries(f) : Matches(e)}}
Scope ==
  UNION {UNION {MatchesIn(r, f) : f \in {g \in FoldersWithin(r) : Steady(r, g)}} : r \in 1..Len(roots)}

Parent(i) == IF Len(found[i].path) > 1 THEN found[i].path[Len(found[i].path) - 1] ELSE 0

(* The breadth-first search leaves nothing out: when the answer is given,    *)
(* every matching entry of a steady folder within the depth limit is a       *)
(* candidate, whatever failed or changed elsewhere; and a candidate in a     *)
(* steady folder is an entry of it that matches (resolve, fetchAllChildren). *)
ScopeIsJudged ==
  Decided =>
    /\ Scope \subseteq {<<found[i].root, Parent(i), NodeOf(i)>> : i \in 1..Len(found)}
    /\ \A i \in 1..Len(found) :
         Steady(found[i].root, Parent(i)) => NodeOf(i) \in Entries(Parent(i)) /\ Matches(NodeOf(i))

(* No candidate competes with itself: an entry of a folder is a candidate    *)
(* once for each root, however many ways lead to the folder, unless the      *)
(* folder changed between two pages (visited).                               *)
CandidatesOnce ==
  \A i, j \in 1..Len(found) :
    found[i].root = found[j].root /\ Parent(i) = Parent(j) /\ NodeOf(i) = NodeOf(j)
      => i = j \/ Parent(i) \in changed

(* The margin that a winner has over everything it was chosen from. *)
Margin == IF request.unique THEN 15 ELSE 8
Unrivalled ==
  \A n \in {t[3] : t \in Scope} \ {best} : FinalScore(n) + Margin <= FinalScore(best)

(* A resolved node beats every other node that could be listed by the margin *)
(* of the policy (resolve: duplicate penalties, stable sort, second score),  *)
(* provided that more than one candidate was asked for: with one, the list is *)
(* cut before its second score is read, and one of two equal nodes is         *)
(* `resolved`.                                                                *)
ResolvedIsUnique == status = "resolved" /\ MaxCandidates > 1 => Unrivalled

(* Every request is answered: also when folders change while they are listed, *)
(* and when a page is empty although more is announced.                       *)
ResolveEnds == <>(status # "none")
=============================================================================
