------------------------------ MODULE ResolveProofs ------------------------------
(* What TLAPS proves of Resolve, for every repository and every request. *)
EXTENDS ResolveProps, SequenceTheorems, FiniteSetTheorems, WellFoundedInduction, TLAPS

-----------------------------------------------------------------------------
(* Induction, over a set instead of a predicate. *)
LEMMA LeastNumber ==
  ASSUME NEW S \in SUBSET Nat, S # {}
  PROVE  \E m \in S : \A k \in S : m <= k
<1>1. PICK m \in S : \A k \in S : <<k, m>> \notin OpToRel(<, Nat)
  BY NatLessThanWellFounded, WFMin
<1>2. \A k \in S : ~(k < m)
  BY <1>1 DEF OpToRel
<1> QED BY <1>2

LEMMA SetInduction ==
  ASSUME NEW S, 0 \in S, \A n \in Nat : n \in S => n + 1 \in S
  PROVE  Nat \subseteq S
<1>1. SUFFICES ASSUME Nat \ S # {} PROVE FALSE
  OBVIOUS
<1>2. PICK m \in Nat \ S : \A k \in Nat \ S : m <= k
  BY <1>1, LeastNumber
<1>3. m # 0
  BY <1>2
<1>4. m - 1 \in Nat /\ m - 1 \in S
  BY <1>2, <1>3
<1> QED BY <1>2, <1>4

(* Kept: the recursion is well defined, and what it computes. *)
Keeps(kept, nodes, S, n) ==
  kept = [i \in 0..n |->
            IF i = 0 THEN <<>>
            ELSE IF nodes[i] \in S THEN Append(kept[i - 1], nodes[i]) ELSE kept[i - 1]]

LEMMA KeepsExists == \A nodes, S : \A n \in Nat : \E kept : Keeps(kept, nodes, S, n)
<1> SUFFICES ASSUME NEW nodes, NEW S PROVE \A n \in Nat : \E kept : Keeps(kept, nodes, S, n)
  OBVIOUS
<1> DEFINE Good == {n \in Nat : \E kept : Keeps(kept, nodes, S, n)}
<1>1. 0 \in Good
  <2>1. Keeps([i \in 0..0 |-> <<>>], nodes, S, 0)
    BY DEF Keeps
  <2> QED BY <2>1
<1>2. ASSUME NEW n \in Nat, n \in Good PROVE n + 1 \in Good
  <2>1. PICK kept : Keeps(kept, nodes, S, n)
    BY <1>2
  <2> DEFINE last == IF nodes[n + 1] \in S THEN Append(kept[n], nodes[n + 1]) ELSE kept[n]
             more == [i \in 0..(n + 1) |-> IF i = n + 1 THEN last ELSE kept[i]]
  <2>2. Keeps(more, nodes, S, n + 1)
    <3>1. SUFFICES ASSUME NEW i \in 0..(n + 1)
                   PROVE more[i] = IF i = 0 THEN <<>>
                                   ELSE IF nodes[i] \in S THEN Append(more[i - 1], nodes[i]) ELSE more[i - 1]
      BY DEF Keeps
    <3>2. CASE i = n + 1
      <4>1. more[i - 1] = kept[n] /\ more[i] = last
        BY <3>2
      <4> QED BY <3>2, <4>1
    <3>3. CASE i \in 0..n
      <4>1. kept[i] = IF i = 0 THEN <<>>
                      ELSE IF nodes[i] \in S THEN Append(kept[i - 1], nodes[i]) ELSE kept[i - 1]
        BY <2>1, <3>3 DEF Keeps
      <4>2. more[i] = kept[i] /\ (i # 0 => more[i - 1] = kept[i - 1])
        BY <3>3
      <4> QED BY <4>1, <4>2
    <3> QED BY <3>2, <3>3
  <2> QED BY <2>2
<1>3. Nat \subseteq Good
  <2> HIDE DEF Good
  <2> QED BY <1>1, <1>2, SetInduction
<1> QED BY <1>3

(* Every entry of Kept is an entry of the listing that is in S, in the order *)
(* of the listing, and no entry in S is missing.                             *)
KeptFrom(kept, nodes, S, n) ==
  /\ \A i \in 1..Len(kept) : \E k \in 1..n : kept[i] = nodes[k] /\ nodes[k] \in S
  /\ \A i, j \in 1..Len(kept) : i < j =>
       \E k, l \in 1..n : k < l /\ kept[i] = nodes[k] /\ kept[j] = nodes[l]
  /\ \A k \in 1..n : nodes[k] \in S => \E i \in 1..Len(kept) : kept[i] = nodes[k]

LEMMA KeptIsFrom ==
  ASSUME NEW T, NEW nodes \in Seq(T), NEW S
  PROVE  Kept(nodes, S) \in Seq(T) /\ KeptFrom(Kept(nodes, S), nodes, S, Len(nodes))
<1> DEFINE kept == CHOOSE kept : Keeps(kept, nodes, S, Len(nodes))
<1>a. Len(nodes) \in Nat
  OBVIOUS
<1>b. Keeps(kept, nodes, S, Len(nodes))
  BY <1>a, KeepsExists
<1>c. Kept(nodes, S) = kept[Len(nodes)]
  BY DEF Kept, Keeps
<1> HIDE DEF kept
<1>1. /\ kept[0] = <<>>
      /\ \A i \in 1..Len(nodes) :
           kept[i] = IF nodes[i] \in S THEN Append(kept[i - 1], nodes[i]) ELSE kept[i - 1]
  <2> DEFINE m == Len(nodes)
  <2>1. kept = [i \in 0..m |->
                  IF i = 0 THEN <<>>
                  ELSE IF nodes[i] \in S THEN Append(kept[i - 1], nodes[i]) ELSE kept[i - 1]]
    BY <1>b DEF Keeps
  <2> m \in Nat
    BY <1>a
  <2> HIDE DEF m
  <2>2. \A i \in 0..m : kept[i] = IF i = 0 THEN <<>>
                  ELSE IF nodes[i] \in S THEN Append(kept[i - 1], nodes[i]) ELSE kept[i - 1]
    BY <2>1, Zenon
  <2>3. kept[0] = <<>>
    BY <2>2
  <2>4. \A i \in 1..m : i \in 0..m /\ i # 0
    OBVIOUS
  <2> QED BY <2>2, <2>3, <2>4, Zenon DEF m
<1> DEFINE Good == {n \in Nat : n <= Len(nodes) => kept[n] \in Seq(T) /\ KeptFrom(kept[n], nodes, S, n)}
<1>2. 0 \in Good
  <2>1. kept[0] = <<>> /\ Len(kept[0]) = 0 /\ kept[0] \in Seq(T)
    BY <1>1
  <2>2. KeptFrom(kept[0], nodes, S, 0)
    BY <2>1 DEF KeptFrom
  <2> QED BY <2>1, <2>2
<1>3. ASSUME NEW n \in Nat, n \in Good PROVE n + 1 \in Good
  <2>1. SUFFICES ASSUME n + 1 <= Len(nodes)
                 PROVE  kept[n + 1] \in Seq(T) /\ KeptFrom(kept[n + 1], nodes, S, n + 1)
    OBVIOUS
  <2>2. kept[n + 1] = IF nodes[n + 1] \in S THEN Append(kept[n], nodes[n + 1]) ELSE kept[n]
    <3>1. n + 1 \in 1..Len(nodes) /\ (n + 1) - 1 = n
      BY <1>a, <2>1
    <3> QED BY <1>1, <3>1
  <2>3. kept[n] \in Seq(T) /\ KeptFrom(kept[n], nodes, S, n) /\ nodes[n + 1] \in T
    BY <1>3, <2>1
  <2>4. CASE nodes[n + 1] \notin S
    <3>1. kept[n + 1] = kept[n]
      BY <2>2, <2>4
    <3>2. \A k \in 1..(n + 1) : nodes[k] \in S => k \in 1..n
      BY <2>4
    <3>3. \A k \in 1..n : k \in 1..(n + 1)
      OBVIOUS
    <3>4. KeptFrom(kept[n], nodes, S, n + 1)
      <4> DEFINE old == kept[n]
      <4>1. KeptFrom(old, nodes, S, n)
        BY <2>3
      <4> HIDE DEF old
      <4>2. \A i \in 1..Len(old) : \E k \in 1..(n + 1) : old[i] = nodes[k] /\ nodes[k] \in S
        BY <3>3, <4>1 DEF KeptFrom
      <4>3. \A i, j \in 1..Len(old) : i < j =>
              \E k, l \in 1..(n + 1) : k < l /\ old[i] = nodes[k] /\ old[j] = nodes[l]
        BY <3>3, <4>1 DEF KeptFrom
      <4>4. \A k \in 1..(n + 1) : nodes[k] \in S => \E i \in 1..Len(old) : old[i] = nodes[k]
        BY <3>2, <4>1 DEF KeptFrom
      <4>5. KeptFrom(old, nodes, S, n + 1)
        BY <4>2, <4>3, <4>4 DEF KeptFrom
      <4> QED BY <4>5 DEF old
    <3> QED BY <2>3, <3>1, <3>4
  <2>5. CASE nodes[n + 1] \in S
    <3> DEFINE old == kept[n]
               new == kept[n + 1]
    <3>1. /\ new \in Seq(T) /\ Len(new) = Len(old) + 1 /\ Len(old) \in Nat
          /\ new[Len(old) + 1] = nodes[n + 1]
          /\ \A i \in 1..Len(old) : new[i] = old[i]
      BY <2>2, <2>3, <2>5
    <3> HIDE DEF old, new
    <3>2. KeptFrom(old, nodes, S, n)
      BY <2>3 DEF old
    <3>a. /\ \A i \in 1..Len(old) : \E k \in 1..n : old[i] = nodes[k] /\ nodes[k] \in S
          /\ \A i \in 1..Len(new) : i \in 1..Len(old) \/ i = Len(old) + 1
          /\ \A k \in 1..n : k \in 1..(n + 1) /\ k < n + 1
          /\ n + 1 \in 1..(n + 1)
      BY <3>1, <3>2 DEF KeptFrom
    <3>3. \A i \in 1..Len(new) : \E k \in 1..(n + 1) : new[i] = nodes[k] /\ nodes[k] \in S
      <4> SUFFICES ASSUME NEW i \in 1..Len(new)
                   PROVE  \E k \in 1..(n + 1) : new[i] = nodes[k] /\ nodes[k] \in S
        OBVIOUS
      <4>1. CASE i = Len(old) + 1
        BY <2>5, <3>1, <3>a, <4>1
      <4>2. CASE i \in 1..Len(old)
        <5>1. PICK k \in 1..n : old[i] = nodes[k] /\ nodes[k] \in S
          BY <3>a, <4>2
        <5> QED BY <3>1, <3>a, <4>2, <5>1
      <4> QED BY <3>a, <4>1, <4>2
    <3>4. ASSUME NEW i \in 1..Len(new), NEW j \in 1..Len(new), i < j
          PROVE  \E k, l \in 1..(n + 1) : k < l /\ new[i] = nodes[k] /\ new[j] = nodes[l]
      <4>1. CASE j = Len(old) + 1
        <5>a. i \in 1..Len(old)
          BY <3>1, <3>4, <4>1
        <5>1. PICK k \in 1..n : old[i] = nodes[k]
          BY <3>a, <5>a
        <5>2. k < n + 1 /\ new[i] = nodes[k] /\ new[j] = nodes[n + 1]
          BY <3>1, <4>1, <5>a, <5>1
        <5> QED BY <3>a, <5>2
      <4>2. CASE j # Len(old) + 1
        <5>1. i \in 1..Len(old) /\ j \in 1..Len(old)
          BY <3>1, <3>4, <4>2
        <5>2. PICK k \in 1..n, l \in 1..n : k < l /\ old[i] = nodes[k] /\ old[j] = nodes[l]
          BY <3>2, <3>4, <5>1 DEF KeptFrom
        <5> QED BY <3>1, <3>a, <5>1, <5>2
      <4> QED BY <4>1, <4>2
    <3>5. ASSUME NEW k \in 1..(n + 1), nodes[k] \in S
          PROVE  \E i \in 1..Len(new) : new[i] = nodes[k]
      <4>1. CASE k = n + 1
        BY <3>1, <4>1
      <4>2. CASE k \in 1..n
        <5>1. PICK i \in 1..Len(old) : old[i] = nodes[k]
          BY <3>2, <3>5, <4>2 DEF KeptFrom
        <5> QED BY <3>1, <5>1
      <4> QED BY <4>1, <4>2
    <3>6. KeptFrom(new, nodes, S, n + 1)
      BY <3>3, <3>4, <3>5 DEF KeptFrom
    <3> QED BY <3>1, <3>6 DEF new
  <2> QED BY <2>4, <2>5
<1>4. Nat \subseteq Good
  <2> HIDE DEF Good
  <2> QED BY <1>2, <1>3, SetInduction
<1> QED BY <1>a, <1>c, <1>4

LEMMA KeptOnce ==
  ASSUME NEW T, NEW nodes \in Seq(T), NEW S, ListsOnce(nodes)
  PROVE  ListsOnce(Kept(nodes, S))
<1> DEFINE kept == Kept(nodes, S)
<1>1. kept \in Seq(T) /\ KeptFrom(kept, nodes, S, Len(nodes))
  BY KeptIsFrom
<1> HIDE DEF kept
<1>2. ASSUME NEW i \in 1..Len(kept), NEW j \in 1..Len(kept), i < j
      PROVE  kept[i] # kept[j]
  <2>1. PICK k \in 1..Len(nodes), l \in 1..Len(nodes) : k < l /\ kept[i] = nodes[k] /\ kept[j] = nodes[l]
    BY <1>1, <1>2 DEF KeptFrom
  <2> QED BY <2>1 DEF ListsOnce
<1>3. \A i, j \in 1..Len(kept) : kept[i] = kept[j] => i = j
  BY <1>1, <1>2
<1> QED BY <1>3 DEF ListsOnce, kept

-----------------------------------------------------------------------------
(* Types. *)
Found == [root : 1..Len(roots), path : Paths \ {<<>>}]
Active == queue # <<>> \/ current # <<>> => root > 0
TypeInv == ResolveTypeOK /\ Active

LEMMA InputTypes ==
  ASSUME ResolveTypeOK
  PROVE  /\ Len(roots) \in Nat
         /\ \A r \in 1..Len(roots) : roots[r].node \in Node /\ DepthLimit(r) \in Nat \ {0}
         /\ request.unique \in BOOLEAN /\ request.max \in Int
         /\ \A f \in Node : children[f] \in Paths
<1>1. roots \in Seq([site : STRING, node : Node, depth : Int])
  BY ResolveInputs DEF ResolveTypeOK
<1>2. \A r \in 1..Len(roots) : roots[r] \in [site : STRING, node : Node, depth : Int]
  BY <1>1, ElementOfSeq, Zenon
<1>3. \A r \in 1..Len(roots) : roots[r].node \in Node /\ DepthLimit(r) \in Nat \ {0}
  BY <1>2 DEF DepthLimit
<1>4. request \in [named : BOOLEAN, kind : STRING, unique : BOOLEAN, max : Int]
  BY ResolveInputs DEF ResolveTypeOK
<1> QED BY <1>1, <1>3, <1>4 DEF ResolveTypeOK

LEMMA BelowTypes ==
  ASSUME NEW path \in Paths \ {<<>>}, NEW nodes \in Paths
  PROVE  /\ Below(path, nodes) \in Seq(Paths \ {<<>>})
         /\ Len(Below(path, nodes)) = Len(nodes)
         /\ \A i \in 1..Len(nodes) :
              /\ Below(path, nodes)[i] = Append(path, nodes[i])
              /\ End(Below(path, nodes)[i]) = nodes[i]
              /\ Depth(Below(path, nodes)[i]) = Depth(path) + 1
              /\ Below(path, nodes)[i][Len(Below(path, nodes)[i]) - 1] = End(path)
<1>1. Len(nodes) \in Nat /\ Len(path) \in Nat \ {0}
  BY DEF Paths
<1>2. ASSUME NEW i \in 1..Len(nodes)
      PROVE  /\ Append(path, nodes[i]) \in Paths \ {<<>>}
             /\ Len(Append(path, nodes[i])) = Len(path) + 1
             /\ Append(path, nodes[i])[Len(path) + 1] = nodes[i]
             /\ Append(path, nodes[i])[Len(path)] = path[Len(path)]
  BY <1>1 DEF Paths
<1>3. Below(path, nodes) = [i \in 1..Len(nodes) |-> Append(path, nodes[i])]
  BY DEF Below
<1>4. Below(path, nodes) \in Seq(Paths \ {<<>>}) /\ Len(Below(path, nodes)) = Len(nodes)
  BY <1>1, <1>2, <1>3
<1>5. ASSUME NEW i \in 1..Len(nodes)
      PROVE  /\ Below(path, nodes)[i] = Append(path, nodes[i])
             /\ End(Below(path, nodes)[i]) = nodes[i]
             /\ Depth(Below(path, nodes)[i]) = Depth(path) + 1
             /\ Below(path, nodes)[i][Len(Below(path, nodes)[i]) - 1] = End(path)
  <2>1. Below(path, nodes)[i] = Append(path, nodes[i])
    BY <1>3
  <2> QED BY <1>1, <1>2, <2>1 DEF End, Depth
<1> QED BY <1>4, <1>5

LEMMA ConcatParts ==
  ASSUME NEW S, NEW s \in Seq(S), NEW t \in Seq(S)
  PROVE  /\ s \o t \in Seq(S) /\ Len(s \o t) = Len(s) + Len(t)
         /\ \A i \in 1..Len(s) : (s \o t)[i] = s[i]
         /\ \A i \in 1..Len(t) : (s \o t)[Len(s) + i] = t[i]
         /\ \A i \in 1..Len(s \o t) : i > Len(s) => \E j \in 1..Len(t) : i = Len(s) + j
<1>1. /\ s \o t \in Seq(S) /\ Len(s \o t) = Len(s) + Len(t)
      /\ \A i \in 1..(Len(s) + Len(t)) : (s \o t)[i] = IF i <= Len(s) THEN s[i] ELSE t[i - Len(s)]
  BY ConcatProperties, Zenon
<1>2. Len(s) \in Nat /\ Len(t) \in Nat
  OBVIOUS
<1>3. \A i \in 1..Len(s) : i \in 1..(Len(s) + Len(t)) /\ i <= Len(s)
  BY <1>2
<1>4. \A i \in 1..Len(t) : /\ Len(s) + i \in 1..(Len(s) + Len(t))
                          /\ ~(Len(s) + i <= Len(s))
                          /\ (Len(s) + i) - Len(s) = i
  BY <1>2
<1>5. ASSUME NEW i \in 1..Len(s \o t), i > Len(s) PROVE \E j \in 1..Len(t) : i = Len(s) + j
  <2>1. i - Len(s) \in 1..Len(t) /\ i = Len(s) + (i - Len(s))
    BY <1>1, <1>2, <1>5
  <2> QED BY <2>1
<1> QED BY <1>1, <1>3, <1>4, <1>5

(* What the loop over the children of a folder does to the queue. *)
LEMMA CollectQueue ==
  ASSUME ResolveTypeOK, root > 0,
         NEW path \in Paths \ {<<>>}, NEW nodes \in Paths, Collect(path, nodes)
  PROVE  /\ queue' \in Seq(Paths \ {<<>>}) /\ Len(queue') >= Len(queue)
         /\ \A i \in 1..Len(queue) : queue'[i] = queue[i]
         /\ \A i \in 1..Len(queue') : i > Len(queue) =>
              Depth(queue'[i]) = Depth(path) + 1 /\ Depth(path) + 1 <= DepthLimit(root)
         /\ Depth(path) + 1 <= DepthLimit(root) =>
              \A k \in 1..Len(nodes) : isFolder[nodes[k]] =>
                \E i \in 1..Len(queue') : End(queue'[i]) = nodes[k] /\ Depth(queue'[i]) = Depth(path) + 1
<1> DEFINE kept == Kept(nodes, {n \in Node : isFolder[n]})
           more == Below(path, kept)
<1>1. queue \in Seq(Paths \ {<<>>})
  BY DEF ResolveTypeOK
<1>2. CASE ~Descends(path)
  <2>1. queue' = queue
    BY <1>2 DEF Collect
  <2> QED BY <1>1, <1>2, <2>1 DEF Descends
<1>3. CASE Descends(path)
  <2>1. queue' = queue \o more
    BY <1>3 DEF Collect
  <2>2. kept \in Paths /\ KeptFrom(kept, nodes, {n \in Node : isFolder[n]}, Len(nodes))
    BY KeptIsFrom DEF Paths
  <2> HIDE DEF kept
  <2>3. /\ more \in Seq(Paths \ {<<>>}) /\ Len(more) = Len(kept) /\ Len(kept) \in Nat
        /\ \A i \in 1..Len(kept) : End(more[i]) = kept[i] /\ Depth(more[i]) = Depth(path) + 1
    BY <2>2, BelowTypes DEF Paths
  <2> HIDE DEF more
  <2>4. /\ queue' \in Seq(Paths \ {<<>>}) /\ Len(queue') = Len(queue) + Len(more)
        /\ \A i \in 1..Len(queue) : queue'[i] = queue[i]
        /\ \A i \in 1..Len(more) : queue'[Len(queue) + i] = more[i]
    <3>1. more \in Seq(Paths \ {<<>>})
      BY <2>3
    <3>2. /\ queue \o more \in Seq(Paths \ {<<>>}) /\ Len(queue \o more) = Len(queue) + Len(more)
          /\ \A i \in 1..Len(queue) : (queue \o more)[i] = queue[i]
          /\ \A i \in 1..Len(more) : (queue \o more)[Len(queue) + i] = more[i]
      BY <1>1, <3>1, ConcatParts
    <3> QED BY <2>1, <3>2
  <2>5. ASSUME NEW i \in 1..Len(queue'), i > Len(queue)
        PROVE  Depth(queue'[i]) = Depth(path) + 1
    <3>1. PICK j \in 1..Len(more) : i = Len(queue) + j
      BY <1>1, <2>1, <2>3, <2>5, ConcatParts
    <3>2. queue'[i] = more[j]
      BY <2>4, <3>1
    <3> QED BY <2>3, <3>1, <3>2
  <2>6. ASSUME NEW k \in 1..Len(nodes), isFolder[nodes[k]]
        PROVE  \E i \in 1..Len(queue') : End(queue'[i]) = nodes[k] /\ Depth(queue'[i]) = Depth(path) + 1
    <3>1. nodes[k] \in {n \in Node : isFolder[n]}
      BY <2>6 DEF Paths
    <3>2. PICK j \in 1..Len(kept) : kept[j] = nodes[k]
      BY <2>2, <3>1 DEF KeptFrom
    <3>3. Len(queue) + j \in 1..Len(queue')
      BY <1>1, <2>3, <2>4
    <3> QED BY <2>3, <2>4, <3>2, <3>3
  <2>7. Depth(path) + 1 <= DepthLimit(root)
    BY <1>3 DEF Descends
  <2> QED BY <1>1, <2>3, <2>4, <2>5, <2>6, <2>7
<1> QED BY <1>2, <1>3

(* What it does to the candidates.  Up and Here are the folder and the node  *)
(* of a candidate.                                                           *)
Up(c) == IF Len(c.path) > 1 THEN c.path[Len(c.path) - 1] ELSE 0
Here(c) == End(c.path)

LEMMA CollectFound ==
  ASSUME ResolveTypeOK, root \in 1..Len(roots),
         NEW path \in Paths \ {<<>>}, NEW nodes \in Paths, Collect(path, nodes)
  PROVE  /\ found' \in Seq(Found) /\ Len(found') >= Len(found)
         /\ \A i \in 1..Len(found) : found'[i] = found[i]
         /\ \A i \in 1..Len(found') : i > Len(found) =>
              /\ found'[i].root = root /\ Up(found'[i]) = End(path)
              /\ Matches(Here(found'[i]))
              /\ \E k \in 1..Len(nodes) : Here(found'[i]) = nodes[k]
         /\ \A k \in 1..Len(nodes) : Matches(nodes[k]) =>
              \E i \in 1..Len(found') :
                found'[i].root = root /\ Up(found'[i]) = End(path) /\ Here(found'[i]) = nodes[k]
         /\ ListsOnce(nodes) =>
              \A i, j \in 1..Len(found') :
                i > Len(found) /\ j > Len(found) /\ Here(found'[i]) = Here(found'[j]) => i = j
<1> DEFINE M == {n \in Node : Matches(n)}
           kept == Kept(nodes, M)
           below == Below(path, kept)
           more == Candidates(below)
<1>1. found \in Seq(Found) /\ Len(roots) \in Nat
  BY InputTypes DEF ResolveTypeOK, Found
<1>2. found' = found \o more
  BY DEF Collect
<1>3. kept \in Paths /\ KeptFrom(kept, nodes, M, Len(nodes)) /\ (ListsOnce(nodes) => ListsOnce(kept))
  BY KeptIsFrom, KeptOnce DEF Paths
<1> HIDE DEF kept
<1>4. /\ below \in Seq(Paths \ {<<>>}) /\ Len(below) = Len(kept) /\ Len(kept) \in Nat
      /\ \A i \in 1..Len(kept) :
           End(below[i]) = kept[i] /\ Depth(below[i]) = Depth(path) + 1 /\ below[i][Len(below[i]) - 1] = End(path)
  <2>1. Len(kept) \in Nat
    BY <1>3 DEF Paths
  <2> QED BY <1>3, <2>1, BelowTypes, Zenon
<1> HIDE DEF below
<1>5. /\ more \in Seq(Found) /\ Len(more) = Len(kept)
      /\ \A i \in 1..Len(kept) : more[i] = [root |-> root, path |-> below[i]]
  <2>1. more = [i \in 1..Len(kept) |-> [root |-> root, path |-> below[i]]]
    BY <1>4 DEF Candidates
  <2>2. \A i \in 1..Len(kept) : below[i] \in Paths \ {<<>>}
    BY <1>4
  <2>3. \A i \in 1..Len(kept) : [root |-> root, path |-> below[i]] \in Found
    BY <2>2 DEF Found
  <2> QED BY <1>4, <2>1, <2>3
<1> HIDE DEF more
<1>6. ASSUME NEW i \in 1..Len(kept)
      PROVE  more[i].root = root /\ Up(more[i]) = End(path) /\ Here(more[i]) = kept[i]
  <2>1. more[i].root = root /\ more[i].path = below[i]
    <3>1. more[i] = [root |-> root, path |-> below[i]]
      BY <1>5
    <3> QED BY <3>1
  <2>2. Len(below[i]) \in Nat /\ Len(path) \in Nat \ {0}
    BY <1>4 DEF Paths
  <2>3. Len(below[i]) > 1
    BY <1>4, <2>2 DEF Depth
  <2> QED BY <1>4, <2>1, <2>3 DEF Up, Here
<1>7. /\ found' \in Seq(Found) /\ Len(found') = Len(found) + Len(kept)
      /\ \A i \in 1..Len(found) : found'[i] = found[i]
      /\ \A i \in 1..Len(kept) : found'[Len(found) + i] = more[i]
      /\ \A i \in 1..Len(found') : i > Len(found) => \E j \in 1..Len(kept) : i = Len(found) + j
  <2>1. /\ found \o more \in Seq(Found) /\ Len(found \o more) = Len(found) + Len(more)
        /\ \A i \in 1..Len(found) : (found \o more)[i] = found[i]
        /\ \A i \in 1..Len(more) : (found \o more)[Len(found) + i] = more[i]
        /\ \A i \in 1..Len(found \o more) : i > Len(found) => \E j \in 1..Len(more) : i = Len(found) + j
    <3>1. found \in Seq(Found) /\ more \in Seq(Found)
      BY <1>1, <1>5
    <3> QED BY <3>1, ConcatParts
  <2> QED BY <1>2, <1>5, <2>1
<1>8. \A i \in 1..Len(found') : i > Len(found) =>
        \E j \in 1..Len(kept) :
          /\ i = Len(found) + j /\ Here(found'[i]) = kept[j]
          /\ found'[i].root = root /\ Up(found'[i]) = End(path)
  <2> SUFFICES ASSUME NEW i \in 1..Len(found'), i > Len(found)
               PROVE  \E j \in 1..Len(kept) :
                        /\ i = Len(found) + j /\ Here(found'[i]) = kept[j]
                        /\ found'[i].root = root /\ Up(found'[i]) = End(path)
    OBVIOUS
  <2>1. PICK j \in 1..Len(kept) : i = Len(found) + j
    BY <1>7
  <2>2. found'[i] = more[j]
    BY <1>7, <2>1
  <2> QED BY <1>6, <2>1, <2>2
<1>9. ASSUME NEW i \in 1..Len(found'), i > Len(found)
      PROVE  /\ found'[i].root = root /\ Up(found'[i]) = End(path)
             /\ Matches(Here(found'[i]))
             /\ \E k \in 1..Len(nodes) : Here(found'[i]) = nodes[k]
  <2>1. PICK j \in 1..Len(kept) :
          Here(found'[i]) = kept[j] /\ found'[i].root = root /\ Up(found'[i]) = End(path)
    BY <1>8, <1>9
  <2>2. PICK k \in 1..Len(nodes) : kept[j] = nodes[k] /\ nodes[k] \in M
    BY <1>3 DEF KeptFrom
  <2> QED BY <2>1, <2>2
<1>10. ASSUME NEW k \in 1..Len(nodes), Matches(nodes[k])
       PROVE  \E i \in 1..Len(found') :
                found'[i].root = root /\ Up(found'[i]) = End(path) /\ Here(found'[i]) = nodes[k]
  <2>1. nodes[k] \in M
    BY <1>10 DEF Paths
  <2>2. PICK j \in 1..Len(kept) : kept[j] = nodes[k]
    BY <1>3, <2>1 DEF KeptFrom
  <2>3. Len(found) + j \in 1..Len(found')
    BY <1>1, <1>4, <1>7
  <2> QED BY <1>6, <1>7, <2>2, <2>3
<1>11. ASSUME ListsOnce(nodes), NEW i \in 1..Len(found'), NEW j \in 1..Len(found'),
              i > Len(found), j > Len(found), Here(found'[i]) = Here(found'[j])
       PROVE  i = j
  <2>1. PICK k \in 1..Len(kept) : i = Len(found) + k /\ Here(found'[i]) = kept[k]
    BY <1>8, <1>11
  <2>2. PICK l \in 1..Len(kept) : j = Len(found) + l /\ Here(found'[j]) = kept[l]
    BY <1>8, <1>11
  <2> QED BY <1>3, <1>11, <2>1, <2>2 DEF ListsOnce
<1>12. Len(found') >= Len(found)
  BY <1>1, <1>4, <1>7
<1> QED BY <1>7, <1>9, <1>10, <1>11, <1>12

(* One page of a listing: what it adds to the pages before, and that the     *)
(* last one completes a listing whose folder has not changed.                *)
IsPrefixOf(s, t) == Len(s) <= Len(t) /\ \A i \in 1..Len(s) : s[i] = t[i]

LEMMA PageAdds ==
  ASSUME ResolveTypeOK, current # <<>>
  PROVE  /\ End(current) \in Node
         /\ Page \in Paths /\ listed \o Page \in Paths
         /\ IsPrefixOf(listed, children[End(current)]) =>
              /\ IsPrefixOf(listed \o Page, children[End(current)])
              /\ LastPage(Page, HasMoreItems(Page)) => listed \o Page = children[End(current)]
<1> DEFINE all == children[End(current)]
           m == Len(listed) + 1
           n == IF Len(listed) + PageSize < Len(all) THEN Len(listed) + PageSize ELSE Len(all)
<1>1. current \in Paths \ {<<>>} /\ listed \in Paths /\ PageSize \in Nat \ {0}
  BY ResolveBounds DEF ResolveTypeOK
<1>2. End(current) \in Node
  <2>1. Len(current) \in 1..Len(current)
    BY <1>1 DEF Paths
  <2> QED BY <1>1, <2>1, ElementOfSeq DEF Paths, End
<1>3. all \in Seq(Node)
  BY <1>2 DEF ResolveTypeOK, Paths
<1>4. Page = SubSeq(all, m, n)
  BY DEF Page
<1>a. HasMoreItems(Page) <=> End(current) \in hides \/ Len(listed) + Len(Page) < Len(all)
  BY DEF HasMoreItems
<1> HIDE DEF all
<1>5. Len(listed) \in Nat /\ Len(all) \in Nat /\ m \in Int /\ n \in Int /\ m >= 1 /\ n <= Len(all)
  BY <1>1, <1>3 DEF Paths
<1>6. \A i \in m..n : all[i] \in Node
  BY <1>3, <1>5
<1>7. /\ Page \in Seq(Node) /\ Len(Page) = (IF m <= n THEN n - m + 1 ELSE 0)
      /\ \A i \in 1..(n - m + 1) : Page[i] = all[m + i - 1]
  <2> HIDE DEF m, n
  <2> QED BY <1>4, <1>5, <1>6, SubSeqProperties
<1>8. /\ listed \o Page \in Seq(Node) /\ Len(listed \o Page) = Len(listed) + Len(Page)
      /\ \A i \in 1..Len(listed) : (listed \o Page)[i] = listed[i]
      /\ \A i \in 1..Len(Page) : (listed \o Page)[Len(listed) + i] = Page[i]
      /\ \A i \in 1..Len(listed \o Page) : i > Len(listed) => \E j \in 1..Len(Page) : i = Len(listed) + j
  BY <1>1, <1>7, ConcatParts, Zenon DEF Paths
<1>9. ASSUME IsPrefixOf(listed, all)
      PROVE  IsPrefixOf(listed \o Page, all)
  <2>1. Len(listed) + Len(Page) <= Len(all)
    BY <1>5, <1>7, <1>9 DEF IsPrefixOf
  <2>2. ASSUME NEW i \in 1..Len(listed \o Page) PROVE (listed \o Page)[i] = all[i]
    <3>1. CASE i <= Len(listed)
      BY <1>8, <1>9, <3>1 DEF IsPrefixOf
    <3>2. CASE i > Len(listed)
      <4>1. PICK j \in 1..Len(Page) : i = Len(listed) + j
        BY <1>8, <3>2
      <4>2. j \in 1..(n - m + 1) /\ m + j - 1 = i
        BY <1>5, <1>7, <4>1
      <4> QED BY <1>7, <1>8, <4>1, <4>2
    <3> QED BY <1>5, <3>1, <3>2
  <2> QED BY <1>8, <2>1, <2>2 DEF IsPrefixOf
<1>10. ASSUME IsPrefixOf(listed, all), LastPage(Page, HasMoreItems(Page))
       PROVE  listed \o Page = all
  <2>1. IsPrefixOf(listed \o Page, all)
    BY <1>9, <1>10
  <2>2. Len(Page) \in Nat
    BY <1>7
  <2>3. Len(listed) + Len(Page) >= Len(all)
    <3>1. CASE ~HasMoreItems(Page)
      BY <1>5, <1>a, <2>2, <3>1
    <3>2. CASE Page = <<>>
      <4>1. Len(Page) = 0
        BY <3>2
      <4> QED BY <1>1, <1>5, <1>7, <4>1
    <3> QED BY <1>10, <3>1, <3>2 DEF LastPage
  <2>4. Len(listed \o Page) = Len(all)
    BY <1>5, <1>8, <2>1, <2>3 DEF IsPrefixOf
  <2> QED BY <1>3, <1>8, <2>1, <2>4, SeqEqual DEF IsPrefixOf
<1> QED BY <1>2, <1>7, <1>8, <1>9, <1>10 DEF all, Paths

LEMMA AtWork ==
  ASSUME TypeInv, current # <<>>
  PROVE  /\ current \in Paths \ {<<>>} /\ listed \o Page \in Paths
         /\ root \in 1..Len(roots) /\ End(current) \in Node
<1>1. ResolveTypeOK /\ current \in Paths
  BY DEF TypeInv, ResolveTypeOK
<1>2. listed \o Page \in Paths /\ End(current) \in Node
  BY <1>1, PageAdds
<1>3. root \in 0..Len(roots) /\ root > 0
  BY DEF TypeInv, ResolveTypeOK, Active
<1>4. Len(roots) \in Nat
  BY <1>1, InputTypes
<1> QED BY <1>1, <1>2, <1>3, <1>4

-----------------------------------------------------------------------------
(* The scores: the head of the stable sort, and the second score, are what   *)
(* their definitions choose.                                                 *)
LEMMA HighestExists ==
  ASSUME NEW V \in SUBSET Scores, V # {}
  PROVE  \E v \in V : \A w \in V : w <= v
<1> DEFINE below == {100 - v : v \in V}
<1>1. below \in SUBSET Nat /\ below # {}
  <2>1. \A v \in V : 100 - v \in Nat
    BY DEF Scores
  <2>2. PICK v : v \in V
    OBVIOUS
  <2>3. 100 - v \in below
    BY <2>2
  <2> QED BY <2>1, <2>3
<1>2. PICK m \in below : \A k \in below : m <= k
  BY <1>1, LeastNumber
<1>3. PICK v \in V : m = 100 - v
  BY <1>2
<1>4. \A w \in V : 100 - v <= 100 - w
  BY <1>2, <1>3
<1>5. \A w \in V : w \in Int
  BY DEF Scores
<1> QED BY <1>4, <1>5

LEMMA TopIsHighest ==
  ASSUME NEW n \in Nat \ {0}, NEW final \in [1..n -> Scores]
  PROVE  /\ TopOf(final) \in 1..n
         /\ \A j \in 1..n : final[j] <= final[TopOf(final)]
<1> DEFINE V == {final[j] : j \in 1..n}
<1>0. \A s \in Scores : s \in Int
  BY DEF Scores
<1>1. V \in SUBSET Scores /\ final[1] \in V
  OBVIOUS
<1>2. PICK v \in V : \A w \in V : w <= v
  BY <1>1, HighestExists
<1> DEFINE S == {j \in 1..n : final[j] = v}
<1>3. S \in SUBSET Nat /\ S # {}
  BY <1>2
<1>4. PICK t \in S : \A k \in S : t <= k
  BY <1>3, LeastNumber
<1>5. \A j \in 1..n : final[j] < final[t] \/ (final[j] = final[t] /\ j >= t)
  <2> SUFFICES ASSUME NEW j \in 1..n PROVE final[j] < final[t] \/ (final[j] = final[t] /\ j >= t)
    OBVIOUS
  <2>1. final[j] <= v /\ final[t] = v /\ final[j] \in Int /\ v \in Int
    <3>1. final[j] \in V /\ v \in Scores /\ final[j] \in Scores
      BY <1>1
    <3>2. final[j] <= v /\ final[t] = v
      BY <1>2, <1>4, <3>1
    <3>3. final[j] \in Int /\ v \in Int
      BY <1>0, <3>1
    <3> QED BY <3>2, <3>3
  <2>2. CASE final[j] = v
    <3>1. j \in S
      BY <2>2
    <3> QED BY <1>4, <2>1, <2>2, <3>1
  <2>3. CASE final[j] # v
    BY <2>1, <2>3
  <2> QED BY <2>2, <2>3
<1>6. t \in DOMAIN final /\ DOMAIN final = 1..n
  BY <1>4
<1>7. /\ TopOf(final) \in DOMAIN final
      /\ \A j \in DOMAIN final :
           final[j] < final[TopOf(final)] \/ (final[j] = final[TopOf(final)] /\ j >= TopOf(final))
  BY <1>5, <1>6 DEF TopOf
<1> DEFINE top == TopOf(final)
<1>8. /\ top \in 1..n
      /\ \A j \in 1..n : final[j] < final[top] \/ final[j] = final[top]
  BY <1>6, <1>7
<1> HIDE DEF top
<1>9. \A j \in 1..n : final[j] \in Int /\ final[top] \in Int
  <2>1. \A j \in 1..n : final[j] \in Scores
    OBVIOUS
  <2> QED BY <1>0, <1>8, <2>1
<1>10. \A j \in 1..n : final[j] <= final[top]
  BY <1>8, <1>9
<1> QED BY <1>8, <1>10 DEF top

LEMMA SecondIsHighest ==
  ASSUME NEW n \in Nat, NEW final \in Seq(Scores), Len(final) = n, n > 1, MaxCandidates # 1,
         NEW top \in 1..n
  PROVE  /\ SecondScore(final, top) \in Scores
         /\ \A j \in 1..n : j # top => final[j] <= SecondScore(final, top)
<1> DEFINE V == {final[j] : j \in DOMAIN final \ {top}}
<1>1. DOMAIN final = 1..n /\ final \in [1..n -> Scores]
  OBVIOUS
<1>2. V \in SUBSET Scores
  BY <1>1
<1>3. V # {}
  <2>1. (IF top = 1 THEN 2 ELSE 1) \in DOMAIN final \ {top}
    BY <1>1
  <2> QED BY <2>1
<1>4. \E v \in V : \A w \in V : w <= v
  BY <1>2, <1>3, HighestExists
<1>5. \E v \in V : \A j \in DOMAIN final \ {top} : final[j] <= v
  BY <1>4
<1>6. SecondScore(final, top) = CHOOSE v \in V : \A j \in DOMAIN final \ {top} : final[j] <= v
  BY DEF SecondScore
<1>7. SecondScore(final, top) \in V /\ \A j \in DOMAIN final \ {top} : final[j] <= SecondScore(final, top)
  BY <1>5, <1>6
<1> QED BY <1>1, <1>2, <1>7

LEMMA FinalTypes ==
  ASSUME ResolveTypeOK
  PROVE  /\ Len(found) \in Nat
         /\ \A i \in 1..Len(found) :
              /\ NodeOf(i) \in Node /\ NodeOf(i) = Here(found[i]) /\ Parent(i) = Up(found[i])
              /\ FinalScores[i] = FinalScore(NodeOf(i))
         /\ \A n \in Node : FinalScore(n) \in Scores
         /\ FinalScores \in Seq(Scores) /\ FinalScores \in [1..Len(found) -> Scores]
         /\ Len(FinalScores) = Len(found)
<1>1. found \in Seq(Found)
  BY DEF ResolveTypeOK, Found
<1>2. ASSUME NEW i \in 1..Len(found) PROVE NodeOf(i) \in Node
  <2>1. found[i] \in Found
    BY <1>1, ElementOfSeq
  <2>2. found[i].path \in Seq(Node) /\ found[i].path # <<>>
    BY <2>1 DEF Found, Paths
  <2>3. Len(found[i].path) \in 1..Len(found[i].path)
    BY <2>2
  <2> QED BY <2>2, <2>3, ElementOfSeq DEF NodeOf, End
<1>3. ASSUME NEW n \in Node PROVE FinalScore(n) \in Scores
  <2>1. score[n] \in Scores
    BY DEF ResolveTypeOK
  <2> QED BY <2>1 DEF FinalScore, Scores
<1>4. Len(found) \in Nat
  BY <1>1
<1>5. FinalScores = [i \in 1..Len(found) |-> FinalScore(NodeOf(i))]
  BY DEF FinalScores
<1>6. \A i \in 1..Len(found) : FinalScore(NodeOf(i)) \in Scores
  BY <1>2, <1>3
<1>7. FinalScores \in [1..Len(found) -> Scores]
  BY <1>5, <1>6
<1>8. FinalScores \in Seq(Scores) /\ Len(FinalScores) = Len(found)
  BY <1>4, <1>5, <1>6
<1>9. \A i \in 1..Len(found) : NodeOf(i) = Here(found[i]) /\ Parent(i) = Up(found[i])
  BY DEF NodeOf, Here, Parent, Up
<1> QED BY <1>2, <1>3, <1>4, <1>5, <1>7, <1>8, <1>9

-----------------------------------------------------------------------------
LEMMA TypesInit == ResolveInit => TypeInv
<1> SUFFICES ASSUME ResolveInit PROVE TypeInv
  OBVIOUS
<1>1. children \in [Node -> Paths] /\ isFolder \in [Node -> BOOLEAN] /\ hides \subseteq Node
  BY ResolveInputs DEF ResolveInit
<1>2. score \in [Node -> Scores] /\ request \in Requests /\ roots \in RootLists
  BY ResolveInputs DEF ResolveInit
<1>3. Len(roots) \in Nat
  BY <1>2, ResolveInputs
<1>4. \A S : <<>> \in Seq(S)
  OBVIOUS
<1>5. <<>> \in Paths
  BY <1>4 DEF Paths
<1> QED BY <1>1, <1>2, <1>3, <1>4, <1>5, ResolveBounds DEF ResolveInit, TypeInv, ResolveTypeOK, Active

LEMMA TypesRefuse == TypeInv /\ Refuse => TypeInv'
<1> SUFFICES ASSUME TypeInv, Refuse PROVE TypeInv'
  OBVIOUS
<1> QED BY ResolveBounds
        DEF TypeInv, ResolveTypeOK, Active, Refuse, Answer, question, traversal, Depth, DepthLimit

LEMMA TypesNextRoot == TypeInv /\ NextRoot => TypeInv'
<1> SUFFICES ASSUME TypeInv, NextRoot PROVE TypeInv'
  OBVIOUS
<1>1. /\ root' = root + 1 /\ root' \in 1..Len(roots) /\ visited' = {}
      /\ queue' = <<<<roots[root'].node>>>>
      /\ UNCHANGED <<children, question, current, listed, found, answer, failed, changed>>
  BY InputTypes DEF TypeInv, ResolveTypeOK, NextRoot
<1>2. /\ <<roots[root'].node>> \in Paths \ {<<>>} /\ Len(<<roots[root'].node>>) = 1
      /\ DepthLimit(root') \in Nat \ {0}
  BY <1>1, InputTypes DEF TypeInv, Paths
<1>3. queue' \in Seq(Paths \ {<<>>}) /\ Len(queue') = 1 /\ queue'[1] = <<roots[root'].node>>
  BY <1>1, <1>2
<1>4. \A i \in 1..Len(queue') : Depth(queue'[i]) <= DepthLimit(root')
  <2>1. Depth(<<roots[root'].node>>) = 0
    BY <1>2 DEF Depth
  <2>2. \A i \in 1..Len(queue') : queue'[i] = <<roots[root'].node>>
    BY <1>3
  <2> QED BY <1>2, <2>1, <2>2
<1>5. DepthLimit(root)' = DepthLimit(root')
  BY <1>1 DEF DepthLimit, question
<1>6. root' \in 0..Len(roots) /\ root' > 0
  BY <1>1, InputTypes DEF TypeInv
<1> QED BY <1>1, <1>3, <1>4, <1>5, <1>6 DEF TypeInv, ResolveTypeOK, Active, question, answer, Depth

LEMMA TypesDequeue == TypeInv /\ Dequeue => TypeInv'
<1> SUFFICES ASSUME TypeInv, Dequeue PROVE TypeInv'
  OBVIOUS
<1>1. /\ queue \in Seq(Paths \ {<<>>}) /\ queue # <<>>
      /\ queue' = Tail(queue) /\ visited' = visited \cup {End(Head(queue))}
      /\ current' = <<>> \/ current' = Head(queue)
      /\ UNCHANGED <<children, question, root, listed, found, answer, failed, changed>>
  BY DEF TypeInv, ResolveTypeOK, Dequeue
<1>2. /\ Head(queue) \in Paths \ {<<>>} /\ Head(queue) = queue[1]
      /\ queue' \in Seq(Paths \ {<<>>}) /\ Len(queue') = Len(queue) - 1 /\ Len(queue) \in Nat
      /\ \A i \in 1..Len(queue') : queue'[i] = queue[i + 1]
  BY <1>1, HeadTailProperties
<1>3. End(Head(queue)) \in Node
  <2>1. Len(Head(queue)) \in 1..Len(Head(queue)) /\ Head(queue) \in Seq(Node)
    BY <1>2 DEF Paths
  <2> QED BY <2>1, ElementOfSeq DEF End
<1>4. ASSUME NEW i \in 1..Len(queue') PROVE Depth(queue'[i]) <= DepthLimit(root)
  <2>1. i + 1 \in 1..Len(queue) /\ queue'[i] = queue[i + 1]
    BY <1>2
  <2> QED BY <2>1 DEF TypeInv, ResolveTypeOK
<1>5. current' \in Paths
  BY <1>1, <1>2, EmptySeq DEF Paths
<1>6. DepthLimit(root)' = DepthLimit(root) /\ root > 0
  BY <1>1 DEF DepthLimit, question, TypeInv, Active
<1> QED BY <1>1, <1>2, <1>3, <1>4, <1>5, <1>6
        DEF TypeInv, ResolveTypeOK, Active, question, answer, Depth

LEMMA TypesFetchPage == TypeInv /\ FetchPage => TypeInv'
<1> SUFFICES ASSUME TypeInv, FetchPage PROVE TypeInv'
  OBVIOUS
<1>1. /\ current \in Paths \ {<<>>} /\ root \in 1..Len(roots) /\ root > 0
      /\ UNCHANGED <<children, question, root, visited, answer, failed, changed>>
  BY InputTypes DEF TypeInv, ResolveTypeOK, Active, FetchPage
<1>2. listed \o Page \in Paths /\ <<>> \in Paths
  BY <1>1, PageAdds, EmptySeq DEF TypeInv, Paths
<1>3. DepthLimit(root)' = DepthLimit(root)
  BY <1>1 DEF DepthLimit, question
<1>4. CASE Collect(current, listed \o Page) /\ current' = <<>> /\ listed' = <<>>
  <2>1. found' \in Seq(Found)
    BY <1>1, <1>2, <1>4, CollectFound DEF TypeInv
  <2>2. /\ queue' \in Seq(Paths \ {<<>>}) /\ Len(queue') >= Len(queue)
        /\ \A i \in 1..Len(queue) : queue'[i] = queue[i]
        /\ \A i \in 1..Len(queue') : i > Len(queue) =>
              Depth(queue'[i]) = Depth(current) + 1 /\ Depth(current) + 1 <= DepthLimit(root)
    BY <1>1, <1>2, <1>4, CollectQueue DEF TypeInv
  <2>3. Len(queue) \in Nat /\ Len(queue') \in Nat
    BY <2>2 DEF TypeInv, ResolveTypeOK
  <2>4. ASSUME NEW i \in 1..Len(queue') PROVE Depth(queue'[i]) <= DepthLimit(root)
    <3>1. CASE i > Len(queue)
      BY <2>2, <3>1
    <3>2. CASE i \in 1..Len(queue)
      <4>1. Depth(queue[i]) <= DepthLimit(root) /\ queue'[i] = queue[i]
        BY <2>2, <3>2 DEF TypeInv, ResolveTypeOK
      <4> QED BY <4>1
    <3> QED BY <2>3, <3>1, <3>2
  <2> QED BY <1>1, <1>2, <1>3, <1>4, <2>1, <2>2, <2>4
          DEF TypeInv, ResolveTypeOK, Active, Found, question, answer, Depth
<1>5. CASE listed' = listed \o Page /\ UNCHANGED <<queue, found, current>>
  BY <1>1, <1>2, <1>3, <1>5 DEF TypeInv, ResolveTypeOK, Active, question, answer, Depth
<1> QED BY <1>4, <1>5 DEF FetchPage

LEMMA TypesFetchFails == TypeInv /\ FetchFails => TypeInv'
<1> SUFFICES ASSUME TypeInv, FetchFails PROVE TypeInv'
  OBVIOUS
<1>1. /\ root \in 1..Len(roots) /\ End(current) \in Node
      /\ failed' = failed \cup {<<root, End(current)>>} /\ current' = <<>> /\ listed' = <<>>
      /\ UNCHANGED <<children, question, traversal, found, answer, changed>>
  BY InputTypes, PageAdds DEF TypeInv, ResolveTypeOK, Active, FetchFails
<1>2. DepthLimit(root)' = DepthLimit(root) /\ <<>> \in Paths
  BY <1>1, EmptySeq DEF DepthLimit, question, traversal, Paths
<1> QED BY <1>1, <1>2 DEF TypeInv, ResolveTypeOK, Active, question, traversal, answer, Depth

LEMMA TypesDecide == TypeInv /\ Decide => TypeInv'
<1> SUFFICES ASSUME TypeInv, Decide PROVE TypeInv'
  OBVIOUS
<1>1. UNCHANGED <<children, question, traversal, current, listed, found, failed, changed>>
  BY DEF Decide
<1>2. status' \in {"resolved", "ambiguous", "not_found"} /\ best' \in 0..N
  <2>1. CASE found = <<>>
    BY <2>1, ResolveBounds DEF Decide, Answer
  <2>2. CASE found # <<>>
    <3>1. Len(found) \in Nat \ {0} /\ FinalScores \in [1..Len(found) -> Scores]
      BY <2>2, FinalTypes DEF TypeInv, ResolveTypeOK
    <3>2. TopOf(FinalScores) \in 1..Len(found)
      BY <3>1, TopIsHighest
    <3>3. NodeOf(TopOf(FinalScores)) \in 0..N
      BY <3>2, FinalTypes, ResolveBounds DEF TypeInv, Node
    <3> QED BY <2>2, <3>3, ResolveBounds DEF Decide, Judge, Answer
  <2> QED BY <2>1, <2>2
<1>3. DepthLimit(root)' = DepthLimit(root)
  BY <1>1 DEF DepthLimit, question, traversal
<1> QED BY <1>1, <1>2, <1>3 DEF TypeInv, ResolveTypeOK, Active, question, traversal, Depth

LEMMA NodeConcat ==
  \A s, t \in Seq(Node) :
    /\ s \o t \in Seq(Node) /\ Len(s \o t) = Len(s) + Len(t)
    /\ \A k \in 1..Len(s) : (s \o t)[k] = s[k]
    /\ \A k \in 1..Len(t) : (s \o t)[Len(s) + k] = t[k]
  BY ConcatParts

(* What another client does to a folder.                                     *)
LEMMA ChangeEntries ==
  ASSUME ResolveTypeOK, NEW f \in Node, Change(f)
  PROVE  /\ children' \in [Node -> Paths]
         /\ \A g \in Node \ {f} : children'[g] = children[g]
         /\ ListsOnce(children[f]) => ListsOnce(children'[f])
<1> DEFINE old == children[f]
<1>1. old \in Seq(Node) /\ Len(old) \in Nat /\ children \in [Node -> Paths]
  BY DEF ResolveTypeOK, Paths
<1>2. CASE \E i \in 1..Len(old) :
             children' = [children EXCEPT ![f] = SubSeq(@, 1, i - 1) \o SubSeq(@, i + 1, Len(@))]
  <2>1. PICK i \in 1..Len(old) :
          children' = [children EXCEPT ![f] = SubSeq(old, 1, i - 1) \o SubSeq(old, i + 1, Len(old))]
    BY <1>2
  <2> DEFINE before == SubSeq(old, 1, i - 1)
             after == SubSeq(old, i + 1, Len(old))
  <2> HIDE DEF old
  <2>2. /\ before \in Seq(Node) /\ Len(before) = i - 1
        /\ \A k \in 1..(i - 1) : before[k] = old[k]
    <3>1. \A k \in 1..(i - 1) : old[k] \in Node
      BY <1>1, <2>1
    <3> QED BY <1>1, <2>1, <3>1
  <2>3. /\ after \in Seq(Node) /\ Len(after) = Len(old) - i
        /\ \A k \in 1..(Len(old) - i) : after[k] = old[i + k]
    <3>1. \A k \in (i + 1)..Len(old) : old[k] \in Node
      BY <1>1, <2>1
    <3> QED BY <1>1, <2>1, <3>1
  <2> HIDE DEF before, after
  <2> DEFINE new == before \o after
  <2>4. /\ new \in Seq(Node) /\ Len(new) = Len(old) - 1
        /\ \A k \in 1..(Len(old) - 1) : new[k] = IF k < i THEN old[k] ELSE old[k + 1]
    <3>1. /\ new \in Seq(Node) /\ Len(new) = Len(old) - 1
          /\ \A k \in 1..(i - 1) : new[k] = before[k]
          /\ \A k \in 1..(Len(old) - i) : new[(i - 1) + k] = after[k]
      <4>1. /\ before \o after \in Seq(Node) /\ Len(before \o after) = Len(before) + Len(after)
            /\ \A k \in 1..Len(before) : (before \o after)[k] = before[k]
            /\ \A k \in 1..Len(after) : (before \o after)[Len(before) + k] = after[k]
        BY <2>2, <2>3, NodeConcat
      <4>2. Len(before) + Len(after) = Len(old) - 1
        BY <1>1, <2>1, <2>2, <2>3
      <4> QED BY <2>2, <2>3, <4>1, <4>2
    <3>2. ASSUME NEW k \in 1..(Len(old) - 1) PROVE new[k] = IF k < i THEN old[k] ELSE old[k + 1]
      <4>1. CASE k < i
        BY <2>1, <2>2, <3>1, <4>1
      <4>2. CASE ~(k < i)
        <5>1. /\ k - i + 1 \in 1..(Len(old) - i) /\ (i - 1) + (k - i + 1) = k /\ i + (k - i + 1) = k + 1
          BY <1>1, <2>1, <4>2
        <5>2. new[(i - 1) + (k - i + 1)] = after[k - i + 1] /\ after[k - i + 1] = old[i + (k - i + 1)]
          BY <2>3, <3>1, <5>1
        <5> QED BY <4>2, <5>1, <5>2
      <4> QED BY <4>1, <4>2
    <3> QED BY <3>1, <3>2
  <2>5. children' = [children EXCEPT ![f] = new]
    BY <2>1 DEF before, after
  <2> HIDE DEF new
  <2>6. ASSUME ListsOnce(old), NEW k \in 1..Len(new), NEW l \in 1..Len(new), new[k] = new[l]
        PROVE  k = l
    <3>1. /\ k \in 1..(Len(old) - 1) /\ l \in 1..(Len(old) - 1)
          /\ k \in 1..Len(old) /\ l \in 1..Len(old) /\ k + 1 \in 1..Len(old) /\ l + 1 \in 1..Len(old)
      BY <1>1, <2>4
    <3>2. \A p, q \in 1..Len(old) : old[p] = old[q] => p = q
      BY <2>6 DEF ListsOnce
    <3>3. CASE k < i /\ l < i
      BY <2>4, <2>6, <3>1, <3>2, <3>3
    <3>4. CASE k < i /\ ~(l < i)
      <4>1. old[k] = old[l + 1]
        BY <2>4, <2>6, <3>1, <3>4
      <4>2. k = l + 1
        BY <3>1, <3>2, <4>1
      <4> QED BY <2>1, <3>4, <4>2
    <3>5. CASE ~(k < i) /\ l < i
      <4>1. old[k + 1] = old[l]
        BY <2>4, <2>6, <3>1, <3>5
      <4>2. l = k + 1
        BY <3>1, <3>2, <4>1
      <4> QED BY <2>1, <3>5, <4>2
    <3>6. CASE ~(k < i) /\ ~(l < i)
      <4>1. old[k + 1] = old[l + 1]
        BY <2>4, <2>6, <3>1, <3>6
      <4>2. k + 1 = l + 1
        BY <3>1, <3>2, <4>1
      <4> QED BY <4>2
    <3> QED BY <3>3, <3>4, <3>5, <3>6
  <2>7. ListsOnce(old) => ListsOnce(new)
    BY <2>6 DEF ListsOnce
  <2> QED BY <1>1, <2>4, <2>5, <2>7 DEF old, Paths
<1>3. CASE \E c \in (f + 1)..N :
             /\ \A i \in 1..Len(old) : old[i] # c
             /\ children' = [children EXCEPT ![f] = Append(@, c)]
  <2>1. PICK c \in (f + 1)..N :
          /\ \A i \in 1..Len(old) : old[i] # c
          /\ children' = [children EXCEPT ![f] = Append(old, c)]
    BY <1>3
  <2>2. c \in Node
    BY ResolveBounds DEF Node
  <2> DEFINE new == Append(old, c)
  <2>3. /\ new \in Seq(Node) /\ Len(new) = Len(old) + 1 /\ new[Len(old) + 1] = c
        /\ \A k \in 1..Len(old) : new[k] = old[k]
    BY <1>1, <2>2
  <2>4. children' = [children EXCEPT ![f] = new]
    BY <2>1
  <2> HIDE DEF new, old
  <2>5. ASSUME ListsOnce(old), NEW k \in 1..Len(new), NEW l \in 1..Len(new), new[k] = new[l]
        PROVE  k = l
    BY <1>1, <2>1, <2>3, <2>5 DEF ListsOnce
  <2>6. ListsOnce(old) => ListsOnce(new)
    BY <2>5 DEF ListsOnce
  <2> QED BY <1>1, <2>3, <2>4, <2>6 DEF old, Paths
<1> QED BY <1>2, <1>3 DEF Change

LEMMA TypesChange == ASSUME NEW f \in Node PROVE TypeInv /\ Change(f) => TypeInv'
<1> SUFFICES ASSUME TypeInv, Change(f) PROVE TypeInv'
  OBVIOUS
<1>1. /\ children' \in [Node -> Paths] /\ changed' = changed \cup {f}
      /\ UNCHANGED <<question, traversal, current, listed, found, answer, failed>>
  BY ChangeEntries DEF Change, TypeInv
<1>2. DepthLimit(root)' = DepthLimit(root)
  BY <1>1 DEF DepthLimit, question, traversal
<1> QED BY <1>1, <1>2 DEF TypeInv, ResolveTypeOK, Active, question, traversal, answer, Depth

LEMMA TypesStep == TypeInv /\ [ResolveNext]_resolveVars => TypeInv'
<1> SUFFICES ASSUME TypeInv, [ResolveNext]_resolveVars PROVE TypeInv'
  OBVIOUS
<1>1. CASE UNCHANGED resolveVars
  <2>1. DepthLimit(root)' = DepthLimit(root)
    BY <1>1 DEF resolveVars, DepthLimit, question, traversal
  <2> QED BY <1>1, <2>1
          DEF TypeInv, ResolveTypeOK, Active, resolveVars, question, traversal, answer, Depth
<1>2. CASE ResolveNext
  BY <1>2, TypesRefuse, TypesNextRoot, TypesDequeue, TypesFetchPage, TypesFetchFails, TypesDecide, TypesChange
     DEF ResolveNext, AgentStep
<1> QED BY <1>1, <1>2

(* The types, and that nothing below the depth limit of the root at work is  *)
(* ever queued (resolve).                                                    *)
THEOREM ResolveTypes == ResolveSpec => []ResolveTypeOK
<1>1. TypeInv => ResolveTypeOK
  BY DEF TypeInv
<1> QED BY <1>1, TypesInit, TypesStep, PTL DEF ResolveSpec

-----------------------------------------------------------------------------
(* A listing in progress shows the first entries of its folder, unless the   *)
(* folder has changed.                                                       *)
ListedInv ==
  /\ current = <<>> => listed = <<>>
  /\ current # <<>> /\ End(current) \notin changed => IsPrefixOf(listed, children[End(current)])

(* Why nothing is a candidate twice: what was listed for this root has been  *)
(* visited, and the folder being listed has given no candidate yet.          *)
OnceInv ==
  /\ \A f \in Node : ListsOnce(children[f])
  /\ current # <<>> => End(current) \in visited
  /\ \A i \in 1..Len(found) :
       /\ found[i].root <= root
       /\ found[i].root = root =>
            Up(found[i]) \in visited /\ (current # <<>> => Up(found[i]) # End(current))
  /\ CandidatesOnce


LEMMA ListedInit == ResolveInit => ListedInv
  BY DEF ResolveInit, ListedInv

LEMMA ListedStep == TypeInv /\ ListedInv /\ [ResolveNext]_resolveVars => ListedInv'
<1> SUFFICES ASSUME TypeInv, ListedInv, [ResolveNext]_resolveVars PROVE ListedInv'
  OBVIOUS
<1>1. CASE Refuse \/ NextRoot \/ Decide \/ UNCHANGED resolveVars
  <2>1. UNCHANGED <<children, current, listed, changed>>
    BY <1>1 DEF Refuse, NextRoot, Decide, resolveVars
  <2> QED BY <2>1 DEF ListedInv, IsPrefixOf, End
<1>2. CASE Dequeue
  <2>1. current = <<>> /\ listed' = listed /\ children' = children
    BY <1>2 DEF Dequeue
  <2>2. listed' = <<>> /\ Len(listed') = 0
    BY <2>1 DEF ListedInv
  <2>3. IsPrefixOf(listed', children'[End(current')]) \/ current' = <<>>
    <3>1. CASE current' # <<>>
      <4>1. current' \in Paths \ {<<>>}
        BY <1>2, <3>1, TypesDequeue DEF TypeInv, ResolveTypeOK
      <4>2. Len(current') \in 1..Len(current')
        BY <4>1 DEF Paths
      <4>3. End(current') \in Node
        BY <4>1, <4>2, ElementOfSeq DEF Paths, End
      <4>4. Len(children[End(current')]) \in Nat
        BY <4>3 DEF TypeInv, ResolveTypeOK, Paths
      <4> QED BY <2>1, <2>2, <4>4 DEF IsPrefixOf
    <3> QED BY <3>1
  <2> QED BY <2>2, <2>3 DEF ListedInv, IsPrefixOf, End
<1>3. CASE FetchPage
  <2>1. current # <<>> /\ UNCHANGED <<children, changed>>
    BY <1>3 DEF FetchPage
  <2>2. CASE current' = <<>> /\ listed' = <<>>
    BY <2>2 DEF ListedInv
  <2>3. CASE listed' = listed \o Page /\ current' = current
    <3>1. End(current) \notin changed => IsPrefixOf(listed \o Page, children[End(current)])
      BY <2>1, PageAdds DEF TypeInv, ListedInv
    <3> QED BY <2>1, <2>3, <3>1 DEF ListedInv, IsPrefixOf, End
  <2> QED BY <1>3, <2>2, <2>3 DEF FetchPage
<1>4. CASE FetchFails
  BY <1>4 DEF FetchFails, ListedInv
<1>5. ASSUME NEW f \in Node, Change(f) PROVE ListedInv'
  <2>1. UNCHANGED <<current, listed>> /\ changed' = changed \cup {f}
    BY <1>5 DEF Change
  <2>2. \A g \in Node \ {f} : children'[g] = children[g]
    BY <1>5, ChangeEntries DEF TypeInv
  <2>3. current # <<>> => End(current) \in Node
    BY PageAdds DEF TypeInv
  <2> QED BY <2>1, <2>2, <2>3 DEF ListedInv, IsPrefixOf, End
<1> QED BY <1>1, <1>2, <1>3, <1>4, <1>5 DEF ResolveNext, AgentStep

(* CandidatesOnce in the terms of CollectFound. *)
Distinct(candidates, unsteady) ==
  \A i, j \in 1..Len(candidates) :
    /\ candidates[i].root = candidates[j].root
    /\ Up(candidates[i]) = Up(candidates[j])
    /\ Here(candidates[i]) = Here(candidates[j])
    => i = j \/ Up(candidates[i]) \in unsteady

LEMMA OnceIsDistinct ==
  (CandidatesOnce <=> Distinct(found, changed)) /\ (CandidatesOnce' <=> Distinct(found', changed'))
  BY DEF CandidatesOnce, Distinct, Parent, NodeOf, Up, Here

LEMMA OnceInit == ResolveInit => OnceInv
<1> SUFFICES ASSUME ResolveInit PROVE OnceInv
  OBVIOUS
<1>1. found = <<>> /\ Len(found) = 0 /\ current = <<>>
  BY DEF ResolveInit
<1>2. \A f \in Node : ListsOnce(children[f])
  BY ResolveInputs DEF ResolveInit
<1> QED BY <1>1, <1>2 DEF OnceInv, CandidatesOnce

LEMMA OnceStep == TypeInv /\ TypeInv' /\ ListedInv /\ OnceInv /\ [ResolveNext]_resolveVars => OnceInv'
<1> SUFFICES ASSUME TypeInv, TypeInv', ListedInv, OnceInv, [ResolveNext]_resolveVars PROVE OnceInv'
  OBVIOUS
<1>0. /\ root \in Nat /\ root' \in Nat /\ Len(found) \in Nat
      /\ \A i \in 1..Len(found) : found[i].root \in Nat
  <2>1. found \in Seq(Found) /\ root \in 0..Len(roots) /\ root' \in 0..Len(roots') /\ Len(roots) \in Nat
    BY InputTypes DEF TypeInv, ResolveTypeOK, Found
  <2>2. Len(roots') \in Nat
    <3>1. roots' \in RootLists
      BY DEF TypeInv, ResolveTypeOK
    <3> QED BY <3>1, ResolveInputs
  <2>3. \A i \in 1..Len(found) : found[i] \in Found
    BY <2>1, ElementOfSeq
  <2> QED BY <2>1, <2>2, <2>3 DEF Found
<1> DEFINE Rooted(fs, r, seen, path) ==
             \A i \in 1..Len(fs) :
               /\ fs[i].root <= r
               /\ fs[i].root = r => Up(fs[i]) \in seen /\ (path # <<>> => Up(fs[i]) # End(path))
<1>a. /\ \A f \in Node : ListsOnce(children[f])
      /\ current # <<>> => End(current) \in visited
      /\ Rooted(found, root, visited, current)
      /\ Distinct(found, changed)
  BY OnceIsDistinct DEF OnceInv
<1>b. SUFFICES /\ \A f \in Node : ListsOnce(children'[f])
               /\ current' # <<>> => End(current') \in visited'
               /\ Rooted(found', root', visited', current')
               /\ Distinct(found', changed')
  BY OnceIsDistinct DEF OnceInv, Up, End
<1>1. CASE Refuse \/ Decide \/ FetchFails \/ UNCHANGED resolveVars
  <2>1. UNCHANGED <<children, root, visited, found, changed>> /\ (current' = current \/ current' = <<>>)
    BY <1>1 DEF Refuse, Decide, FetchFails, resolveVars, traversal
  <2> QED BY <1>a, <2>1
<1>2. CASE NextRoot
  <2>1. UNCHANGED <<children, current, found, changed>> /\ current = <<>> /\ root' = root + 1
    BY <1>2 DEF NextRoot
  <2>2. \A i \in 1..Len(found) : found[i].root <= root /\ found[i].root \in Nat
    BY <1>0, <1>a
  <2>3. \A i \in 1..Len(found) : found[i].root <= root' /\ found[i].root # root'
    BY <1>0, <2>1, <2>2
  <2> QED BY <1>a, <2>1, <2>3
<1>3. CASE Dequeue
  <2>1. /\ UNCHANGED <<children, root, found, changed>>
        /\ visited' = visited \cup {End(Head(queue))}
        /\ current' = <<>> \/ (current' = Head(queue) /\ End(Head(queue)) \notin visited)
    BY <1>3 DEF Dequeue
  <2> QED BY <1>a, <2>1
<1>4. CASE FetchPage
  <2>1. UNCHANGED <<children, root, visited, changed>> /\ current # <<>>
    BY <1>4 DEF FetchPage
  <2>2. CASE UNCHANGED <<found, current>>
    BY <1>a, <2>1, <2>2
  <2>3. CASE /\ LastPage(Page, HasMoreItems(Page)) /\ Collect(current, listed \o Page)
             /\ current' = <<>>
    <3> DEFINE nodes == listed \o Page
    <3>1. current \in Paths \ {<<>>} /\ nodes \in Paths /\ root \in 1..Len(roots) /\ End(current) \in Node
      BY <2>1, AtWork
    <3>2. End(current) \notin changed => ListsOnce(nodes)
      BY <1>a, <2>1, <2>3, <3>1, PageAdds DEF TypeInv, ListedInv
    <3>3. Collect(current, nodes)
      BY <2>3
    <3> HIDE DEF nodes
    <3>4. /\ found' \in Seq(Found) /\ Len(found') >= Len(found)
          /\ \A i \in 1..Len(found) : found'[i] = found[i]
          /\ \A i \in 1..Len(found') : i > Len(found) =>
               found'[i].root = root /\ Up(found'[i]) = End(current)
      BY <3>1, <3>3, CollectFound DEF TypeInv
    <3>5. End(current) \notin changed =>
            \A i, j \in 1..Len(found') :
              i > Len(found) /\ j > Len(found) /\ Here(found'[i]) = Here(found'[j]) => i = j
      BY <3>1, <3>2, <3>3, CollectFound DEF TypeInv
    <3>6. \A i \in 1..Len(found') : i \in 1..Len(found) \/ i > Len(found)
      BY <1>0
    <3>7. Rooted(found', root, visited, <<>>)
      <4> SUFFICES ASSUME NEW i \in 1..Len(found')
                   PROVE  found'[i].root <= root /\ (found'[i].root = root => Up(found'[i]) \in visited)
        OBVIOUS
      <4>1. CASE i \in 1..Len(found)
        BY <1>a, <3>4, <4>1
      <4>2. CASE i > Len(found)
        BY <1>0, <1>a, <2>1, <3>4, <4>2
      <4> QED BY <3>6, <4>1, <4>2
    <3>8. Distinct(found', changed)
      <4> SUFFICES ASSUME NEW i \in 1..Len(found'), NEW j \in 1..Len(found'),
                          found'[i].root = found'[j].root, Up(found'[i]) = Up(found'[j]),
                          Here(found'[i]) = Here(found'[j])
                   PROVE  i = j \/ Up(found'[i]) \in changed
        BY DEF Distinct
      <4>1. CASE i \in 1..Len(found) /\ j \in 1..Len(found)
        BY <1>a, <3>4, <4>1 DEF Distinct
      <4>2. CASE i \in 1..Len(found) /\ j > Len(found)
        BY <1>a, <2>1, <3>4, <4>2
      <4>3. CASE i > Len(found) /\ j \in 1..Len(found)
        BY <1>a, <2>1, <3>4, <4>3
      <4>4. CASE i > Len(found) /\ j > Len(found)
        BY <3>4, <3>5, <4>4
      <4> QED BY <3>6, <4>1, <4>2, <4>3, <4>4
    <3> QED BY <1>a, <2>1, <2>3, <3>7, <3>8
  <2> QED BY <1>4, <2>2, <2>3 DEF FetchPage
<1>5. ASSUME NEW f \in Node, Change(f)
      PROVE  /\ \A g \in Node : ListsOnce(children'[g])
             /\ current' # <<>> => End(current') \in visited'
             /\ Rooted(found', root', visited', current')
             /\ Distinct(found', changed')
  <2>1. UNCHANGED <<root, visited, current, found>> /\ changed' = changed \cup {f}
    BY <1>5 DEF Change, traversal
  <2>2. /\ \A g \in Node \ {f} : children'[g] = children[g]
        /\ ListsOnce(children[f]) => ListsOnce(children'[f])
    BY <1>5, ChangeEntries DEF TypeInv
  <2>3. \A g \in Node : ListsOnce(children'[g])
    BY <1>a, <2>2
  <2>4. Distinct(found', changed')
    BY <1>a, <2>1 DEF Distinct
  <2> QED BY <1>a, <2>1, <2>3, <2>4
<1> QED BY <1>1, <1>2, <1>3, <1>4, <1>5 DEF ResolveNext, AgentStep

(* No candidate competes with itself: an entry of a folder is a candidate    *)
(* once for each root, unless the folder changed between two pages (visited, *)
(* fetchAllChildren).                                                        *)
THEOREM CandidatesAreDistinct == ResolveSpec => []CandidatesOnce
<1> DEFINE Inv == TypeInv /\ ListedInv /\ OnceInv
<1>1. ResolveInit => Inv
  BY TypesInit, ListedInit, OnceInit
<1>2. Inv /\ [ResolveNext]_resolveVars => Inv'
  BY TypesStep, ListedStep, OnceStep
<1>3. Inv => CandidatesOnce
  BY DEF OnceInv
<1> QED BY <1>1, <1>2, <1>3, PTL DEF ResolveSpec

-----------------------------------------------------------------------------
(* c is listed, or will be, at most d folders below the root.  dep gives the *)
(* depth at which a folder was dequeued first, -1 for the others.            *)
Reached(dep, paths, c, d) ==
  \/ 0 <= dep[c] /\ dep[c] <= d
  \/ \E i \in 1..Len(paths) : End(paths[i]) = c /\ Depth(paths[i]) <= d

IsCandidate(r, f, c) ==
  \E i \in 1..Len(found) : found[i].root = r /\ Up(found[i]) = f /\ Here(found[i]) = c

(* The sweep from a root is closed: of a steady folder that was listed every *)
(* match is a candidate, and every folder is reached one level below.        *)
Swept(r, dep, paths, path) ==
  /\ Reached(dep, paths, roots[r].node, 0)
  /\ \A f \in Node : dep[f] >= 0 /\ Steady(r, f) /\ (path # <<>> => f # End(path)) =>
       \A c \in Entries(f) :
         /\ Matches(c) => IsCandidate(r, f, c)
         /\ isFolder[c] /\ dep[f] + 1 <= DepthLimit(r) => Reached(dep, paths, c, dep[f] + 1)

(* The queue of a breadth-first search: at most two depths, in order, and    *)
(* nothing in it is less deep than what was dequeued before.                 *)
QueueInOrder(dep) ==
  /\ visited = {f \in Node : dep[f] >= 0}
  /\ \A i \in 1..Len(queue) : \A f \in Node : dep[f] <= Depth(queue[i])
  /\ \A i, j \in 1..Len(queue) : i <= j => Depth(queue[i]) <= Depth(queue[j])
  /\ \A i, j \in 1..Len(queue) : Depth(queue[j]) <= Depth(queue[i]) + 1
  /\ current # <<>> =>
       /\ dep[End(current)] = Depth(current)
       /\ \A f \in Node : dep[f] <= Depth(current)
       /\ \A i \in 1..Len(queue) : Depth(queue[i]) <= Depth(current) + 1

SweepInv ==
  /\ \A r \in 1..Len(roots) : r < root => \E dep \in [Node -> Int] : Swept(r, dep, <<>>, <<>>)
  /\ root > 0 => \E dep \in [Node -> Int] : Swept(root, dep, queue, current) /\ QueueInOrder(dep)

(* A candidate in a steady folder is an entry of it that matches.            *)
FoundInv ==
  \A i \in 1..Len(found) :
    /\ Up(found[i]) \in Node
    /\ Steady(found[i].root, Up(found[i])) =>
         Here(found[i]) \in Entries(Up(found[i])) /\ Matches(Here(found[i]))

(* An answer other than a refusal is given when the last root is done.       *)
AnswerInv ==
  /\ Decided => root = Len(roots) /\ root > 0 /\ queue = <<>> /\ current = <<>>
  /\ root > 0 \/ status = "resolved" => ~Refused

-----------------------------------------------------------------------------
(* What every step leaves alone: the question, the candidates so far, and    *)
(* the entries of the folders that are still steady.                         *)
LEMMA StepsFrame ==
  ASSUME TypeInv, [ResolveNext]_resolveVars
  PROVE  /\ UNCHANGED question
         /\ Len(found') >= Len(found) /\ \A i \in 1..Len(found) : found'[i] = found[i]
         /\ \A r : \A f \in Node :
              isFolder[f] /\ f \notin changed' /\ <<r, f>> \notin failed' =>
                Steady(r, f) /\ children'[f] = children[f]
<1>0. Len(found) \in Nat
  BY FinalTypes DEF TypeInv
<1>1. CASE \/ Refuse \/ NextRoot \/ Dequeue \/ FetchFails \/ Decide \/ UNCHANGED resolveVars
  BY <1>0, <1>1 DEF Refuse, NextRoot, Dequeue, FetchFails, Decide, resolveVars, Steady
<1>2. CASE FetchPage
  <2>1. UNCHANGED <<children, question, failed, changed>> /\ current # <<>>
    BY <1>2 DEF FetchPage
  <2>2. Len(found') >= Len(found) /\ \A i \in 1..Len(found) : found'[i] = found[i]
    <3>1. CASE UNCHANGED found
      BY <1>0, <3>1
    <3>2. CASE Collect(current, listed \o Page)
      <4>1. current \in Paths \ {<<>>} /\ listed \o Page \in Paths /\ root \in 1..Len(roots)
        BY <2>1, AtWork
      <4> QED BY <3>2, <4>1, CollectFound DEF TypeInv
    <3> QED BY <1>2, <3>1, <3>2 DEF FetchPage
  <2> QED BY <2>1, <2>2 DEF Steady
<1>3. ASSUME NEW g \in Node, Change(g)
      PROVE  /\ UNCHANGED question
             /\ Len(found') >= Len(found) /\ \A i \in 1..Len(found) : found'[i] = found[i]
             /\ \A r : \A f \in Node :
                  isFolder[f] /\ f \notin changed' /\ <<r, f>> \notin failed' =>
                    Steady(r, f) /\ children'[f] = children[f]
  <2>1. \A f \in Node \ {g} : children'[f] = children[f]
    BY <1>3, ChangeEntries DEF TypeInv
  <2>2. UNCHANGED <<question, found, failed>> /\ changed' = changed \cup {g}
    BY <1>3 DEF Change
  <2> QED BY <1>0, <2>1, <2>2 DEF Steady
<1> QED BY <1>1, <1>2, <1>3 DEF ResolveNext, AgentStep

(* Once it is given, the answer is not changed, nor what it was given for.   *)
LEMMA AnswerIsFinal == status # "none" /\ [ResolveNext]_resolveVars => UNCHANGED resolveVars
  BY DEF ResolveNext, AgentStep, Working, Refuse, NextRoot, Dequeue, FetchPage, FetchFails, Decide, Change

LEMMA AnswerStep == TypeInv /\ AnswerInv /\ [ResolveNext]_resolveVars => AnswerInv'
<1> SUFFICES ASSUME TypeInv, AnswerInv, [ResolveNext]_resolveVars PROVE AnswerInv'
  OBVIOUS
<1>0. Refused' <=> Refused
  BY StepsFrame DEF question, Refused
<1>1. CASE status # "none"
  BY <1>0, <1>1, AnswerIsFinal DEF AnswerInv, Decided, resolveVars, traversal, answer, question
<1>2. CASE status = "none" /\ status' # "none"
  <2>1. Refuse \/ Decide
    BY <1>2 DEF ResolveNext, AgentStep, NextRoot, Dequeue, FetchPage, FetchFails, Change, answer, resolveVars
  <2>2. CASE Refuse
    <3>1. Refused /\ root' = 0 /\ status' # "resolved"
      BY <2>2 DEF Refuse, Answer, traversal
    <3> QED BY <1>0, <3>1 DEF AnswerInv, Decided
  <2>3. CASE Decide
    <3>1. root > 0 /\ root = Len(roots) /\ queue = <<>> /\ current = <<>>
      BY <2>3 DEF Decide
    <3>2. UNCHANGED <<root, roots, queue, current>>
      BY <2>3 DEF Decide, question, traversal
    <3> QED BY <1>0, <3>1, <3>2 DEF AnswerInv
  <2> QED BY <2>1, <2>2, <2>3
<1>3. CASE status' = "none"
  <2>1. ~(root' > 0) \/ root' = root \/ ~Refused
    BY DEF ResolveNext, AgentStep, Refuse, NextRoot, Dequeue, FetchPage, FetchFails, Decide, Change,
           resolveVars, traversal
  <2> QED BY <1>0, <1>3, <2>1 DEF AnswerInv, Decided
<1> QED BY <1>1, <1>2, <1>3

LEMMA FoundStep ==
  TypeInv /\ ListedInv /\ FoundInv /\ [ResolveNext]_resolveVars => FoundInv'
<1> SUFFICES ASSUME TypeInv, ListedInv, FoundInv, [ResolveNext]_resolveVars PROVE FoundInv'
  OBVIOUS
<1> SUFFICES ASSUME NEW i \in 1..Len(found')
             PROVE  /\ Up(found'[i]) \in Node
                    /\ isFolder[Up(found'[i])] /\ Up(found'[i]) \notin changed'
                       /\ <<found'[i].root, Up(found'[i])>> \notin failed'
                       => /\ \E k \in 1..Len(children'[Up(found'[i])]) :
                               Here(found'[i]) = children'[Up(found'[i])][k]
                          /\ Matches(Here(found'[i]))
  <2>1. UNCHANGED <<isFolder, request>>
    BY StepsFrame DEF question
  <2> QED BY <2>1 DEF FoundInv, Steady, Entries, Matches
<1> DEFINE f == Up(found'[i])
<1>0. UNCHANGED question /\ Len(found) \in Nat
  BY StepsFrame, FinalTypes DEF TypeInv
<1>1. CASE i \in 1..Len(found)
  <2>1. found'[i] = found[i] /\ f \in Node
    BY <1>1, StepsFrame DEF FoundInv
  <2>2. isFolder[f] /\ f \notin changed' /\ <<found[i].root, f>> \notin failed' =>
          Steady(found[i].root, f) /\ children'[f] = children[f]
    BY <2>1, StepsFrame
  <2> QED BY <1>0, <1>1, <2>1, <2>2 DEF FoundInv, Entries, question
<1>2. CASE i > Len(found)
  <2>1. FetchPage /\ current # <<>>
    <3>1. found' # found
      BY <1>0, <1>2
    <3> QED BY <3>1 DEF ResolveNext, AgentStep, Refuse, NextRoot, Dequeue, FetchPage, FetchFails, Decide,
                        Change, resolveVars
  <2>2. /\ LastPage(Page, HasMoreItems(Page)) /\ Collect(current, listed \o Page)
        /\ UNCHANGED <<children, changed, failed>>
    BY <1>0, <1>2, <2>1 DEF FetchPage
  <2>3. current \in Paths \ {<<>>} /\ listed \o Page \in Paths /\ root \in 1..Len(roots) /\ End(current) \in Node
    BY <2>1, AtWork
  <2>4. /\ f = End(current) /\ Matches(Here(found'[i]))
        /\ \E k \in 1..Len(listed \o Page) : Here(found'[i]) = (listed \o Page)[k]
    BY <1>2, <2>2, <2>3, CollectFound DEF TypeInv
  <2>5. f \notin changed => listed \o Page = children[f]
    BY <2>1, <2>2, <2>4, PageAdds DEF TypeInv, ListedInv
  <2> QED BY <2>2, <2>3, <2>4, <2>5
<1> QED BY <1>0, <1>1, <1>2

(* Swept after a step, in terms of what the step leaves alone.               *)
SweptNext(r, dep, paths, path) ==
  /\ Reached(dep, paths, roots[r].node, 0)
  /\ \A f \in Node :
       /\ dep[f] >= 0 /\ (path # <<>> => f # End(path))
       /\ isFolder[f] /\ f \notin changed' /\ <<r, f>> \notin failed'
       => \A c \in Entries(f) :
            /\ Matches(c) => \E i \in 1..Len(found') :
                               found'[i].root = r /\ Up(found'[i]) = f /\ Here(found'[i]) = c
            /\ isFolder[c] /\ dep[f] + 1 <= DepthLimit(r) => Reached(dep, paths, c, dep[f] + 1)

LEMMA SweptAfter ==
  ASSUME TypeInv, [ResolveNext]_resolveVars, NEW r, NEW dep, NEW paths, NEW path,
         SweptNext(r, dep, paths, path)
  PROVE  Swept(r, dep, paths, path)'
<1>1. UNCHANGED <<isFolder, request, roots>>
  BY StepsFrame DEF question
<1>2. \A f \in Node : isFolder[f] /\ f \notin changed' /\ <<r, f>> \notin failed' => Entries(f)' = Entries(f)
  BY StepsFrame DEF Entries
<1>3. \A c : (Matches(c)' <=> Matches(c)) /\ DepthLimit(r)' = DepthLimit(r)
  BY <1>1 DEF Matches, DepthLimit
<1>4. Reached(dep, paths, roots'[r].node, 0)
  BY <1>1 DEF SweptNext
<1>5. ASSUME NEW f \in Node, dep[f] >= 0, Steady(r, f)', path # <<>> => f # End(path), NEW c \in Entries(f)'
      PROVE  /\ Matches(c)' => IsCandidate(r, f, c)'
             /\ isFolder'[c] /\ dep[f] + 1 <= DepthLimit(r)' => Reached(dep, paths, c, dep[f] + 1)
  <2>1. isFolder[f] /\ f \notin changed' /\ <<r, f>> \notin failed'
    BY <1>1, <1>5 DEF Steady
  <2>2. c \in Entries(f)
    BY <1>2, <1>5, <2>1
  <2> QED BY <1>1, <1>3, <1>5, <2>1, <2>2 DEF SweptNext, IsCandidate
<1> QED BY <1>4, <1>5 DEF Swept

LEMMA SweptStays ==
  ASSUME TypeInv, [ResolveNext]_resolveVars, NEW r, r \in 1..Len(roots),
         NEW dep, dep \in [Node -> Int], NEW paths, NEW path, Swept(r, dep, paths, path),
         NEW later, later \in [Node -> Int], NEW more, NEW now,
         \A f \in Node : later[f] >= 0 /\ (now # <<>> => f # End(now)) =>
           later[f] = dep[f] /\ (path # <<>> => f # End(path) \/ <<r, f>> \in failed'),
         \A c \in Node : \A d \in Int : Reached(dep, paths, c, d) => Reached(later, more, c, d)
  PROVE  SweptNext(r, later, more, now)
<1>1. ASSUME NEW f \in Node, later[f] >= 0, now # <<>> => f # End(now),
             isFolder[f], f \notin changed', <<r, f>> \notin failed',
             NEW c \in Entries(f)
      PROVE  /\ Matches(c) => \E i \in 1..Len(found') :
                               found'[i].root = r /\ Up(found'[i]) = f /\ Here(found'[i]) = c
             /\ isFolder[c] /\ later[f] + 1 <= DepthLimit(r) => Reached(later, more, c, later[f] + 1)
  <2>1. Steady(r, f)
    BY <1>1, StepsFrame
  <2>2. later[f] = dep[f] /\ (path # <<>> => f # End(path))
    BY <1>1
  <2>3. Matches(c) => IsCandidate(r, f, c)
    BY <1>1, <2>1, <2>2 DEF Swept
  <2>4. isFolder[c] /\ dep[f] + 1 <= DepthLimit(r) => Reached(dep, paths, c, dep[f] + 1)
    BY <1>1, <2>1, <2>2 DEF Swept
  <2>5. \A i \in 1..Len(found) : i \in 1..Len(found') /\ found'[i] = found[i]
    <3>1. Len(found) \in Nat /\ Len(found') \in Nat
      BY TypesStep, FinalTypes DEF TypeInv, ResolveTypeOK
    <3> QED BY <3>1, StepsFrame
  <2>6. c \in Node /\ dep[f] + 1 \in Int
    <3>1. children[f] \in Seq(Node)
      BY DEF TypeInv, ResolveTypeOK, Paths
    <3> QED BY <3>1, ElementOfSeq DEF Entries
  <2>7. IsCandidate(r, f, c) => \E i \in 1..Len(found') :
          found'[i].root = r /\ Up(found'[i]) = f /\ Here(found'[i]) = c
    BY <2>5 DEF IsCandidate
  <2>8. \A d \in Int : Reached(dep, paths, c, d) => Reached(later, more, c, d)
    BY <2>6
  <2> QED BY <2>2, <2>3, <2>4, <2>6, <2>7, <2>8
<1>2. Reached(later, more, roots[r].node, 0)
  BY InputTypes DEF Swept, TypeInv
<1> QED BY <1>1, <1>2 DEF SweptNext

(* The roots that are done stay swept. *)
LEMMA SweptDone ==
  ASSUME TypeInv, SweepInv, [ResolveNext]_resolveVars, NEW r \in 1..Len(roots), r < root
  PROVE  \E dep \in [Node -> Int] : Swept(r, dep, <<>>, <<>>)'
<1>1. PICK dep \in [Node -> Int] : Swept(r, dep, <<>>, <<>>)
  BY DEF SweepInv
<1>2. SweptNext(r, dep, <<>>, <<>>)
  BY <1>1, SweptStays
<1> QED BY <1>2, SweptAfter

SweepNow == \E dep \in [Node -> Int] : Swept(root, dep, queue, current) /\ QueueInOrder(dep)

(* It suffices to give the depths for the root at work. *)
LEMMA SweepNowAfter ==
  ASSUME TypeInv, [ResolveNext]_resolveVars, NEW dep \in [Node -> Int],
         SweptNext(root', dep, queue', current'), QueueInOrder(dep)'
  PROVE  SweepNow'
<1>1. PICK r, paths, path : r = root' /\ paths = queue' /\ path = current'
  OBVIOUS
<1>2. SweptNext(r, dep, paths, path)
  BY <1>1
<1>3. Swept(r, dep, paths, path)'
  BY <1>2, SweptAfter
<1>4. Swept(root, dep, queue, current)'
  BY <1>1, <1>3 DEF Swept, Steady, DepthLimit, IsCandidate
<1> QED BY <1>4 DEF SweepNow

LEMMA SweepNextRoot ==
  ASSUME TypeInv, SweepInv, NextRoot
  PROVE  SweepNow' /\ (root > 0 => \E dep \in [Node -> Int] : Swept(root, dep, <<>>, <<>>))
<1>1. /\ queue = <<>> /\ current = <<>> /\ current' = <<>> /\ root' \in 1..Len(roots) /\ visited' = {}
      /\ queue' = <<<<roots[root'].node>>>> /\ [ResolveNext]_resolveVars
  BY InputTypes DEF NextRoot, ResolveNext, AgentStep, TypeInv, ResolveTypeOK
<1> DEFINE dep == [f \in Node |-> -1]
<1>2. dep \in [Node -> Int] /\ \A f \in Node : dep[f] = -1
  OBVIOUS
<1> HIDE DEF dep
<1>3. /\ Len(queue') = 1 /\ End(queue'[1]) = roots[root'].node /\ Depth(queue'[1]) = 0
      /\ \A i \in 1..Len(queue') : i = 1
  BY <1>1 DEF End, Depth
<1>4. SweptNext(root', dep, queue', current')
  <2>1. Reached(dep, queue', roots[root'].node, 0)
    BY <1>3 DEF Reached
  <2> QED BY <1>2, <2>1 DEF SweptNext
<1>5. QueueInOrder(dep)'
  <2>1. \A i \in 1..Len(queue') : Depth(queue'[i]) = 0
    BY <1>3
  <2>2. {f \in Node : dep[f] >= 0} = {}
    BY <1>2
  <2> QED BY <1>1, <1>2, <2>1, <2>2 DEF QueueInOrder, Depth
<1>6. SweepNow'
  BY <1>1, <1>2, <1>4, <1>5, SweepNowAfter
<1> QED BY <1>1, <1>6 DEF SweepInv

LEMMA SweepDequeue ==
  ASSUME TypeInv, SweepNow, Dequeue
  PROVE  SweepNow'
<1>1. PICK dep \in [Node -> Int] : Swept(root, dep, queue, current) /\ QueueInOrder(dep)
  BY DEF SweepNow
<1> DEFINE path == Head(queue)
           n == End(path)
<1>2. /\ queue \in Seq(Paths \ {<<>>}) /\ queue # <<>> /\ current = <<>>
      /\ queue' = Tail(queue) /\ visited' = visited \cup {n}
      /\ current' = IF n \in visited \/ Depth(path) > DepthLimit(root) THEN <<>> ELSE path
      /\ root' = root /\ [ResolveNext]_resolveVars
  BY DEF TypeInv, ResolveTypeOK, Dequeue, ResolveNext, AgentStep
<1>3. /\ path \in Paths \ {<<>>} /\ path = queue[1] /\ Len(queue) \in Nat \ {0}
      /\ queue' \in Seq(Paths \ {<<>>}) /\ Len(queue') = Len(queue) - 1
      /\ \A i \in 1..Len(queue') : queue'[i] = queue[i + 1]
  BY <1>2, HeadTailProperties
<1>4. n \in Node /\ Depth(path) \in Nat
  <2>1. Len(path) \in 1..Len(path) /\ path \in Seq(Node)
    BY <1>3 DEF Paths
  <2> QED BY <2>1, ElementOfSeq DEF End, Depth
<1>5. \A i \in 1..Len(queue) : Depth(queue[i]) \in Int
  <2> SUFFICES ASSUME NEW i \in 1..Len(queue) PROVE Depth(queue[i]) \in Int
    OBVIOUS
  <2>1. queue[i] \in Paths
    BY <1>2
  <2> QED BY <2>1 DEF Depth, Paths
<1>6. Depth(path) <= DepthLimit(root)
  BY <1>3 DEF TypeInv, ResolveTypeOK
<1>7. DepthLimit(root) \in Nat
  <2>1. root \in 1..Len(roots)
    BY <1>2, InputTypes DEF TypeInv, ResolveTypeOK, Active
  <2> QED BY <2>1, InputTypes DEF TypeInv
<1>a. visited = {f \in Node : dep[f] >= 0}
  BY <1>1 DEF QueueInOrder
<1>b. /\ \A f \in Node : dep[f] <= Depth(path)
      /\ \A i \in 1..Len(queue') : Depth(path) <= Depth(queue'[i]) /\ Depth(queue'[i]) <= Depth(path) + 1
      /\ \A i, j \in 1..Len(queue') :
           /\ i <= j => Depth(queue'[i]) <= Depth(queue'[j])
           /\ Depth(queue'[j]) <= Depth(queue'[i]) + 1
  <2>1. \A i \in 1..Len(queue') : i + 1 \in 1..Len(queue) /\ queue'[i] = queue[i + 1]
    BY <1>3
  <2>2. \A i, j \in 1..Len(queue') : i <= j => i + 1 <= j + 1
    OBVIOUS
  <2>3. 1 \in 1..Len(queue) /\ \A i \in 1..Len(queue) : 1 <= i
    BY <1>3
  <2>4. /\ \A i \in 1..Len(queue) : \A f \in Node : dep[f] <= Depth(queue[i])
        /\ \A i, j \in 1..Len(queue) : i <= j => Depth(queue[i]) <= Depth(queue[j])
        /\ \A i, j \in 1..Len(queue) : Depth(queue[j]) <= Depth(queue[i]) + 1
    BY <1>1 DEF QueueInOrder
  <2> QED BY <1>3, <2>1, <2>2, <2>3, <2>4
<1>c. \A c, d : \A i \in 1..Len(queue) :
        End(queue[i]) = c /\ Depth(queue[i]) <= d =>
          (c = n /\ Depth(path) <= d) \/ \E j \in 1..Len(queue') : End(queue'[j]) = c /\ Depth(queue'[j]) <= d
  <2> SUFFICES ASSUME NEW c, NEW d, NEW i \in 1..Len(queue), End(queue[i]) = c, Depth(queue[i]) <= d, i # 1
               PROVE  \E j \in 1..Len(queue') : End(queue'[j]) = c /\ Depth(queue'[j]) <= d
    BY <1>3
  <2>1. i - 1 \in 1..Len(queue') /\ (i - 1) + 1 = i
    BY <1>3
  <2> QED BY <1>3, <2>1
<1>d. root \in 1..Len(roots)
  BY <1>2, InputTypes DEF TypeInv, ResolveTypeOK, Active
<1>e. \A i \in 1..Len(queue') : Depth(queue'[i]) \in Int /\ \A f \in Node : dep[f] <= Depth(queue'[i])
  <2>1. \A i \in 1..Len(queue') : i + 1 \in 1..Len(queue) /\ queue'[i] = queue[i + 1]
    BY <1>3
  <2> QED BY <1>1, <1>5, <2>1 DEF QueueInOrder
<1> HIDE DEF path, n
<1>8. CASE n \in visited
  <2>1. 0 <= dep[n] /\ dep[n] <= Depth(path) /\ dep[n] \in Int
    BY <1>4, <1>8, <1>a, <1>b
  <2>2. ASSUME NEW c \in Node, NEW d \in Int, Reached(dep, queue, c, d)
        PROVE  Reached(dep, queue', c, d)
    <3>1. CASE c = n /\ Depth(path) <= d
      BY <1>4, <2>1, <3>1 DEF Reached
    <3>2. CASE ~(c = n /\ Depth(path) <= d)
      BY <1>c, <2>2, <3>2 DEF Reached
    <3> QED BY <3>1, <3>2
  <2>3. current' = <<>> /\ visited' = visited
    BY <1>2, <1>8
  <2>4. SweptNext(root', dep, queue', current')
    BY <1>1, <1>2, <1>d, <2>2, <2>3, SweptStays
  <2>5. QueueInOrder(dep)'
    BY <1>a, <1>b, <1>e, <2>3 DEF QueueInOrder, Depth
  <2> QED BY <1>2, <2>4, <2>5, SweepNowAfter
<1>9. CASE n \notin visited
  <2>0. PICK later : later = [dep EXCEPT ![n] = Depth(path)]
    OBVIOUS
  <2>1. /\ later \in [Node -> Int] /\ later[n] = Depth(path)
        /\ \A f \in Node : f # n => later[f] = dep[f]
    BY <1>4, <2>0
  <2>2. dep[n] < 0
    BY <1>4, <1>9, <1>a
  <2>3. current' = path /\ visited' = visited \cup {n} /\ End(current') = n /\ path # <<>>
    BY <1>2, <1>3, <1>6, <1>7, <1>4, <1>9 DEF n
  <2>4. ASSUME NEW c \in Node, NEW d \in Int, Reached(dep, queue, c, d)
        PROVE  Reached(later, queue', c, d)
    <3>1. CASE c = n /\ Depth(path) <= d
      BY <1>4, <2>1, <3>1 DEF Reached
    <3>2. CASE \E j \in 1..Len(queue') : End(queue'[j]) = c /\ Depth(queue'[j]) <= d
      BY <3>2 DEF Reached
    <3>3. CASE 0 <= dep[c] /\ dep[c] <= d
      <4>1. c # n
        BY <2>2, <3>3
      <4> QED BY <2>1, <3>3, <4>1 DEF Reached
    <3> QED BY <1>c, <2>4, <3>1, <3>2, <3>3 DEF Reached
  <2>5. SweptNext(root', later, queue', current')
    <3>1. \A f \in Node : later[f] >= 0 /\ (current' # <<>> => f # End(current')) =>
            later[f] = dep[f] /\ (current # <<>> => f # End(current) \/ <<root, f>> \in failed')
      BY <1>2, <2>1, <2>3
    <3> QED BY <1>1, <1>2, <1>d, <2>1, <2>4, <3>1, SweptStays
  <2>6. QueueInOrder(later)'
    <3>1. visited' = {f \in Node : later[f] >= 0}
      BY <1>4, <1>a, <2>1, <2>3
    <3>2. \A f \in Node : later[f] <= Depth(path)
      BY <1>4, <1>b, <2>1
    <3>3. \A i \in 1..Len(queue') : \A f \in Node : later[f] <= Depth(queue'[i])
      BY <1>4, <1>b, <1>e, <2>1, <3>2
    <3>4. /\ later[End(current')] = Depth(current')
          /\ \A f \in Node : later[f] <= Depth(current')
          /\ \A i \in 1..Len(queue') : Depth(queue'[i]) <= Depth(current') + 1
      BY <1>b, <2>1, <2>3, <3>2
    <3>5. \A i, j \in 1..Len(queue') :
           /\ i <= j => Depth(queue'[i]) <= Depth(queue'[j])
           /\ Depth(queue'[j]) <= Depth(queue'[i]) + 1
      BY <1>b
    <3> QED BY <3>1, <3>3, <3>4, <3>5 DEF QueueInOrder
  <2>7. [ResolveNext]_resolveVars
    BY <1>2
  <2>8. later \in [Node -> Int]
    BY <2>1
  <2> QED BY <2>5, <2>6, <2>7, <2>8, SweepNowAfter
<1> QED BY <1>8, <1>9

LEMMA SweepFetchPage ==
  ASSUME TypeInv, ListedInv, SweepNow, FetchPage
  PROVE  SweepNow'
<1>1. PICK dep \in [Node -> Int] : Swept(root, dep, queue, current) /\ QueueInOrder(dep)
  BY DEF SweepNow
<1>2. /\ current \in Paths \ {<<>>} /\ listed \o Page \in Paths /\ root \in 1..Len(roots) /\ root > 0
      /\ End(current) \in Node
      /\ UNCHANGED <<children, question, root, visited, answer, failed, changed>>
      /\ [ResolveNext]_resolveVars
  <2>1. /\ current # <<>> /\ [ResolveNext]_resolveVars
        /\ UNCHANGED <<children, question, root, visited, answer, failed, changed>>
    BY DEF FetchPage, ResolveNext, AgentStep
  <2>2. listed \o Page \in Paths /\ End(current) \in Node
    BY <2>1, PageAdds DEF TypeInv
  <2>3. current \in Paths \ {<<>>} /\ root \in 1..Len(roots) /\ root > 0
    BY <2>1, InputTypes DEF TypeInv, ResolveTypeOK, Active
  <2> QED BY <2>1, <2>2, <2>3
<1>3. CASE UNCHANGED <<queue, found, current>>
  <2>1. SweptNext(root', dep, queue', current')
    BY <1>1, <1>2, <1>3, SweptStays
  <2>2. QueueInOrder(dep)'
    BY <1>1, <1>2, <1>3 DEF QueueInOrder, Depth, End
  <2> QED BY <1>2, <2>1, <2>2, SweepNowAfter
<1>4. CASE LastPage(Page, HasMoreItems(Page)) /\ Collect(current, listed \o Page) /\ current' = <<>>
  <2> DEFINE f == End(current)
             nodes == listed \o Page
             d == Depth(current)
  <2>1. f \notin changed => nodes = children[f]
    BY <1>2, <1>4, PageAdds DEF TypeInv, ListedInv
  <2>2. d \in Nat /\ DepthLimit(root) \in Nat
    BY <1>2, InputTypes DEF Depth, Paths, TypeInv
  <2>3. /\ visited = {g \in Node : dep[g] >= 0} /\ dep[f] = d
        /\ \A g \in Node : dep[g] <= d
        /\ \A i \in 1..Len(queue) : d <= Depth(queue[i]) /\ Depth(queue[i]) <= d + 1
        /\ \A i \in 1..Len(queue) : \A g \in Node : dep[g] <= Depth(queue[i])
        /\ \A i, j \in 1..Len(queue) : i <= j => Depth(queue[i]) <= Depth(queue[j])
        /\ \A i, j \in 1..Len(queue) : Depth(queue[j]) <= Depth(queue[i]) + 1
    <3>1. \A i \in 1..Len(queue) : dep[f] <= Depth(queue[i])
      BY <1>1, <1>2 DEF QueueInOrder
    <3> QED BY <1>1, <1>2, <3>1 DEF QueueInOrder
  <2>4. /\ queue' \in Seq(Paths \ {<<>>}) /\ Len(queue') >= Len(queue)
        /\ \A i \in 1..Len(queue) : queue'[i] = queue[i]
        /\ \A i \in 1..Len(queue') : i > Len(queue) => Depth(queue'[i]) = d + 1
        /\ d + 1 <= DepthLimit(root) =>
             \A k \in 1..Len(nodes) : isFolder[nodes[k]] =>
               \E i \in 1..Len(queue') : End(queue'[i]) = nodes[k] /\ Depth(queue'[i]) = d + 1
    BY <1>2, <1>4, CollectQueue DEF TypeInv
  <2>5. \A k \in 1..Len(nodes) : Matches(nodes[k]) =>
          \E i \in 1..Len(found') :
            found'[i].root = root /\ Up(found'[i]) = f /\ Here(found'[i]) = nodes[k]
    BY <1>2, <1>4, CollectFound DEF TypeInv
  <2>6. /\ Len(queue) \in Nat /\ Len(queue') \in Nat
        /\ \A i \in 1..Len(queue) : i \in 1..Len(queue')
        /\ \A i \in 1..Len(queue') : i \in 1..Len(queue) \/ i > Len(queue)
    <3>1. Len(queue) \in Nat /\ Len(queue') \in Nat
      BY <2>4 DEF TypeInv, ResolveTypeOK
    <3> QED BY <2>4, <3>1
  <2> HIDE DEF f, nodes, d
  <2>7. \A c, e : Reached(dep, queue, c, e) => Reached(dep, queue', c, e)
    BY <2>4, <2>6 DEF Reached
  <2>8. SweptNext(root, dep, queue', current)
    BY <1>1, <1>2, <2>7, SweptStays
  <2>9. SweptNext(root', dep, queue', current')
    <3>1. Reached(dep, queue', roots[root].node, 0)
      BY <2>8 DEF SweptNext
    <3>2. ASSUME NEW g \in Node, dep[g] >= 0, isFolder[g], g \notin changed', <<root, g>> \notin failed',
                 NEW c \in Entries(g)
          PROVE  /\ Matches(c) => \E i \in 1..Len(found') :
                                   found'[i].root = root /\ Up(found'[i]) = g /\ Here(found'[i]) = c
                 /\ isFolder[c] /\ dep[g] + 1 <= DepthLimit(root) => Reached(dep, queue', c, dep[g] + 1)
      <4>1. CASE g # f
        BY <2>8, <3>2, <4>1 DEF SweptNext, f
      <4>2. CASE g = f
        <5>1. nodes = children[f]
          BY <1>2, <2>1, <3>2, <4>2
        <5>2. PICK k \in 1..Len(nodes) : c = nodes[k]
          BY <3>2, <4>2, <5>1 DEF Entries
        <5>3. isFolder[c] /\ d + 1 <= DepthLimit(root) => Reached(dep, queue', c, d + 1)
          <6>1. SUFFICES ASSUME isFolder[c], d + 1 <= DepthLimit(root) PROVE Reached(dep, queue', c, d + 1)
            OBVIOUS
          <6>2. PICK i \in 1..Len(queue') : End(queue'[i]) = c /\ Depth(queue'[i]) = d + 1
            BY <2>4, <5>2, <6>1
          <6>3. Depth(queue'[i]) <= d + 1
            BY <2>2, <6>2
          <6> QED BY <6>2, <6>3 DEF Reached
        <5> QED BY <2>3, <2>5, <4>2, <5>2, <5>3
      <4> QED BY <4>1, <4>2
    <3> QED BY <1>2, <1>4, <3>1, <3>2 DEF SweptNext
  <2>10. QueueInOrder(dep)'
    <3>1. ASSUME NEW i \in 1..Len(queue') PROVE Depth(queue'[i]) \in Int /\ d <= Depth(queue'[i]) /\ Depth(queue'[i]) <= d + 1
      <4>1. CASE i \in 1..Len(queue)
        <5>1. queue[i] \in Paths /\ queue'[i] = queue[i]
          BY <2>4, <4>1 DEF TypeInv, ResolveTypeOK
        <5>2. Depth(queue[i]) \in Int
          BY <5>1 DEF Paths, Depth
        <5> QED BY <2>3, <4>1, <5>1, <5>2
      <4>2. CASE i > Len(queue)
        BY <2>2, <2>4, <4>2
      <4> QED BY <2>6, <4>1, <4>2
    <3>2. \A i \in 1..Len(queue') : \A g \in Node : dep[g] <= Depth(queue'[i])
      BY <2>2, <2>3, <3>1
    <3>3. ASSUME NEW i \in 1..Len(queue'), NEW j \in 1..Len(queue'), i <= j
          PROVE  Depth(queue'[i]) <= Depth(queue'[j])
      <4>1. CASE j \in 1..Len(queue)
        <5>1. i \in 1..Len(queue)
          BY <2>6, <3>3, <4>1
        <5> QED BY <2>3, <2>4, <3>3, <4>1, <5>1
      <4>2. CASE j > Len(queue)
        BY <2>2, <2>4, <3>1, <4>2
      <4> QED BY <2>6, <4>1, <4>2
    <3>4. \A i, j \in 1..Len(queue') : Depth(queue'[j]) <= Depth(queue'[i]) + 1
      BY <2>2, <3>1
    <3>5. visited' = {g \in Node : dep[g] >= 0}
      BY <1>2, <2>3
    <3> QED BY <1>4, <3>2, <3>3, <3>4, <3>5 DEF QueueInOrder
  <2> QED BY <1>2, <2>9, <2>10, SweepNowAfter
<1> QED BY <1>3, <1>4 DEF FetchPage

LEMMA SweepOther ==
  ASSUME TypeInv, SweepNow, root > 0, [ResolveNext]_resolveVars,
         UNCHANGED <<root, queue, visited>>,
         current' = current \/ (current' = <<>> /\ <<root, End(current)>> \in failed')
  PROVE  SweepNow'
<1>1. PICK dep \in [Node -> Int] : Swept(root, dep, queue, current) /\ QueueInOrder(dep)
  BY DEF SweepNow
<1>2. root \in 1..Len(roots)
  BY InputTypes DEF TypeInv, ResolveTypeOK
<1>3. SweptNext(root', dep, queue', current')
  BY <1>1, <1>2, SweptStays
<1>4. QueueInOrder(dep)'
  BY <1>1 DEF QueueInOrder, Depth, End
<1> QED BY <1>3, <1>4, SweepNowAfter

LEMMA SweepInit == ResolveInit => SweepInv
<1> SUFFICES ASSUME ResolveInit PROVE SweepInv
  OBVIOUS
<1>1. root = 0 /\ \A r \in 1..Len(roots) : ~(r < root)
  <2>1. \A r \in 1..Len(roots) : r >= 1 /\ r \in Int
    BY TypesInit, InputTypes DEF TypeInv
  <2> QED BY <2>1 DEF ResolveInit
<1> QED BY <1>1 DEF SweepInv

LEMMA SweepStep == TypeInv /\ ListedInv /\ SweepInv /\ [ResolveNext]_resolveVars => SweepInv'
<1> SUFFICES ASSUME TypeInv, ListedInv, SweepInv, [ResolveNext]_resolveVars PROVE SweepInv'
  OBVIOUS
<1>0. roots' = roots /\ Len(roots) \in Nat /\ root \in 0..Len(roots) /\ (root > 0 => SweepNow)
  BY StepsFrame, InputTypes DEF question, SweepInv, SweepNow, TypeInv, ResolveTypeOK
<1>1. CASE NextRoot
  <2>1. SweepNow' /\ root' = root + 1
    BY <1>1, SweepNextRoot DEF NextRoot
  <2>2. ASSUME NEW r \in 1..Len(roots), r < root'
        PROVE  \E dep \in [Node -> Int] : Swept(r, dep, <<>>, <<>>)'
    <3>1. CASE r < root
      BY <3>1, SweptDone
    <3>2. CASE r = root
      <4>1. PICK dep \in [Node -> Int] : Swept(r, dep, <<>>, <<>>)
        BY <1>1, <3>2, SweepNextRoot
      <4>2. SweptNext(r, dep, <<>>, <<>>)
        BY <4>1, SweptStays
      <4> QED BY <4>2, SweptAfter
    <3> QED BY <1>0, <2>1, <2>2, <3>1, <3>2
  <2> QED BY <1>0, <2>1, <2>2 DEF SweepInv, SweepNow
<1>2. CASE ~NextRoot
  <2>1. root' = root
    BY <1>2 DEF ResolveNext, AgentStep, Refuse, Dequeue, FetchPage, FetchFails, Decide, Change, resolveVars, traversal
  <2>2. \A r \in 1..Len(roots) : r < root' => \E dep \in [Node -> Int] : Swept(r, dep, <<>>, <<>>)'
    BY <2>1, SweptDone
  <2>3. root > 0 => SweepNow'
    <3> SUFFICES ASSUME root > 0 PROVE SweepNow'
      OBVIOUS
    <3>1. CASE Dequeue
      BY <1>0, <3>1, SweepDequeue
    <3>2. CASE FetchPage
      BY <1>0, <3>2, SweepFetchPage
    <3>3. CASE FetchFails
      <4>1. /\ UNCHANGED <<root, queue, visited>>
            /\ current' = <<>> /\ <<root, End(current)>> \in failed'
        BY <3>3 DEF FetchFails, traversal
      <4> QED BY <1>0, <4>1, SweepOther
    <3>4. CASE UNCHANGED <<root, queue, visited, current>>
      BY <1>0, <3>4, SweepOther
    <3> QED BY <1>2, <3>1, <3>2, <3>3, <3>4
            DEF ResolveNext, AgentStep, Refuse, Decide, Change, resolveVars, traversal
  <2> QED BY <1>0, <2>1, <2>2, <2>3 DEF SweepInv, SweepNow
<1> QED BY <1>1, <1>2

-----------------------------------------------------------------------------
(* FoldersWithin: the recursion is well defined.                             *)
Nearer(r, near) ==
  near \cup {c \in UNION {Entries(f) : f \in {g \in near : Steady(r, g)}} : isFolder[c]}

Levels(within, r, n) ==
  within = [d \in 0..n |-> IF d = 0 THEN {roots[r].node} ELSE Nearer(r, within[d - 1])]

LEMMA LevelsExist == \A r : \A n \in Nat : \E within : Levels(within, r, n)
<1> SUFFICES ASSUME NEW r PROVE \A n \in Nat : \E within : Levels(within, r, n)
  OBVIOUS
<1> DEFINE Good == {n \in Nat : \E within : Levels(within, r, n)}
<1>1. 0 \in Good
  <2>1. Levels([d \in 0..0 |-> {roots[r].node}], r, 0)
    BY DEF Levels
  <2> QED BY <2>1
<1>2. ASSUME NEW n \in Nat, n \in Good PROVE n + 1 \in Good
  <2>1. PICK within : Levels(within, r, n)
    BY <1>2
  <2> DEFINE more == [d \in 0..(n + 1) |-> IF d = n + 1 THEN Nearer(r, within[n]) ELSE within[d]]
  <2>2. Levels(more, r, n + 1)
    <3>1. SUFFICES ASSUME NEW d \in 0..(n + 1)
                   PROVE more[d] = IF d = 0 THEN {roots[r].node} ELSE Nearer(r, more[d - 1])
      BY DEF Levels
    <3>2. CASE d = n + 1
      <4>1. more[d - 1] = within[n] /\ more[d] = Nearer(r, within[n])
        BY <3>2
      <4> QED BY <3>2, <4>1
    <3>3. CASE d \in 0..n
      <4>1. within[d] = IF d = 0 THEN {roots[r].node} ELSE Nearer(r, within[d - 1])
        BY <2>1, <3>3 DEF Levels
      <4>2. more[d] = within[d] /\ (d # 0 => more[d - 1] = within[d - 1])
        BY <3>3
      <4> QED BY <4>1, <4>2
    <3> QED BY <3>2, <3>3
  <2> QED BY <2>2
<1>3. Nat \subseteq Good
  <2> HIDE DEF Good
  <2> QED BY <1>1, <1>2, SetInduction
<1> QED BY <1>3

(* When the sweep is done, a folder d steps from the root was dequeued at a  *)
(* depth of at most d.                                                       *)
LEMMA WithinIsReached ==
  ASSUME TypeInv, NEW r \in 1..Len(roots), NEW dep \in [Node -> Int], Swept(r, dep, <<>>, <<>>)
  PROVE  \A f \in FoldersWithin(r) : f \in Node /\ dep[f] >= 0
<1> DEFINE m == DepthLimit(r)
           within == CHOOSE within : Levels(within, r, m)
<1>1. m \in Nat \ {0}
  BY InputTypes DEF TypeInv
<1>2. Levels(within, r, m)
  BY <1>1, LevelsExist
<1>3. FoldersWithin(r) = within[m]
  BY DEF FoldersWithin, Levels, Nearer
<1> HIDE DEF within, m
<1>4. within[0] = {roots[r].node} /\ \A d \in 1..m : within[d] = Nearer(r, within[d - 1])
  <2>1. within = [d \in 0..m |-> IF d = 0 THEN {roots[r].node} ELSE Nearer(r, within[d - 1])]
    BY <1>2 DEF Levels
  <2>2. \A d \in 0..m : within[d] = IF d = 0 THEN {roots[r].node} ELSE Nearer(r, within[d - 1])
    BY <2>1, Zenon
  <2>3. 0 \in 0..m /\ \A d \in 1..m : d \in 0..m /\ d # 0
    BY <1>1
  <2> QED BY <2>2, <2>3, Zenon
<1>5. \A c, d : Reached(dep, <<>>, c, d) <=> 0 <= dep[c] /\ dep[c] <= d
  BY DEF Reached
<1> DEFINE Good == {d \in Nat : d <= m => \A f \in within[d] : f \in Node /\ 0 <= dep[f] /\ dep[f] <= d}
<1>6. 0 \in Good
  BY <1>4, <1>5, InputTypes DEF Swept, TypeInv
<1>7. ASSUME NEW d \in Nat, d \in Good PROVE d + 1 \in Good
  <2> SUFFICES ASSUME d + 1 <= m, NEW c \in within[d + 1]
               PROVE  c \in Node /\ 0 <= dep[c] /\ dep[c] <= d + 1
    OBVIOUS
  <2>1. within[d + 1] = Nearer(r, within[d])
    <3>1. d + 1 \in 1..m /\ (d + 1) - 1 = d
      BY <1>1
    <3> QED BY <1>4, <3>1
  <2>2. \A f \in within[d] : f \in Node /\ 0 <= dep[f] /\ dep[f] <= d
    BY <1>1, <1>7
  <2>3. CASE c \in within[d]
    <3>1. c \in Node /\ 0 <= dep[c] /\ dep[c] <= d /\ dep[c] \in Int
      BY <2>2, <2>3
    <3> QED BY <3>1
  <2>4. CASE c \notin within[d]
    <3>1. PICK f \in within[d] : Steady(r, f) /\ c \in Entries(f) /\ isFolder[c]
      BY <2>1, <2>4 DEF Nearer
    <3>2. f \in Node /\ 0 <= dep[f] /\ dep[f] <= d /\ dep[f] \in Int
      BY <2>2
    <3>3. c \in Node
      <4>1. children[f] \in Seq(Node)
        BY <3>2 DEF TypeInv, ResolveTypeOK, Paths
      <4> QED BY <3>1, <4>1, ElementOfSeq DEF Entries
    <3>4. dep[f] + 1 <= m
      BY <1>1, <3>2
    <3>5. Reached(dep, <<>>, c, dep[f] + 1)
      BY <3>1, <3>2, <3>4 DEF Swept, m
    <3>6. 0 <= dep[c] /\ dep[c] <= dep[f] + 1 /\ dep[c] \in Int
      BY <1>5, <3>3, <3>5
    <3> QED BY <3>2, <3>3, <3>6
  <2> QED BY <2>3, <2>4
<1>8. Nat \subseteq Good
  <2> HIDE DEF Good
  <2> QED BY <1>6, <1>7, SetInduction
<1> QED BY <1>1, <1>3, <1>8

ResolveInv == TypeInv /\ ListedInv /\ FoundInv /\ AnswerInv /\ SweepInv

LEMMA ResolveInvInit == ResolveInit => ResolveInv
<1> SUFFICES ASSUME ResolveInit PROVE ResolveInv
  OBVIOUS
<1>1. FoundInv /\ AnswerInv
  BY DEF ResolveInit, FoundInv, AnswerInv, Decided
<1> QED BY <1>1, TypesInit, ListedInit, SweepInit DEF ResolveInv

LEMMA ResolveInvStep == ResolveInv /\ [ResolveNext]_resolveVars => ResolveInv'
  BY TypesStep, ListedStep, FoundStep, AnswerStep, SweepStep DEF ResolveInv

LEMMA InvIsJudged == ResolveInv => ScopeIsJudged
<1> SUFFICES ASSUME ResolveInv, Decided PROVE ScopeIsJudged
  BY DEF ScopeIsJudged
<1>1. root = Len(roots) /\ root > 0 /\ queue = <<>> /\ current = <<>> /\ Len(roots) \in Nat
  BY InputTypes DEF ResolveInv, AnswerInv, TypeInv
<1>2. ASSUME NEW r \in 1..Len(roots)
      PROVE  \E dep \in [Node -> Int] : Swept(r, dep, <<>>, <<>>)
  <2>1. r < root \/ r = root
    BY <1>1
  <2> QED BY <1>1, <2>1 DEF ResolveInv, SweepInv
<1>3. ASSUME NEW t \in Scope
      PROVE  \E i \in 1..Len(found) : t = <<found[i].root, Parent(i), NodeOf(i)>>
  <2>1. PICK r, f, c :
          /\ r \in 1..Len(roots) /\ f \in FoldersWithin(r) /\ Steady(r, f)
          /\ c \in Entries(f) /\ Matches(c) /\ t = <<r, f, c>>
    BY <1>3 DEF Scope, MatchesIn
  <2>2. PICK dep \in [Node -> Int] : Swept(r, dep, <<>>, <<>>)
    BY <1>2, <2>1
  <2>3. f \in Node /\ dep[f] >= 0
    <3>1. TypeInv
      BY DEF ResolveInv
    <3>2. \A g \in FoldersWithin(r) : g \in Node /\ dep[g] >= 0
      BY <2>1, <2>2, <3>1, WithinIsReached
    <3> QED BY <2>1, <3>2
  <2>4. IsCandidate(r, f, c)
    BY <2>1, <2>2, <2>3 DEF Swept
  <2> QED BY <2>1, <2>4, FinalTypes DEF IsCandidate, ResolveInv, TypeInv
<1>4. ASSUME NEW i \in 1..Len(found), Steady(found[i].root, Parent(i))
      PROVE  NodeOf(i) \in Entries(Parent(i)) /\ Matches(NodeOf(i))
  BY <1>4, FinalTypes DEF ResolveInv, FoundInv, TypeInv
<1> QED BY <1>3, <1>4 DEF ScopeIsJudged

(* The breadth-first search leaves nothing out: when the answer is given,    *)
(* every matching entry of a steady folder within the depth limit is a       *)
(* candidate, however many ways lead to the folder and whichever was taken   *)
(* first (resolve, fetchAllChildren).                                        *)
THEOREM SearchIsComplete == ResolveSpec => []ScopeIsJudged
<1> QED BY ResolveInvInit, ResolveInvStep, InvIsJudged, PTL DEF ResolveSpec

-----------------------------------------------------------------------------
(* Why a resolved node is unrivalled: it is the top of the candidates by the *)
(* margin of the policy, and by ScopeIsJudged the candidates are all that    *)
(* could be listed.                                                          *)
LEMMA ResolvedBeats ==
  ASSUME TypeInv, found # <<>>, Judge, status' = "resolved", MaxCandidates # 1
  PROVE  \A i \in 1..Len(found) :
           NodeOf(i) # best' => FinalScore(NodeOf(i)) + Margin <= FinalScore(best')
<1> DEFINE final == FinalScores
           n == Len(found)
           top == TopOf(final)
           second == SecondScore(final, top)
<1>1. /\ n \in Nat \ {0} /\ final \in Seq(Scores) /\ final \in [1..n -> Scores] /\ Len(final) = n
      /\ \A i \in 1..n : final[i] = FinalScore(NodeOf(i))
  BY FinalTypes DEF TypeInv, ResolveTypeOK
<1>2. /\ Clear(final[top], final[top] - second)
      /\ best' = NodeOf(top)
  BY DEF Judge, Answer
<1> HIDE DEF final, n
<1>3. top \in 1..n
  BY <1>1, TopIsHighest
<1> HIDE DEF top
<1> SUFFICES ASSUME NEW i \in 1..n, NodeOf(i) # best'
             PROVE  FinalScore(NodeOf(i)) + Margin <= FinalScore(best')
  BY DEF n
<1>4. i # top /\ n > 1
  BY <1>1, <1>2, <1>3
<1>5. second \in Scores /\ final[i] <= second
  BY <1>1, <1>3, <1>4, SecondIsHighest
<1> HIDE DEF second
<1>6. final[i] \in Int /\ final[top] \in Int /\ second \in Int
  <2>1. final[i] \in Scores /\ final[top] \in Scores
    BY <1>1, <1>3
  <2>2. \A s \in Scores : s \in Int
    BY DEF Scores
  <2> QED BY <1>5, <2>1, <2>2
<1>7. final[top] - second >= Margin
  BY <1>2, <1>6 DEF Clear, High, Medium, Margin
<1>8. Margin \in Int
  BY DEF Margin
<1>9. final[i] + Margin <= final[top]
  BY <1>5, <1>6, <1>7, <1>8
<1> QED BY <1>1, <1>2, <1>3, <1>9

TopInv ==
  status = "resolved" /\ MaxCandidates > 1 =>
    \A i \in 1..Len(found) : NodeOf(i) # best => FinalScore(NodeOf(i)) + Margin <= FinalScore(best)

LEMMA TopStep == TypeInv /\ TopInv /\ [ResolveNext]_resolveVars => TopInv'
<1> SUFFICES ASSUME TypeInv, TopInv, [ResolveNext]_resolveVars, status' = "resolved", MaxCandidates' > 1
             PROVE  (\A i \in 1..Len(found) :
                       NodeOf(i) # best => FinalScore(NodeOf(i)) + Margin <= FinalScore(best))'
  BY DEF TopInv
<1>1. UNCHANGED <<found, roots, score, request>> =>
        /\ \A n : FinalScore(n)' = FinalScore(n)
        /\ Margin' = Margin /\ MaxCandidates' = MaxCandidates
        /\ \A i : NodeOf(i)' = NodeOf(i)
  BY DEF FinalScore, SitesOf, SiteOf, NodeOf, End, Margin, MaxCandidates
<1>2. CASE status # "none"
  <2>1. UNCHANGED <<found, roots, score, request, status, best>>
    BY <1>2, AnswerIsFinal DEF resolveVars, question, answer
  <2> QED BY <1>1, <2>1 DEF TopInv
<1>3. CASE status = "none"
  <2>1. Decide /\ found # <<>> /\ Judge
    BY <1>3 DEF ResolveNext, AgentStep, Refuse, NextRoot, Dequeue, FetchPage, FetchFails, Change, Decide,
                Answer, answer, resolveVars
  <2>2. UNCHANGED <<found, roots, score, request>>
    BY <2>1 DEF Decide, question
  <2>3. MaxCandidates # 1
    <3>1. MaxCandidates > 1
      BY <1>1, <2>2
    <3>2. MaxCandidates \in Int
      BY InputTypes DEF MaxCandidates, TypeInv
    <3> QED BY <3>1, <3>2
  <2>4. \A i \in 1..Len(found) :
          NodeOf(i) # best' => FinalScore(NodeOf(i)) + Margin <= FinalScore(best')
    BY <2>1, <2>3, ResolvedBeats
  <2> QED BY <1>1, <2>2, <2>4
<1> QED BY <1>2, <1>3

LEMMA TopIsUnique == ResolveInv /\ TopInv => ResolvedIsUnique
<1> SUFFICES ASSUME ResolveInv, TopInv, status = "resolved", MaxCandidates > 1 PROVE Unrivalled
  BY DEF ResolvedIsUnique
<1>1. Decided
  BY DEF ResolveInv, AnswerInv, Decided
<1>2. ScopeIsJudged
  BY InvIsJudged
<1> SUFFICES ASSUME NEW t \in Scope, t[3] # best
             PROVE  FinalScore(t[3]) + Margin <= FinalScore(best)
  BY DEF Unrivalled
<1>3. PICK i \in 1..Len(found) : t = <<found[i].root, Parent(i), NodeOf(i)>>
  BY <1>1, <1>2 DEF ScopeIsJudged
<1>4. t[3] = NodeOf(i)
  BY <1>3
<1> QED BY <1>4 DEF TopInv

(* A resolved node beats every other node that could be listed by the margin *)
(* of the policy, provided that more than one candidate was asked for        *)
(* (resolve: duplicate penalties, stable sort, second score).                *)
THEOREM ResolvedIsUnrivalled == ResolveSpec => []ResolvedIsUnique
<1>1. ResolveInit => TopInv
  BY DEF ResolveInit, TopInv
<1>2. ResolveInv /\ TopInv /\ [ResolveNext]_resolveVars => TopInv'
  BY TopStep DEF ResolveInv
<1> QED BY <1>1, <1>2, ResolveInvInit, ResolveInvStep, TopIsUnique, PTL DEF ResolveSpec

-----------------------------------------------------------------------------
(* Why the search ends: every step of the agent lowers a tuple of numbers,   *)
(* and other clients cannot raise it.  The last number is what is left of    *)
(* the listing in progress, or the queue when there is none.                 *)
Measure ==
  <<IF Working THEN 1 ELSE 0, Len(roots) - root, Cardinality(Node \ visited),
    IF current # <<>> THEN 1 ELSE 0,
    IF current # <<>> THEN N - Len(listed) ELSE Len(queue)>>

Less(a, b) == \E i \in 1..5 : a[i] < b[i] /\ \A j \in 1..(i - 1) : a[j] = b[j]

Counts == [1..5 -> Nat]

(* A listing shows no more than a folder can have. *)
ListedFits == Len(listed) <= N

LEMMA NodesCount == IsFiniteSet(Node) /\ Cardinality(Node) = N
<1>1. N \in Nat \ {0}
  BY ResolveBounds
<1>2. IsFiniteSet(1..N) /\ Cardinality(1..N) = IF 1 > N THEN 0 ELSE N - 1 + 1
  BY <1>1, FS_Interval
<1> QED BY <1>1, <1>2 DEF Node

LEMMA NodesLeft == IsFiniteSet(Node \ visited)
<1>1. IsFiniteSet(Node)
  BY NodesCount
<1> QED BY <1>1, FS_Difference

LEMMA OnceFits ==
  ASSUME NEW nodes \in Paths, ListsOnce(nodes)
  PROVE  Len(nodes) <= N
<1>1. N \in Nat /\ Len(nodes) \in Nat /\ nodes \in [1..Len(nodes) -> Node]
  BY ResolveBounds DEF Paths
<1>2. IsFiniteSet(Node) /\ Cardinality(Node) = N
  BY NodesCount
<1>3. Cardinality(1..Len(nodes)) = Len(nodes)
  <2>1. Cardinality(1..Len(nodes)) = IF 1 > Len(nodes) THEN 0 ELSE Len(nodes) - 1 + 1
    BY <1>1, FS_Interval
  <2> QED BY <1>1, <2>1
<1>4. nodes \in Injection(1..Len(nodes), Node)
  BY <1>1 DEF ListsOnce, Injection, IsInjective
<1> QED BY <1>2, <1>3, <1>4, FS_Injection

(* Each page that is not the last shows something. *)
LEMMA PageFits ==
  ASSUME ResolveTypeOK, OnceInv, current # <<>>, ~LastPage(Page, HasMoreItems(Page))
  PROVE  Len(listed \o Page) \in Nat /\ Len(listed) < Len(listed \o Page) /\ Len(listed \o Page) <= N
<1> DEFINE all == children[End(current)]
           m == Len(listed) + 1
           n == IF Len(listed) + PageSize < Len(all) THEN Len(listed) + PageSize ELSE Len(all)
<1>1. listed \in Paths /\ PageSize \in Nat \ {0} /\ End(current) \in Node
  BY ResolveBounds, PageAdds DEF ResolveTypeOK
<1>2. all \in Paths /\ ListsOnce(all)
  BY <1>1 DEF ResolveTypeOK, OnceInv
<1>3. Page = SubSeq(all, m, n) /\ Page # <<>>
  BY DEF Page, LastPage
<1>4. Len(all) <= N /\ N \in Nat
  BY <1>2, OnceFits, ResolveBounds
<1> HIDE DEF all
<1>5. Len(listed) \in Nat /\ Len(all) \in Nat /\ m \in Int /\ n \in Int /\ m >= 1 /\ n <= Len(all)
  BY <1>1, <1>2 DEF Paths
<1>6. \A i \in m..n : all[i] \in Node
  BY <1>2, <1>5 DEF Paths
<1>7. Page \in Seq(Node) /\ Len(Page) = (IF m <= n THEN n - m + 1 ELSE 0)
  <2> HIDE DEF m, n
  <2> QED BY <1>3, <1>5, <1>6, SubSeqProperties
<1>8. Len(Page) > 0
  BY <1>3, <1>7
<1>9. m <= n /\ Len(Page) = n - m + 1
  BY <1>5, <1>7, <1>8
<1>10. Len(listed \o Page) = Len(listed) + Len(Page)
  BY <1>1, <1>7, ConcatParts DEF Paths
<1> QED BY <1>4, <1>5, <1>9, <1>10

LEMMA FitsStep ==
  TypeInv /\ OnceInv /\ ListedFits /\ [ResolveNext]_resolveVars => ListedFits'
<1> SUFFICES ASSUME TypeInv, OnceInv, ListedFits, [ResolveNext]_resolveVars PROVE ListedFits'
  OBVIOUS
<1>1. CASE listed' = listed
  BY <1>1 DEF ListedFits
<1>2. CASE listed' = <<>>
  BY <1>2, ResolveBounds DEF ListedFits
<1>3. CASE FetchPage /\ ~LastPage(Page, HasMoreItems(Page)) /\ listed' = listed \o Page
  <2>1. current # <<>>
    BY <1>3 DEF FetchPage
  <2> QED BY <1>3, <2>1, PageFits DEF TypeInv, ListedFits
<1> QED BY <1>1, <1>2, <1>3
        DEF ResolveNext, AgentStep, Refuse, NextRoot, Dequeue, FetchPage, FetchFails, Decide, Change,
            resolveVars

LEMMA MeasureCounts == TypeInv /\ ListedFits => Measure \in Counts
<1> SUFFICES ASSUME TypeInv, ListedFits PROVE Measure \in Counts
  OBVIOUS
<1>1. Len(roots) - root \in Nat
  BY InputTypes DEF TypeInv, ResolveTypeOK
<1>2. Cardinality(Node \ visited) \in Nat
  BY NodesLeft, FS_CardinalityType
<1>3. N - Len(listed) \in Nat
  BY ResolveBounds DEF TypeInv, ResolveTypeOK, Paths, ListedFits
<1>4. Len(queue) \in Nat
  BY DEF TypeInv, ResolveTypeOK
<1> QED BY <1>1, <1>2, <1>3, <1>4 DEF Counts, Measure

LEMMA LessAt ==
  ASSUME NEW a, NEW b, NEW i \in 1..5, a[i] < b[i], \A j \in 1..(i - 1) : a[j] = b[j]
  PROVE  Less(a, b)
  BY DEF Less

(* What a step of the agent does to the parts of the measure. *)
LEMMA MeasureStep ==
  ASSUME TypeInv, OnceInv, ListedFits, AgentStep
  PROVE  Less(Measure', Measure)
<1>1. Len(roots') = Len(roots) /\ Working /\ Len(roots) \in Nat /\ root \in Nat
  BY InputTypes DEF TypeInv, ResolveTypeOK, AgentStep, Refuse, NextRoot, Dequeue, FetchPage, FetchFails,
                    Decide, question, Working
<1>2. CASE Refuse \/ Decide
  <2>1. status' # "none"
    BY <1>2 DEF Refuse, Decide, Answer, Judge
  <2>2. Measure'[1] = 0 /\ Measure[1] = 1
    BY <1>1, <2>1 DEF Measure, Working
  <2> QED BY <2>2, LessAt
<1>3. CASE NextRoot
  <2>1. status' = status /\ root' = root + 1
    BY <1>3 DEF NextRoot, answer
  <2>2. Measure'[1] = Measure[1] /\ Measure'[2] = Len(roots) - (root + 1) /\ Measure[2] = Len(roots) - root
    BY <1>1, <2>1 DEF Measure, Working
  <2>3. Measure'[2] < Measure[2]
    BY <1>1, <2>2
  <2> QED BY <2>2, <2>3, LessAt
<1>4. CASE Dequeue
  <2> DEFINE n == End(Head(queue))
  <2>1. /\ current = <<>> /\ queue # <<>> /\ queue' = Tail(queue) /\ visited' = visited \cup {n}
        /\ status' = status /\ root' = root
        /\ n \in visited => current' = <<>>
    BY <1>4 DEF Dequeue, answer
  <2>2. queue \in Seq(Paths \ {<<>>}) /\ visited \subseteq Node
    BY DEF TypeInv, ResolveTypeOK
  <2>3. n \in Node
    <3>1. Head(queue) \in Paths \ {<<>>}
      BY <2>1, <2>2
    <3>2. Len(Head(queue)) \in 1..Len(Head(queue))
      BY <3>1 DEF Paths
    <3> QED BY <3>1, <3>2, ElementOfSeq DEF Paths, End
  <2> HIDE DEF n
  <2>4. Measure'[1] = Measure[1] /\ Measure'[2] = Measure[2]
    BY <1>1, <2>1 DEF Measure, Working
  <2>5. CASE n \in visited
    <3>1. visited' = visited /\ current' = <<>>
      BY <2>1, <2>5
    <3>2. Len(queue') < Len(queue)
      BY <2>1, <2>2
    <3>3. /\ Measure'[3] = Measure[3] /\ Measure'[4] = Measure[4]
          /\ Measure'[5] = Len(queue') /\ Measure[5] = Len(queue)
      BY <2>1, <3>1 DEF Measure
    <3>4. \A j \in 1..4 : Measure'[j] = Measure[j]
      BY <2>4, <3>3
    <3> QED BY <3>2, <3>3, <3>4, LessAt
  <2>6. CASE n \notin visited
    <3>1. IsFiniteSet(Node \ visited)
      BY NodesLeft
    <3>2. Node \ visited' = (Node \ visited) \ {n} /\ n \in Node \ visited
      BY <2>1, <2>3, <2>6
    <3>3. Cardinality((Node \ visited) \ {n}) = Cardinality(Node \ visited) - 1
      BY <3>1, <3>2, FS_RemoveElement
    <3>4. Cardinality(Node \ visited) \in Nat
      BY <3>1, FS_CardinalityType
    <3>5. Measure'[3] = Cardinality(Node \ visited') /\ Measure[3] = Cardinality(Node \ visited)
      BY DEF Measure, Node
    <3>6. Measure'[3] < Measure[3]
      BY <3>2, <3>3, <3>4, <3>5
    <3>7. \A j \in 1..2 : Measure'[j] = Measure[j]
      BY <2>4
    <3> QED BY <3>6, <3>7, LessAt
  <2> QED BY <2>5, <2>6
<1>5. CASE FetchPage \/ FetchFails
  <2>1. current # <<>> /\ UNCHANGED <<status, root, visited>>
    BY <1>5 DEF FetchPage, FetchFails, traversal, answer
  <2>2. Measure'[1] = Measure[1] /\ Measure'[2] = Measure[2] /\ Measure'[3] = Measure[3]
    BY <1>1, <2>1 DEF Measure, Working, Node
  <2>3. \A j \in 1..3 : Measure'[j] = Measure[j]
    BY <2>2
  <2>4. CASE current' = <<>>
    <3>1. Measure'[4] = 0 /\ Measure[4] = 1
      BY <2>1, <2>4 DEF Measure
    <3> QED BY <2>3, <3>1, LessAt
  <2>5. CASE ~LastPage(Page, HasMoreItems(Page)) /\ listed' = listed \o Page /\ current' = current
    <3>1. Len(listed) < Len(listed') /\ Len(listed') \in Nat
      BY <2>1, <2>5, PageFits DEF TypeInv
    <3>2. N \in Nat /\ Len(listed) \in Nat
      BY ResolveBounds DEF TypeInv, ResolveTypeOK, Paths
    <3>3. Measure'[5] = N - Len(listed') /\ Measure[5] = N - Len(listed) /\ Measure'[4] = Measure[4]
      BY <2>1, <2>5 DEF Measure
    <3>4. \A j \in 1..4 : Measure'[j] = Measure[j]
      BY <2>2, <3>3
    <3>5. Measure'[5] < Measure[5]
      BY <3>1, <3>2, <3>3
    <3> QED BY <3>4, <3>5, LessAt
  <2> QED BY <1>5, <2>4, <2>5 DEF FetchPage, FetchFails
<1> QED BY <1>2, <1>3, <1>4, <1>5 DEF AgentStep

LEMMA MeasureKept == (\E f \in Node : Change(f)) => Measure' = Measure
  BY DEF Change, Measure, Working, question, traversal, answer, Node

(* Less has no infinite descent. *)
LeastPart(T, S, i) ==
  T \subseteq S /\ T # {} /\ \E v \in Nat : T = {s \in S : s[i] = v} /\ \A s \in S : v <= s[i]

LEMMA LeastAt ==
  ASSUME NEW S, S \subseteq Counts, S # {}, NEW i \in 1..5
  PROVE  \E T : T \subseteq Counts /\ T # {} /\ LeastPart(T, S, i)
<1> DEFINE values == {s[i] : s \in S}
<1>1. values \in SUBSET Nat /\ values # {}
  BY DEF Counts
<1>2. PICK v \in values : \A k \in values : v <= k
  <2> HIDE DEF values
  <2> QED BY <1>1, LeastNumber
<1> DEFINE T == {s \in S : s[i] = v}
<1>3. T \subseteq S /\ T # {} /\ v \in Nat /\ \A s \in S : v <= s[i]
  BY <1>1, <1>2
<1> QED BY <1>3 DEF LeastPart

LEMMA LessIsWellFounded ==
  ASSUME NEW S \in SUBSET Counts, S # {}
  PROVE  \E m \in S : \A k \in S : ~Less(k, m)
<1>a. 1 \in 1..5 /\ 2 \in 1..5 /\ 3 \in 1..5 /\ 4 \in 1..5 /\ 5 \in 1..5
  OBVIOUS
<1>b. S \subseteq Counts
  OBVIOUS
<1>1. PICK T1 : T1 \subseteq Counts /\ T1 # {} /\ LeastPart(T1, S, 1)
  BY <1>a, <1>b, LeastAt, Zenon
<1>2. PICK T2 : T2 \subseteq Counts /\ T2 # {} /\ LeastPart(T2, T1, 2)
  BY <1>a, <1>1, LeastAt, Zenon
<1>3. PICK T3 : T3 \subseteq Counts /\ T3 # {} /\ LeastPart(T3, T2, 3)
  BY <1>a, <1>2, LeastAt, Zenon
<1>4. PICK T4 : T4 \subseteq Counts /\ T4 # {} /\ LeastPart(T4, T3, 4)
  BY <1>a, <1>3, LeastAt, Zenon
<1>5. PICK T5 : T5 \subseteq Counts /\ T5 # {} /\ LeastPart(T5, T4, 5)
  BY <1>a, <1>4, LeastAt, Zenon
<1>6. PICK m : m \in T5
  BY <1>5 DEF LeastPart
<1>7. m \in T4 /\ m \in T3 /\ m \in T2 /\ m \in T1 /\ m \in S
  BY <1>1, <1>2, <1>3, <1>4, <1>5, <1>6 DEF LeastPart
<1>8. ASSUME NEW k \in S, NEW i \in 1..5, k[i] < m[i], \A j \in 1..(i - 1) : k[j] = m[j]
      PROVE  FALSE
  <2>1. \A j \in 1..5 : m[j] \in Nat /\ k[j] \in Nat
    BY <1>7 DEF Counts
  <2>2. i # 1 /\ (i > 1 => k \in T1)
    BY <1>1, <1>7, <1>8, <2>1 DEF LeastPart
  <2>3. i # 2 /\ (i > 2 => k \in T2)
    BY <1>2, <1>7, <1>8, <2>1, <2>2 DEF LeastPart
  <2>4. i # 3 /\ (i > 3 => k \in T3)
    BY <1>3, <1>7, <1>8, <2>1, <2>2, <2>3 DEF LeastPart
  <2>5. i # 4 /\ (i > 4 => k \in T4)
    BY <1>4, <1>7, <1>8, <2>1, <2>2, <2>3, <2>4 DEF LeastPart
  <2>6. i # 5
    BY <1>5, <1>6, <1>8, <2>1, <2>2, <2>3, <2>4, <2>5 DEF LeastPart
  <2> QED BY <2>2, <2>3, <2>4, <2>5, <2>6
<1> QED BY <1>7, <1>8 DEF Less

(* A search makes only so many steps, whatever the folders hold, whatever    *)
(* fails, and however often other clients change them: each step of the      *)
(* agent lowers the measure, which is made of natural numbers, and nothing   *)
(* else raises it (the loops of resolve and fetchAllChildren).               *)
THEOREM SearchMakesHeadway ==
  ResolveSpec => /\ [](Measure \in Counts)
                 /\ [][IF AgentStep THEN Less(Measure', Measure) ELSE Measure' = Measure]_resolveVars
<1> DEFINE Inv == ResolveInv /\ OnceInv /\ ListedFits
           Headway == IF AgentStep THEN Less(Measure', Measure) ELSE Measure' = Measure
<1>1. ResolveInit => Inv
  BY ResolveInvInit, OnceInit, ResolveBounds DEF ResolveInit, ListedFits
<1>2. Inv /\ [ResolveNext]_resolveVars => Inv'
  <2>1. ResolveInv /\ [ResolveNext]_resolveVars => ResolveInv'
    BY ResolveInvStep
  <2>2. ResolveInv /\ ResolveInv' => TypeInv /\ TypeInv' /\ ListedInv
    BY DEF ResolveInv
  <2> QED BY <2>1, <2>2, OnceStep, FitsStep
<1>3. Inv => Measure \in Counts
  BY MeasureCounts DEF ResolveInv
<1>4. Inv /\ [ResolveNext]_resolveVars => [Headway]_resolveVars
  <2>1. Inv /\ ResolveNext => Headway
    BY MeasureStep, MeasureKept DEF ResolveInv, ResolveNext
  <2> QED BY <2>1
<1> HIDE DEF Inv, Headway
<1>5. ResolveSpec => [](Measure \in Counts) /\ [][Headway]_resolveVars
  BY <1>1, <1>2, <1>3, <1>4, PTL DEF ResolveSpec
<1> QED BY <1>5 DEF Headway
=============================================================================
