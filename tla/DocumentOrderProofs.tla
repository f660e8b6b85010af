------------------------ MODULE DocumentOrderProofs ------------------------
(***************************************************************************)
(* Document order is a strict total order of the nodes of one tree, for    *)
(* trees of any shape, and the comparison of two nodes decides it: the     *)
(* paths of two elements part at one place only, and what the comparison   *)
(* finds there decides.  Then sorting, concatenation and the merge of      *)
(* sorted sequences return the nodes they are given, once each and in that *)
(* order, however many there are.                                          *)
(***************************************************************************)
EXTENDS DocumentOrder, FiniteSetsExt, WellFoundedInduction, SequenceTheorems, FiniteSetTheorems, TLAPS

\* A set of natural numbers that is not empty has a least element.
LEMMA LeastExists ==
  ASSUME NEW S \in SUBSET Nat, S # {}
  PROVE  \E x \in S : \A y \in S : x <= y
<1>1. PICK Less : IsWellFoundedOn(Less, Nat) /\ \A x, y \in Nat : x < y => <<x, y>> \in Less
  <2>1. \A x, y \in Nat : x < y => <<x, y>> \in OpToRel(<, Nat)
    BY DEF OpToRel
  <2> QED BY <2>1, NatLessThanWellFounded
<1>2. \E x \in S : \A y \in S : ~ (<<y, x>> \in Less)
  <2>1. IsWellFoundedOn(Less, Nat) /\ S \subseteq Nat
    BY <1>1
  <2> QED BY <2>1, WFMin
<1>3. PICK x \in S : \A y \in S : ~ (<<y, x>> \in Less)
  BY <1>2
<1>4. ASSUME NEW y \in S
      PROVE  x <= y
  <2>1. x \in Nat /\ y \in Nat
    OBVIOUS
  <2>2. ~ (y < x)
    BY <1>1, <1>3, <2>1, Zenon
  <2> QED BY <2>1, <2>2
<1> QED BY <1>4

\* Min gives it.
LEMMA MinIsLeast ==
  ASSUME NEW S \in SUBSET Nat, S # {}
  PROVE  Min(S) \in S /\ \A y \in S : Min(S) <= y
<1>1. \E x \in S : \A y \in S : x <= y
  BY LeastExists
<1> QED BY <1>1 DEF Min

\* Induction, for a set of numbers: one that holds zero and the successor of
\* each of its members holds every number.
LEMMA AllNumbers ==
  ASSUME NEW S \in SUBSET Nat, 0 \in S, \A n \in S : n + 1 \in S
  PROVE  S = Nat
<1> SUFFICES ASSUME S # Nat
             PROVE  FALSE
  OBVIOUS
<1> DEFINE Missing == Nat \ S
<1>1. Missing # {} /\ Missing \in SUBSET Nat
  OBVIOUS
<1>2. PICK x \in Missing : \A y \in Missing : x <= y
  <2> HIDE DEF Missing
  <2> QED BY <1>1, LeastExists
<1>3. x - 1 \in S
  BY <1>2
<1> QED BY <1>2, <1>3
-----------------------------------------------------------------------------

Path == Seq(Int)

\* The paths agree up to y, and at y they do not.
PartAt(p, q, y) ==
  /\ y \in Nat \ {0}
  /\ \A j \in 1 .. y - 1 : j <= Len(p) /\ j <= Len(q) /\ p[j] = q[j]
  /\ ~(y <= Len(p) /\ y <= Len(q) /\ p[y] = q[y])

\* What compareElements decides where they part: the path that ends is that
\* of the ancestor, otherwise the first index counts.
LeadsAt(p, q, y) == y > Len(p) \/ (y <= Len(q) /\ p[y] < q[y])

Leads(p, q) == LeadsAt(p, q, Parting(p, q))

\* Skipping the common ancestors ends, and ends where the paths part.
LEMMA PartingParts ==
  ASSUME NEW p \in Path, NEW q \in Path
  PROVE  PartAt(p, q, Parting(p, q))
<1> USE DEF Path
<1> DEFINE Apart == {i \in 1 .. Len(p) + 1 : i > Len(p) \/ i > Len(q) \/ p[i] # q[i]}
           Ends(i) == /\ \A j \in 1 .. i - 1 : j <= Len(q) /\ p[j] = q[j]
                      /\ i > Len(p) \/ i > Len(q) \/ p[i] # q[i]
<1>1. Len(p) + 1 \in Apart /\ Apart \in SUBSET Nat
  OBVIOUS
<1>2. PICK i \in Apart : \A j \in Apart : i <= j
  <2> HIDE DEF Apart
  <2> QED BY <1>1, LeastExists
<1>3. i \in 1 .. Len(p) + 1 /\ Ends(i)
  <2>1. ASSUME NEW j \in 1 .. i - 1
        PROVE  j <= Len(q) /\ p[j] = q[j]
    <3>1. j \in 1 .. Len(p) + 1 /\ j \notin Apart
      BY <1>2
    <3> QED BY <3>1
  <2> QED BY <1>2, <2>1
<1>4. Parting(p, q) = CHOOSE k \in 1 .. Len(p) + 1 : Ends(k)
  BY DEF Parting
<1>5. Parting(p, q) \in 1 .. Len(p) + 1 /\ Ends(Parting(p, q))
  <2> HIDE DEF Ends
  <2> QED BY <1>3, <1>4
<1> DEFINE y == Parting(p, q)
<1>6. y \in 1 .. Len(p) + 1 /\ Ends(y)
  BY <1>5
<1> HIDE DEF y
<1>7. y \in Nat \ {0} /\ \A j \in 1 .. y - 1 : j <= Len(p)
  BY <1>6
<1>8. PartAt(p, q, y)
  BY <1>6, <1>7 DEF PartAt
<1> QED BY <1>8 DEF y

\* There is one such place.
LEMMA PartOnce ==
  ASSUME NEW p \in Path, NEW q \in Path, NEW y, PartAt(p, q, y)
  PROVE  Parting(p, q) = y
<1>1. PartAt(p, q, Parting(p, q))
  BY PartingParts
<1> DEFINE z == Parting(p, q)
<1> HIDE DEF z
<1>2. PartAt(p, q, z)
  BY <1>1 DEF z
<1>3. y \in Nat \ {0} /\ z \in Nat \ {0}
  BY <1>2 DEF PartAt
<1>4. ~ (y < z)
  <2>1. y < z => y \in 1 .. z - 1
    BY <1>3
  <2> QED BY <1>2, <2>1 DEF PartAt
<1>5. ~ (z < y)
  <2>1. z < y => z \in 1 .. y - 1
    BY <1>3
  <2> QED BY <1>2, <2>1 DEF PartAt
<1>6. z = y
  BY <1>3, <1>4, <1>5
<1> QED BY <1>6 DEF z

\* Paths that part nowhere are equal.
LEMMA PathsDiffer ==
  ASSUME NEW p \in Path, NEW q \in Path, NEW y, PartAt(p, q, y), y > Len(p), y > Len(q)
  PROVE  p = q
<1> USE DEF Path
<1>1. Len(p) = Len(q)
  BY DEF PartAt
<1>2. \A j \in 1 .. Len(p) : p[j] = q[j]
  BY DEF PartAt
<1> QED BY <1>1, <1>2, SeqEqual

\* Of two different paths one comes first.
LEMMA LeadsOneWay ==
  ASSUME NEW p \in Path, NEW q \in Path, p # q
  PROVE  Leads(p, q) <=> ~Leads(q, p)
<1> DEFINE y == Parting(p, q)
<1>1. PartAt(p, q, y)
  BY PartingParts
<1>2. PartAt(q, p, y)
  BY <1>1 DEF PartAt
<1>3. Parting(q, p) = y
  BY <1>2, PartOnce
<1>4. ~(y > Len(p) /\ y > Len(q))
  BY <1>1, PathsDiffer
<1>5. y \in Nat /\ Len(p) \in Nat /\ Len(q) \in Nat
  BY <1>1 DEF PartAt, Path
<1>6. CASE y > Len(p) \/ y > Len(q)
  BY <1>3, <1>4, <1>5, <1>6 DEF Leads, LeadsAt
<1>7. CASE y <= Len(p) /\ y <= Len(q)
  <2>1. p[y] \in Int /\ q[y] \in Int /\ p[y] # q[y]
    BY <1>1, <1>7 DEF PartAt, Path
  <2> QED BY <1>3, <1>5, <1>7, <2>1 DEF Leads, LeadsAt
<1> QED BY <1>5, <1>6, <1>7

\* The order of paths has no cycle.
LEMMA LeadsOnwards ==
  ASSUME NEW p \in Path, NEW q \in Path, NEW r \in Path, p # q, q # r, Leads(p, q), Leads(q, r)
  PROVE  Leads(p, r)
<1> DEFINE y == Parting(p, q)
           z == Parting(q, r)
<1>1. PartAt(p, q, y) /\ PartAt(q, r, z)
  BY PartingParts
<1>2. LeadsAt(p, q, y) /\ LeadsAt(q, r, z)
  BY DEF Leads
<1>3. /\ y \in Nat \ {0} /\ z \in Nat \ {0} /\ Len(p) \in Nat /\ Len(q) \in Nat /\ Len(r) \in Nat
      /\ \A i \in 1 .. Len(p) : p[i] \in Int
      /\ \A i \in 1 .. Len(q) : q[i] \in Int
      /\ \A i \in 1 .. Len(r) : r[i] \in Int
  <2>1. y \in Nat \ {0} /\ z \in Nat \ {0}
    BY <1>1 DEF PartAt
  <2>2. \A s \in Path : Len(s) \in Nat /\ \A i \in 1 .. Len(s) : s[i] \in Int
    BY DEF Path
  <2> QED BY <2>1, <2>2
<1>4. y <= Len(q) /\ z <= Len(r)
  BY <1>1, <1>2, <1>3, PathsDiffer DEF LeadsAt
<1> HIDE DEF y, z
<1>5. CASE y <= z
  <2>1. PartAt(p, r, y) /\ LeadsAt(p, r, y)
    BY <1>1, <1>2, <1>3, <1>4, <1>5 DEF PartAt, LeadsAt
  <2> QED BY <2>1, PartOnce DEF Leads
<1>6. CASE z < y
  <2>1. PartAt(p, r, z) /\ LeadsAt(p, r, z)
    BY <1>1, <1>2, <1>3, <1>4, <1>6 DEF PartAt, LeadsAt
  <2> QED BY <2>1, PartOnce DEF Leads
<1> QED BY <1>3, <1>5, <1>6
-----------------------------------------------------------------------------
\* The nodes of some trees.
NodesOf(trees) == {n \in [tree : trees, at : Path, local : Nat, ns : Nat] : IsAttribute(n) \/ n.ns = 0}

\* Nodes have the same owner when their elements have the same place.
LEMMA OwnerIsPlace ==
  ASSUME NEW trees, NEW a \in NodesOf(trees), NEW b \in NodesOf(trees)
  PROVE  /\ Owner(a).tree = a.tree /\ Owner(a).at = a.at
         /\ Owner(a) = Owner(b) <=> a.tree = b.tree /\ a.at = b.at
<1>1. \A n \in NodesOf(trees) : Owner(n) = [tree |-> n.tree, at |-> n.at, local |-> 0, ns |-> 0]
  BY DEF NodesOf, Owner
<1> QED BY <1>1

\* Which of two nodes of a tree comes first: an element before its attributes,
\* the attributes of an element by their local names, the rest by their paths.
FirstInTree(a, b) ==
  IF a.at = b.at THEN IsAttribute(b) /\ (IsAttribute(a) => a.local <= b.local)
                 ELSE Leads(a.at, b.at)

\* The comparison answers that, whatever trees were seen before.
LEMMA CompareInTree ==
  ASSUME NEW trees, NEW a \in NodesOf(trees), NEW b \in NodesOf(trees), NEW seen, a.tree = b.tree
  PROVE  Compare(seen, a, b) < 0 <=> FirstInTree(a, b)
<1>1. /\ Owner(a).tree = a.tree /\ Owner(a).at = a.at /\ Owner(b).tree = b.tree /\ Owner(b).at = b.at
      /\ Owner(a) = Owner(b) <=> a.at = b.at
  BY OwnerIsPlace
<1>2. CASE a.at = b.at /\ (IsAttribute(a) \/ IsAttribute(b))
  <2>1. a.local \in Nat /\ b.local \in Nat
    BY DEF NodesOf
  <2>2. Compare(seen, a, b) =
          IF ~IsAttribute(b) THEN 1 ELSE IF ~IsAttribute(a) THEN -1
          ELSE IF a.local > b.local THEN 1 ELSE -1
    BY <1>1, <1>2 DEF Compare
  <2> QED BY <1>2, <2>1, <2>2 DEF FirstInTree
<1>3. CASE a.at = b.at /\ ~(IsAttribute(a) \/ IsAttribute(b))
  <2>1. Compare(seen, a, b) = 0
    BY <1>1, <1>3 DEF Compare, CompareElements
  <2> QED BY <1>3, <2>1 DEF FirstInTree
<1>4. CASE a.at # b.at
  <2>1. Compare(seen, a, b) = IF Leads(a.at, b.at) THEN -1 ELSE 1
    BY <1>1, <1>4 DEF Compare, CompareElements, Leads, LeadsAt
  <2> QED BY <1>4, <2>1 DEF FirstInTree
<1> QED BY <1>2, <1>3, <1>4

\* No two attributes of one element have the same local name.
NamesDiffer(nodes) ==
  \A a, b \in nodes :
    IsAttribute(a) /\ IsAttribute(b) /\ a.tree = b.tree /\ a.at = b.at /\ a.local = b.local => a = b

\* Then the nodes of a tree are totally ordered.
LEMMA FirstOneWay ==
  ASSUME NEW trees, NEW nodes \in SUBSET NodesOf(trees), NamesDiffer(nodes),
         NEW a \in nodes, NEW b \in nodes, a.tree = b.tree, a # b
  PROVE  FirstInTree(a, b) <=> ~FirstInTree(b, a)
<1>1. /\ a.at \in Path /\ b.at \in Path /\ a.local \in Nat /\ b.local \in Nat
      /\ a \in NodesOf(trees) /\ b \in NodesOf(trees)
  BY DEF NodesOf
<1>2. CASE a.at # b.at
  BY <1>1, <1>2, LeadsOneWay DEF FirstInTree
<1>3. CASE a.at = b.at
  <2>1. IsAttribute(a) \/ IsAttribute(b)
    BY <1>1, <1>3 DEF NodesOf, IsAttribute
  <2>2. IsAttribute(a) /\ IsAttribute(b) => a.local # b.local
    BY <1>3 DEF NamesDiffer
  <2> QED BY <1>1, <1>3, <2>1, <2>2 DEF FirstInTree
<1> QED BY <1>2, <1>3

\* And their order has no cycle, also when two attributes share their name.
LEMMA FirstOnwards ==
  ASSUME NEW trees, NEW a \in NodesOf(trees), NEW b \in NodesOf(trees), NEW c \in NodesOf(trees),
         FirstInTree(a, b), FirstInTree(b, c)
  PROVE  FirstInTree(a, c)
<1>1. /\ a.at \in Path /\ b.at \in Path /\ c.at \in Path
      /\ a.local \in Nat /\ b.local \in Nat /\ c.local \in Nat
  BY DEF NodesOf
<1>2. CASE a.at = b.at \/ b.at = c.at
  BY <1>1, <1>2 DEF FirstInTree
<1>3. CASE a.at # b.at /\ b.at # c.at
  BY <1>1, <1>3, LeadsOnwards, LeadsOneWay DEF FirstInTree
<1> QED BY <1>2, <1>3

-----------------------------------------------------------------------------
(* Functions defined by looking back: they exist, so their equations hold. *)

\* What the arguments before it in some measure decide: a function of two arguments,
\* the argument and the function so far.
LookBack(D, V, size, body) ==
  \A d \in D : \A f, g \in [D -> V] :
    (\A c \in D : size[c] < size[d] => f[c] = g[c]) => body[d][f] = body[d][g]

\* The value at each argument depends on arguments of a smaller measure only.
WellDefined(D, V, size, bound, body) ==
  /\ size \in [D -> Nat] /\ bound \in Nat /\ \A d \in D : size[d] <= bound
  /\ body \in [D -> [[D -> V] -> V]] /\ V # {} /\ LookBack(D, V, size, body)

Solution(D, V, body, f) == f \in [D -> V] /\ \A d \in D : f[d] = body[d][f]

\* Then the recursive definition has a solution.
LEMMA RecursionExists ==
  ASSUME NEW D, NEW V, NEW size, NEW bound, NEW body, WellDefined(D, V, size, bound, body)
  PROVE  \E f : Solution(D, V, body, f)
<1> PICK start \in V : TRUE
  BY DEF WellDefined
<1>a. /\ size \in [D -> Nat] /\ bound \in Nat /\ \A d \in D : size[d] <= bound
      /\ body \in [D -> [[D -> V] -> V]] /\ LookBack(D, V, size, body)
  BY DEF WellDefined
<1> DEFINE Solves(f, n) == \A d \in D : size[d] < n => f[d] = body[d][f]
           Good == {n \in Nat : \E f \in [D -> V] : Solves(f, n)}
<1>1. 0 \in Good
  <2>1. [d \in D |-> start] \in [D -> V]
    OBVIOUS
  <2>2. Solves([d \in D |-> start], 0)
    BY <1>a
  <2> HIDE DEF Solves
  <2> QED BY <2>1, <2>2
<1>2. ASSUME NEW n \in Good
      PROVE  n + 1 \in Good
  <2>1. PICK f \in [D -> V] : Solves(f, n)
    OBVIOUS
  <2> DEFINE g == [d \in D |-> body[d][f]]
  <2>2. g \in [D -> V]
    BY <1>a
  <2>3. Solves(g, n + 1)
    <3> SUFFICES ASSUME NEW d \in D, size[d] < n + 1
                 PROVE  g[d] = body[d][g]
      OBVIOUS
    <3>1. \A c \in D : size[c] < size[d] => f[c] = g[c]
      BY <1>a, <2>1
    <3>2. body[d][f] = body[d][g]
      <4> HIDE DEF g
      <4> QED BY <1>a, <2>2, <3>1 DEF LookBack
    <3> QED BY <3>2
  <2> HIDE DEF g, Solves
  <2> QED BY <2>2, <2>3
<1>3. Good = Nat
  <2>1. Good \in SUBSET Nat
    OBVIOUS
  <2> HIDE DEF Good
  <2> QED BY <1>1, <1>2, <2>1, AllNumbers
<1>4. bound + 1 \in Good
  <2> HIDE DEF Good
  <2> QED BY <1>a, <1>3
<1>5. PICK f \in [D -> V] : Solves(f, bound + 1)
  BY <1>4
<1>6. \A d \in D : size[d] < bound + 1
  BY <1>a
<1> QED BY <1>5, <1>6 DEF Solution

-----------------------------------------------------------------------------
\* Induction over a measure: a set that holds every argument whose smaller arguments it
\* holds, holds them all.
LEMMA ByMeasure ==
  ASSUME NEW D, NEW size \in [D -> Nat], NEW S,
         \A d \in D : (\A c \in D : size[c] < size[d] => c \in S) => d \in S
  PROVE  D \subseteq S
<1> SUFFICES ASSUME ~ (D \subseteq S)
             PROVE  FALSE
  OBVIOUS
<1> DEFINE Sizes == {size[d] : d \in D \ S}
<1>1. Sizes \in SUBSET Nat /\ Sizes # {}
  OBVIOUS
<1>2. PICK n \in Sizes : \A m \in Sizes : n <= m
  <2> HIDE DEF Sizes
  <2> QED BY <1>1, LeastExists
<1>3. PICK d \in D \ S : size[d] = n
  OBVIOUS
<1>4. \A c \in D : size[c] < size[d] => c \in S
  <2> SUFFICES ASSUME NEW c \in D, size[c] < size[d], c \notin S
               PROVE  FALSE
    OBVIOUS
  <2>1. size[c] \in Sizes
    OBVIOUS
  <2>2. size[c] \in Nat /\ size[d] \in Nat
    BY <1>3
  <2> HIDE DEF Sizes
  <2>3. n <= size[c]
    BY <1>2, <2>1
  <2> QED BY <1>3, <2>2, <2>3
<1> QED BY <1>3, <1>4

-----------------------------------------------------------------------------
(* Ordered sets of nodes, and sequences in that order. *)

\* Document order puts any two of the nodes in one order.
Ordered(nodes) ==
  /\ \A a \in nodes : ~Precedes(a, a)
  /\ \A a, b \in nodes : a = b \/ Precedes(a, b) \/ Precedes(b, a)
  /\ \A a, b, c \in nodes : Precedes(a, b) /\ Precedes(b, c) => Precedes(a, c)

\* The comparison answers with that order; of an attribute and itself it says that it
\* comes before itself.
Decides(seen, nodes) ==
  \A a, b \in nodes :
    /\ Compare(seen, a, b) \in Int
    /\ Compare(seen, a, b) > 0 <=> Precedes(b, a)
    /\ Precedes(a, b) => Compare(seen, a, b) < 0
    /\ Compare(seen, a, b) <= 0 => a = b \/ Precedes(a, b)

NotAfter(a, b) == a = b \/ Precedes(a, b)

Strictly(s) == \A i, j \in DOMAIN s : i < j => Precedes(s[i], s[j])
Weakly(s) == \A i, j \in DOMAIN s : i < j => NotAfter(s[i], s[j])

AllBefore(S, T) == \A a \in S, b \in T : Precedes(a, b)
NoneAfter(S, T) == \A a \in S, b \in T : NotAfter(a, b)

\* Part of an ordered set is in the same order, and decided by the same comparison.
LEMMA OrderedSubset ==
  ASSUME NEW nodes, NEW S \in SUBSET nodes
  PROVE  /\ Ordered(nodes) => Ordered(S)
         /\ \A seen : Decides(seen, nodes) => Decides(seen, S)
  BY DEF Ordered, Decides

\* In an ordered set, NotAfter is reflexive, total and transitive.
LEMMA NotAfterChain ==
  ASSUME NEW nodes, Ordered(nodes), NEW a \in nodes, NEW b \in nodes, NEW c \in nodes
  PROVE  /\ NotAfter(a, b) \/ Precedes(b, a)
         /\ NotAfter(a, b) /\ NotAfter(b, c) => NotAfter(a, c)
         /\ NotAfter(a, b) /\ Precedes(b, c) => Precedes(a, c)
         /\ Precedes(a, b) /\ NotAfter(b, c) => Precedes(a, c)
         /\ NotAfter(a, b) /\ NotAfter(b, a) => a = b
         /\ ~(NotAfter(a, b) /\ Precedes(b, a))
  BY DEF Ordered, NotAfter

\* The nodes of a concatenation.
LEMMA ConcatSet ==
  ASSUME NEW N, NEW s \in Seq(N), NEW t \in Seq(N)
  PROVE  ToSet(s \o t) = ToSet(s) \cup ToSet(t)
<1> DEFINE u == s \o t
<1>1. /\ u \in Seq(N) /\ Len(u) = Len(s) + Len(t) /\ Len(s) \in Nat /\ Len(t) \in Nat
      /\ DOMAIN u = 1 .. Len(s) + Len(t) /\ DOMAIN s = 1 .. Len(s) /\ DOMAIN t = 1 .. Len(t)
  OBVIOUS
<1>2. /\ \A i \in DOMAIN s : u[i] = s[i]
      /\ \A i \in DOMAIN t : u[Len(s) + i] = t[i]
  OBVIOUS
<1>3. \A i \in DOMAIN u :
        \/ i \in DOMAIN s /\ u[i] = s[i]
        \/ i - Len(s) \in DOMAIN t /\ u[i] = t[i - Len(s)]
  OBVIOUS
<1> HIDE DEF u
<1>4. ToSet(u) = ToSet(s) \cup ToSet(t)
  <2>1. ToSet(s) \subseteq ToSet(u)
    BY <1>1, <1>2 DEF ToSet
  <2>2. ToSet(t) \subseteq ToSet(u)
    <3>1. ASSUME NEW i \in DOMAIN t
          PROVE  t[i] \in ToSet(u)
      <4>1. Len(s) + i \in DOMAIN u
        BY <1>1
      <4> QED BY <1>2, <4>1 DEF ToSet
    <3> QED BY <3>1 DEF ToSet
  <2>3. ToSet(u) \subseteq ToSet(s) \cup ToSet(t)
    BY <1>3 DEF ToSet
  <2> QED BY <2>1, <2>2, <2>3
<1> QED BY <1>4 DEF u

\* A concatenation is in order when its parts are and the first goes before the second.
LEMMA ConcatOrder ==
  ASSUME NEW N, NEW s \in Seq(N), NEW t \in Seq(N)
  PROVE  /\ s \o t \in Seq(N)
         /\ Weakly(s) /\ Weakly(t) /\ NoneAfter(ToSet(s), ToSet(t)) => Weakly(s \o t)
         /\ Strictly(s) /\ Strictly(t) /\ AllBefore(ToSet(s), ToSet(t)) => Strictly(s \o t)
<1> DEFINE u == s \o t
<1>1. /\ u \in Seq(N) /\ Len(u) = Len(s) + Len(t) /\ Len(s) \in Nat /\ Len(t) \in Nat
      /\ DOMAIN u = 1 .. Len(s) + Len(t) /\ DOMAIN s = 1 .. Len(s) /\ DOMAIN t = 1 .. Len(t)
  OBVIOUS
<1>2. /\ \A i \in DOMAIN s : u[i] = s[i]
      /\ \A i \in DOMAIN t : u[Len(s) + i] = t[i]
  OBVIOUS
<1>3. \A i \in DOMAIN u :
        \/ i \in DOMAIN s /\ u[i] = s[i]
        \/ i - Len(s) \in DOMAIN t /\ u[i] = t[i - Len(s)]
  OBVIOUS
<1> HIDE DEF u
<1>5. \A i \in DOMAIN s, j \in DOMAIN t : s[i] \in ToSet(s) /\ t[j] \in ToSet(t)
  BY DEF ToSet
<1>6. ASSUME Weakly(s), Weakly(t), NoneAfter(ToSet(s), ToSet(t))
      PROVE  Weakly(u)
  <2> SUFFICES ASSUME NEW i \in DOMAIN u, NEW j \in DOMAIN u, i < j
               PROVE  NotAfter(u[i], u[j])
    BY DEF Weakly
  <2>1. i \in Int /\ j \in Int
    BY <1>1
  <2>2. CASE j \in DOMAIN s
    BY <1>1, <1>2, <1>6, <2>1, <2>2 DEF Weakly
  <2>3. CASE j \notin DOMAIN s /\ i \in DOMAIN s
    BY <1>1, <1>2, <1>3, <1>5, <1>6, <2>1, <2>3 DEF NoneAfter
  <2>4. CASE j \notin DOMAIN s /\ i \notin DOMAIN s
    <3>1. i - Len(s) \in DOMAIN t /\ j - Len(s) \in DOMAIN t /\ i - Len(s) < j - Len(s)
      BY <1>1, <1>3, <2>1, <2>4
    <3>2. u[i] = t[i - Len(s)] /\ u[j] = t[j - Len(s)]
      BY <1>3, <2>4
    <3> QED BY <1>6, <3>1, <3>2 DEF Weakly
  <2> QED BY <2>2, <2>3, <2>4
<1>7. ASSUME Strictly(s), Strictly(t), AllBefore(ToSet(s), ToSet(t))
      PROVE  Strictly(u)
  <2> SUFFICES ASSUME NEW i \in DOMAIN u, NEW j \in DOMAIN u, i < j
               PROVE  Precedes(u[i], u[j])
    BY DEF Strictly
  <2>1. i \in Int /\ j \in Int
    BY <1>1
  <2>2. CASE j \in DOMAIN s
    BY <1>1, <1>2, <1>7, <2>1, <2>2 DEF Strictly
  <2>3. CASE j \notin DOMAIN s /\ i \in DOMAIN s
    BY <1>1, <1>2, <1>3, <1>5, <1>7, <2>1, <2>3 DEF AllBefore
  <2>4. CASE j \notin DOMAIN s /\ i \notin DOMAIN s
    <3>1. i - Len(s) \in DOMAIN t /\ j - Len(s) \in DOMAIN t /\ i - Len(s) < j - Len(s)
      BY <1>1, <1>3, <2>1, <2>4
    <3>2. u[i] = t[i - Len(s)] /\ u[j] = t[j - Len(s)]
      BY <1>3, <2>4
    <3> QED BY <1>7, <3>1, <3>2 DEF Strictly
  <2> QED BY <2>2, <2>3, <2>4
<1> QED BY <1>1, <1>6, <1>7 DEF u

\* The nodes of a sequence are those at its places.
LEMMA ToSetFacts ==
  ASSUME NEW N, NEW s \in Seq(N)
  PROVE  /\ ToSet(s) \in SUBSET N
         /\ s \in Seq(ToSet(s))
         /\ \A i \in 1 .. Len(s) : s[i] \in ToSet(s)
         /\ \A x \in ToSet(s) : \E i \in 1 .. Len(s) : s[i] = x
         /\ ToSet(s) = {} <=> s = <<>>
<1>1. ToSet(s) = {s[i] : i \in 1 .. Len(s)}
  BY DEF ToSet
<1> QED BY <1>1

\* A single node is a sequence in order.
LEMMA OneNode ==
  ASSUME NEW N, NEW n \in N
  PROVE  <<n>> \in Seq(N) /\ ToSet(<<n>>) = {n} /\ Weakly(<<n>>) /\ Strictly(<<n>>)
<1>1. DOMAIN <<n>> = 1 .. 1 /\ <<n>>[1] = n
  OBVIOUS
<1> QED BY <1>1 DEF ToSet, Weakly, Strictly

\* So is the empty sequence.
LEMMA NoNode ==
  ToSet(<<>>) = {} /\ Weakly(<<>>) /\ Strictly(<<>>)
<1>1. DOMAIN <<>> = {}
  OBVIOUS
<1> QED BY <1>1 DEF ToSet, Weakly, Strictly

\* The nodes of a sequence with one more.
LEMMA AppendSet ==
  ASSUME NEW N, NEW s \in Seq(N), NEW n \in N
  PROVE  ToSet(Append(s, n)) = ToSet(s) \cup {n}
<1> DEFINE t == <<n>>
<1>1. Append(s, n) = s \o t
  OBVIOUS
<1>2. t \in Seq(N) /\ ToSet(t) = {n}
  BY OneNode
<1> HIDE DEF t
<1>3. ToSet(s \o t) = ToSet(s) \cup ToSet(t)
  BY <1>2, ConcatSet
<1> QED BY <1>1, <1>2, <1>3

\* One more node keeps the order when no node goes after it.
LEMMA AppendOrder ==
  ASSUME NEW N, NEW s \in Seq(N), NEW n \in N
  PROVE  /\ Append(s, n) \in Seq(N)
         /\ Weakly(s) /\ NoneAfter(ToSet(s), {n}) => Weakly(Append(s, n))
         /\ Strictly(s) /\ AllBefore(ToSet(s), {n}) => Strictly(Append(s, n))
<1> DEFINE t == <<n>>
<1>1. Append(s, n) = s \o t
  OBVIOUS
<1>2. t \in Seq(N) /\ ToSet(t) = {n} /\ Weakly(t) /\ Strictly(t)
  BY OneNode
<1> HIDE DEF t
<1>3. /\ s \o t \in Seq(N)
      /\ Weakly(s) /\ Weakly(t) /\ NoneAfter(ToSet(s), ToSet(t)) => Weakly(s \o t)
      /\ Strictly(s) /\ Strictly(t) /\ AllBefore(ToSet(s), ToSet(t)) => Strictly(s \o t)
  BY <1>2, ConcatOrder
<1> QED BY <1>1, <1>2, <1>3

\* A part of a sequence in order is in order.
LEMMA PartOrder ==
  ASSUME NEW N, NEW s \in Seq(N), NEW i \in 1 .. Len(s) + 1, NEW j \in i - 1 .. Len(s)
  PROVE  /\ SubSeq(s, i, j) \in Seq(N) /\ ToSet(SubSeq(s, i, j)) = {s[k] : k \in i .. j}
         /\ Weakly(s) => Weakly(SubSeq(s, i, j))
         /\ Strictly(s) => Strictly(SubSeq(s, i, j))
<1> DEFINE u == SubSeq(s, i, j)
<1>1. /\ u \in Seq(N) /\ DOMAIN u = 1 .. j - i + 1 /\ DOMAIN s = 1 .. Len(s)
      /\ \A k \in 1 .. j - i + 1 : u[k] = s[i + k - 1]
      /\ i \in Int /\ j \in Int /\ Len(s) \in Nat
  OBVIOUS
<1> HIDE DEF u
<1>2. ToSet(u) = {s[k] : k \in i .. j}
  <2>1. \A k \in i .. j : k - i + 1 \in DOMAIN u /\ u[k - i + 1] = s[k]
    BY <1>1
  <2>2. \A k \in DOMAIN u : i + k - 1 \in i .. j
    BY <1>1
  <2>3. ToSet(u) = {u[k] : k \in DOMAIN u}
    BY DEF ToSet
  <2>4. \A k \in DOMAIN u : u[k] \in {s[l] : l \in i .. j}
    BY <1>1, <2>2
  <2>5. \A k \in i .. j : s[k] \in ToSet(u)
    BY <2>1, <2>3
  <2> QED BY <2>3, <2>4, <2>5
<1>3. ASSUME NEW k \in DOMAIN u, NEW l \in DOMAIN u, k < l
      PROVE  i + k - 1 \in DOMAIN s /\ i + l - 1 \in DOMAIN s /\ i + k - 1 < i + l - 1
  BY <1>1, <1>3
<1> QED BY <1>1, <1>2, <1>3 DEF u, Weakly, Strictly

\* A sequence is in order when its tail is and its head goes before the tail.
LEMMA HeadTailOrder ==
  ASSUME NEW N, NEW s \in Seq(N), s # <<>>
  PROVE  /\ Head(s) \in N /\ Head(s) = s[1] /\ Tail(s) \in Seq(N) /\ Len(Tail(s)) = Len(s) - 1
         /\ Weakly(s) <=> Weakly(Tail(s)) /\ NoneAfter({Head(s)}, ToSet(Tail(s)))
         /\ Strictly(s) <=> Strictly(Tail(s)) /\ AllBefore({Head(s)}, ToSet(Tail(s)))
<1>1. /\ Head(s) \in N /\ Head(s) = s[1] /\ Tail(s) \in Seq(N) /\ s = <<Head(s)>> \o Tail(s)
      /\ Len(Tail(s)) = Len(s) - 1
  OBVIOUS
<1> DEFINE h == <<Head(s)>>
<1>2. /\ s = h \o Tail(s) /\ h \in Seq(N) /\ ToSet(h) = {Head(s)} /\ Weakly(h) /\ Strictly(h)
  BY <1>1, OneNode
<1>3. /\ Weakly(Tail(s)) /\ NoneAfter({Head(s)}, ToSet(Tail(s))) => Weakly(s)
      /\ Strictly(Tail(s)) /\ AllBefore({Head(s)}, ToSet(Tail(s))) => Strictly(s)
  <2> DEFINE t == Tail(s)
  <2> HIDE DEF h, t
  <2>1. t \in Seq(N)
    BY <1>1 DEF t
  <2>2. /\ Weakly(h) /\ Weakly(t) /\ NoneAfter(ToSet(h), ToSet(t)) => Weakly(h \o t)
        /\ Strictly(h) /\ Strictly(t) /\ AllBefore(ToSet(h), ToSet(t)) => Strictly(h \o t)
    BY <1>2, <2>1, ConcatOrder
  <2> QED BY <1>2, <2>2 DEF t
<1>4. /\ DOMAIN s = 1 .. Len(s) /\ Len(s) \in Nat /\ DOMAIN Tail(s) = 1 .. Len(s) - 1
      /\ \A i \in DOMAIN Tail(s) : Tail(s)[i] = s[i + 1]
  OBVIOUS
<1>5. ASSUME NEW i \in DOMAIN Tail(s), NEW j \in DOMAIN Tail(s), i < j
      PROVE  i + 1 \in DOMAIN s /\ j + 1 \in DOMAIN s /\ i + 1 < j + 1
  BY <1>4, <1>5
<1>6. /\ Weakly(s) => Weakly(Tail(s))
      /\ Strictly(s) => Strictly(Tail(s))
  BY <1>4, <1>5 DEF Weakly, Strictly
<1>7. \A b \in ToSet(Tail(s)) : \E i \in DOMAIN s : 1 < i /\ b = s[i]
  <2>1. \A i \in DOMAIN Tail(s) : i + 1 \in DOMAIN s /\ 1 < i + 1
    BY <1>4
  <2> QED BY <1>4, <2>1 DEF ToSet
<1>8. 1 \in DOMAIN s
  BY <1>4
<1>9. /\ Weakly(s) => NoneAfter({Head(s)}, ToSet(Tail(s)))
      /\ Strictly(s) => AllBefore({Head(s)}, ToSet(Tail(s)))
  BY <1>1, <1>7, <1>8 DEF Weakly, Strictly, NoneAfter, AllBefore
<1> QED BY <1>1, <1>3, <1>6, <1>9

\* Its nodes are its head and those of its tail.
LEMMA HeadTailSet ==
  ASSUME NEW N, NEW s \in Seq(N), s # <<>>
  PROVE  ToSet(s) = {Head(s)} \cup ToSet(Tail(s))
<1> DEFINE t == Tail(s)
           h == <<Head(s)>>
<1>1. Head(s) \in N /\ t \in Seq(N) /\ s = h \o t
  OBVIOUS
<1>2. h \in Seq(N) /\ ToSet(h) = {Head(s)}
  BY <1>1, OneNode
<1> HIDE DEF t, h
<1>3. ToSet(h \o t) = ToSet(h) \cup ToSet(t)
  BY <1>1, <1>2, ConcatSet
<1> QED BY <1>1, <1>2, <1>3 DEF t

\* A strict order is a weak one.
LEMMA StrictIsWeak ==
  ASSUME NEW s
  PROVE  Strictly(s) => Weakly(s)
  BY DEF Strictly, Weakly, NotAfter

\* Neighbours in order are enough.
LEMMA NeighboursInOrder ==
  ASSUME NEW N, Ordered(N), NEW s \in Seq(N)
  PROVE  IsInDocumentOrder(s) <=> Strictly(s)
<1>1. DOMAIN s = 1 .. Len(s) /\ Len(s) \in Nat /\ \A i \in DOMAIN s : s[i] \in N
  OBVIOUS
<1>2. Strictly(s) => IsInDocumentOrder(s)
  BY <1>1 DEF Strictly, IsInDocumentOrder
<1>3. ASSUME IsInDocumentOrder(s)
      PROVE  Strictly(s)
  <2> DEFINE Good == {n \in Nat : \A i, j \in DOMAIN s : i < j /\ j <= n => Precedes(s[i], s[j])}
  <2>1. 0 \in Good
    BY <1>1
  <2>2. ASSUME NEW n \in Good
        PROVE  n + 1 \in Good
    <3>1. n \in Nat
      OBVIOUS
    <3>2. ASSUME NEW i \in DOMAIN s, n + 1 \in DOMAIN s, i < n + 1
          PROVE  Precedes(s[i], s[n + 1])
      <4>1. n \in 1 .. Len(s) - 1 /\ n \in DOMAIN s /\ n >= i
        BY <1>1, <3>1, <3>2
      <4>2. Precedes(s[n], s[n + 1])
        BY <1>3, <4>1 DEF IsInDocumentOrder
      <4>3. i = n \/ Precedes(s[i], s[n])
        BY <4>1, <1>1
      <4> QED BY <1>1, <3>2, <4>1, <4>2, <4>3 DEF Ordered
    <3>3. ASSUME NEW i \in DOMAIN s, NEW j \in DOMAIN s, i < j, j <= n + 1
          PROVE  Precedes(s[i], s[j])
      <4>1. j <= n \/ j = n + 1
        BY <1>1, <3>1, <3>3
      <4>2. CASE j <= n
        BY <3>3, <4>2
      <4>3. CASE j = n + 1
        BY <3>2, <3>3, <4>3
      <4> QED BY <4>1, <4>2, <4>3
    <3> QED BY <3>1, <3>3
  <2>3. Good = Nat
    <3>1. Good \in SUBSET Nat
      OBVIOUS
    <3> HIDE DEF Good
    <3> QED BY <2>1, <2>2, <3>1, AllNumbers
  <2>4. Len(s) \in Good
    <3> HIDE DEF Good
    <3> QED BY <1>1, <2>3
  <2> QED BY <1>1, <2>4 DEF Strictly
<1> QED BY <1>2, <1>3

-----------------------------------------------------------------------------
(* Dropping a node that repeats the one before it. *)

\* What DropRepeats keeps of the first k nodes, given what it keeps of fewer.
DroppedFrom(s, kept, k) ==
  IF k = 0 THEN <<>> ELSE IF k > 1 /\ s[k - 1] = s[k] THEN kept[k - 1] ELSE Append(kept[k - 1], s[k])
DroppedUpTo(s, kept, n) == kept = [k \in 0 .. n |-> DroppedFrom(s, kept, k)]

\* There is such a function, for every number of nodes.
LEMMA DroppedExists ==
  ASSUME NEW s, NEW m \in Nat
  PROVE  \E kept : DroppedUpTo(s, kept, m)
<1> DEFINE Good == {n \in Nat : \E kept : DroppedUpTo(s, kept, n)}
<1>1. 0 \in Good
  <2> DEFINE none == [k \in 0 .. 0 |-> <<>>]
  <2>1. DroppedUpTo(s, none, 0)
    BY DEF DroppedUpTo, DroppedFrom
  <2> HIDE DEF none
  <2> QED BY <2>1
<1>2. ASSUME NEW n \in Good
      PROVE  n + 1 \in Good
  <2>1. PICK kept : DroppedUpTo(s, kept, n)
    OBVIOUS
  <2> DEFINE longer == [k \in 0 .. n + 1 |-> IF k = n + 1 THEN DroppedFrom(s, kept, k) ELSE kept[k]]
  <2>2. ASSUME NEW k \in 0 .. n + 1
        PROVE  longer[k] = DroppedFrom(s, longer, k)
    <3>1. n \in Nat
      OBVIOUS
    <3>2. k # 0 => DroppedFrom(s, longer, k) = DroppedFrom(s, kept, k)
      BY <3>1 DEF DroppedFrom
    <3>3. k = 0 => DroppedFrom(s, longer, k) = <<>> /\ DroppedFrom(s, kept, k) = <<>>
      BY DEF DroppedFrom
    <3>4. k # n + 1 => k \in 0 .. n /\ kept[k] = DroppedFrom(s, kept, k)
      BY <2>1, <3>1 DEF DroppedUpTo
    <3> QED BY <3>1, <3>2, <3>3, <3>4
  <2>3. DroppedUpTo(s, longer, n + 1)
    <3>1. longer = [k \in 0 .. n + 1 |-> longer[k]]
      OBVIOUS
    <3> HIDE DEF longer
    <3> QED BY <2>2, <3>1 DEF DroppedUpTo
  <2> HIDE DEF longer
  <2> QED BY <2>3
<1>3. Good = Nat
  <2>1. Good \in SUBSET Nat
    OBVIOUS
  <2> HIDE DEF Good
  <2> QED BY <1>1, <1>2, <2>1, AllNumbers
<1> QED BY <1>3

\* Dropping repeats loses no node, and leaves a sequence in order strictly in order.
LEMMA DropRepeatsOrder ==
  ASSUME NEW N, NEW s \in Seq(N)
  PROVE  /\ DropRepeats(s) \in Seq(N) /\ ToSet(DropRepeats(s)) = ToSet(s)
         /\ Ordered(N) /\ Weakly(s) => Strictly(DropRepeats(s))
<1> DEFINE kept == CHOOSE kept : DroppedUpTo(s, kept, Len(s))
           Part(n) == {s[i] : i \in 1 .. n}
<1>1. Len(s) \in Nat /\ DOMAIN s = 1 .. Len(s) /\ \A i \in DOMAIN s : s[i] \in N
  OBVIOUS
<1>2. DroppedUpTo(s, kept, Len(s))
  BY <1>1, DroppedExists
<1>3. DropRepeats(s) = kept[Len(s)]
  BY DEF DropRepeats, DroppedUpTo, DroppedFrom
<1> HIDE DEF kept
<1>4. \A k \in 0 .. Len(s) : kept[k] = DroppedFrom(s, kept, k)
  BY <1>2 DEF DroppedUpTo
<1> DEFINE Fine(n) == /\ kept[n] \in Seq(N) /\ ToSet(kept[n]) = Part(n)
                      /\ Ordered(N) /\ Weakly(s) => Strictly(kept[n])
           Good == {n \in Nat : n <= Len(s) => Fine(n)}
<1>5. 0 \in Good
  <2>1. kept[0] = <<>>
    BY <1>1, <1>4 DEF DroppedFrom
  <2>2. Part(0) = {}
    OBVIOUS
  <2>3. <<>> \in Seq(N)
    OBVIOUS
  <2> QED BY <2>1, <2>2, <2>3, NoNode
<1>6. ASSUME NEW n \in Good
      PROVE  n + 1 \in Good
  <2> SUFFICES ASSUME n + 1 <= Len(s)
               PROVE  Fine(n + 1)
    OBVIOUS
  <2>1. n \in Nat /\ Fine(n) /\ s[n + 1] \in N /\ n + 1 \in DOMAIN s
    BY <1>1
  <2>2. Part(n + 1) = Part(n) \cup {s[n + 1]}
    BY <2>1
  <2>3. kept[n + 1] = DroppedFrom(s, kept, n + 1)
    BY <1>1, <1>4, <2>1
  <2> HIDE DEF Part
  <2>4. CASE n + 1 > 1 /\ s[n] = s[n + 1]
    <3>1. kept[n + 1] = kept[n]
      BY <2>1, <2>3, <2>4 DEF DroppedFrom
    <3>2. s[n] \in Part(n)
      BY <2>1, <2>4 DEF Part
    <3> QED BY <2>1, <2>2, <2>4, <3>1, <3>2
  <2>5. CASE ~(n + 1 > 1 /\ s[n] = s[n + 1])
    <3>1. kept[n + 1] = Append(kept[n], s[n + 1])
      BY <2>1, <2>3, <2>5 DEF DroppedFrom
    <3> DEFINE old == kept[n]
               x == s[n + 1]
    <3> HIDE DEF old, x
    <3>a. old \in Seq(N) /\ x \in N /\ kept[n + 1] = Append(old, x)
      BY <2>1, <3>1 DEF old, x
    <3>b. /\ Append(old, x) \in Seq(N)
          /\ Strictly(old) /\ AllBefore(ToSet(old), {x}) => Strictly(Append(old, x))
      BY <3>a, AppendOrder
    <3>c. ToSet(Append(old, x)) = ToSet(old) \cup {x}
      BY <3>a, AppendSet
    <3>2. kept[n + 1] \in Seq(N) /\ ToSet(kept[n + 1]) = Part(n + 1)
      BY <2>1, <2>2, <3>a, <3>b, <3>c DEF old, x
    <3>3. ASSUME Ordered(N), Weakly(s)
          PROVE  Strictly(kept[n + 1])
      <4>1. ASSUME NEW a \in Part(n)
            PROVE  Precedes(a, s[n + 1])
        <5>1. PICK i \in 1 .. n : a = s[i]
          BY DEF Part
        <5>2. i \in DOMAIN s /\ n \in DOMAIN s /\ n < n + 1 /\ n + 1 > 1
          BY <1>1, <2>1
        <5>3. Precedes(s[n], s[n + 1])
          BY <2>1, <2>5, <3>3, <5>2 DEF Weakly, NotAfter
        <5>4. NotAfter(a, s[n])
          BY <2>1, <3>3, <5>1, <5>2 DEF Weakly, NotAfter
        <5>5. a \in N /\ s[n] \in N
          BY <1>1, <5>1, <5>2
        <5> QED BY <2>1, <3>3, <5>3, <5>4, <5>5, NotAfterChain
      <4>2. AllBefore(ToSet(kept[n]), {s[n + 1]})
        BY <2>1, <4>1 DEF AllBefore
      <4> QED BY <2>1, <3>3, <3>a, <3>b, <4>2 DEF old, x
    <3> QED BY <3>2, <3>3
  <2> QED BY <2>4, <2>5
<1>7. Fine(Len(s))
  <2>1. Good \in SUBSET Nat
    OBVIOUS
  <2> HIDE DEF Fine
  <2>2. Good = Nat
    <3> HIDE DEF Good
    <3> QED BY <1>5, <1>6, <2>1, AllNumbers
  <2>3. Len(s) \in Good
    <3> HIDE DEF Good
    <3> QED BY <1>1, <2>2
  <2> QED BY <2>3
<1>8. Part(Len(s)) = ToSet(s)
  BY <1>1 DEF ToSet
<1> QED BY <1>3, <1>7, <1>8

-----------------------------------------------------------------------------
\* How far the merge of two halves has come.
ToMerge(left, right) == (1 .. Len(left) + 1) \X (1 .. Len(right) + 1)

MergedFrom(seen, left, right, m, i, j) ==
  IF i > Len(left) \/ j > Len(right)
    THEN SubSeq(left, i, Len(left)) \o SubSeq(right, j, Len(right))
    ELSE IF Compare(seen, left[i], right[j]) < 0
           THEN <<left[i]>> \o m[<<i + 1, j>>]
           ELSE <<right[j]>> \o m[<<i, j + 1>>]

MergedUpTo(seen, left, right, m) ==
  m = [at \in ToMerge(left, right) |-> MergedFrom(seen, left, right, m, at[1], at[2])]

\* There is such a function, for any two halves.
LEMMA MergedExists ==
  ASSUME NEW N, NEW seen, NEW left \in Seq(N), NEW right \in Seq(N)
  PROVE  \E m : MergedUpTo(seen, left, right, m)
<1> DEFINE D == ToMerge(left, right)
           V == Seq(N)
           bound == Len(left) + Len(right)
           size == [d \in D |-> bound + 2 - d[1] - d[2]]
           body == [d \in D |-> [f \in [D -> V] |-> MergedFrom(seen, left, right, f, d[1], d[2])]]
<1>1. Len(left) \in Nat /\ Len(right) \in Nat
  OBVIOUS
<1>2. \A d \in D : d[1] \in 1 .. Len(left) + 1 /\ d[2] \in 1 .. Len(right) + 1 /\ d = <<d[1], d[2]>>
  BY DEF ToMerge
<1>3. \A i \in 1 .. Len(left) + 1, j \in 1 .. Len(right) + 1 : <<i, j>> \in D
  BY DEF ToMerge
<1> HIDE DEF D
<1>4. size \in [D -> Nat] /\ bound \in Nat /\ \A d \in D : size[d] <= bound
  BY <1>1, <1>2
<1> DEFINE Next1(d) == <<d[1] + 1, d[2]>>
           Next2(d) == <<d[1], d[2] + 1>>
<1>a. ASSUME NEW d \in D, ~(d[1] > Len(left) \/ d[2] > Len(right))
      PROVE  /\ Next1(d) \in D /\ Next2(d) \in D
             /\ size[Next1(d)] < size[d] /\ size[Next2(d)] < size[d]
  <2>1. d[1] + 1 \in 1 .. Len(left) + 1 /\ d[2] + 1 \in 1 .. Len(right) + 1 
    BY <1>1, <1>2, <1>a
  <2>2. Next1(d) \in D /\ Next2(d) \in D
    BY <1>2, <1>3, <2>1
  <2>3. /\ Next1(d)[1] = d[1] + 1 /\ Next1(d)[2] = d[2]
        /\ Next2(d)[1] = d[1] /\ Next2(d)[2] = d[2] + 1
    OBVIOUS
  <2> HIDE DEF Next1, Next2
  <2> QED BY <1>1, <1>2, <2>2, <2>3
<1> HIDE DEF Next1, Next2
<1>5. ASSUME NEW d \in D, NEW f \in [D -> V]
      PROVE  MergedFrom(seen, left, right, f, d[1], d[2]) \in V
  <2>1. CASE d[1] > Len(left) \/ d[2] > Len(right)
    <3>1. SubSeq(left, d[1], Len(left)) \in V /\ SubSeq(right, d[2], Len(right)) \in V
      BY <1>1, <1>2
    <3> QED BY <2>1, <3>1 DEF MergedFrom
  <2>2. CASE ~(d[1] > Len(left) \/ d[2] > Len(right))
    <3>1. Next1(d) \in D /\ Next2(d) \in D /\ size[Next1(d)] < size[d] /\ size[Next2(d)] < size[d]
      BY <1>a, <2>2
    <3>2. f[Next1(d)] \in V /\ f[Next2(d)] \in V
      BY <3>1
    <3>3. left[d[1]] \in N /\ right[d[2]] \in N
      BY <1>1, <1>2, <2>2
    <3> QED BY <2>2, <3>2, <3>3 DEF MergedFrom, Next1, Next2
  <2> QED BY <2>1, <2>2
<1>6. body \in [D -> [[D -> V] -> V]]
  BY <1>5
<1>7. LookBack(D, V, size, body)
  <2> SUFFICES ASSUME NEW d \in D, NEW f \in [D -> V], NEW g \in [D -> V],
                      \A c \in D : size[c] < size[d] => f[c] = g[c]
               PROVE  MergedFrom(seen, left, right, f, d[1], d[2]) = MergedFrom(seen, left, right, g, d[1], d[2])
    BY DEF LookBack
  <2>1. CASE d[1] > Len(left) \/ d[2] > Len(right)
    BY <2>1 DEF MergedFrom
  <2>2. CASE ~(d[1] > Len(left) \/ d[2] > Len(right))
    <3>1. Next1(d) \in D /\ Next2(d) \in D /\ size[Next1(d)] < size[d] /\ size[Next2(d)] < size[d]
      BY <1>a, <2>2
    <3>3. f[Next1(d)] = g[Next1(d)] /\ f[Next2(d)] = g[Next2(d)]
      BY <3>1
    <3> QED BY <2>2, <3>3 DEF MergedFrom, Next1, Next2
  <2> QED BY <2>1, <2>2
<1>8. WellDefined(D, V, size, bound, body)
  <2>1. V # {}
    OBVIOUS
  <2> QED BY <1>4, <1>6, <1>7, <2>1 DEF WellDefined
<1>9. PICK f : Solution(D, V, body, f)
  <2> HIDE DEF V, bound, size, body
  <2> QED BY <1>8, RecursionExists
<1>10. f = [d \in D |-> MergedFrom(seen, left, right, f, d[1], d[2])]
  BY <1>9 DEF Solution
<1>11. MergedUpTo(seen, left, right, f)
  BY <1>10 DEF MergedUpTo, D
<1> QED BY <1>11

-----------------------------------------------------------------------------
(* Merging two halves. *)

\* The nodes of a sequence with one more in front.
LEMMA PrependSet ==
  ASSUME NEW N, NEW n \in N, NEW s \in Seq(N)
  PROVE  ToSet(<<n>> \o s) = {n} \cup ToSet(s)
<1> DEFINE h == <<n>>
<1>1. h \in Seq(N) /\ ToSet(h) = {n}
  BY OneNode
<1> HIDE DEF h
<1>2. ToSet(h \o s) = ToSet(h) \cup ToSet(s)
  BY <1>1, ConcatSet
<1> QED BY <1>1, <1>2 DEF h

\* It is in order when that node goes before the others.
LEMMA PrependOrder ==
  ASSUME NEW N, NEW n \in N, NEW s \in Seq(N)
  PROVE  /\ <<n>> \o s \in Seq(N)
         /\ Weakly(s) /\ NoneAfter({n}, ToSet(s)) => Weakly(<<n>> \o s)
         /\ Strictly(s) /\ AllBefore({n}, ToSet(s)) => Strictly(<<n>> \o s)
<1> DEFINE h == <<n>>
<1>1. h \in Seq(N) /\ ToSet(h) = {n} /\ Weakly(h) /\ Strictly(h)
  BY OneNode
<1> HIDE DEF h
<1>2. /\ h \o s \in Seq(N)
      /\ Weakly(h) /\ Weakly(s) /\ NoneAfter(ToSet(h), ToSet(s)) => Weakly(h \o s)
      /\ Strictly(h) /\ Strictly(s) /\ AllBefore(ToSet(h), ToSet(s)) => Strictly(h \o s)
  BY <1>1, ConcatOrder
<1> QED BY <1>1, <1>2 DEF h

\* The nodes of a sequence from a place on.
From(s, i) == {s[k] : k \in i .. Len(s)}

\* The nodes from a place are the one there and those from the next place.
LEMMA FromOn ==
  ASSUME NEW N, NEW s \in Seq(N), NEW i \in 1 .. Len(s)
  PROVE  From(s, i) = {s[i]} \cup From(s, i + 1)
  BY DEF From

\* From the first place these are all the nodes.
LEMMA FromAll ==
  ASSUME NEW N, NEW s \in Seq(N)
  PROVE  From(s, 1) = ToSet(s)
  BY DEF From, ToSet

\* What SubSeq leaves from a place on.
LEMMA FromPart ==
  ASSUME NEW N, NEW s \in Seq(N), NEW i \in 1 .. Len(s) + 1
  PROVE  /\ SubSeq(s, i, Len(s)) \in Seq(N) /\ ToSet(SubSeq(s, i, Len(s))) = From(s, i)
         /\ Weakly(s) => Weakly(SubSeq(s, i, Len(s)))
<1>1. Len(s) \in i - 1 .. Len(s)
  OBVIOUS
<1> QED BY <1>1, PartOrder DEF From

\* In a sequence in order no node is after those from its place on.
LEMMA FromWeak ==
  ASSUME NEW N, NEW s \in Seq(N), Weakly(s), NEW i \in 1 .. Len(s)
  PROVE  NoneAfter({s[i]}, From(s, i))
<1>1. DOMAIN s = 1 .. Len(s)
  OBVIOUS
<1> QED BY <1>1 DEF Weakly, From, NoneAfter, NotAfter

\* Merging two halves keeps their nodes, and their order.
LEMMA MergeHalvesOrder ==
  ASSUME NEW N, NEW seen, NEW left \in Seq(N), NEW right \in Seq(N)
  PROVE  /\ MergeHalves(seen, left, right) \in Seq(N)
         /\ ToSet(MergeHalves(seen, left, right)) = ToSet(left) \cup ToSet(right)
         /\ Ordered(N) /\ Decides(seen, N) /\ Weakly(left) /\ Weakly(right)
              => Weakly(MergeHalves(seen, left, right))
<1> DEFINE m == CHOOSE m : MergedUpTo(seen, left, right, m)
           D == ToMerge(left, right)
           size == [d \in D |-> Len(left) + Len(right) + 2 - d[1] - d[2]]
           InOrder == Ordered(N) /\ Decides(seen, N) /\ Weakly(left) /\ Weakly(right)
           Fine(d) == /\ m[d] \in Seq(N) /\ ToSet(m[d]) = From(left, d[1]) \cup From(right, d[2])
                      /\ InOrder => Weakly(m[d])
           Good == {d \in D : Fine(d)}
<1>1. MergedUpTo(seen, left, right, m)
  BY MergedExists
<1>2. MergeHalves(seen, left, right) = m[<<1, 1>>]
  BY DEF MergeHalves, MergedUpTo, MergedFrom, ToMerge
<1> HIDE DEF m
<1>3. \A d \in D : m[d] = MergedFrom(seen, left, right, m, d[1], d[2])
  BY <1>1 DEF MergedUpTo
<1>4. /\ Len(left) \in Nat /\ Len(right) \in Nat
      /\ \A d \in D : d[1] \in 1 .. Len(left) + 1 /\ d[2] \in 1 .. Len(right) + 1
      /\ \A i \in 1 .. Len(left) + 1, j \in 1 .. Len(right) + 1 : <<i, j>> \in D
  BY DEF ToMerge
<1> HIDE DEF D
<1>5. size \in [D -> Nat]
  BY <1>4
<1>6. ASSUME NEW d \in D, \A c \in D : size[c] < size[d] => c \in Good
      PROVE  d \in Good
  <2> DEFINE i == d[1]
             j == d[2]
  <2>1. i \in 1 .. Len(left) + 1 /\ j \in 1 .. Len(right) + 1
    BY <1>4
  <2>2. m[d] = MergedFrom(seen, left, right, m, i, j)
    BY <1>3
  <2>3. size[d] = Len(left) + Len(right) + 2 - i - j
    OBVIOUS
  <2> HIDE DEF i, j
  <2>4. CASE i > Len(left) \/ j > Len(right)
    <3> DEFINE l == SubSeq(left, i, Len(left))
               r == SubSeq(right, j, Len(right))
    <3>1. l \in Seq(N) /\ ToSet(l) = From(left, i) /\ (Weakly(left) => Weakly(l))
      BY <2>1, FromPart
    <3>2. r \in Seq(N) /\ ToSet(r) = From(right, j) /\ (Weakly(right) => Weakly(r))
      BY <2>1, FromPart
    <3>3. m[d] = l \o r
      BY <2>2, <2>4 DEF MergedFrom
    <3>4. From(left, i) = {} \/ From(right, j) = {}
      BY <1>4, <2>1, <2>4 DEF From
    <3> HIDE DEF l, r
    <3>5. ToSet(l \o r) = ToSet(l) \cup ToSet(r)
      BY <3>1, <3>2, ConcatSet
    <3>6. l \o r \in Seq(N) /\ (Weakly(l) /\ Weakly(r) /\ NoneAfter(ToSet(l), ToSet(r)) => Weakly(l \o r))
      BY <3>1, <3>2, ConcatOrder
    <3>7. NoneAfter(ToSet(l), ToSet(r))
      BY <3>1, <3>2, <3>4 DEF NoneAfter
    <3>8. Fine(d)
      BY <3>1, <3>2, <3>3, <3>5, <3>6, <3>7 DEF i, j
    <3> QED BY <3>8
  <2>5. CASE ~(i > Len(left) \/ j > Len(right))
    <3>1. i \in 1 .. Len(left) /\ j \in 1 .. Len(right) /\ left[i] \in N /\ right[j] \in N
      BY <1>4, <2>1, <2>5
    <3> DEFINE x == left[i]
               y == right[j]
               L == From(left, i)
               R == From(right, j)
    <3>2. L = {x} \cup From(left, i + 1) /\ R = {y} \cup From(right, j + 1)
      BY <3>1, FromOn
    <3>3. L \in SUBSET N /\ R \in SUBSET N
      BY <1>4, <2>1 DEF From
    <3>4. Weakly(left) => NoneAfter({x}, L)
      BY <3>1, FromWeak
    <3>5. Weakly(right) => NoneAfter({y}, R)
      BY <3>1, FromWeak
    <3>6. CASE Compare(seen, x, y) < 0
      <4> DEFINE c == <<i + 1, j>>
                 rest == m[c]
      <4>1. c \in D /\ c[1] = i + 1 /\ c[2] = j
        BY <1>4, <3>1
      <4>2. size[c] < size[d]
        <5> HIDE DEF c
        <5> QED BY <1>4, <2>3, <3>1, <4>1
      <4>3. Fine(c)
        BY <1>6, <4>1, <4>2
      <4>4. m[d] = <<x>> \o rest
        BY <2>2, <2>5, <3>6 DEF MergedFrom
      <4>5. rest \in Seq(N) /\ ToSet(rest) = From(left, i + 1) \cup R /\ (InOrder => Weakly(rest))
        BY <4>1, <4>3
      <4> HIDE DEF c, rest, x, y, L, R
      <4>6. ToSet(<<x>> \o rest) = {x} \cup ToSet(rest)
        BY <3>1, <4>5, PrependSet DEF x
      <4>7. <<x>> \o rest \in Seq(N) /\ (Weakly(rest) /\ NoneAfter({x}, ToSet(rest)) => Weakly(<<x>> \o rest))
        BY <3>1, <4>5, PrependOrder DEF x
      <4>8. ASSUME InOrder
            PROVE  NoneAfter({x}, ToSet(rest))
        <5>0. x \in N /\ y \in N
          BY <3>1 DEF x, y
        <5>1. x \in N /\ y \in N /\ NotAfter(x, y)
          <6>1. Compare(seen, x, y) \in Int /\ (Compare(seen, x, y) <= 0 => NotAfter(x, y))
            BY <4>8, <5>0 DEF Decides, NotAfter
          <6>2. Compare(seen, x, y) < 0
            BY <3>6 DEF x, y
          <6> QED BY <5>0, <6>1, <6>2
        <5>2. \A b \in R : NotAfter(y, b)
          BY <3>5, <4>8 DEF NoneAfter
        <5>3. \A b \in R : NotAfter(x, b)
          BY <3>3, <4>8, <5>1, <5>2, NotAfterChain
        <5>4. \A b \in L : NotAfter(x, b)
          BY <3>4, <4>8 DEF NoneAfter
        <5> QED BY <3>2, <4>5, <5>3, <5>4 DEF NoneAfter
      <4>9. ToSet(m[d]) = L \cup R
        BY <3>2, <4>4, <4>5, <4>6
      <4>10. Fine(d)
        BY <4>4, <4>5, <4>7, <4>8, <4>9 DEF L, R, i, j
      <4> QED BY <4>10
    <3>7. CASE ~(Compare(seen, x, y) < 0)
      <4> DEFINE c == <<i, j + 1>>
                 rest == m[c]
      <4>1. c \in D /\ c[1] = i /\ c[2] = j + 1
        BY <1>4, <3>1
      <4>2. size[c] < size[d]
        <5> HIDE DEF c
        <5> QED BY <1>4, <2>3, <3>1, <4>1
      <4>3. Fine(c)
        BY <1>6, <4>1, <4>2
      <4>4. m[d] = <<y>> \o rest
        BY <2>2, <2>5, <3>7 DEF MergedFrom
      <4>5. rest \in Seq(N) /\ ToSet(rest) = L \cup From(right, j + 1) /\ (InOrder => Weakly(rest))
        BY <4>1, <4>3
      <4> HIDE DEF c, rest, x, y, L, R
      <4>6. ToSet(<<y>> \o rest) = {y} \cup ToSet(rest)
        BY <3>1, <4>5, PrependSet DEF y
      <4>7. <<y>> \o rest \in Seq(N) /\ (Weakly(rest) /\ NoneAfter({y}, ToSet(rest)) => Weakly(<<y>> \o rest))
        BY <3>1, <4>5, PrependOrder DEF y
      <4>8. ASSUME InOrder
            PROVE  NoneAfter({y}, ToSet(rest))
        <5>1. x \in N /\ y \in N /\ NotAfter(y, x)
          BY <3>1, <3>7, <4>8, NotAfterChain DEF x, y, Decides
        <5>2. \A b \in L : NotAfter(x, b)
          BY <3>4, <4>8 DEF NoneAfter
        <5>3. \A b \in L : NotAfter(y, b)
          BY <3>3, <4>8, <5>1, <5>2, NotAfterChain
        <5>4. \A b \in R : NotAfter(y, b)
          BY <3>5, <4>8 DEF NoneAfter
        <5> QED BY <3>2, <4>5, <5>3, <5>4 DEF NoneAfter
      <4>9. ToSet(m[d]) = L \cup R
        BY <3>2, <4>4, <4>5, <4>6
      <4>10. Fine(d)
        BY <4>4, <4>5, <4>7, <4>8, <4>9 DEF L, R, i, j
      <4> QED BY <4>10
    <3> QED BY <3>6, <3>7
  <2> QED BY <2>4, <2>5
<1>7. D \subseteq Good
  <2> HIDE DEF size, Good
  <2> QED BY <1>5, <1>6, ByMeasure
<1>8. <<1, 1>> \in D
  BY <1>4
<1>9. Fine(<<1, 1>>)
  <2> HIDE DEF Fine
  <2> QED BY <1>7, <1>8
<1>10. From(left, 1) = ToSet(left) /\ From(right, 1) = ToSet(right)
  BY FromAll
<1> QED BY <1>2, <1>9, <1>10

-----------------------------------------------------------------------------
(* Sorting by halves. *)

Parts(s) == (1 .. Len(s)) \X (0 .. Len(s))
Middle(first, last) == first + ((last - first + 1) \div 2) - 1

SortedFrom(seen, s, sorted, first, last) ==
  IF last <= first
    THEN SubSeq(s, first, last)
    ELSE MergeHalves(seen, sorted[<<first, Middle(first, last)>>], sorted[<<Middle(first, last) + 1, last>>])
SortedUpTo(seen, s, sorted) ==
  sorted = [part \in Parts(s) |-> SortedFrom(seen, s, sorted, part[1], part[2])]

SizeOfPart(s) == [part \in Parts(s) |-> IF part[2] < part[1] THEN 0 ELSE part[2] - part[1] + 1]

\* The number of nodes of a part is a number, and the bound bounds it.
LEMMA SizesOfParts ==
  ASSUME NEW N, NEW s \in Seq(N)
  PROVE  /\ SizeOfPart(s) \in [Parts(s) -> Nat]
         /\ \A d \in Parts(s) : SizeOfPart(s)[d] <= Len(s)
<1>1. \A d \in Parts(s) : d[1] \in 1 .. Len(s) /\ d[2] \in 0 .. Len(s)
  BY DEF Parts
<1>2. Len(s) \in Nat
  OBVIOUS
<1>3. SizeOfPart(s) = [part \in Parts(s) |-> IF part[2] < part[1] THEN 0 ELSE part[2] - part[1] + 1]
  BY DEF SizeOfPart
<1> QED BY <1>1, <1>2, <1>3

\* Both halves of a part that is halved are smaller.
LEMMA HalvesAreSmaller ==
  ASSUME NEW N, NEW s \in Seq(N), NEW d \in Parts(s), ~(d[2] <= d[1])
  PROVE  LET mid == Middle(d[1], d[2])
         IN /\ mid \in d[1] .. d[2] - 1
            /\ <<d[1], mid>> \in Parts(s) /\ SizeOfPart(s)[<<d[1], mid>>] < SizeOfPart(s)[d]
            /\ <<mid + 1, d[2]>> \in Parts(s) /\ SizeOfPart(s)[<<mid + 1, d[2]>>] < SizeOfPart(s)[d]
<1> DEFINE first == d[1]
           last == d[2]
           mid == Middle(first, last)
           a == <<first, mid>>
           b == <<mid + 1, last>>
<1>1. first \in 1 .. Len(s) /\ last \in 0 .. Len(s) /\ Len(s) \in Nat /\ first < last
  BY DEF Parts
<1>2. SizeOfPart(s)[d] = last - first + 1
  <2>1. SizeOfPart(s)[d] = IF last < first THEN 0 ELSE last - first + 1
    BY DEF SizeOfPart
  <2> HIDE DEF first, last
  <2> QED BY <1>1, <2>1
<1> HIDE DEF first, last
<1>3. mid \in first .. last - 1
  BY <1>1 DEF Middle
<1> HIDE DEF mid
<1>4. a \in Parts(s) /\ b \in Parts(s)
  BY <1>1, <1>3 DEF Parts
<1>5. a[1] = first /\ a[2] = mid /\ b[1] = mid + 1 /\ b[2] = last
  OBVIOUS
<1> HIDE DEF a, b
<1>6. SizeOfPart(s)[a] = mid - first + 1 /\ SizeOfPart(s)[b] = last - mid
  <2>1. SizeOfPart(s)[a] = IF a[2] < a[1] THEN 0 ELSE a[2] - a[1] + 1
    BY <1>4 DEF SizeOfPart
  <2>2. SizeOfPart(s)[b] = IF b[2] < b[1] THEN 0 ELSE b[2] - b[1] + 1
    BY <1>4 DEF SizeOfPart
  <2> QED BY <1>1, <1>3, <1>5, <2>1, <2>2
<1>7. SizeOfPart(s)[a] < SizeOfPart(s)[d] /\ SizeOfPart(s)[b] < SizeOfPart(s)[d]
  BY <1>1, <1>2, <1>3, <1>6
<1> QED BY <1>3, <1>4, <1>7 DEF a, b, mid, first, last

\* There is such a function, for every sequence.
LEMMA SortedExists ==
  ASSUME NEW N, NEW seen, NEW s \in Seq(N)
  PROVE  \E sorted : SortedUpTo(seen, s, sorted)
<1> DEFINE D == Parts(s)
           V == Seq(N)
           size == SizeOfPart(s)
           body == [d \in D |-> [f \in [D -> V] |-> SortedFrom(seen, s, f, d[1], d[2])]]
           Low(d) == <<d[1], Middle(d[1], d[2])>>
           High(d) == <<Middle(d[1], d[2]) + 1, d[2]>>
<1>1. size \in [D -> Nat] /\ Len(s) \in Nat /\ \A d \in D : size[d] <= Len(s)
  BY SizesOfParts
<1>2. \A d \in D : d[1] \in 1 .. Len(s) /\ d[2] \in 0 .. Len(s)
  BY DEF Parts
<1>3. ASSUME NEW d \in D, ~(d[2] <= d[1])
      PROVE  Low(d) \in D /\ size[Low(d)] < size[d] /\ High(d) \in D /\ size[High(d)] < size[d]
  BY <1>3, HalvesAreSmaller
<1>4. \A d, f : SortedFrom(seen, s, f, d[1], d[2]) =
        IF d[2] <= d[1] THEN SubSeq(s, d[1], d[2]) ELSE MergeHalves(seen, f[Low(d)], f[High(d)])
  BY DEF SortedFrom
<1> HIDE DEF D, size, Low, High
<1>5. ASSUME NEW d \in D, NEW f \in [D -> V]
      PROVE  SortedFrom(seen, s, f, d[1], d[2]) \in V
  <2>1. CASE d[2] <= d[1]
    <3>1. SubSeq(s, d[1], d[2]) \in V
      BY <1>1, <1>2
    <3> QED BY <1>4, <2>1, <3>1
  <2>2. CASE ~(d[2] <= d[1])
    <3>1. f[Low(d)] \in V /\ f[High(d)] \in V
      BY <1>3, <2>2
    <3>2. MergeHalves(seen, f[Low(d)], f[High(d)]) \in V
      BY <3>1, MergeHalvesOrder
    <3> QED BY <1>4, <2>2, <3>2
  <2> QED BY <2>1, <2>2
<1>6. body \in [D -> [[D -> V] -> V]]
  BY <1>5
<1>7. LookBack(D, V, size, body)
  <2> SUFFICES ASSUME NEW d \in D, NEW f \in [D -> V], NEW g \in [D -> V],
                      \A c \in D : size[c] < size[d] => f[c] = g[c]
               PROVE  SortedFrom(seen, s, f, d[1], d[2]) = SortedFrom(seen, s, g, d[1], d[2])
    BY DEF LookBack
  <2>1. CASE d[2] <= d[1]
    BY <1>4, <2>1
  <2>2. CASE ~(d[2] <= d[1])
    <3>1. f[Low(d)] = g[Low(d)] /\ f[High(d)] = g[High(d)]
      BY <1>3, <2>2
    <3> QED BY <1>4, <2>2, <3>1
  <2> QED BY <2>1, <2>2
<1>8. WellDefined(D, V, size, Len(s), body)
  <2>1. V # {}
    OBVIOUS
  <2> QED BY <1>1, <1>6, <1>7, <2>1 DEF WellDefined
<1>9. PICK f : Solution(D, V, body, f)
  <2> HIDE DEF V, body
  <2> QED BY <1>8, RecursionExists
<1>10. f = [d \in D |-> SortedFrom(seen, s, f, d[1], d[2])]
  BY <1>9 DEF Solution
<1>11. SortedUpTo(seen, s, f)
  BY <1>10 DEF SortedUpTo, D
<1> QED BY <1>11

\* Sorting keeps the nodes, and leaves them in order.
LEMMA MergeSortOrder ==
  ASSUME NEW N, NEW seen, NEW s \in Seq(N)
  PROVE  /\ MergeSort(seen, s) \in Seq(N) /\ ToSet(MergeSort(seen, s)) = ToSet(s)
         /\ Ordered(N) /\ Decides(seen, N) => Weakly(MergeSort(seen, s))
<1>1. CASE s = <<>>
  BY <1>1, NoNode DEF MergeSort
<1>2. CASE s # <<>>
  <2> DEFINE sorted == CHOOSE sorted : SortedUpTo(seen, s, sorted)
             D == Parts(s)
             size == SizeOfPart(s)
             InOrder == Ordered(N) /\ Decides(seen, N)
             Part(i, j) == {s[k] : k \in i .. j}
             Fine(d) == /\ sorted[d] \in Seq(N)
                        /\ d[2] >= d[1] - 1 => ToSet(sorted[d]) = Part(d[1], d[2])
                        /\ InOrder => Weakly(sorted[d])
             Good == {d \in D : Fine(d)}
  <2>1. SortedUpTo(seen, s, sorted)
    BY SortedExists
  <2>2. MergeSort(seen, s) = sorted[<<1, Len(s)>>]
    BY <1>2 DEF MergeSort, SortedUpTo, SortedFrom, Middle, Parts
  <2> HIDE DEF sorted
  <2>3. \A d \in D : sorted[d] = SortedFrom(seen, s, sorted, d[1], d[2])
    BY <2>1 DEF SortedUpTo
  <2>4. /\ Len(s) \in Nat /\ Len(s) >= 1
        /\ \A d \in D : d[1] \in 1 .. Len(s) /\ d[2] \in 0 .. Len(s)
        /\ <<1, Len(s)>> \in D
    BY <1>2 DEF Parts
  <2>5. size \in [D -> Nat]
    BY SizesOfParts
  <2>6. ASSUME NEW d \in D, \A c \in D : size[c] < size[d] => c \in Good
        PROVE  d \in Good
    <3> DEFINE i == d[1]
               j == d[2]
    <3>1. i \in 1 .. Len(s) /\ j \in 0 .. Len(s)
      BY <2>4
    <3>2. sorted[d] = SortedFrom(seen, s, sorted, i, j)
      BY <2>3
    <3>3. CASE j <= i
      <4>1. sorted[d] = SubSeq(s, i, j)
        BY <3>2, <3>3 DEF SortedFrom
      <4>2. CASE j >= i - 1
        <5>1. i \in 1 .. Len(s) + 1 /\ j \in i - 1 .. Len(s)
          BY <2>4, <3>1, <4>2
        <5> HIDE DEF i, j
        <5>2. SubSeq(s, i, j) \in Seq(N) /\ ToSet(SubSeq(s, i, j)) = Part(i, j)
          BY <5>1, PartOrder
        <5>3. DOMAIN SubSeq(s, i, j) = 1 .. j - i + 1
          BY <3>1
        <5>4. Weakly(SubSeq(s, i, j))
          BY <3>1, <3>3, <5>3 DEF Weakly
        <5> HIDE DEF Part
        <5>5. Fine(d)
          BY <4>1, <5>2, <5>4 DEF i, j
        <5> QED BY <5>5
      <4>3. CASE ~(j >= i - 1)
        <5> HIDE DEF i, j
        <5>1. SubSeq(s, i, j) = <<>>
          BY <2>4, <3>1, <4>3
        <5>2. sorted[d] \in Seq(N) /\ Weakly(sorted[d])
          BY <4>1, <5>1, NoNode
        <5> HIDE DEF Part
        <5>3. Fine(d)
          BY <4>3, <5>2 DEF i, j
        <5> QED BY <5>3
      <4> QED BY <4>2, <4>3
    <3>4. CASE ~(j <= i)
      <4> DEFINE mid == Middle(i, j)
                 a == <<i, mid>>
                 b == <<mid + 1, j>>
      <4>1. /\ mid \in i .. j - 1 /\ a \in D /\ size[a] < size[d] /\ b \in D /\ size[b] < size[d]
        BY <3>4, HalvesAreSmaller
      <4>2. Fine(a) /\ Fine(b)
        BY <2>6, <4>1
      <4>3. sorted[d] = MergeHalves(seen, sorted[a], sorted[b])
        BY <3>2, <3>4 DEF SortedFrom
      <4> HIDE DEF i, j, mid
      <4>4. a[1] = i /\ a[2] = mid /\ b[1] = mid + 1 /\ b[2] = j
        OBVIOUS
      <4>5. a[2] >= a[1] - 1 /\ b[2] >= b[1] - 1
        BY <3>1, <4>1, <4>4
      <4>6. Part(i, j) = Part(i, mid) \cup Part(mid + 1, j)
        BY <3>1, <4>1
      <4> HIDE DEF Part, a, b
      <4>7. sorted[a] \in Seq(N) /\ sorted[b] \in Seq(N)
        BY <4>2
      <4>8. ToSet(sorted[a]) = Part(i, mid) /\ ToSet(sorted[b]) = Part(mid + 1, j)
        BY <4>2, <4>4, <4>5
      <4> DEFINE r == MergeHalves(seen, sorted[a], sorted[b])
      <4>9. /\ r \in Seq(N) /\ ToSet(r) = ToSet(sorted[a]) \cup ToSet(sorted[b])
            /\ InOrder /\ Weakly(sorted[a]) /\ Weakly(sorted[b]) => Weakly(r)
        BY <4>7, MergeHalvesOrder
      <4> HIDE DEF r
      <4>10. sorted[d] = r
        BY <4>3 DEF r
      <4>11. Fine(d)
        BY <4>2, <4>6, <4>8, <4>9, <4>10 DEF i, j
      <4> QED BY <4>11
    <3> QED BY <3>3, <3>4
  <2>7. D \subseteq Good
    <3> HIDE DEF size, Good, D
    <3> QED BY <2>5, <2>6, ByMeasure
  <2>8. Fine(<<1, Len(s)>>)
    <3> HIDE DEF Fine
    <3> QED BY <2>4, <2>7
  <2>9. Part(1, Len(s)) = ToSet(s)
    BY DEF ToSet
  <2>10. sorted[<<1, Len(s)>>] \in Seq(N) /\ ToSet(sorted[<<1, Len(s)>>]) = ToSet(s)
         /\ (InOrder => Weakly(sorted[<<1, Len(s)>>]))
    <3> DEFINE d == <<1, Len(s)>>
    <3>1. d[1] = 1 /\ d[2] = Len(s) /\ Fine(d)
      BY <2>8
    <3> HIDE DEF d, Part
    <3>2. d[2] >= d[1] - 1
      BY <2>4, <3>1
    <3> QED BY <2>9, <3>1, <3>2 DEF d
  <2> QED BY <2>2, <2>10
<1> QED BY <1>1, <1>2

\* So what sortNodeValues returns is in document order and holds no node twice.
LEMMA SortNodeValuesOrder ==
  ASSUME NEW N, NEW seen, NEW s \in Seq(N)
  PROVE  /\ SortNodeValues(seen, s) \in Seq(N) /\ ToSet(SortNodeValues(seen, s)) = ToSet(s)
         /\ Ordered(N) /\ Decides(seen, N) => Strictly(SortNodeValues(seen, s))
<1> DEFINE t == MergeSort(seen, s)
<1>1. t \in Seq(N) /\ ToSet(t) = ToSet(s) /\ (Ordered(N) /\ Decides(seen, N) => Weakly(t))
  BY MergeSortOrder
<1>2. SortNodeValues(seen, s) = DropRepeats(t)
  BY DEF SortNodeValues
<1> HIDE DEF t
<1>3. /\ DropRepeats(t) \in Seq(N) /\ ToSet(DropRepeats(t)) = ToSet(t)
      /\ Ordered(N) /\ Weakly(t) => Strictly(DropRepeats(t))
  BY <1>1, DropRepeatsOrder
<1> QED BY <1>1, <1>2, <1>3

-----------------------------------------------------------------------------
(* A row of sequences, joined. *)

\* What FlattenSeq has joined after k sequences, given what it has after fewer.
FlatFrom(seqs, flat, k) == IF k = 1 THEN seqs[k] ELSE flat[k - 1] \o seqs[k]
FlatUpTo(seqs, flat, n) == flat = [k \in 1 .. n |-> FlatFrom(seqs, flat, k)]

\* There is such a function, for every number of sequences.
LEMMA FlatExists ==
  ASSUME NEW seqs, NEW m \in Nat
  PROVE  \E flat : FlatUpTo(seqs, flat, m)
<1> DEFINE Good == {n \in Nat : \E flat : FlatUpTo(seqs, flat, n)}
<1>1. 0 \in Good
  <2> DEFINE none == [k \in 1 .. 0 |-> <<>>]
  <2>1. FlatUpTo(seqs, none, 0)
    BY DEF FlatUpTo
  <2> HIDE DEF none
  <2> QED BY <2>1
<1>2. ASSUME NEW n \in Good
      PROVE  n + 1 \in Good
  <2>1. PICK flat : FlatUpTo(seqs, flat, n)
    OBVIOUS
  <2> DEFINE longer == [k \in 1 .. n + 1 |-> IF k = n + 1 THEN FlatFrom(seqs, flat, k) ELSE flat[k]]
  <2>2. ASSUME NEW k \in 1 .. n + 1
        PROVE  longer[k] = FlatFrom(seqs, longer, k)
    <3>1. n \in Nat
      OBVIOUS
    <3>2. k # 1 => longer[k - 1] = flat[k - 1]
      BY <3>1
    <3> HIDE DEF longer
    <3>3. FlatFrom(seqs, longer, k) = FlatFrom(seqs, flat, k)
      BY <3>2 DEF FlatFrom
    <3>4. longer[k] = IF k = n + 1 THEN FlatFrom(seqs, flat, k) ELSE flat[k]
      BY DEF longer
    <3>5. k # n + 1 => k \in 1 .. n /\ flat[k] = FlatFrom(seqs, flat, k)
      BY <2>1, <3>1 DEF FlatUpTo
    <3> QED BY <3>3, <3>4, <3>5
  <2>3. FlatUpTo(seqs, longer, n + 1)
    <3>1. longer = [k \in 1 .. n + 1 |-> longer[k]]
      OBVIOUS
    <3> HIDE DEF longer
    <3> QED BY <2>2, <3>1 DEF FlatUpTo
  <2> HIDE DEF longer
  <2> QED BY <2>3
<1>3. Good = Nat
  <2>1. Good \in SUBSET Nat
    OBVIOUS
  <2> HIDE DEF Good
  <2> QED BY <1>1, <1>2, <2>1, AllNumbers
<1> QED BY <1>3

\* So FlattenSeq is what that equation gives, and it goes on from a shorter row.
LEMMA FlattenRule ==
  ASSUME NEW seqs, Len(seqs) \in Nat, Len(seqs) # 0
  PROVE  \E flat : FlatUpTo(seqs, flat, Len(seqs)) /\ FlattenSeq(seqs) = flat[Len(seqs)]
<1> DEFINE flat0 == CHOOSE flat : FlatUpTo(seqs, flat, Len(seqs))
<1>1. FlatUpTo(seqs, flat0, Len(seqs))
  BY FlatExists
<1>2. FlattenSeq(seqs) = flat0[Len(seqs)]
  BY DEF FlattenSeq, FlatUpTo, FlatFrom
<1> QED BY <1>1, <1>2

\* No sequences hold no node.
LEMMA FlattenNone == FlattenSeq(<<>>) = <<>>
  BY DEF FlattenSeq

\* One more sequence is one more concatenation.
LEMMA FlattenAppend ==
  ASSUME NEW N, NEW q \in Seq(Seq(N)), NEW x \in Seq(N)
  PROVE  FlattenSeq(Append(q, x)) = FlattenSeq(q) \o x
<1> DEFINE r == Append(q, x)
<1>1. Len(r) = Len(q) + 1 /\ Len(q) \in Nat /\ r[Len(q) + 1] = x /\ \A i \in 1 .. Len(q) : r[i] = q[i]
  OBVIOUS
<1> HIDE DEF r
<1>2. PICK fr : FlatUpTo(r, fr, Len(q) + 1) /\ FlattenSeq(r) = fr[Len(q) + 1]
  BY <1>1, FlattenRule
<1>3. \A k \in 1 .. Len(q) + 1 : fr[k] = FlatFrom(r, fr, k)
  BY <1>2 DEF FlatUpTo
<1>4. fr[Len(q) + 1] = FlatFrom(r, fr, Len(q) + 1)
  BY <1>1, <1>3
<1>5. CASE Len(q) = 0
  <2>1. FlattenSeq(r) = x
    BY <1>1, <1>2, <1>4, <1>5 DEF FlatFrom
  <2>2. q = <<>>
    BY <1>5
  <2> QED BY <2>1, <2>2, FlattenNone DEF r
<1>6. CASE Len(q) # 0
  <2>1. PICK fq : FlatUpTo(q, fq, Len(q)) /\ FlattenSeq(q) = fq[Len(q)]
    BY <1>1, <1>6, FlattenRule
  <2>2. \A k \in 1 .. Len(q) : fq[k] = FlatFrom(q, fq, k)
    BY <2>1 DEF FlatUpTo
  <2> DEFINE Good == {n \in Nat : n \in 1 .. Len(q) => fq[n] = fr[n]}
  <2>3. 0 \in Good
    OBVIOUS
  <2>4. ASSUME NEW n \in Good
        PROVE  n + 1 \in Good
    <3>1. n \in Nat
      OBVIOUS
    <3>2. CASE n + 1 \in 1 .. Len(q)
      <4>1. n # 0 => fq[n] = fr[n]
        BY <1>1, <3>1, <3>2
      <4>2. fq[n + 1] = FlatFrom(q, fq, n + 1) /\ fr[n + 1] = FlatFrom(r, fr, n + 1)
        BY <1>1, <1>3, <2>2, <3>2
      <4>3. r[n + 1] = q[n + 1]
        BY <1>1, <3>2
      <4>4. fq[n + 1] = fr[n + 1]
        BY <3>1, <4>1, <4>2, <4>3 DEF FlatFrom
      <4> QED BY <3>1, <4>4
    <3> QED BY <3>1, <3>2
  <2>5. Good = Nat
    <3>1. Good \in SUBSET Nat
      OBVIOUS
    <3> HIDE DEF Good
    <3> QED BY <2>3, <2>4, <3>1, AllNumbers
  <2>6. Len(q) \in Good
    <3> HIDE DEF Good
    <3> QED BY <1>1, <2>5
  <2>7. fr[Len(q) + 1] = fr[Len(q)] \o x
    BY <1>1, <1>4, <1>6 DEF FlatFrom
  <2>8. fq[Len(q)] = fr[Len(q)]
    BY <1>1, <1>6, <2>6
  <2> QED BY <1>2, <2>1, <2>7, <2>8 DEF r
<1> QED BY <1>5, <1>6

\* The nodes of a row of sequences.
Held(seqs) == UNION {ToSet(seqs[i]) : i \in 1 .. Len(seqs)}

\* Each of the sequences is in order, and none comes after the next.
RowInOrder(seqs) ==
  /\ \A i \in 1 .. Len(seqs) : Weakly(seqs[i])
  /\ \A i, j \in 1 .. Len(seqs) : i < j => NoneAfter(ToSet(seqs[i]), ToSet(seqs[j]))

\* A beginning of a row, one longer.
LEMMA OneLonger ==
  ASSUME NEW S, NEW q \in Seq(S), NEW n \in Nat, n + 1 <= Len(q)
  PROVE  /\ SubSeq(q, 1, n) \in Seq(S) /\ SubSeq(q, 1, n + 1) \in Seq(S) /\ q[n + 1] \in S
         /\ SubSeq(q, 1, n + 1) = Append(SubSeq(q, 1, n), q[n + 1])
<1>1. SubSeq(q, 1, n) \in Seq(S) /\ SubSeq(q, 1, n + 1) \in Seq(S) /\ q[n + 1] \in S
  OBVIOUS
<1>2. Len(SubSeq(q, 1, n)) = n /\ Len(SubSeq(q, 1, n + 1)) = n + 1
  OBVIOUS
<1>3. \A i \in 1 .. n + 1 : SubSeq(q, 1, n + 1)[i] = Append(SubSeq(q, 1, n), q[n + 1])[i]
  OBVIOUS
<1>4. Append(SubSeq(q, 1, n), q[n + 1]) \in Seq(S) /\ Len(Append(SubSeq(q, 1, n), q[n + 1])) = n + 1
  BY <1>1, <1>2
<1> QED BY <1>1, <1>2, <1>3, <1>4, SeqEqual

\* Joining a row of sequences keeps their nodes, and their order.
LEMMA FlattenOrder ==
  ASSUME NEW N, NEW q \in Seq(Seq(N))
  PROVE  /\ FlattenSeq(q) \in Seq(N) /\ ToSet(FlattenSeq(q)) = Held(q)
         /\ RowInOrder(q) => Weakly(FlattenSeq(q))
<1> DEFINE Part(n) == FlattenSeq(SubSeq(q, 1, n))
           Nodes(n) == UNION {ToSet(q[i]) : i \in 1 .. n}
           Fine(n) == /\ Part(n) \in Seq(N) /\ ToSet(Part(n)) = Nodes(n)
                      /\ RowInOrder(q) => Weakly(Part(n))
           Good == {n \in Nat : n <= Len(q) => Fine(n)}
<1>1. Len(q) \in Nat /\ \A i \in 1 .. Len(q) : q[i] \in Seq(N)
  OBVIOUS
<1>2. 0 \in Good
  <2>1. SubSeq(q, 1, 0) = <<>>
    OBVIOUS
  <2>2. Part(0) = <<>>
    BY <2>1, FlattenNone
  <2>3. Nodes(0) = {}
    OBVIOUS
  <2>4. <<>> \in Seq(N)
    OBVIOUS
  <2>5. Fine(0)
    <3> HIDE DEF Part, Nodes
    <3> QED BY <2>2, <2>3, <2>4, NoNode
  <2> QED BY <2>5
<1>3. ASSUME NEW n \in Good
      PROVE  n + 1 \in Good
  <2> SUFFICES ASSUME n + 1 <= Len(q)
               PROVE  Fine(n + 1)
    OBVIOUS
  <2>1. n \in Nat /\ Fine(n) /\ n + 1 \in 1 .. Len(q)
    BY <1>1
  <2> DEFINE x == q[n + 1]
             u == SubSeq(q, 1, n)
  <2>2. u \in Seq(Seq(N)) /\ x \in Seq(N) /\ SubSeq(q, 1, n + 1) = Append(u, x)
    BY <2>1, OneLonger
  <2> HIDE DEF u, x
  <2>3. Part(n + 1) = Part(n) \o x
    BY <2>2, FlattenAppend DEF u
  <2>4. Nodes(n + 1) = Nodes(n) \cup ToSet(x)
    <3>1. 1 .. n + 1 = (1 .. n) \cup {n + 1}
      BY <2>1
    <3> QED BY <3>1 DEF x
  <2> HIDE DEF Part
  <2>5. ToSet(Part(n) \o x) = ToSet(Part(n)) \cup ToSet(x)
    <3> DEFINE a == Part(n)
    <3>1. a \in Seq(N)
      BY <2>1
    <3> HIDE DEF a
    <3>2. ToSet(a \o x) = ToSet(a) \cup ToSet(x)
      BY <2>2, <3>1, ConcatSet
    <3> QED BY <3>2 DEF a
  <2>6. /\ Part(n) \o x \in Seq(N)
        /\ Weakly(Part(n)) /\ Weakly(x) /\ NoneAfter(ToSet(Part(n)), ToSet(x)) => Weakly(Part(n) \o x)
    BY <2>1, <2>2, ConcatOrder
  <2>7. ASSUME RowInOrder(q)
        PROVE  Weakly(x) /\ NoneAfter(Nodes(n), ToSet(x))
    <3>1. \A i \in 1 .. n : i \in 1 .. Len(q) /\ i < n + 1
      BY <1>1, <2>1
    <3>2. \A i \in 1 .. n : NoneAfter(ToSet(q[i]), ToSet(x))
      BY <2>1, <2>7, <3>1 DEF RowInOrder, x
    <3>3. Weakly(x)
      BY <2>1, <2>7 DEF RowInOrder, x
    <3> QED BY <3>2, <3>3 DEF NoneAfter
  <2> HIDE DEF Nodes
  <2> QED BY <2>1, <2>3, <2>4, <2>5, <2>6, <2>7
<1>4. Good = Nat
  <2>1. Good \in SUBSET Nat
    OBVIOUS
  <2> HIDE DEF Good
  <2> QED BY <1>2, <1>3, <2>1, AllNumbers
<1>5. Fine(Len(q))
  <2>1. Len(q) \in Good
    <3> HIDE DEF Good
    <3> QED BY <1>1, <1>4
  <2> HIDE DEF Fine
  <2> QED BY <1>1, <2>1
<1>6. SubSeq(q, 1, Len(q)) = q /\ Nodes(Len(q)) = Held(q)
  BY SubSeqFull DEF Held
<1> QED BY <1>5, <1>6

\* What concatSortedSequences returns: the same nodes, and in order if its row is.
LEMMA ConcatSortedOrder ==
  ASSUME NEW N, NEW q \in Seq(Seq(N))
  PROVE  /\ ConcatSortedSequences(q) \in Seq(N) /\ ToSet(ConcatSortedSequences(q)) = Held(q)
         /\ Ordered(N) /\ RowInOrder(q) => Strictly(ConcatSortedSequences(q))
<1> DEFINE t == FlattenSeq(q)
<1>1. t \in Seq(N) /\ ToSet(t) = Held(q) /\ (RowInOrder(q) => Weakly(t))
  BY FlattenOrder
<1>2. ConcatSortedSequences(q) = DropRepeats(t)
  BY DEF ConcatSortedSequences
<1> HIDE DEF t
<1>3. /\ DropRepeats(t) \in Seq(N) /\ ToSet(DropRepeats(t)) = ToSet(t)
      /\ Ordered(N) /\ Weakly(t) => Strictly(DropRepeats(t))
  BY <1>1, DropRepeatsOrder
<1> QED BY <1>1, <1>2, <1>3

\* Appending to the second part is appending to the whole.
LEMMA ConcatAppend ==
  ASSUME NEW S, NEW a \in Seq(S), NEW b \in Seq(S), NEW x \in S
  PROVE  a \o Append(b, x) = Append(a \o b, x)
<1> DEFINE l == a \o Append(b, x)
           r == Append(a \o b, x)
<1>1. l \in Seq(S) /\ r \in Seq(S) /\ Len(l) = Len(r) /\ Len(l) = Len(a) + Len(b) + 1
  OBVIOUS
<1>2. \A i \in 1 .. Len(a) + Len(b) + 1 : l[i] = r[i]
  OBVIOUS
<1> HIDE DEF l, r
<1>3. l = r
  BY <1>1, <1>2, SeqEqual
<1> QED BY <1>3 DEF l, r

Regroups(a, b, c) == (a \o b) \o c = a \o (b \o c)
\* Concatenation is associative.
LEMMA SequencesRegroup ==
  ASSUME NEW N, NEW a \in Seq(N), NEW b \in Seq(N), NEW c \in Seq(N)
  PROVE  Regroups(a, b, c)
BY ConcatAssociative DEF Regroups

\* So is that of rows that have been joined.
LEMMA FlattenRegroup ==
  ASSUME NEW N, NEW p, NEW u, NEW x, FlattenSeq(p) \in Seq(N), FlattenSeq(u) \in Seq(N), x \in Seq(N)
  PROVE  (FlattenSeq(p) \o FlattenSeq(u)) \o x = FlattenSeq(p) \o (FlattenSeq(u) \o x)
<1>1. Regroups(FlattenSeq(p), FlattenSeq(u), x)
  BY SequencesRegroup
<1> QED BY <1>1 DEF Regroups

\* If two rows can be flattened one by one, so can they with one more sequence.
LEMMA FlattenOneMore ==
  ASSUME NEW N, NEW p \in Seq(Seq(N)), NEW u \in Seq(Seq(N)), NEW x \in Seq(N)
  PROVE  FlattenSeq(p \o u) = FlattenSeq(p) \o FlattenSeq(u)
           => FlattenSeq(p \o Append(u, x)) = FlattenSeq(p) \o FlattenSeq(Append(u, x))
<1>1. p \o Append(u, x) = Append(p \o u, x)
  BY ConcatAppend
<1>2. p \o u \in Seq(Seq(N))
  OBVIOUS
<1>3. FlattenSeq(Append(p \o u, x)) = FlattenSeq(p \o u) \o x
  BY <1>2, FlattenAppend
<1>4. FlattenSeq(Append(u, x)) = FlattenSeq(u) \o x
  BY FlattenAppend
<1>5. FlattenSeq(p) \in Seq(N) /\ FlattenSeq(u) \in Seq(N)
  BY FlattenOrder
<1>6. (FlattenSeq(p) \o FlattenSeq(u)) \o x = FlattenSeq(p) \o (FlattenSeq(u) \o x)
  BY <1>5, FlattenRegroup
<1> QED BY <1>1, <1>3, <1>4, <1>6

\* Joining two rows one after the other.
LEMMA FlattenConcat ==
  ASSUME NEW N, NEW p \in Seq(Seq(N)), NEW q \in Seq(Seq(N))
  PROVE  FlattenSeq(p \o q) = FlattenSeq(p) \o FlattenSeq(q)
<1> DEFINE Fine(n) == FlattenSeq(p \o SubSeq(q, 1, n)) = FlattenSeq(p) \o FlattenSeq(SubSeq(q, 1, n))
           Good == {n \in Nat : n <= Len(q) => Fine(n)}
<1>1. Len(q) \in Nat /\ FlattenSeq(p) \in Seq(N)
  BY FlattenOrder
<1>2. 0 \in Good
  <2>1. SubSeq(q, 1, 0) = <<>> /\ p \o <<>> = p /\ FlattenSeq(p) \o <<>> = FlattenSeq(p)
    BY <1>1
  <2> QED BY <2>1, FlattenNone
<1>3. ASSUME NEW n \in Good
      PROVE  n + 1 \in Good
  <2> SUFFICES ASSUME n + 1 <= Len(q)
               PROVE  Fine(n + 1)
    OBVIOUS
  <2>1. n \in Nat /\ Fine(n) /\ n + 1 \in 1 .. Len(q)
    BY <1>1
  <2> DEFINE x == q[n + 1]
             u == SubSeq(q, 1, n)
  <2>2. u \in Seq(Seq(N)) /\ x \in Seq(N) /\ SubSeq(q, 1, n + 1) = Append(u, x)
    BY <2>1, OneLonger
  <2>3. FlattenSeq(p \o u) = FlattenSeq(p) \o FlattenSeq(u)
    BY <2>1
  <2> HIDE DEF u, x
  <2>4. FlattenSeq(p \o Append(u, x)) = FlattenSeq(p) \o FlattenSeq(Append(u, x))
    BY <2>2, <2>3, FlattenOneMore
  <2> QED BY <2>2, <2>4
<1>4. Good = Nat
  <2>1. Good \in SUBSET Nat
    OBVIOUS
  <2> HIDE DEF Good
  <2> QED BY <1>2, <1>3, <2>1, AllNumbers
<1>5. Fine(Len(q))
  <2>1. Len(q) \in Good
    <3> HIDE DEF Good
    <3> QED BY <1>1, <1>4
  <2> HIDE DEF Fine
  <2> QED BY <1>1, <2>1
<1>6. SubSeq(q, 1, Len(q)) = q
  BY SubSeqFull
<1> QED BY <1>5, <1>6

-----------------------------------------------------------------------------
(* The number of nodes in a row of sequences, and inserting a sequence in it. *)

\* A row is what is before a place and what is from it on.
LEMMA TwoParts ==
  ASSUME NEW S, NEW q \in Seq(S), NEW k \in 1 .. Len(q) + 1
  PROVE  q = SubSeq(q, 1, k - 1) \o SubSeq(q, k, Len(q))
<1> DEFINE a == SubSeq(q, 1, k - 1)
           b == SubSeq(q, k, Len(q))
           r == a \o b
<1>1. /\ a \in Seq(S) /\ Len(a) = k - 1 /\ \A i \in 1 .. k - 1 : a[i] = q[i]
      /\ b \in Seq(S) /\ Len(b) = Len(q) - k + 1 /\ \A i \in 1 .. Len(q) - k + 1 : b[i] = q[k + i - 1]
      /\ k \in Nat /\ Len(q) \in Nat
  OBVIOUS
<1>a. a \in Seq(S) /\ b \in Seq(S)
  OBVIOUS
<1> HIDE DEF a, b
<1>2. r \in Seq(S) /\ Len(r) = Len(a) + Len(b)
  BY <1>a
<1>3. /\ \A i \in 1 .. Len(a) : r[i] = a[i]
      /\ \A i \in 1 .. Len(q) : i > Len(a) => r[i] = b[i - Len(a)]
  BY <1>1
<1> HIDE DEF r
<1>4. ASSUME NEW i \in 1 .. Len(q)
      PROVE  r[i] = q[i]
  <2>1. CASE i < k
    BY <1>1, <1>3, <2>1
  <2>2. CASE i >= k
    <3>1. i > Len(a) /\ i - Len(a) \in 1 .. Len(b) /\ k + (i - Len(a)) - 1 = i
      BY <1>1, <2>2
    <3> QED BY <1>1, <1>3, <3>1
  <2> QED BY <1>1, <2>1, <2>2
<1>5. r = q
  BY <1>1, <1>2, <1>4, SeqEqual
<1> QED BY <1>5 DEF r, a, b

\* Where the sequences are after one was put among them.
LEMMA InsertedAt ==
  ASSUME NEW S, NEW q \in Seq(S), NEW x \in S, NEW k \in 1 .. Len(q) + 1
  PROVE  /\ InsertAt(q, k, x) \in Seq(S) /\ Len(InsertAt(q, k, x)) = Len(q) + 1
         /\ InsertAt(q, k, x)[k] = x
         /\ \A i \in 1 .. k - 1 : InsertAt(q, k, x)[i] = q[i]
         /\ \A i \in k + 1 .. Len(q) + 1 : InsertAt(q, k, x)[i] = q[i - 1]
<1> DEFINE a == SubSeq(q, 1, k - 1)
           b == SubSeq(q, k, Len(q))
           t == <<x>>
<1>1. /\ a \in Seq(S) /\ Len(a) = k - 1 /\ \A i \in 1 .. k - 1 : a[i] = q[i]
      /\ b \in Seq(S) /\ Len(b) = Len(q) - k + 1 /\ \A i \in 1 .. Len(q) - k + 1 : b[i] = q[k + i - 1]
      /\ t \in Seq(S) /\ Len(t) = 1 /\ t[1] = x
      /\ k \in Nat /\ Len(q) \in Nat
  OBVIOUS
<1>2. InsertAt(q, k, x) = (a \o t) \o b
  BY DEF InsertAt
<1> HIDE DEF a, b
<1> DEFINE at == Append(a, x)
<1>3. at \in Seq(S) /\ Len(at) = k /\ at[k] = x /\ \A i \in 1 .. k - 1 : at[i] = q[i]
  BY <1>1
<1>a. a \o t = at
  BY <1>1
<1> HIDE DEF at, t
<1> DEFINE r == at \o b
<1>4. r \in Seq(S) /\ Len(r) = Len(q) + 1 /\ \A i \in 1 .. k : r[i] = at[i]
  <2>1. at \in Seq(S) /\ b \in Seq(S) /\ Len(at) = k /\ Len(b) = Len(q) - k + 1 /\ k \in Nat /\ Len(q) \in Nat
    BY <1>1, <1>3
  <2>2. r \in Seq(S) /\ Len(r) = Len(at) + Len(b)
    BY <2>1
  <2>3. \A i \in 1 .. Len(at) : r[i] = at[i]
    BY <2>1
  <2> HIDE DEF r
  <2> QED BY <2>1, <2>2, <2>3
<1>5. ASSUME NEW i \in k + 1 .. Len(q) + 1
      PROVE  r[i] = q[i - 1]
  <2>1. i - k \in 1 .. Len(b) /\ r[i] = b[i - k]
    BY <1>1, <1>3
  <2>2. b[i - k] = q[i - 1]
    BY <1>1, <2>1
  <2> QED BY <2>1, <2>2
<1> HIDE DEF r
<1>6. InsertAt(q, k, x) = r
  BY <1>2, <1>a DEF r
<1>7. \A i \in 1 .. k - 1 : r[i] = q[i]
  BY <1>3, <1>4
<1>8. r[k] = x
  BY <1>1, <1>3, <1>4
<1> QED BY <1>4, <1>5, <1>6, <1>7, <1>8

\* How many nodes a row of sequences holds.
Total(seqs) == Len(FlattenSeq(seqs))

\* Two rows hold as many nodes as each of them together.
LEMMA TotalConcat ==
  ASSUME NEW N, NEW p \in Seq(Seq(N)), NEW q \in Seq(Seq(N))
  PROVE  Total(p \o q) = Total(p) + Total(q)
<1>1. FlattenSeq(p \o q) = FlattenSeq(p) \o FlattenSeq(q)
  BY FlattenConcat
<1>2. FlattenSeq(p) \in Seq(N) /\ FlattenSeq(q) \in Seq(N)
  BY FlattenOrder
<1> QED BY <1>1, <1>2 DEF Total

\* The nodes of a row can be counted.
LEMMA TotalIsNat ==
  ASSUME NEW N, NEW q \in Seq(Seq(N))
  PROVE  Total(q) \in Nat
<1>1. FlattenSeq(q) \in Seq(N)
  BY FlattenOrder
<1> QED BY <1>1 DEF Total

\* A row of one sequence holds its nodes.
LEMMA TotalOne ==
  ASSUME NEW N, NEW x \in Seq(N)
  PROVE  <<x>> \in Seq(Seq(N)) /\ Total(<<x>>) = Len(x)
<1>1. <<x>> = Append(<<>>, x) /\ <<>> \in Seq(Seq(N)) /\ <<x>> \in Seq(Seq(N))
  OBVIOUS
<1>2. FlattenSeq(Append(<<>>, x)) = FlattenSeq(<<>>) \o x
  BY <1>1, FlattenAppend
<1>3. <<>> \o x = x
  OBVIOUS
<1> QED BY <1>1, <1>2, <1>3, FlattenNone DEF Total

\* Inserting a sequence adds its nodes to the count.
LEMMA TotalInserted ==
  ASSUME NEW N, NEW q \in Seq(Seq(N)), NEW x \in Seq(N), NEW k \in 1 .. Len(q) + 1
  PROVE  Total(InsertAt(q, k, x)) = Total(q) + Len(x)
<1> DEFINE a == SubSeq(q, 1, k - 1)
           b == SubSeq(q, k, Len(q))
           t == <<x>>
<1>1. a \in Seq(Seq(N)) /\ b \in Seq(Seq(N)) /\ k \in Nat /\ Len(q) \in Nat
  OBVIOUS
<1>2. t \in Seq(Seq(N)) /\ Total(t) = Len(x)
  BY TotalOne
<1>3. InsertAt(q, k, x) = (a \o t) \o b
  BY DEF InsertAt
<1>4. q = a \o b
  BY TwoParts
<1> HIDE DEF a, b, t
<1>5. Total(q) = Total(a) + Total(b)
  BY <1>1, <1>4, TotalConcat
<1>6. Total(a \o t) = Total(a) + Total(t) /\ a \o t \in Seq(Seq(N))
  BY <1>1, <1>2, TotalConcat
<1>7. Total((a \o t) \o b) = Total(a \o t) + Total(b)
  BY <1>1, <1>6, TotalConcat
<1>8. Total(a) \in Nat /\ Total(b) \in Nat /\ Total(t) \in Nat
  BY <1>1, <1>2, TotalIsNat
<1> QED BY <1>2, <1>3, <1>5, <1>6, <1>7, <1>8

\* A row holds the nodes of its first sequence and those of the rest.
LEMMA TotalHeadTail ==
  ASSUME NEW N, NEW q \in Seq(Seq(N)), q # <<>>
  PROVE  Total(q) = Len(Head(q)) + Total(Tail(q))
<1> DEFINE h == <<Head(q)>>
           t == Tail(q)
<1>1. q = h \o t /\ t \in Seq(Seq(N)) /\ Head(q) \in Seq(N)
  OBVIOUS
<1>2. h \in Seq(Seq(N)) /\ Total(h) = Len(Head(q))
  BY <1>1, TotalOne
<1> HIDE DEF h, t
<1>3. Total(h \o t) = Total(h) + Total(t)
  BY <1>1, <1>2, TotalConcat
<1> QED BY <1>1, <1>2, <1>3 DEF t

\* A row that holds no node and no empty sequence is empty.
LEMMA TotalZero ==
  ASSUME NEW N, NEW q \in Seq(Seq(N)), Total(q) = 0, \A i \in 1 .. Len(q) : q[i] # <<>>
  PROVE  q = <<>>
<1> SUFFICES ASSUME q # <<>>
             PROVE  FALSE
  OBVIOUS
<1>1. Head(q) \in Seq(N) /\ Head(q) = q[1] /\ 1 \in 1 .. Len(q) /\ Tail(q) \in Seq(Seq(N))
  OBVIOUS
<1>2. Len(Head(q)) > 0
  BY <1>1
<1>3. Total(q) = Len(Head(q)) + Total(Tail(q))
  BY TotalHeadTail
<1>4. Total(Tail(q)) \in Nat
  BY <1>1, TotalIsNat
<1> QED BY <1>1, <1>2, <1>3, <1>4

\* Inserting a sequence adds its nodes.
LEMMA HeldInserted ==
  ASSUME NEW N, NEW q \in Seq(Seq(N)), NEW x \in Seq(N), NEW k \in 1 .. Len(q) + 1
  PROVE  Held(InsertAt(q, k, x)) = Held(q) \cup ToSet(x)
<1> DEFINE r == InsertAt(q, k, x)
<1>1. /\ Len(r) = Len(q) + 1 /\ r[k] = x
      /\ \A i \in 1 .. k - 1 : r[i] = q[i]
      /\ \A i \in k + 1 .. Len(q) + 1 : r[i] = q[i - 1]
      /\ k \in Nat /\ Len(q) \in Nat
  BY InsertedAt
<1> HIDE DEF r
<1>2. \A i \in 1 .. Len(r) : \/ r[i] = x
                             \/ \E j \in 1 .. Len(q) : r[i] = q[j]
  <2>1. ASSUME NEW i \in 1 .. Len(r)
        PROVE  \/ r[i] = x
               \/ \E j \in 1 .. Len(q) : r[i] = q[j]
    <3>1. CASE i < k
      <4>1. i \in 1 .. Len(q) /\ i \in 1 .. k - 1
        BY <1>1, <3>1
      <4> QED BY <1>1, <4>1
    <3>2. CASE i = k
      BY <1>1, <3>2
    <3>3. CASE i > k
      <4>1. i - 1 \in 1 .. Len(q) /\ r[i] = q[i - 1]
        BY <1>1, <3>3
      <4> QED BY <4>1
    <3> QED BY <1>1, <3>1, <3>2, <3>3
  <2> QED BY <2>1
<1>3. k \in 1 .. Len(r)
  BY <1>1
<1>4. ASSUME NEW j \in 1 .. Len(q)
      PROVE  \E i \in 1 .. Len(r) : r[i] = q[j]
  <2>1. CASE j < k
    <3>1. j \in 1 .. Len(r) /\ r[j] = q[j]
      BY <1>1, <2>1
    <3> QED BY <3>1
  <2>2. CASE j >= k
    <3>1. j + 1 \in 1 .. Len(r) /\ r[j + 1] = q[j]
      <4>1. j + 1 \in k + 1 .. Len(q) + 1 /\ j + 1 \in 1 .. Len(q) + 1 /\ (j + 1) - 1 = j
        BY <1>1, <2>2
      <4> QED BY <1>1, <4>1
    <3> QED BY <3>1
  <2> QED BY <1>1, <2>1, <2>2
<1>5. Held(r) \subseteq Held(q) \cup ToSet(x)
  BY <1>2 DEF Held
<1>6. ToSet(x) \subseteq Held(r)
  BY <1>1, <1>3 DEF Held
<1>7. Held(q) \subseteq Held(r)
  BY <1>4 DEF Held
<1> QED BY <1>5, <1>6, <1>7 DEF r

\* The nodes of a row are those of its first sequence and those of the rest.
LEMMA HeldHeadTail ==
  ASSUME NEW N, NEW q \in Seq(Seq(N)), q # <<>>
  PROVE  Held(q) = ToSet(Head(q)) \cup Held(Tail(q))
<1>1. /\ Head(q) = q[1] /\ Len(Tail(q)) = Len(q) - 1 /\ Len(q) \in Nat /\ Len(q) >= 1
      /\ \A i \in 1 .. Len(q) - 1 : Tail(q)[i] = q[i + 1]
  OBVIOUS
<1>2. \A i \in 1 .. Len(q) : i = 1 \/ (i - 1 \in 1 .. Len(Tail(q)) /\ q[i] = Tail(q)[i - 1])
  BY <1>1
<1>3. \A i \in 1 .. Len(Tail(q)) : i + 1 \in 1 .. Len(q) /\ q[i + 1] = Tail(q)[i]
  BY <1>1
<1>4. Held(q) \subseteq ToSet(Head(q)) \cup Held(Tail(q))
  BY <1>1, <1>2 DEF Held
<1>5. Held(Tail(q)) \subseteq Held(q)
  BY <1>3 DEF Held
<1>6. ToSet(Head(q)) \subseteq Held(q)
  BY <1>1 DEF Held
<1> QED BY <1>4, <1>5, <1>6

-----------------------------------------------------------------------------
(* The binary search for the place of a sequence. *)

\* Sequences waiting to be merged: none empty, each in order, and their first
\* nodes in order.
Queued(N, queue) ==
  /\ queue \in Seq(Seq(N))
  /\ \A i \in 1 .. Len(queue) : queue[i] # <<>> /\ Strictly(queue[i])
  /\ \A i, j \in 1 .. Len(queue) : i < j => NotAfter(queue[i][1], queue[j][1])

\* The ranges of a binary search, and its steps.
Ranges(queue) == (0 .. Len(queue)) \X (-1 .. Len(queue) - 1)
MidOf(low, high) == (low + high) \div 2

SearchFrom(seen, n, queue, search, low, high) ==
  LET mid == MidOf(low, high)
      c == Compare(seen, n, queue[mid + 1][1])
  IN IF low > high THEN low
     ELSE IF c = 0 THEN mid
     ELSE IF c > 0 THEN search[<<mid + 1, high>>]
                   ELSE search[<<low, mid - 1>>]

SearchUpTo(seen, n, queue, search) ==
  search = [range \in Ranges(queue) |-> SearchFrom(seen, n, queue, search, range[1], range[2])]

SizeOfRange(queue) == [range \in Ranges(queue) |-> IF range[1] > range[2] THEN 0 ELSE range[2] - range[1] + 1]

\* Both parts of a range that is searched are smaller.
LEMMA RangesShrink ==
  ASSUME NEW queue, Len(queue) \in Nat, NEW d \in Ranges(queue), d[1] <= d[2]
  PROVE  LET mid == MidOf(d[1], d[2])
         IN /\ mid \in d[1] .. d[2] /\ mid \in 0 .. Len(queue) - 1
            /\ <<mid + 1, d[2]>> \in Ranges(queue)
            /\ SizeOfRange(queue)[<<mid + 1, d[2]>>] < SizeOfRange(queue)[d]
            /\ <<d[1], mid - 1>> \in Ranges(queue)
            /\ SizeOfRange(queue)[<<d[1], mid - 1>>] < SizeOfRange(queue)[d]
<1> DEFINE low == d[1]
           high == d[2]
           mid == MidOf(low, high)
           a == <<mid + 1, high>>
           b == <<low, mid - 1>>
<1>1. low \in 0 .. Len(queue) /\ high \in -1 .. Len(queue) - 1 /\ low <= high
  BY DEF Ranges
<1>2. SizeOfRange(queue)[d] = high - low + 1
  <2>1. SizeOfRange(queue)[d] = IF low > high THEN 0 ELSE high - low + 1
    BY DEF SizeOfRange
  <2> HIDE DEF low, high
  <2> QED BY <1>1, <2>1
<1> HIDE DEF low, high
<1>3. mid \in low .. high /\ mid \in 0 .. Len(queue) - 1
  BY <1>1 DEF MidOf
<1> HIDE DEF mid
<1>4. mid + 1 \in 0 .. Len(queue) /\ mid - 1 \in -1 .. Len(queue) - 1
  BY <1>1, <1>3
<1>5. a \in Ranges(queue) /\ b \in Ranges(queue)
  BY <1>1, <1>4 DEF Ranges
<1>6. a[1] = mid + 1 /\ a[2] = high /\ b[1] = low /\ b[2] = mid - 1
  OBVIOUS
<1> HIDE DEF a, b
<1>7. /\ SizeOfRange(queue)[a] = IF a[1] > a[2] THEN 0 ELSE a[2] - a[1] + 1
      /\ SizeOfRange(queue)[b] = IF b[1] > b[2] THEN 0 ELSE b[2] - b[1] + 1
  BY <1>5 DEF SizeOfRange
<1>8. SizeOfRange(queue)[a] < SizeOfRange(queue)[d] /\ SizeOfRange(queue)[b] < SizeOfRange(queue)[d]
  BY <1>1, <1>2, <1>3, <1>6, <1>7
<1> QED BY <1>3, <1>5, <1>8 DEF a, b, mid, low, high

\* The length of a range is a number, and the bound bounds it.
LEMMA SizesOfRanges ==
  ASSUME NEW queue, Len(queue) \in Nat
  PROVE  /\ SizeOfRange(queue) \in [Ranges(queue) -> Nat]
         /\ \A d \in Ranges(queue) : SizeOfRange(queue)[d] <= Len(queue)
<1>1. \A d \in Ranges(queue) : d[1] \in 0 .. Len(queue) /\ d[2] \in -1 .. Len(queue) - 1
  BY DEF Ranges
<1>2. SizeOfRange(queue) = [range \in Ranges(queue) |-> IF range[1] > range[2] THEN 0 ELSE range[2] - range[1] + 1]
  BY DEF SizeOfRange
<1> QED BY <1>1, <1>2

\* There is such a function, for every queue.
LEMMA SearchExists ==
  ASSUME NEW seen, NEW n, NEW queue, Len(queue) \in Nat
  PROVE  \E search : SearchUpTo(seen, n, queue, search)
<1> DEFINE D == Ranges(queue)
           V == 0 .. Len(queue)
           size == SizeOfRange(queue)
           From2(f, d) == SearchFrom(seen, n, queue, f, d[1], d[2])
           body == [d \in D |-> [f \in [D -> V] |-> From2(f, d)]]
           mid(d) == MidOf(d[1], d[2])
           Above(d) == <<mid(d) + 1, d[2]>>
           Below(d) == <<d[1], mid(d) - 1>>
           c(d) == Compare(seen, n, queue[mid(d) + 1][1])
<1>1. size \in [D -> Nat] /\ \A d \in D : size[d] <= Len(queue)
  BY SizesOfRanges
<1>2. \A d \in D : d[1] \in V /\ d[1] \in Int /\ d[2] \in Int
  BY DEF Ranges
<1>3. ASSUME NEW d \in D, d[1] <= d[2]
      PROVE  mid(d) \in V /\ Above(d) \in D /\ size[Above(d)] < size[d] /\ Below(d) \in D /\ size[Below(d)] < size[d]
  <2>1. /\ mid(d) \in 0 .. Len(queue) - 1
        /\ Above(d) \in D /\ size[Above(d)] < size[d] /\ Below(d) \in D /\ size[Below(d)] < size[d]
    BY <1>3, RangesShrink
  <2> HIDE DEF mid, Above, Below, D, size
  <2> QED BY <2>1
<1>4. ASSUME NEW f, NEW d \in D
      PROVE  /\ d[1] > d[2] => From2(f, d) = d[1]
             /\ d[1] <= d[2] /\ c(d) = 0 => From2(f, d) = mid(d)
             /\ d[1] <= d[2] /\ c(d) # 0 /\ c(d) > 0 => From2(f, d) = f[Above(d)]
             /\ d[1] <= d[2] /\ c(d) # 0 /\ ~(c(d) > 0) => From2(f, d) = f[Below(d)]
  BY <1>2 DEF SearchFrom
<1> HIDE DEF D, V, size, mid, Above, Below, c, From2
<1>5. ASSUME NEW d \in D, NEW f \in [D -> V]
      PROVE  From2(f, d) \in V
  <2>1. CASE d[1] > d[2]
    BY <1>2, <1>4, <2>1
  <2>2. CASE d[1] <= d[2]
    <3>1. f[Above(d)] \in V /\ f[Below(d)] \in V /\ mid(d) \in V
      BY <1>3, <2>2
    <3> QED BY <1>4, <2>2, <3>1
  <2> QED BY <1>2, <2>1, <2>2
<1>6. body \in [D -> [[D -> V] -> V]]
  BY <1>5
<1>7. LookBack(D, V, size, body)
  <2>1. ASSUME NEW d \in D, NEW f \in [D -> V], NEW g \in [D -> V],
               \A e \in D : size[e] < size[d] => f[e] = g[e]
        PROVE  From2(f, d) = From2(g, d)
    <3>1. CASE d[1] > d[2]
      BY <1>4, <3>1
    <3>2. CASE d[1] <= d[2]
      <4>1. f[Above(d)] = g[Above(d)] /\ f[Below(d)] = g[Below(d)]
        BY <1>3, <2>1, <3>2
      <4> QED BY <1>4, <3>2, <4>1
    <3> QED BY <1>2, <3>1, <3>2
  <2> QED BY <2>1 DEF LookBack
<1>8. WellDefined(D, V, size, Len(queue), body)
  <2>1. V # {}
    <3>1. 0 \in V
      BY DEF V
    <3> QED BY <3>1
  <2> QED BY <1>1, <1>6, <1>7, <2>1 DEF WellDefined
<1>9. PICK f : Solution(D, V, body, f)
  <2> HIDE DEF body
  <2> QED BY <1>8, RecursionExists
<1>10. f = [d \in D |-> From2(f, d)]
  BY <1>9 DEF Solution
<1>11. SearchUpTo(seen, n, queue, f)
  BY <1>10 DEF SearchUpTo, D, From2
<1> QED BY <1>11

\* A node goes where the sequences before it start no later, and those after it
\* no earlier.
Splits(n, queue, p) ==
  /\ p \in 0 .. Len(queue)
  /\ \A i \in 1 .. p : NotAfter(queue[i][1], n)
  /\ \A i \in p + 1 .. Len(queue) : NotAfter(n, queue[i][1])

\* The binary search finds such a place.
LEMMA InsertionPointSplits ==
  ASSUME NEW N, NEW seen, Ordered(N), Decides(seen, N), NEW n \in N, NEW queue, Queued(N, queue)
  PROVE  Splits(n, queue, InsertionPoint(seen, n, queue))
<1> DEFINE search == CHOOSE search : SearchUpTo(seen, n, queue, search)
           D == Ranges(queue)
           size == SizeOfRange(queue)
           head(i) == queue[i][1]
           Narrowed(low, high) ==
             /\ low <= high + 1
             /\ \A i \in 1 .. low : Precedes(head(i), n)
             /\ \A i \in high + 2 .. Len(queue) : NotAfter(n, head(i))
           Fine(d) == Narrowed(d[1], d[2]) => Splits(n, queue, search[d])
           Good == {d \in D : Fine(d)}
<1>1. Len(queue) \in Nat
  BY DEF Queued
<1>2. SearchUpTo(seen, n, queue, search)
  BY <1>1, SearchExists
<1>3. InsertionPoint(seen, n, queue) = search[<<0, Len(queue) - 1>>]
  BY DEF InsertionPoint, SearchUpTo, SearchFrom, Ranges, MidOf
<1> HIDE DEF search
<1>4. \A d \in D : search[d] = SearchFrom(seen, n, queue, search, d[1], d[2])
  BY <1>2 DEF SearchUpTo
<1>5. \A d \in D : d[1] \in 0 .. Len(queue) /\ d[2] \in -1 .. Len(queue) - 1
  BY DEF Ranges
<1>6. /\ \A i \in 1 .. Len(queue) : head(i) \in N
      /\ \A i, j \in 1 .. Len(queue) : i < j => NotAfter(head(i), head(j))
  <2>1. ASSUME NEW i \in 1 .. Len(queue)
        PROVE  head(i) \in N
    <3>1. queue \in Seq(Seq(N)) /\ queue[i] # <<>>
      BY DEF Queued
    <3> HIDE DEF Queued
    <3> QED BY <3>1
  <2> QED BY <2>1 DEF Queued
<1>7. ASSUME NEW d \in D, \A e \in D : size[e] < size[d] => e \in Good, Narrowed(d[1], d[2])
      PROVE  Splits(n, queue, search[d])
  <2> DEFINE low == d[1]
             high == d[2]
             mid == MidOf(low, high)
             c == Compare(seen, n, head(mid + 1))
             above == <<mid + 1, high>>
             below == <<low, mid - 1>>
  <2>1. low \in 0 .. Len(queue) /\ high \in -1 .. Len(queue) - 1 /\ low \in Int /\ high \in Int
    BY <1>1, <1>5
  <2>2. /\ low > high => search[d] = low
        /\ low <= high /\ c = 0 => search[d] = mid
        /\ low <= high /\ c # 0 /\ c > 0 => search[d] = search[above]
        /\ low <= high /\ c # 0 /\ ~(c > 0) => search[d] = search[below]
    <3>1. search[d] = SearchFrom(seen, n, queue, search, low, high)
      BY <1>4
    <3> HIDE DEF low, high
    <3> QED BY <2>1, <3>1 DEF SearchFrom
  <2>3. Narrowed(low, high)
    BY <1>7
  <2>4. CASE low > high
    <3>1. search[d] = low
      BY <2>2, <2>4
    <3> HIDE DEF low, high, head
    <3>2. low = high + 1
      BY <2>1, <2>3, <2>4
    <3> QED BY <2>1, <2>3, <3>1, <3>2 DEF Splits, NotAfter, head
  <2>5. CASE low <= high
    <3>1. /\ mid \in low .. high /\ mid \in 0 .. Len(queue) - 1
          /\ above \in D /\ size[above] < size[d] /\ below \in D /\ size[below] < size[d]
      BY <1>1, <2>5, RangesShrink
    <3>2. Fine(above) /\ Fine(below)
      BY <1>7, <3>1
    <3>3. above[1] = mid + 1 /\ above[2] = high /\ below[1] = low /\ below[2] = mid - 1
      OBVIOUS
    <3> HIDE DEF low, high, mid, above, below, D, size, head
    <3>4. mid + 1 \in 1 .. Len(queue) /\ head(mid + 1) \in N
      BY <1>1, <1>6, <3>1
    <3>5. /\ c \in Int
          /\ c <= 0 => NotAfter(n, head(mid + 1))
          /\ c = 0 => ~Precedes(n, head(mid + 1))
          /\ c > 0 => Precedes(head(mid + 1), n)
      BY <3>4 DEF Decides, NotAfter
    <3>6. c = 0 => n = head(mid + 1)
      BY <3>5 DEF NotAfter
    <3> HIDE DEF c
    <3>7. \A i \in 1 .. mid + 1 : i \in 1 .. Len(queue) /\ head(i) \in N /\ NotAfter(head(i), head(mid + 1))
      <4>1. ASSUME NEW i \in 1 .. mid + 1
            PROVE  i \in 1 .. Len(queue) /\ head(i) \in N /\ NotAfter(head(i), head(mid + 1))
        <5>1. i \in 1 .. Len(queue) /\ (i < mid + 1 \/ i = mid + 1)
          BY <1>1, <3>1, <3>4
        <5> QED BY <1>6, <3>4, <5>1 DEF NotAfter
      <4> QED BY <4>1
    <3>8. \A i \in mid + 1 .. Len(queue) : i \in 1 .. Len(queue) /\ head(i) \in N /\ NotAfter(head(mid + 1), head(i))
      <4>1. ASSUME NEW i \in mid + 1 .. Len(queue)
            PROVE  i \in 1 .. Len(queue) /\ head(i) \in N /\ NotAfter(head(mid + 1), head(i))
        <5>1. i \in 1 .. Len(queue) /\ (mid + 1 < i \/ i = mid + 1)
          BY <1>1, <3>1, <3>4
        <5> QED BY <1>6, <3>4, <5>1 DEF NotAfter
      <4> QED BY <4>1
    <3>9. CASE c = 0
      <4>1. search[d] = mid /\ mid \in 0 .. Len(queue)
        BY <1>1, <2>2, <2>5, <3>1, <3>9
      <4>2. \A i \in 1 .. mid : NotAfter(head(i), n)
        BY <3>1, <3>6, <3>7, <3>9
      <4>3. \A i \in mid + 1 .. Len(queue) : NotAfter(n, head(i))
        BY <3>6, <3>8, <3>9
      <4> QED BY <4>1, <4>2, <4>3 DEF Splits, head
    <3>10. CASE c # 0 /\ c > 0
      <4>1. search[d] = search[above]
        BY <2>2, <2>5, <3>10
      <4>2. \A i \in 1 .. mid + 1 : Precedes(head(i), n)
        BY <3>4, <3>5, <3>7, <3>10, NotAfterChain
      <4>3. Narrowed(mid + 1, high)
        BY <2>1, <2>3, <3>1, <4>2
      <4> QED BY <3>2, <3>3, <4>1, <4>3
    <3>11. CASE c # 0 /\ ~(c > 0)
      <4>1. search[d] = search[below]
        BY <2>2, <2>5, <3>11
      <4>2. \A i \in mid + 1 .. Len(queue) : NotAfter(n, head(i))
        BY <3>4, <3>5, <3>8, <3>11, NotAfterChain
      <4>3. Narrowed(low, mid - 1)
        <5>1. low <= (mid - 1) + 1 /\ (mid - 1) + 2 = mid + 1
          BY <2>1, <3>1
        <5> QED BY <2>3, <4>2, <5>1
      <4> QED BY <3>2, <3>3, <4>1, <4>3
    <3> QED BY <3>9, <3>10, <3>11
  <2> QED BY <2>1, <2>4, <2>5
<1>8. D \subseteq Good
  <2>1. \A d \in D : (\A e \in D : size[e] < size[d] => e \in Good) => d \in Good
    <3> HIDE DEF D, Narrowed, size
    <3> QED BY <1>7
  <2>2. size \in [D -> Nat]
    BY <1>1, SizesOfRanges
  <2> HIDE DEF D, Good, size
  <2> QED BY <2>1, <2>2, ByMeasure
<1>9. <<0, Len(queue) - 1>> \in D
  BY <1>1 DEF Ranges
<1>10. Fine(<<0, Len(queue) - 1>>)
  <2> HIDE DEF Fine
  <2> QED BY <1>8, <1>9
<1>11. Narrowed(0, Len(queue) - 1)
  BY <1>1
<1> QED BY <1>3, <1>10, <1>11

-----------------------------------------------------------------------------
(* Consuming the sequences of a queue. *)

\* A sequence put where its first node belongs joins the queue.
LEMMA QueuedInserted ==
  ASSUME NEW N, Ordered(N), NEW queue, Queued(N, queue),
         NEW s \in Seq(N), s # <<>>, Strictly(s), NEW k \in 1 .. Len(queue) + 1,
         \A i \in 1 .. k - 1 : NotAfter(queue[i][1], s[1]),
         \A i \in k .. Len(queue) : NotAfter(s[1], queue[i][1])
  PROVE  Queued(N, InsertAt(queue, k, s))
<1> DEFINE r == InsertAt(queue, k, s)
<1>1. queue \in Seq(Seq(N)) /\ Len(queue) \in Nat /\ k \in Nat
  BY DEF Queued
<1>2. /\ r \in Seq(Seq(N)) /\ Len(r) = Len(queue) + 1 /\ r[k] = s
      /\ \A i \in 1 .. k - 1 : r[i] = queue[i]
      /\ \A i \in k + 1 .. Len(queue) + 1 : r[i] = queue[i - 1]
  BY <1>1, InsertedAt
<1> HIDE DEF r
<1>3. ASSUME NEW i \in 1 .. Len(r)
      PROVE  \/ i < k /\ i \in 1 .. Len(queue) /\ r[i] = queue[i]
             \/ i = k /\ r[i] = s
             \/ i > k /\ i - 1 \in 1 .. Len(queue) /\ r[i] = queue[i - 1]
  <2>1. CASE i < k
    <3>1. i \in 1 .. Len(queue) /\ i \in 1 .. k - 1
      BY <1>1, <1>2, <2>1
    <3> QED BY <1>2, <2>1, <3>1
  <2>2. CASE i = k
    BY <1>2, <2>2
  <2>3. CASE i > k
    <3>1. i - 1 \in 1 .. Len(queue) /\ i \in k + 1 .. Len(queue) + 1
      <4>1. Len(r) = Len(queue) + 1
        BY <1>2
      <4> QED BY <1>1, <2>3, <4>1
    <3> QED BY <1>2, <2>3, <3>1
  <2> QED BY <1>1, <1>2, <2>1, <2>2, <2>3
<1>4. \A i \in 1 .. Len(queue) : queue[i] # <<>> /\ Strictly(queue[i])
  BY DEF Queued
<1>5. \A i, j \in 1 .. Len(queue) : i < j => NotAfter(queue[i][1], queue[j][1])
  BY DEF Queued
<1>6. ASSUME NEW i \in 1 .. Len(r)
      PROVE  r[i] # <<>> /\ Strictly(r[i])
  BY <1>3, <1>4
<1>7. ASSUME NEW i \in 1 .. Len(r), NEW j \in 1 .. Len(r), i < j
      PROVE  NotAfter(r[i][1], r[j][1])
  <2>1. /\ \/ i < k /\ i \in 1 .. Len(queue) /\ r[i] = queue[i]
           \/ i = k /\ r[i] = s
           \/ i > k /\ i - 1 \in 1 .. Len(queue) /\ r[i] = queue[i - 1]
        /\ \/ j < k /\ j \in 1 .. Len(queue) /\ r[j] = queue[j]
           \/ j = k /\ r[j] = s
           \/ j > k /\ j - 1 \in 1 .. Len(queue) /\ r[j] = queue[j - 1]
    BY <1>3
  <2>2. CASE j < k
    <3>1. r[i] = queue[i] /\ r[j] = queue[j] /\ i \in 1 .. Len(queue) /\ j \in 1 .. Len(queue)
      BY <1>1, <1>7, <2>1, <2>2
    <3> QED BY <1>5, <1>7, <3>1
  <2>3. CASE j = k
    <3>1. i \in 1 .. k - 1 /\ r[i] = queue[i] /\ r[j] = s
      BY <1>1, <1>7, <2>1, <2>3
    <3> QED BY <3>1
  <2>4. CASE j > k
    <3>1. CASE i < k
      <4>1. i < j - 1 /\ r[i] = queue[i] /\ r[j] = queue[j - 1] /\ i \in 1 .. Len(queue) /\ j - 1 \in 1 .. Len(queue)
        BY <1>1, <2>1, <2>4, <3>1
      <4> QED BY <1>5, <4>1
    <3>2. CASE i = k
      <4>1. j - 1 \in k .. Len(queue) /\ r[i] = s /\ r[j] = queue[j - 1]
        BY <1>1, <2>1, <2>4, <3>2
      <4> QED BY <4>1
    <3>3. CASE i > k
      <4>1. i - 1 < j - 1 /\ r[i] = queue[i - 1] /\ r[j] = queue[j - 1] /\ i - 1 \in 1 .. Len(queue) /\ j - 1 \in 1 .. Len(queue)
        BY <1>1, <1>7, <2>1, <2>4, <3>3
      <4> QED BY <1>5, <4>1
    <3> QED BY <1>1, <3>1, <3>2, <3>3
  <2> QED BY <1>1, <2>2, <2>3, <2>4
<1>8. Queued(N, r)
  BY <1>2, <1>6, <1>7 DEF Queued
<1> QED BY <1>8 DEF r

\* What is left of the sequence consumed last goes back in the queue.
LEMMA PutBackQueued ==
  ASSUME NEW N, NEW seen, Ordered(N), Decides(seen, N), NEW queue, Queued(N, queue),
         NEW s \in Seq(N), Strictly(s)
  PROVE  /\ Queued(N, PutBack(seen, s, queue))
         /\ Held(PutBack(seen, s, queue)) = Held(queue) \cup ToSet(s)
         /\ Total(PutBack(seen, s, queue)) = Total(queue) + Len(s)
<1>1. queue \in Seq(Seq(N)) /\ Len(queue) \in Nat
  BY DEF Queued
<1>2. CASE s = <<>>
  <2>1. PutBack(seen, s, queue) = queue
    BY <1>2 DEF PutBack
  <2>2. ToSet(s) = {} /\ Len(s) = 0
    BY <1>2, NoNode
  <2>3. Total(queue) \in Nat
    BY <1>1, TotalIsNat
  <2> QED BY <2>1, <2>2, <2>3
<1>3. CASE s # <<>>
  <2> DEFINE p == InsertionPoint(seen, s[1], queue)
             r == InsertAt(queue, p + 1, s)
  <2>1. s[1] \in N
    BY <1>3
  <2>2. Splits(s[1], queue, p)
    BY <2>1, InsertionPointSplits
  <2>3. PutBack(seen, s, queue) = r
    BY <1>3 DEF PutBack
  <2> HIDE DEF p
  <2>4. /\ p + 1 \in 1 .. Len(queue) + 1 /\ (p + 1) - 1 = p
        /\ \A i \in 1 .. p : NotAfter(queue[i][1], s[1])
        /\ \A i \in p + 1 .. Len(queue) : NotAfter(s[1], queue[i][1])
    BY <1>1, <2>2 DEF Splits
  <2> DEFINE k == p + 1
  <2>5. /\ k \in 1 .. Len(queue) + 1
        /\ \A i \in 1 .. k - 1 : NotAfter(queue[i][1], s[1])
        /\ \A i \in k .. Len(queue) : NotAfter(s[1], queue[i][1])
    BY <2>4
  <2> HIDE DEF k
  <2>6. Queued(N, InsertAt(queue, k, s))
    BY <1>3, <2>5, QueuedInserted
  <2>7. Held(InsertAt(queue, k, s)) = Held(queue) \cup ToSet(s)
    BY <1>1, <2>5, HeldInserted
  <2>8. Total(InsertAt(queue, k, s)) = Total(queue) + Len(s)
    BY <1>1, <2>5, TotalInserted
  <2> QED BY <2>3, <2>6, <2>7, <2>8 DEF k
<1> QED BY <1>2, <1>3

\* The first sequence of a queue starts with a node that none of the others precedes.
LEMMA QueuedHead ==
  ASSUME NEW N, Ordered(N), NEW queue, Queued(N, queue), queue # <<>>
  PROVE  /\ Head(queue) \in Seq(N) /\ Head(queue) # <<>> /\ Strictly(Head(queue))
         /\ Queued(N, Tail(queue))
         /\ NoneAfter({Head(Head(queue))}, Held(queue))
<1>1. /\ queue \in Seq(Seq(N)) /\ Len(queue) \in Nat /\ Len(queue) >= 1 /\ 1 \in 1 .. Len(queue)
      /\ Head(queue) = queue[1]
  <2>1. queue \in Seq(Seq(N))
    BY DEF Queued
  <2> HIDE DEF Queued
  <2> QED BY <2>1
<1>2. Head(queue) \in Seq(N) /\ Head(queue) # <<>> /\ Strictly(Head(queue))
  BY <1>1 DEF Queued
<1>3. Queued(N, Tail(queue))
  <2> DEFINE t == Tail(queue)
  <2>1. t \in Seq(Seq(N)) /\ Len(t) = Len(queue) - 1 /\ \A i \in 1 .. Len(queue) - 1 : t[i] = queue[i + 1]
    BY <1>1
  <2>2. \A i \in 1 .. Len(t) : i + 1 \in 1 .. Len(queue) /\ t[i] = queue[i + 1]
    BY <1>1, <2>1
  <2>3. \A i, j \in 1 .. Len(t) : i < j => i + 1 < j + 1
    OBVIOUS
  <2> HIDE DEF t
  <2>4. Queued(N, t)
    BY <2>1, <2>2, <2>3 DEF Queued
  <2> QED BY <2>4 DEF t
<1>4. ASSUME NEW i \in 1 .. Len(queue), NEW b \in ToSet(queue[i])
      PROVE  NotAfter(queue[1][1], b)
  <2> DEFINE s == queue[i]
  <2>1. s \in Seq(N) /\ s # <<>> /\ Strictly(s)
    BY <1>1 DEF Queued
  <2>2. NotAfter(queue[1][1], s[1])
    <3>1. i = 1 \/ 1 < i
      BY <1>1
    <3> QED BY <1>1, <3>1 DEF Queued, NotAfter
  <2>3. queue[1][1] \in N
    BY <1>1, <1>2
  <2> HIDE DEF s
  <2>4. b \in ToSet(s)
    BY <1>4 DEF s
  <2>5. PICK j \in 1 .. Len(s) : s[j] = b
    BY <2>1, <2>4, ToSetFacts
  <2>6. s[1] \in N /\ b \in N /\ DOMAIN s = 1 .. Len(s) /\ 1 \in DOMAIN s /\ j \in Nat
    BY <2>1, <2>5
  <2>7. NotAfter(s[1], b)
    BY <2>1, <2>5, <2>6 DEF Strictly, NotAfter
  <2> QED BY <2>2, <2>3, <2>6, <2>7, NotAfterChain
<1>5. Head(Head(queue)) = queue[1][1]
  BY <1>1, <1>2
<1>6. NoneAfter({queue[1][1]}, Held(queue))
  BY <1>4 DEF NoneAfter, Held
<1> QED BY <1>2, <1>3, <1>5, <1>6

-----------------------------------------------------------------------------
\* The states of a merge: what it has given out so far, and what is queued.
MergeState(seen, queue, merged, k) ==
  IF k = 0 THEN [queue |-> queue, out |-> <<>>] ELSE Consumed(seen, merged[k - 1])
MergeUpTo(seen, queue, merged, n) == merged = [k \in 0 .. n |-> MergeState(seen, queue, merged, k)]

\* There is such a function, for every number of nodes.
LEMMA MergeExists ==
  ASSUME NEW seen, NEW queue, NEW m \in Nat
  PROVE  \E merged : MergeUpTo(seen, queue, merged, m)
<1> DEFINE Good == {n \in Nat : \E merged : MergeUpTo(seen, queue, merged, n)}
           start == [queue |-> queue, out |-> <<>>]
<1>1. 0 \in Good
  <2> DEFINE none == [k \in 0 .. 0 |-> start]
  <2>1. \A k \in 0 .. 0 : MergeState(seen, queue, none, k) = start
    BY DEF MergeState
  <2>2. MergeUpTo(seen, queue, none, 0)
    <3> HIDE DEF start
    <3> QED BY <2>1 DEF MergeUpTo
  <2> HIDE DEF none
  <2> QED BY <2>2
<1>2. ASSUME NEW n \in Good
      PROVE  n + 1 \in Good
  <2>1. PICK merged : MergeUpTo(seen, queue, merged, n)
    OBVIOUS
  <2> DEFINE longer == [k \in 0 .. n + 1 |-> IF k = n + 1 THEN MergeState(seen, queue, merged, k) ELSE merged[k]]
  <2>2. ASSUME NEW k \in 0 .. n + 1
        PROVE  longer[k] = MergeState(seen, queue, longer, k)
    <3>1. n \in Nat
      OBVIOUS
    <3>2. k # 0 => longer[k - 1] = merged[k - 1]
      BY <3>1
    <3>3. longer[k] = IF k = n + 1 THEN MergeState(seen, queue, merged, k) ELSE merged[k]
      OBVIOUS
    <3> HIDE DEF longer
    <3>4. MergeState(seen, queue, longer, k) = MergeState(seen, queue, merged, k)
      BY <3>2 DEF MergeState
    <3>5. k # n + 1 => k \in 0 .. n /\ merged[k] = MergeState(seen, queue, merged, k)
      BY <2>1, <3>1 DEF MergeUpTo
    <3> QED BY <3>3, <3>4, <3>5
  <2>3. MergeUpTo(seen, queue, longer, n + 1)
    <3>1. longer = [k \in 0 .. n + 1 |-> longer[k]]
      OBVIOUS
    <3> HIDE DEF longer
    <3> QED BY <2>2, <3>1 DEF MergeUpTo
  <2> HIDE DEF longer
  <2> QED BY <2>3
<1>3. Good = Nat
  <2>1. Good \in SUBSET Nat
    OBVIOUS
  <2> HIDE DEF Good
  <2> QED BY <1>1, <1>2, <2>1, AllNumbers
<1> QED BY <1>3

\* What is given out precedes nothing that was, and is followed by what is queued.
Merging(N, all, size, state) ==
  /\ Queued(N, state.queue)
  /\ state.out \in Seq(N) /\ Weakly(state.out)
  /\ NoneAfter(ToSet(state.out), Held(state.queue))
  /\ ToSet(state.out) \cup Held(state.queue) = all
  /\ Total(state.queue) = size

\* Consuming a node goes on merging.
LEMMA ConsumedMerging ==
  ASSUME NEW N, NEW seen, Ordered(N), Decides(seen, N), NEW all, NEW size \in Nat, size > 0,
         NEW state, Merging(N, all, size, state)
  PROVE  Merging(N, all, size - 1, Consumed(seen, state))
<1> DEFINE queue == state.queue
           out == state.out
           s == Head(queue)
           x == Head(s)
           rest == Tail(s)
           others == Tail(queue)
           after == PutBack(seen, rest, others)
           next == Append(out, x)
<1>1. /\ Queued(N, queue) /\ out \in Seq(N) /\ Weakly(out) /\ NoneAfter(ToSet(out), Held(queue))
      /\ ToSet(out) \cup Held(queue) = all /\ Total(queue) = size
  BY DEF Merging
<1> HIDE DEF queue, out
<1>2. queue # <<>>
  <2> SUFFICES ASSUME queue = <<>>
               PROVE  FALSE
    OBVIOUS
  <2>1. Total(queue) = 0
    BY FlattenNone DEF Total
  <2> QED BY <1>1, <2>1
<1>3. /\ s \in Seq(N) /\ s # <<>> /\ Strictly(s) /\ Queued(N, others)
      /\ NoneAfter({x}, Held(queue))
  BY <1>1, <1>2, QueuedHead
<1>4. queue \in Seq(Seq(N))
  BY <1>1 DEF Queued
<1>5. Held(queue) = ToSet(s) \cup Held(others)
  BY <1>2, <1>4, HeldHeadTail
<1>6. Total(queue) = Len(s) + Total(others)
  BY <1>2, <1>4, TotalHeadTail
<1> HIDE DEF s, others
<1>7. x \in N /\ rest \in Seq(N) /\ Len(rest) = Len(s) - 1 /\ Strictly(rest) /\ Len(s) \in Nat
  <2>1. s \in Seq(N) /\ s # <<>> /\ Strictly(s)
    BY <1>3
  <2>2. Strictly(Tail(s))
    BY <2>1, HeadTailOrder
  <2>3. Head(s) \in N /\ Tail(s) \in Seq(N) /\ Len(Tail(s)) = Len(s) - 1 /\ Len(s) \in Nat
    BY <2>1
  <2> QED BY <2>2, <2>3
<1>8. ToSet(s) = {x} \cup ToSet(rest)
  BY <1>3, HeadTailSet
<1> HIDE DEF x, rest
<1>9. /\ Queued(N, after) /\ Held(after) = Held(others) \cup ToSet(rest)
      /\ Total(after) = Total(others) + Len(rest)
  BY <1>3, <1>7, PutBackQueued
<1>10. next \in Seq(N) /\ (Weakly(out) /\ NoneAfter(ToSet(out), {x}) => Weakly(next))
  BY <1>1, <1>7, AppendOrder
<1>11. ToSet(next) = ToSet(out) \cup {x}
  BY <1>1, <1>7, AppendSet
<1>12. Consumed(seen, state) = [queue |-> after, out |-> next]
  BY DEF Consumed, after, next, rest, others, x, s, queue, out
<1> HIDE DEF after, next
<1>13. /\ Consumed(seen, state).queue = after /\ Consumed(seen, state).out = next
  BY <1>12
<1>14. Total(others) \in Nat
  <2>1. others \in Seq(Seq(N))
    BY <1>3 DEF Queued
  <2> QED BY <2>1, TotalIsNat
<1>15. Total(after) = size - 1
  BY <1>1, <1>6, <1>7, <1>9, <1>14
<1>16. Held(queue) = {x} \cup Held(after)
  BY <1>5, <1>8, <1>9
<1>17. Weakly(next)
  BY <1>1, <1>10, <1>16 DEF NoneAfter
<1>18. NoneAfter(ToSet(next), Held(after))
  BY <1>1, <1>3, <1>11, <1>16 DEF NoneAfter
<1>19. ToSet(next) \cup Held(after) = all
  BY <1>1, <1>11, <1>16
<1> QED BY <1>9, <1>10, <1>13, <1>15, <1>17, <1>18, <1>19 DEF Merging

\* A merge gives out the nodes of its sequences, in document order.
LEMMA MergeFromOrder ==
  ASSUME NEW N, NEW seen, Ordered(N), Decides(seen, N), NEW queue, Queued(N, queue)
  PROVE  /\ MergeFrom(seen, queue) \in Seq(N) /\ ToSet(MergeFrom(seen, queue)) = Held(queue)
         /\ Strictly(MergeFrom(seen, queue))
<1> DEFINE size == Total(queue)
           merged == CHOOSE merged : MergeUpTo(seen, queue, merged, size)
           Fine(n) == Merging(N, Held(queue), size - n, merged[n])
           Good == {n \in Nat : n <= size => Fine(n)}
<1>1. queue \in Seq(Seq(N))
  BY DEF Queued
<1>2. size \in Nat
  BY <1>1, TotalIsNat
<1>3. MergeUpTo(seen, queue, merged, size)
  <2> HIDE DEF size
  <2> QED BY <1>2, MergeExists
<1>4. MergeFrom(seen, queue) = DropRepeats(merged[size].out)
  BY DEF MergeFrom, MergeUpTo, MergeState, Total
<1> HIDE DEF merged, size
<1>5. \A k \in 0 .. size : merged[k] = MergeState(seen, queue, merged, k)
  BY <1>3 DEF MergeUpTo
<1>6. 0 \in Good
  <2>1. merged[0] = [queue |-> queue, out |-> <<>>]
    BY <1>2, <1>5 DEF MergeState
  <2>2. merged[0].queue = queue /\ merged[0].out = <<>>
    BY <2>1
  <2>3. <<>> \in Seq(N) /\ size - 0 = size
    BY <1>2
  <2>4. NoneAfter({}, Held(queue))
    BY DEF NoneAfter
  <2>5. Fine(0)
    BY <2>2, <2>3, <2>4, NoNode DEF Merging, size
  <2> QED BY <2>5
<1>7. ASSUME NEW n \in Good
      PROVE  n + 1 \in Good
  <2> SUFFICES ASSUME n + 1 <= size
               PROVE  Fine(n + 1)
    OBVIOUS
  <2>1. n \in Nat /\ Fine(n) /\ size - n \in Nat /\ size - n > 0 /\ size - (n + 1) = (size - n) - 1
    BY <1>2
  <2>2. merged[n + 1] = Consumed(seen, merged[n])
    <3>1. n + 1 \in 0 .. size /\ n + 1 # 0 /\ (n + 1) - 1 = n
      BY <1>2, <2>1
    <3> QED BY <1>5, <3>1 DEF MergeState
  <2>3. Merging(N, Held(queue), (size - n) - 1, Consumed(seen, merged[n]))
    BY <2>1, ConsumedMerging
  <2> QED BY <2>1, <2>2, <2>3
<1>8. Good = Nat
  <2>1. Good \in SUBSET Nat
    OBVIOUS
  <2> HIDE DEF Good
  <2> QED BY <1>6, <1>7, <2>1, AllNumbers
<1>9. Fine(size)
  <2>1. size \in Good
    <3> HIDE DEF Good
    <3> QED BY <1>2, <1>8
  <2> HIDE DEF Fine
  <2> QED BY <1>2, <2>1
<1> DEFINE last == merged[size]
           out == last.out
<1>10. /\ Queued(N, last.queue) /\ out \in Seq(N) /\ Weakly(out)
       /\ ToSet(out) \cup Held(last.queue) = Held(queue) /\ Total(last.queue) = 0
  BY <1>2, <1>9 DEF Merging
<1> HIDE DEF last
<1>11. last.queue = <<>>
  <2>1. last.queue \in Seq(Seq(N)) /\ \A i \in 1 .. Len(last.queue) : last.queue[i] # <<>>
    BY <1>10 DEF Queued
  <2> QED BY <1>10, <2>1, TotalZero
<1>12. Held(last.queue) = {}
  BY <1>11 DEF Held
<1> HIDE DEF out
<1>13. /\ DropRepeats(out) \in Seq(N) /\ ToSet(DropRepeats(out)) = ToSet(out)
       /\ Ordered(N) /\ Weakly(out) => Strictly(DropRepeats(out))
  BY <1>10, DropRepeatsOrder
<1>14. MergeFrom(seen, queue) = DropRepeats(out)
  BY <1>4 DEF out, last
<1> QED BY <1>10, <1>12, <1>13, <1>14

-----------------------------------------------------------------------------
(* The queues a merge may start with. *)

\* The queues in which the first k of the sequences may stand.
QueuesFrom(seen, seqs, queues, k) ==
  IF k = 0 THEN {<<>>}
  ELSE IF seqs[k] = <<>> THEN queues[k - 1]
  ELSE UNION {Placed(seen, queue, seqs[k]) : queue \in queues[k - 1]}
QueuesUpTo(seen, seqs, queues, n) == queues = [k \in 0 .. n |-> QueuesFrom(seen, seqs, queues, k)]

\* There is such a function, for every number of sequences.
LEMMA QueuesExist ==
  ASSUME NEW seen, NEW seqs, NEW m \in Nat
  PROVE  \E queues : QueuesUpTo(seen, seqs, queues, m)
<1> DEFINE Good == {n \in Nat : \E queues : QueuesUpTo(seen, seqs, queues, n)}
<1>1. 0 \in Good
  <2> DEFINE none == [k \in 0 .. 0 |-> {<<>>}]
  <2>1. \A k \in 0 .. 0 : QueuesFrom(seen, seqs, none, k) = {<<>>}
    BY DEF QueuesFrom
  <2>2. QueuesUpTo(seen, seqs, none, 0)
    BY <2>1 DEF QueuesUpTo
  <2> HIDE DEF none
  <2> QED BY <2>2
<1>2. ASSUME NEW n \in Good
      PROVE  n + 1 \in Good
  <2>1. PICK queues : QueuesUpTo(seen, seqs, queues, n)
    OBVIOUS
  <2> DEFINE longer == [k \in 0 .. n + 1 |-> IF k = n + 1 THEN QueuesFrom(seen, seqs, queues, k) ELSE queues[k]]
  <2>2. ASSUME NEW k \in 0 .. n + 1
        PROVE  longer[k] = QueuesFrom(seen, seqs, longer, k)
    <3>1. n \in Nat
      OBVIOUS
    <3>2. k # 0 => longer[k - 1] = queues[k - 1]
      BY <3>1
    <3>3. longer[k] = IF k = n + 1 THEN QueuesFrom(seen, seqs, queues, k) ELSE queues[k]
      OBVIOUS
    <3> HIDE DEF longer
    <3>4. QueuesFrom(seen, seqs, longer, k) = QueuesFrom(seen, seqs, queues, k)
      BY <3>2 DEF QueuesFrom
    <3>5. k # n + 1 => k \in 0 .. n /\ queues[k] = QueuesFrom(seen, seqs, queues, k)
      BY <2>1, <3>1 DEF QueuesUpTo
    <3> QED BY <3>3, <3>4, <3>5
  <2>3. QueuesUpTo(seen, seqs, longer, n + 1)
    <3>1. longer = [k \in 0 .. n + 1 |-> longer[k]]
      OBVIOUS
    <3> HIDE DEF longer
    <3> QED BY <2>2, <3>1 DEF QueuesUpTo
  <2> HIDE DEF longer
  <2> QED BY <2>3
<1>3. Good = Nat
  <2>1. Good \in SUBSET Nat
    OBVIOUS
  <2> HIDE DEF Good
  <2> QED BY <1>1, <1>2, <2>1, AllNumbers
<1> QED BY <1>3

\* A place that fits keeps the queue in order.
LEMMA PlacedQueued ==
  ASSUME NEW N, NEW seen, Ordered(N), Decides(seen, N), NEW queue, Queued(N, queue),
         NEW s \in Seq(N), s # <<>>, Strictly(s), NEW r \in Placed(seen, queue, s)
  PROVE  Queued(N, r) /\ Held(r) = Held(queue) \cup ToSet(s)
<1>1. PICK k \in 1 .. Len(queue) + 1 : Fits(seen, queue, k, s) /\ r = InsertAt(queue, k, s)
  BY DEF Placed
<1>2. queue \in Seq(Seq(N)) /\ Len(queue) \in Nat /\ s[1] \in N
  BY DEF Queued
<1>3. ASSUME NEW i \in 1 .. Len(queue)
      PROVE  queue[i][1] \in N
  <2>1. queue[i] \in Seq(N)
    BY <1>2
  <2>2. queue[i] # <<>>
    BY DEF Queued
  <2> QED BY <2>1, <2>2
<1>4. ASSUME NEW i \in 1 .. k - 1
      PROVE  NotAfter(queue[i][1], s[1])
  <2>1. i \in 1 .. Len(queue)
    BY <1>2
  <2>2. ~StrictlyAfter(seen, queue[i], s)
    BY <1>1 DEF Fits
  <2>3. queue[i][1] \in N
    BY <1>3, <2>1
  <2> QED BY <1>2, <2>2, <2>3 DEF StrictlyAfter, Decides, Ordered, NotAfter
<1>5. ASSUME NEW i \in k .. Len(queue)
      PROVE  NotAfter(s[1], queue[i][1])
  <2>1. i \in 1 .. Len(queue)
    BY <1>2
  <2>2. ~StrictlyAfter(seen, s, queue[i])
    BY <1>1 DEF Fits
  <2>3. queue[i][1] \in N
    BY <1>3, <2>1
  <2> QED BY <1>2, <2>2, <2>3 DEF StrictlyAfter, Decides, Ordered, NotAfter
<1>6. Queued(N, InsertAt(queue, k, s))
  BY <1>4, <1>5, QueuedInserted
<1>7. Held(InsertAt(queue, k, s)) = Held(queue) \cup ToSet(s)
  BY <1>2, HeldInserted
<1> QED BY <1>1, <1>6, <1>7

\* All the orders in which the iterators may stand are queues of all their nodes.
LEMMA OrdersQueued ==
  ASSUME NEW N, NEW seen, Ordered(N), Decides(seen, N),
         NEW seqs \in Seq(Seq(N)), \A i \in 1 .. Len(seqs) : Strictly(seqs[i])
  PROVE  \A queue \in Orders(seen, seqs) : Queued(N, queue) /\ Held(queue) = Held(seqs)
<1> DEFINE queues == CHOOSE queues : QueuesUpTo(seen, seqs, queues, Len(seqs))
           Part(n) == UNION {ToSet(seqs[i]) : i \in 1 .. n}
           Fine(n) == \A queue \in queues[n] : Queued(N, queue) /\ Held(queue) = Part(n)
           Good == {n \in Nat : n <= Len(seqs) => Fine(n)}
<1>1. Len(seqs) \in Nat
  OBVIOUS
<1>2. QueuesUpTo(seen, seqs, queues, Len(seqs))
  BY <1>1, QueuesExist
<1>3. Orders(seen, seqs) = queues[Len(seqs)]
  BY DEF Orders, QueuesUpTo, QueuesFrom
<1> HIDE DEF queues
<1>4. \A k \in 0 .. Len(seqs) : queues[k] = QueuesFrom(seen, seqs, queues, k)
  BY <1>2 DEF QueuesUpTo
<1>5. 0 \in Good
  <2>0. queues[0] = QueuesFrom(seen, seqs, queues, 0)
    BY <1>1, <1>4
  <2>1. queues[0] = {<<>>}
    BY <2>0 DEF QueuesFrom
  <2>2. Queued(N, <<>>)
    BY DEF Queued
  <2>3. Held(<<>>) = {} /\ Part(0) = {}
    BY DEF Held
  <2> QED BY <2>1, <2>2, <2>3
<1>6. ASSUME NEW n \in Good
      PROVE  n + 1 \in Good
  <2>0. n \in Nat /\ (n <= Len(seqs) => Fine(n))
    <3> HIDE DEF Fine
    <3> QED OBVIOUS
  <2> SUFFICES ASSUME n + 1 <= Len(seqs)
               PROVE  Fine(n + 1)
    <3> HIDE DEF Fine
    <3> QED BY <2>0
  <2> DEFINE s == seqs[n + 1]
  <2>1. n \in Nat /\ Fine(n) /\ n + 1 \in 1 .. Len(seqs) /\ s \in Seq(N) /\ Strictly(s)
    <3>1. n \in Nat /\ n <= Len(seqs) /\ n + 1 \in 1 .. Len(seqs)
      BY <1>1, <2>0
    <3>2. Fine(n)
      <4> HIDE DEF Fine
      <4> QED BY <2>0, <3>1
    <3> HIDE DEF Fine
    <3> QED BY <3>1, <3>2
  <2>2. Part(n + 1) = Part(n) \cup ToSet(s)
    <3>1. 1 .. n + 1 = (1 .. n) \cup {n + 1}
      BY <2>1
    <3> QED BY <3>1
  <2>3. queues[n + 1] = IF s = <<>> THEN queues[n] ELSE UNION {Placed(seen, queue, s) : queue \in queues[n]}
    <3>1. n + 1 \in 0 .. Len(seqs) /\ n + 1 # 0 /\ (n + 1) - 1 = n
      BY <1>1, <2>1
    <3> QED BY <1>4, <3>1 DEF QueuesFrom
  <2> HIDE DEF Part, s
  <2>4. CASE s = <<>>
    BY <2>1, <2>2, <2>3, <2>4, NoNode
  <2>5. CASE s # <<>>
    <3>1. ASSUME NEW r \in queues[n + 1]
          PROVE  Queued(N, r) /\ Held(r) = Part(n + 1)
      <4>1. PICK queue \in queues[n] : r \in Placed(seen, queue, s)
        BY <2>3, <2>5
      <4>2. Queued(N, queue) /\ Held(queue) = Part(n)
        BY <2>1
      <4>3. Queued(N, r) /\ Held(r) = Held(queue) \cup ToSet(s)
        BY <2>1, <2>5, <4>1, <4>2, PlacedQueued
      <4> QED BY <2>2, <4>2, <4>3
    <3> QED BY <3>1
  <2> QED BY <2>4, <2>5
<1>7. Good = Nat
  <2>1. Good \in SUBSET Nat
    OBVIOUS
  <2> HIDE DEF Good
  <2> QED BY <1>5, <1>6, <2>1, AllNumbers
<1>8. Fine(Len(seqs))
  <2>1. Len(seqs) \in Good
    <3> HIDE DEF Good
    <3> QED BY <1>1, <1>7
  <2> HIDE DEF Fine
  <2> QED BY <1>1, <2>1
<1>9. Part(Len(seqs)) = Held(seqs)
  BY DEF Held
<1> QED BY <1>3, <1>8, <1>9

\* mergeSortedSequences, however the sort of its iterators places those that compare as the
\* smaller of two both ways: the nodes of all the sequences, once each, in document order.
LEMMA MergeSortedOrder ==
  ASSUME NEW N, NEW seen, Ordered(N), Decides(seen, N),
         NEW seqs \in Seq(Seq(N)), \A i \in 1 .. Len(seqs) : Strictly(seqs[i])
  PROVE  \A r \in MergeSortedSequences(seen, seqs) :
           r \in Seq(N) /\ ToSet(r) = Held(seqs) /\ Strictly(r)
<1>1. ASSUME NEW r \in MergeSortedSequences(seen, seqs)
      PROVE  r \in Seq(N) /\ ToSet(r) = Held(seqs) /\ Strictly(r)
  <2>1. PICK queue \in Orders(seen, seqs) : r = MergeFrom(seen, queue)
    BY DEF MergeSortedSequences
  <2>2. Queued(N, queue) /\ Held(queue) = Held(seqs)
    BY OrdersQueued
  <2>3. /\ MergeFrom(seen, queue) \in Seq(N) /\ ToSet(MergeFrom(seen, queue)) = Held(queue)
        /\ Strictly(MergeFrom(seen, queue))
    BY <2>2, MergeFromOrder
  <2> QED BY <2>1, <2>2, <2>3
<1> QED BY <1>1

-----------------------------------------------------------------------------
(* The document order of a tree. *)

\* Two sequences begin alike when they agree item by item.
LEMMA BeginAlike ==
  ASSUME NEW p \in Path, NEW q \in Path, NEW n \in Nat, n <= Len(p), n <= Len(q)
  PROVE  SubSeq(p, 1, n) = SubSeq(q, 1, n) <=> \A j \in 1 .. n : p[j] = q[j]
<1>1. /\ SubSeq(p, 1, n) \in Seq(Int) /\ SubSeq(q, 1, n) \in Seq(Int)
      /\ Len(SubSeq(p, 1, n)) = n /\ Len(SubSeq(q, 1, n)) = n
      /\ \A j \in 1 .. n : SubSeq(p, 1, n)[j] = p[j] /\ SubSeq(q, 1, n)[j] = q[j]
  BY DEF Path
<1>2. ASSUME \A j \in 1 .. n : p[j] = q[j]
      PROVE  SubSeq(p, 1, n) = SubSeq(q, 1, n)
  <2>1. \A j \in 1 .. n : SubSeq(p, 1, n)[j] = SubSeq(q, 1, n)[j]
    BY <1>1, <1>2
  <2> QED BY <1>1, <2>1, SeqEqual
<1>3. ASSUME SubSeq(p, 1, n) = SubSeq(q, 1, n)
      PROVE  \A j \in 1 .. n : p[j] = q[j]
  BY <1>1, <1>3
<1> QED BY <1>2, <1>3

\* One path is the beginning of another one when nothing of it is left where they part.
LEMMA PrefixEnds ==
  ASSUME NEW p \in Path, NEW q \in Path, p # q
  PROVE  IsPrefix(p, q) <=> Parting(p, q) > Len(p)
<1> DEFINE y == Parting(p, q)
<1>1. PartAt(p, q, y)
  BY PartingParts
<1>2. Len(p) \in Nat /\ Len(q) \in Nat /\ y \in Nat
  BY <1>1 DEF Path, PartAt
<1> HIDE DEF y
<1>3. ASSUME IsPrefix(p, q)
      PROVE  y > Len(p)
  <2>1. Len(p) <= Len(q) /\ \A j \in 1 .. Len(p) : p[j] = q[j]
    BY <1>2, <1>3, BeginAlike DEF IsPrefix
  <2> QED BY <1>1, <1>2, <2>1 DEF PartAt
<1>4. ASSUME y > Len(p)
      PROVE  IsPrefix(p, q)
  <2>1. Len(p) <= Len(q) /\ \A j \in 1 .. Len(p) : p[j] = q[j]
    BY <1>1, <1>2, <1>4, PathsDiffer DEF PartAt
  <2>2. SubSeq(p, 1, Len(p)) = SubSeq(q, 1, Len(p))
    BY <1>2, <2>1, BeginAlike
  <2> QED BY <2>1, <2>2 DEF IsPrefix
<1> QED BY <1>3, <1>4 DEF y

\* The first branching of two paths, neither the beginning of the other, is where they part.
LEMMA BranchLeads ==
  ASSUME NEW p \in Path, NEW q \in Path, p # q, ~IsPrefix(p, q), ~IsPrefix(q, p)
  PROVE  Leads(p, q) <=> \E i \in DOMAIN p \cap DOMAIN q :
                           p[i] < q[i] /\ SubSeq(p, 1, i - 1) = SubSeq(q, 1, i - 1)
<1> DEFINE y == Parting(p, q)
<1>1. PartAt(p, q, y)
  BY PartingParts
<1>2. Len(p) \in Nat /\ Len(q) \in Nat /\ y \in Nat \ {0} /\ DOMAIN p = 1 .. Len(p) /\ DOMAIN q = 1 .. Len(q)
  BY <1>1 DEF Path, PartAt
<1>3. Parting(q, p) = y
  <2>1. PartAt(q, p, y)
    BY <1>1 DEF PartAt
  <2> QED BY <2>1, PartOnce
<1>4. y <= Len(p) /\ y <= Len(q)
  BY <1>2, <1>3, PrefixEnds
<1> HIDE DEF y
<1>5. ASSUME Leads(p, q)
      PROVE  \E i \in DOMAIN p \cap DOMAIN q : p[i] < q[i] /\ SubSeq(p, 1, i - 1) = SubSeq(q, 1, i - 1)
  <2>1. p[y] < q[y]
    BY <1>2, <1>4, <1>5 DEF Leads, LeadsAt, y
  <2>2. \A j \in 1 .. y - 1 : p[j] = q[j]
    BY <1>1 DEF PartAt
  <2>3. SubSeq(p, 1, y - 1) = SubSeq(q, 1, y - 1)
    BY <1>2, <1>4, <2>2, BeginAlike
  <2>4. y \in DOMAIN p \cap DOMAIN q
    BY <1>2, <1>4
  <2> QED BY <2>1, <2>3, <2>4
<1>6. ASSUME NEW i \in DOMAIN p \cap DOMAIN q, p[i] < q[i], SubSeq(p, 1, i - 1) = SubSeq(q, 1, i - 1)
      PROVE  Leads(p, q)
  <2>1. i \in 1 .. Len(p) /\ i \in 1 .. Len(q) /\ p[i] \in Int /\ q[i] \in Int
    BY <1>2 DEF Path
  <2>2. \A j \in 1 .. i - 1 : p[j] = q[j]
    BY <1>2, <1>6, <2>1, BeginAlike
  <2>3. PartAt(p, q, i)
    BY <1>2, <1>6, <2>1, <2>2 DEF PartAt
  <2>4. Parting(p, q) = i
    BY <2>3, PartOnce
  <2> QED BY <1>6, <2>1, <2>4 DEF Leads, LeadsAt
<1> QED BY <1>5, <1>6

\* Document order is the order the comparison is about.
LEMMA PrecedesInTree ==
  ASSUME NEW trees, NEW nodes \in SUBSET NodesOf(trees), NamesDiffer(nodes),
         NEW a \in nodes, NEW b \in nodes, a.tree = b.tree
  PROVE  Precedes(a, b) <=> a # b /\ FirstInTree(a, b)
<1>1. /\ a.at \in Path /\ b.at \in Path /\ a.local \in Nat /\ b.local \in Nat
      /\ a \in NodesOf(trees) /\ b \in NodesOf(trees)
  BY DEF NodesOf
<1>2. CASE a.at = b.at
  <2>1. IsPrefix(a.at, b.at) /\ ~IsStrictPrefix(a.at, b.at)
    BY <1>1, <1>2 DEF IsPrefix, IsStrictPrefix, Path
  <2>2. Precedes(a, b) <=> /\ IsAttribute(b)
                           /\ IsAttribute(a) => a.local < b.local \/ (a.local = b.local /\ a.ns < b.ns)
    BY <1>2, <2>1 DEF Precedes, IsAncestor
  <2>3. a = b => a.ns \in Nat /\ b.ns \in Nat
    BY DEF NodesOf
  <2>4. IsAttribute(a) /\ IsAttribute(b) /\ a.local = b.local => a = b
    BY <1>2 DEF NamesDiffer
  <2>5. ~IsAttribute(a) => a.local = 0
    BY DEF IsAttribute
  <2>6. IsAttribute(b) => b.local # 0
    BY DEF IsAttribute
  <2> QED BY <1>1, <1>2, <2>2, <2>3, <2>4, <2>5, <2>6 DEF FirstInTree
<1>3. CASE a.at # b.at
  <2> DEFINE p == a.at
             q == b.at
  <2>1. a # b
    BY <1>3
  <2>2. FirstInTree(a, b) <=> Leads(p, q)
    BY <1>3 DEF FirstInTree
  <2>3. Precedes(a, b) <=>
          \/ IsPrefix(p, q)
          \/ /\ ~IsPrefix(p, q) /\ ~IsPrefix(q, p)
             /\ \E i \in DOMAIN p \cap DOMAIN q :
                  p[i] < q[i] /\ SubSeq(p, 1, i - 1) = SubSeq(q, 1, i - 1)
    BY <1>3 DEF Precedes, IsAncestor, IsStrictPrefix
  <2> HIDE DEF p, q
  <2>4. p \in Path /\ q \in Path /\ p # q
    BY <1>1, <1>3 DEF p, q
  <2>5. IsPrefix(p, q) => Leads(p, q)
    BY <2>4, PrefixEnds DEF Leads, LeadsAt
  <2>6. IsPrefix(q, p) => Leads(q, p)
    BY <2>4, PrefixEnds DEF Leads, LeadsAt
  <2>7. Leads(p, q) <=> ~Leads(q, p)
    BY <2>4, LeadsOneWay
  <2>8. ~IsPrefix(p, q) /\ ~IsPrefix(q, p) =>
          (Leads(p, q) <=> \E i \in DOMAIN p \cap DOMAIN q :
                              p[i] < q[i] /\ SubSeq(p, 1, i - 1) = SubSeq(q, 1, i - 1))
    BY <2>4, BranchLeads
  <2> QED BY <2>1, <2>2, <2>3, <2>5, <2>6, <2>7, <2>8
<1> QED BY <1>2, <1>3

\* The comparison says zero of an element and itself only.
LEMMA CompareIsSign ==
  ASSUME NEW trees, NEW a \in NodesOf(trees), NEW b \in NodesOf(trees), NEW seen, a.tree = b.tree
  PROVE  /\ Compare(seen, a, b) \in {-1, 0, 1}
         /\ Compare(seen, a, b) = 0 => a = b
         /\ a = b => Compare(seen, a, b) <= 0
<1>1. /\ Owner(a).tree = a.tree /\ Owner(a).at = a.at /\ Owner(b).tree = b.tree /\ Owner(b).at = b.at
      /\ Owner(a) = Owner(b) <=> a.at = b.at
  BY OwnerIsPlace
<1>2. CASE a.at = b.at /\ (IsAttribute(a) \/ IsAttribute(b))
  <2>1. a.local \in Nat /\ b.local \in Nat
    BY DEF NodesOf
  <2>2. Compare(seen, a, b) =
          IF ~IsAttribute(b) THEN 1 ELSE IF ~IsAttribute(a) THEN -1
          ELSE IF a.local > b.local THEN 1 ELSE -1
    BY <1>1, <1>2 DEF Compare
  <2> QED BY <1>2, <2>1, <2>2
<1>3. CASE a.at = b.at /\ ~(IsAttribute(a) \/ IsAttribute(b))
  <2>1. Compare(seen, a, b) = 0
    BY <1>1, <1>3 DEF Compare, CompareElements
  <2>2. a = b
    BY <1>3 DEF NodesOf, IsAttribute
  <2> QED BY <2>1, <2>2
<1>4. CASE a.at # b.at
  <2>1. Compare(seen, a, b) = IF Leads(a.at, b.at) THEN -1 ELSE 1
    BY <1>1, <1>4 DEF Compare, CompareElements, Leads, LeadsAt
  <2> QED BY <1>4, <2>1
<1> QED BY <1>2, <1>3, <1>4

\* The nodes of one tree, no two attributes of one element with one local name.
OneTree(tree, nodes) == nodes \in SUBSET NodesOf({tree}) /\ NamesDiffer(nodes)

\* They are in one order, and the comparison answers with it.
LEMMA TreeOrdered ==
  ASSUME NEW tree, NEW nodes, OneTree(tree, nodes)
  PROVE  Ordered(nodes)
<1>1. nodes \in SUBSET NodesOf({tree}) /\ NamesDiffer(nodes)
  BY DEF OneTree
<1>2. \A n \in nodes : n.tree = tree /\ n \in NodesOf({tree})
  BY <1>1 DEF NodesOf
<1>3. \A a, b \in nodes : Precedes(a, b) <=> a # b /\ FirstInTree(a, b)
  BY <1>1, <1>2, PrecedesInTree
<1>4. \A a, b \in nodes : a = b \/ FirstInTree(a, b) \/ FirstInTree(b, a)
  BY <1>1, <1>2, FirstOneWay
<1>5. ASSUME NEW a \in nodes, NEW b \in nodes, NEW c \in nodes, Precedes(a, b), Precedes(b, c)
      PROVE  Precedes(a, c)
  <2>1. a # b /\ b # c /\ FirstInTree(a, b) /\ FirstInTree(b, c)
    BY <1>3, <1>5
  <2>2. FirstInTree(a, c)
    BY <1>2, <2>1, FirstOnwards
  <2>3. ~FirstInTree(b, a)
    BY <1>1, <1>2, <2>1, FirstOneWay
  <2> QED BY <1>3, <2>1, <2>2, <2>3
<1> QED BY <1>3, <1>4, <1>5 DEF Ordered

\* The comparison answers with the order of the tree.
LEMMA TreeDecides ==
  ASSUME NEW tree, NEW nodes, OneTree(tree, nodes), NEW seen
  PROVE  Decides(seen, nodes)
<1>1. nodes \in SUBSET NodesOf({tree}) /\ NamesDiffer(nodes)
  BY DEF OneTree
<1>2. \A n \in nodes : n.tree = tree /\ n \in NodesOf({tree})
  BY <1>1 DEF NodesOf
<1>3. \A a, b \in nodes : Precedes(a, b) <=> a # b /\ FirstInTree(a, b)
  BY <1>1, <1>2, PrecedesInTree
<1>4. ASSUME NEW a \in nodes, NEW b \in nodes
      PROVE  /\ Compare(seen, a, b) \in Int
             /\ Compare(seen, a, b) > 0 <=> Precedes(b, a)
             /\ Precedes(a, b) => Compare(seen, a, b) < 0
             /\ Compare(seen, a, b) <= 0 => a = b \/ Precedes(a, b)
  <2>1. /\ Compare(seen, a, b) \in {-1, 0, 1}
        /\ Compare(seen, a, b) = 0 => a = b
        /\ a = b => Compare(seen, a, b) <= 0
    BY <1>2, CompareIsSign
  <2>2. Compare(seen, a, b) < 0 <=> FirstInTree(a, b)
    BY <1>2, CompareInTree
  <2>3. a # b => (FirstInTree(a, b) <=> ~FirstInTree(b, a))
    BY <1>1, <1>2, FirstOneWay
  <2> QED BY <1>3, <2>1, <2>2, <2>3
<1> QED BY <1>4 DEF Decides

-----------------------------------------------------------------------------
(* The nodes of a finite set, written in document order. *)

Earlier(S, n) == {m \in S : Precedes(m, n)}

\* The number of nodes before it is different for each node and less than all.
LEMMA EarlierCounts ==
  ASSUME NEW S, IsFiniteSet(S), Ordered(S), NEW a \in S
  PROVE  /\ Cardinality(Earlier(S, a)) \in 0 .. Cardinality(S) - 1
         /\ \A b \in S : Precedes(a, b) => Cardinality(Earlier(S, a)) < Cardinality(Earlier(S, b))
<1>1. \A n \in S : Earlier(S, n) \in SUBSET S /\ n \notin Earlier(S, n)
  BY DEF Earlier, Ordered
<1>2. \A n \in S : /\ IsFiniteSet(Earlier(S, n)) /\ Cardinality(Earlier(S, n)) \in Nat
                   /\ Cardinality(Earlier(S, n)) < Cardinality(S)
  BY <1>1, FS_Subset, FS_CardinalityType
<1>3. ASSUME NEW b \in S, Precedes(a, b)
      PROVE  Cardinality(Earlier(S, a)) < Cardinality(Earlier(S, b))
  <2>1. Earlier(S, a) \in SUBSET Earlier(S, b)
    BY <1>3 DEF Earlier, Ordered
  <2>2. a \in Earlier(S, b)
    BY <1>3 DEF Earlier
  <2>3. Earlier(S, a) # Earlier(S, b)
    BY <1>1, <2>2
  <2> QED BY <1>2, <2>1, <2>3, FS_Subset
<1>4. Cardinality(S) \in Nat
  BY FS_CardinalityType
<1> QED BY <1>2, <1>3, <1>4

\* So every place of the sequence has its node.
LEMMA PlacesTaken ==
  ASSUME NEW S, IsFiniteSet(S), Ordered(S), NEW i \in 1 .. Cardinality(S)
  PROVE  \E n \in S : Cardinality(Earlier(S, n)) = i - 1
<1> DEFINE T == 0 .. Cardinality(S) - 1
           rank == [n \in S |-> Cardinality(Earlier(S, n))]
<1>1. Cardinality(S) \in Nat
  BY FS_CardinalityType
<1>2. IsFiniteSet(T) /\ Cardinality(T) = Cardinality(S)
  <2>1. 0 \in Int /\ Cardinality(S) - 1 \in Int
    BY <1>1
  <2>2. IsFiniteSet(T) /\ Cardinality(T) = IF 0 > Cardinality(S) - 1 THEN 0 ELSE (Cardinality(S) - 1) - 0 + 1
    BY <2>1, FS_Interval
  <2> QED BY <1>1, <2>2
<1>3. \A n \in S : Cardinality(Earlier(S, n)) \in T
  BY EarlierCounts
<1>4. \A a, b \in S : Cardinality(Earlier(S, a)) = Cardinality(Earlier(S, b)) => a = b
  <2>1. ASSUME NEW a \in S, NEW b \in S, a # b
        PROVE  Cardinality(Earlier(S, a)) # Cardinality(Earlier(S, b))
    <3>1. Precedes(a, b) \/ Precedes(b, a)
      BY <2>1 DEF Ordered
    <3>2. /\ Precedes(a, b) => Cardinality(Earlier(S, a)) < Cardinality(Earlier(S, b))
          /\ Precedes(b, a) => Cardinality(Earlier(S, b)) < Cardinality(Earlier(S, a))
      BY EarlierCounts
    <3>3. Cardinality(Earlier(S, a)) \in Int /\ Cardinality(Earlier(S, b)) \in Int
      BY <1>3
    <3> QED BY <3>1, <3>2, <3>3
  <2> QED BY <2>1
<1>5. rank \in Injection(S, T)
  <2>1. rank \in [S -> T]
    BY <1>3
  <2>2. IsInjective(rank)
    BY <1>4 DEF IsInjective
  <2> QED BY <2>1, <2>2 DEF Injection
<1>6. \A n \in S : rank[n] = Cardinality(Earlier(S, n))
  OBVIOUS
<1> HIDE DEF T, rank
<1>7. rank \in Surjection(S, T)
  BY <1>2, <1>5, FS_Injection
<1>8. i - 1 \in T
  BY <1>1 DEF T
<1>9. \E n \in S : rank[n] = i - 1
  BY <1>7, <1>8 DEF Surjection
<1> QED BY <1>6, <1>9

\* InDocumentOrderOf gives each place its node.
LEMMA InOrderPlaces ==
  ASSUME NEW S, IsFiniteSet(S), Ordered(S), NEW s, s = InDocumentOrderOf(S)
  PROVE  /\ s \in Seq(S) /\ Len(s) = Cardinality(S) /\ Cardinality(S) \in Nat
         /\ \A i \in 1 .. Len(s) : s[i] \in S /\ Cardinality(Earlier(S, s[i])) = i - 1
<1>1. Cardinality(S) \in Nat
  BY FS_CardinalityType
<1> DEFINE At(i) == CHOOSE n \in S : Cardinality(Earlier(S, n)) = i - 1
<1>2. s = [i \in 1 .. Cardinality(S) |-> At(i)]
  BY DEF InDocumentOrderOf, Earlier
<1>3. \A i \in 1 .. Cardinality(S) : At(i) \in S /\ Cardinality(Earlier(S, At(i))) = i - 1
  BY PlacesTaken
<1> HIDE DEF At
<1> QED BY <1>1, <1>2, <1>3

\* InDocumentOrderOf writes the nodes of a set in document order.
LEMMA InOrderOf ==
  ASSUME NEW S, IsFiniteSet(S), Ordered(S)
  PROVE  /\ InDocumentOrderOf(S) \in Seq(S)
         /\ Len(InDocumentOrderOf(S)) = Cardinality(S)
         /\ Strictly(InDocumentOrderOf(S))
<1> DEFINE s == InDocumentOrderOf(S)
<1> HIDE DEF s
<1>1. /\ s \in Seq(S) /\ Len(s) = Cardinality(S) /\ Cardinality(S) \in Nat
      /\ \A i \in 1 .. Len(s) : s[i] \in S /\ Cardinality(Earlier(S, s[i])) = i - 1
  BY InOrderPlaces DEF s
<1>2. ASSUME NEW i \in 1 .. Len(s), NEW j \in 1 .. Len(s), i < j
      PROVE  Precedes(s[i], s[j])
  <2>1. s[i] \in S /\ s[j] \in S /\ Cardinality(Earlier(S, s[i])) = i - 1 /\ Cardinality(Earlier(S, s[j])) = j - 1
    BY <1>1
  <2>2. s[i] # s[j]
    BY <1>2, <2>1
  <2>3. ~Precedes(s[j], s[i])
    BY <1>2, <2>1, EarlierCounts
  <2> QED BY <2>1, <2>2, <2>3 DEF Ordered
<1> QED BY <1>1, <1>2 DEF s, Strictly

\* And it writes all of them.
LEMMA InOrderSet ==
  ASSUME NEW S, IsFiniteSet(S), Ordered(S)
  PROVE  ToSet(InDocumentOrderOf(S)) = S
<1> DEFINE s == InDocumentOrderOf(S)
<1> HIDE DEF s
<1>1. /\ s \in Seq(S) /\ Len(s) = Cardinality(S) /\ Cardinality(S) \in Nat
      /\ \A i \in 1 .. Len(s) : s[i] \in S /\ Cardinality(Earlier(S, s[i])) = i - 1
  BY InOrderPlaces DEF s
<1>2. ASSUME NEW n \in S
      PROVE  n \in ToSet(s)
  <2> DEFINE i == Cardinality(Earlier(S, n)) + 1
  <2>1. i \in 1 .. Len(s)
    BY <1>1, EarlierCounts
  <2>2. s[i] \in S /\ Cardinality(Earlier(S, s[i])) = i - 1
    BY <1>1, <2>1
  <2>3. Cardinality(Earlier(S, n)) \in Int
    BY <1>1, EarlierCounts
  <2>4. ~Precedes(n, s[i]) /\ ~Precedes(s[i], n)
    BY <2>2, <2>3, EarlierCounts
  <2>5. s[i] = n
    BY <2>2, <2>4 DEF Ordered
  <2> HIDE DEF i
  <2> QED BY <1>1, <2>1, <2>5, ToSetFacts
<1>3. ToSet(s) \in SUBSET S
  BY <1>1, ToSetFacts
<1> QED BY <1>2, <1>3 DEF s

-----------------------------------------------------------------------------
(* Sequences turned around. *)

\* The items of a reversed sequence.
LEMMA ReverseItems ==
  ASSUME NEW N, NEW s \in Seq(N)
  PROVE  /\ Reverse(s) \in Seq(N) /\ Len(Reverse(s)) = Len(s)
         /\ \A i \in 1 .. Len(s) : Reverse(s)[i] = s[Len(s) - i + 1]
  BY DEF Reverse

\* A sequence reversed twice is the sequence.
LEMMA ReverseTwice ==
  ASSUME NEW N, NEW s \in Seq(N)
  PROVE  Reverse(Reverse(s)) = s
<1> DEFINE r == Reverse(s)
<1>1. /\ r \in Seq(N) /\ Len(r) = Len(s) /\ Len(s) \in Nat
      /\ \A i \in 1 .. Len(s) : r[i] = s[Len(s) - i + 1]
  BY ReverseItems
<1> HIDE DEF r
<1>2. /\ Reverse(r) \in Seq(N) /\ Len(Reverse(r)) = Len(s)
      /\ \A i \in 1 .. Len(s) : Reverse(r)[i] = r[Len(s) - i + 1]
  BY <1>1, ReverseItems
<1>3. ASSUME NEW i \in 1 .. Len(s)
      PROVE  Reverse(r)[i] = s[i]
  <2>1. Len(s) - i + 1 \in 1 .. Len(s) /\ Len(s) - (Len(s) - i + 1) + 1 = i
    BY <1>1
  <2> QED BY <1>1, <1>2, <2>1
<1>4. Reverse(r) = s
  BY <1>2, <1>3, SeqEqual
<1> QED BY <1>4 DEF r

\* A reversed sequence has the same nodes.
LEMMA ReverseSet ==
  ASSUME NEW N, NEW s \in Seq(N)
  PROVE  ToSet(Reverse(s)) = ToSet(s)
<1> DEFINE r == Reverse(s)
<1>1. /\ r \in Seq(N) /\ Len(r) = Len(s) /\ Len(s) \in Nat
      /\ \A i \in 1 .. Len(s) : r[i] = s[Len(s) - i + 1]
  BY ReverseItems
<1> HIDE DEF r
<1>2. ASSUME NEW i \in 1 .. Len(s)
      PROVE  Len(s) - i + 1 \in 1 .. Len(s) /\ s[i] = r[Len(s) - i + 1]
  <2>1. Len(s) - i + 1 \in 1 .. Len(s) /\ Len(s) - (Len(s) - i + 1) + 1 = i
    BY <1>1
  <2> QED BY <1>1, <2>1
<1>3. ASSUME NEW x \in ToSet(s)
      PROVE  x \in ToSet(r)
  <2>1. PICK i \in 1 .. Len(s) : s[i] = x
    BY ToSetFacts
  <2>2. Len(s) - i + 1 \in 1 .. Len(r) /\ x = r[Len(s) - i + 1]
    BY <1>1, <1>2, <2>1
  <2> QED BY <1>1, <2>2, ToSetFacts
<1>4. ASSUME NEW x \in ToSet(r)
      PROVE  x \in ToSet(s)
  <2>1. PICK i \in 1 .. Len(r) : r[i] = x
    BY <1>1, ToSetFacts
  <2>2. Len(s) - i + 1 \in 1 .. Len(s) /\ x = s[Len(s) - i + 1]
    BY <1>1, <1>2, <2>1
  <2> QED BY <2>2, ToSetFacts
<1>6. ToSet(r) = ToSet(s)
  BY <1>3, <1>4
<1> QED BY <1>6 DEF r
=============================================================================
