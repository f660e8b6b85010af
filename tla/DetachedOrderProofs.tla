------------------------ MODULE DetachedOrderProofs ------------------------
(***************************************************************************)
(* The order of detached nodes is stable, for every set of nodes.  The     *)
(* argument: the list of roots only ever grows at its end and holds no     *)
(* root twice, so the index of a root in it never changes, and the length  *)
(* push returns for a new root, one more than its index will be, compares  *)
(* with every index already given as the index itself does.                *)
(***************************************************************************)
EXTENDS DetachedOrder, DocumentOrderProofs, TLAPS

Roots == {s \in Seq(Trees) : \A i, j \in DOMAIN s : s[i] = s[j] => i = j}

\* after is seen, with roots added at the end.
Extends(seen, after) ==
  /\ Len(seen) <= Len(after)
  /\ \A i \in DOMAIN seen : after[i] = seen[i]

\* The type invariant says that the list is one of Roots.
LEMMA TypeIsRoots == TypeOK <=> orderOfDetachedNodes \in Roots
  BY DEF TypeOK, Roots

\* findIndex finds the only index there is.
LEMMA FoundOnce ==
  ASSUME NEW seen \in Roots, NEW i \in DOMAIN seen
  PROVE  FoundIndex(seen, seen[i]) = i - 1
<1> DEFINE P(k) == seen[k] = seen[i]
<1>1. (CHOOSE k \in DOMAIN seen : P(k)) \in DOMAIN seen /\ P(CHOOSE k \in DOMAIN seen : P(k))
  <2>1. \E k \in DOMAIN seen : P(k)
    OBVIOUS
  <2> HIDE DEF P
  <2> QED BY <2>1
<1> QED BY <1>1 DEF FoundIndex, Roots

\* Pushing a root extends the list, and the root is in it afterwards: at its
\* end if it is new.
LEMMA PushedExtends ==
  ASSUME NEW seen \in Roots, NEW t \in Trees
  PROVE  /\ Pushed(seen, t) \in Roots
         /\ Extends(seen, Pushed(seen, t))
         /\ Contains(Pushed(seen, t), t)
         /\ ~Contains(seen, t) => /\ Len(Pushed(seen, t)) = Len(seen) + 1
                                  /\ Pushed(seen, t)[Len(seen) + 1] = t
         /\ Contains(seen, t) => Pushed(seen, t) = seen
<1>1. seen \in Seq(Trees)
  BY DEF Roots
<1>2. CASE Contains(seen, t)
  BY <1>1, <1>2 DEF Pushed, Extends
<1>3. CASE ~Contains(seen, t)
  <2> DEFINE after == Append(seen, t)
  <2>1. Pushed(seen, t) = after
    BY <1>3 DEF Pushed
  <2>2. /\ after \in Seq(Trees) /\ Len(after) = Len(seen) + 1 /\ after[Len(seen) + 1] = t
        /\ \A i \in 1 .. Len(seen) : after[i] = seen[i]
    BY <1>1
  <2>3. \A i \in 1 .. Len(seen) : seen[i] # t
    BY <1>3 DEF Contains
  <2>4. after \in Roots
    <3> HIDE DEF after
    <3>1. ASSUME NEW i \in 1 .. Len(after), NEW j \in 1 .. Len(after), after[i] = after[j]
          PROVE  i = j
      BY <1>1, <2>2, <2>3, <3>1 DEF Roots
    <3>2. DOMAIN after = 1 .. Len(after)
      BY <2>2
    <3> QED BY <2>2, <3>1, <3>2 DEF Roots
  <2>5. Contains(after, t)
    BY <1>1, <2>2 DEF Contains
  <2> QED BY <1>1, <1>3, <2>1, <2>2, <2>4, <2>5 DEF Extends
<1> QED BY <1>2, <1>3

\* Remembering the roots of two nodes extends the list, and both are in it
\* afterwards.
LEMMA SeenExtends ==
  ASSUME NEW seen \in Roots, NEW a \in Nodes, NEW b \in Nodes
  PROVE  SeenAfter(seen, a, b) \in Roots /\ Extends(seen, SeenAfter(seen, a, b))
<1> USE DEF Trees
<1>1. CASE a.tree = b.tree
  BY <1>1 DEF SeenAfter, Extends, Roots
<1>2. CASE a.tree # b.tree
  <2> DEFINE s1 == Pushed(seen, a.tree)
             s2 == Pushed(s1, b.tree)
  <2>1. s1 \in Roots /\ Extends(seen, s1)
    BY PushedExtends
  <2>2. s2 \in Roots /\ Extends(s1, s2)
    BY <2>1, PushedExtends
  <2>3. seen \in Seq(Trees) /\ s1 \in Seq(Trees) /\ s2 \in Seq(Trees)
    BY <2>1, <2>2 DEF Roots
  <2>4. Extends(seen, s2)
    BY <2>1, <2>2, <2>3 DEF Extends
  <2> QED BY <1>2, <2>2, <2>4 DEF SeenAfter
<1> QED BY <1>1, <1>2

\* The index of a root does not change when the list is extended.
LEMMA IndexKept ==
  ASSUME NEW seen \in Roots, NEW after \in Roots, Extends(seen, after),
         NEW t, Contains(seen, t)
  PROVE  Contains(after, t) /\ FoundIndex(after, t) = FoundIndex(seen, t)
<1>1. PICK i \in 1 .. Len(seen) : seen[i] = t
  BY DEF Contains
<1>2. seen \in Seq(Trees) /\ after \in Seq(Trees)
  BY DEF Roots
<1>3. i \in DOMAIN seen /\ i \in DOMAIN after /\ after[i] = t
  BY <1>1, <1>2 DEF Extends
<1>4. FoundIndex(seen, t) = i - 1 /\ FoundIndex(after, t) = i - 1
  BY <1>1, <1>3, FoundOnce
<1> QED BY <1>2, <1>3, <1>4 DEF Contains

\* Two trees that are both in the list compare the same way however far the
\* list has grown since.
LEMMA TieBreakKept ==
  ASSUME NEW seen \in Roots, NEW after \in Roots, Extends(seen, after),
         NEW a, NEW b, Contains(seen, a.tree), Contains(seen, b.tree)
  PROVE  TieBreak(after, a, b) = TieBreak(seen, a, b)
<1>1. /\ Contains(after, a.tree) /\ FoundIndex(after, a.tree) = FoundIndex(seen, a.tree)
      /\ Contains(after, b.tree) /\ FoundIndex(after, b.tree) = FoundIndex(seen, b.tree)
  BY IndexKept
<1> QED BY <1>1 DEF TieBreak

\* Only a comparison of two trees looks at the list, and it looks at nothing
\* else.
LEMMA CompareReadsTies ==
  ASSUME NEW a \in Nodes, NEW b \in Nodes
  PROVE  /\ a.tree = b.tree => \A s, t : Compare(s, a, b) = Compare(t, a, b)
         /\ a.tree # b.tree => \A s : Compare(s, a, b) = TieBreak(s, a, b)
<1> DEFINE oa == Owner(a)
           ob == Owner(b)
<1>1. oa.tree = a.tree /\ ob.tree = b.tree
  BY NodesAreNodes DEF Owner
<1>2. ASSUME a.tree = b.tree
      PROVE  \A s, t : CompareElements(s, oa, ob) = CompareElements(t, oa, ob)
  <2> DEFINE rest == CASE oa = ob -> 0
                       [] oa # ob -> IF Parting(oa.at, ob.at) > Len(oa.at)
                                          \/ ( /\ Parting(oa.at, ob.at) <= Len(ob.at)
                                               /\ oa.at[Parting(oa.at, ob.at)]
                                                    < ob.at[Parting(oa.at, ob.at)])
                                       THEN -1 ELSE 1
  <2>1. \A s : CompareElements(s, oa, ob) = rest
    BY <1>1, <1>2 DEF CompareElements
  <2> QED BY <2>1
<1>3. ASSUME a.tree # b.tree
      PROVE  \A s : Compare(s, a, b) = TieBreak(s, a, b)
  <2>1. oa # ob
    BY <1>1, <1>3
  <2>2. \A s : CompareElements(s, oa, ob) = TieBreak(s, oa, ob)
    BY <1>1, <1>3, <2>1 DEF CompareElements
  <2>3. \A s : TieBreak(s, oa, ob) = TieBreak(s, a, b)
    BY <1>1 DEF TieBreak
  <2> QED BY <2>1, <2>2, <2>3 DEF Compare
<1> QED BY <1>2, <1>3 DEF Compare

\* The answer for two trees while their roots are being remembered is the
\* answer once they are.
LEMMA TieBreakStands ==
  ASSUME NEW seen \in Roots, NEW a \in Nodes, NEW b \in Nodes, a.tree # b.tree
  PROVE  TieBreak(SeenAfter(seen, a, b), a, b) < 0 <=> TieBreak(seen, a, b) < 0
<1> DEFINE s1 == Pushed(seen, a.tree)
           s2 == Pushed(s1, b.tree)
<1>1. a.tree \in Trees /\ b.tree \in Trees
  BY DEF Trees
<1>2. /\ s1 \in Roots /\ Extends(seen, s1) /\ Contains(s1, a.tree)
      /\ ~Contains(seen, a.tree) => Len(s1) = Len(seen) + 1 /\ s1[Len(seen) + 1] = a.tree
      /\ Contains(seen, a.tree) => s1 = seen
  BY <1>1, PushedExtends
<1>3. /\ s2 \in Roots /\ Extends(s1, s2) /\ Contains(s2, b.tree)
      /\ ~Contains(s1, b.tree) => Len(s2) = Len(s1) + 1 /\ s2[Len(s1) + 1] = b.tree
      /\ Contains(s1, b.tree) => s2 = s1
  BY <1>1, <1>2, PushedExtends
<1>4. seen \in Seq(Trees) /\ s1 \in Seq(Trees) /\ s2 \in Seq(Trees)
  BY <1>2, <1>3 DEF Roots
<1>5. SeenAfter(seen, a, b) = s2
  BY DEF SeenAfter
<1>6. Contains(s2, a.tree) /\ FoundIndex(s2, a.tree) = FoundIndex(s1, a.tree)
  BY <1>2, <1>3, IndexKept
<1>7. TieBreak(s2, a, b) = FoundIndex(s2, a.tree) - FoundIndex(s2, b.tree)
  BY <1>3, <1>6 DEF TieBreak
<1>8. ASSUME Contains(seen, a.tree)
      PROVE  FoundIndex(seen, a.tree) \in 0 .. Len(seen) - 1 /\ FoundIndex(s2, a.tree) = FoundIndex(seen, a.tree)
  <2>1. PICK i \in 1 .. Len(seen) : seen[i] = a.tree
    BY <1>8 DEF Contains
  <2>2. FoundIndex(seen, a.tree) = i - 1
    BY <1>4, <2>1, FoundOnce
  <2> QED BY <1>2, <1>4, <1>6, <1>8, <2>1, <2>2
<1>9. ASSUME ~Contains(seen, a.tree)
      PROVE  FoundIndex(s2, a.tree) = Len(seen)
  <2>1. Len(seen) + 1 \in DOMAIN s1 /\ s1[Len(seen) + 1] = a.tree
    BY <1>2, <1>4, <1>9
  <2>2. FoundIndex(s1, a.tree) = Len(seen)
    BY <1>2, <1>4, <2>1, FoundOnce
  <2> QED BY <1>6, <2>2
<1>10. Contains(s1, b.tree) <=> Contains(seen, b.tree)
  <2>1. CASE Contains(seen, a.tree)
    BY <1>2, <2>1
  <2>2. CASE ~Contains(seen, a.tree)
    <3>1. \A i \in 1 .. Len(seen) : s1[i] = seen[i]
      BY <1>2, <1>4 DEF Extends
    <3>2. Len(s1) = Len(seen) + 1 /\ s1[Len(seen) + 1] # b.tree
      BY <1>2, <2>2
    <3>3. \A i \in 1 .. Len(s1) : i \in 1 .. Len(seen) \/ i = Len(seen) + 1
      BY <1>4, <3>2
    <3> QED BY <1>4, <3>1, <3>2, <3>3 DEF Contains
  <2> QED BY <2>1, <2>2
<1>11. ASSUME Contains(seen, b.tree)
       PROVE  FoundIndex(seen, b.tree) \in 0 .. Len(seen) - 1 /\ FoundIndex(s2, b.tree) = FoundIndex(seen, b.tree)
  <2>1. PICK i \in 1 .. Len(seen) : seen[i] = b.tree
    BY <1>11 DEF Contains
  <2>2. FoundIndex(seen, b.tree) = i - 1
    BY <1>4, <2>1, FoundOnce
  <2>3. s2 = s1
    BY <1>3, <1>10, <1>11
  <2>4. FoundIndex(s1, b.tree) = FoundIndex(seen, b.tree)
    BY <1>2, <1>11, IndexKept
  <2> QED BY <1>4, <2>1, <2>2, <2>3, <2>4
<1>12. ASSUME ~Contains(seen, b.tree)
       PROVE  FoundIndex(s2, b.tree) = Len(s1)
  <2>1. Len(s1) + 1 \in DOMAIN s2 /\ s2[Len(s1) + 1] = b.tree
    BY <1>3, <1>4, <1>10, <1>12
  <2> QED BY <1>3, <1>4, <2>1, FoundOnce
<1>13. /\ Contains(seen, a.tree) /\ Contains(seen, b.tree) =>
            TieBreak(seen, a, b) = FoundIndex(seen, a.tree) - FoundIndex(seen, b.tree)
       /\ Contains(seen, a.tree) /\ ~Contains(seen, b.tree) =>
            TieBreak(seen, a, b) = FoundIndex(seen, a.tree) - (Len(s1) + 1)
       /\ ~Contains(seen, a.tree) /\ Contains(seen, b.tree) =>
            TieBreak(seen, a, b) = (Len(seen) + 1) - FoundIndex(seen, b.tree)
       /\ ~Contains(seen, a.tree) /\ ~Contains(seen, b.tree) =>
            TieBreak(seen, a, b) = (Len(seen) + 1) - (Len(s1) + 1)
  BY DEF TieBreak
<1>14. Len(seen) \in Nat /\ Len(s1) \in Nat
  BY <1>4
<1> HIDE DEF s1, s2
<1>15. CASE Contains(seen, a.tree) /\ Contains(seen, b.tree)
  BY <1>5, <1>7, <1>8, <1>11, <1>13, <1>15
<1>16. CASE Contains(seen, a.tree) /\ ~Contains(seen, b.tree)
  BY <1>2, <1>5, <1>7, <1>8, <1>12, <1>13, <1>14, <1>16
<1>17. CASE ~Contains(seen, a.tree) /\ Contains(seen, b.tree)
  BY <1>5, <1>7, <1>9, <1>11, <1>13, <1>14, <1>17
<1>18. CASE ~Contains(seen, a.tree) /\ ~Contains(seen, b.tree)
  BY <1>2, <1>5, <1>7, <1>9, <1>12, <1>13, <1>14, <1>18
<1> QED BY <1>15, <1>16, <1>17, <1>18

-----------------------------------------------------------------------------
\* The list holds roots only, and none of them twice.
THEOREM TypeCorrect == Spec => []TypeOK
<1>1. Init => TypeOK
  BY DEF Init, TypeOK
<1>2. TypeOK /\ [Next]_orderOfDetachedNodes => TypeOK'
  <2> SUFFICES ASSUME TypeOK, [Next]_orderOfDetachedNodes
               PROVE  TypeOK'
    OBVIOUS
  <2>1. orderOfDetachedNodes \in Roots
    BY TypeIsRoots
  <2>2. ASSUME NEW a \in Nodes, NEW b \in Nodes, CompareNodePositions(a, b)
        PROVE  TypeOK'
    <3>1. orderOfDetachedNodes' \in Roots
      BY <2>1, <2>2, SeenExtends DEF CompareNodePositions
    <3> QED BY <3>1 DEF Roots, TypeOK
  <2>3. CASE UNCHANGED orderOfDetachedNodes
    BY <2>3 DEF TypeOK
  <2> QED BY <2>2, <2>3 DEF Next
<1> QED BY <1>1, <1>2, PTL DEF Spec

\* What a comparison answers while it adds roots to the list is what every
\* comparison of the same nodes answers from the longer list.
THEOREM AnswersStand == Spec => []AnswerStands
<1>1. TypeOK => AnswerStands
  <2> SUFFICES ASSUME TypeOK, NEW a \in Nodes, NEW b \in Nodes
               PROVE  LET after == SeenAfter(orderOfDetachedNodes, a, b)
                      IN Before(a, b) <=> Compare(after, a, b) < 0
    BY DEF AnswerStands
  <2> DEFINE after == SeenAfter(orderOfDetachedNodes, a, b)
  <2>1. orderOfDetachedNodes \in Roots
    BY TypeIsRoots
  <2>2. CASE a.tree = b.tree
    BY <2>2, CompareReadsTies DEF Before
  <2>3. CASE a.tree # b.tree
    <3>1. TieBreak(after, a, b) < 0 <=> TieBreak(orderOfDetachedNodes, a, b) < 0
      BY <2>1, <2>3, TieBreakStands
    <3> QED BY <2>3, <3>1, CompareReadsTies DEF Before
  <2> QED BY <2>2, <2>3
<1> QED BY <1>1, TypeCorrect, PTL

\* The order of the nodes whose trees were seen before never changes while
\* the DomFacade lives, whatever is compared in between.
THEOREM StableOrder == Spec => OrderIsKept
<1> DEFINE Kept == \A a, b \in Nodes : Known(a) /\ Known(b) => (Before(a, b) <=> Before(a, b)')
<1>1. TypeOK /\ [Next]_orderOfDetachedNodes => [Kept]_orderOfDetachedNodes
  <2> SUFFICES ASSUME TypeOK, NEW c \in Nodes, NEW d \in Nodes, CompareNodePositions(c, d),
                      NEW a \in Nodes, NEW b \in Nodes, Known(a), Known(b)
               PROVE  Before(a, b) <=> Before(a, b)'
    BY DEF Next
  <2>1. orderOfDetachedNodes \in Roots
    BY TypeIsRoots
  <2>2. orderOfDetachedNodes' \in Roots /\ Extends(orderOfDetachedNodes, orderOfDetachedNodes')
    BY <2>1, SeenExtends DEF CompareNodePositions
  <2>3. Contains(orderOfDetachedNodes, a.tree) /\ Contains(orderOfDetachedNodes, b.tree)
    BY <2>1 DEF Known, Contains, Roots
  <2>4. CASE a.tree = b.tree
    BY <2>4, CompareReadsTies DEF Before
  <2>5. CASE a.tree # b.tree
    <3>1. TieBreak(orderOfDetachedNodes', a, b) = TieBreak(orderOfDetachedNodes, a, b)
      BY <2>1, <2>2, <2>3, TieBreakKept
    <3> QED BY <2>5, <3>1, CompareReadsTies DEF Before
  <2> QED BY <2>4, <2>5
<1> QED BY <1>1, TypeCorrect, PTL DEF Spec, OrderIsKept

-----------------------------------------------------------------------------
\* Two trees that are in the list compare as their indexes do.
LEMMA TreesByIndex ==
  ASSUME NEW seen \in Roots, NEW a, NEW b, Contains(seen, a.tree), Contains(seen, b.tree)
  PROVE  /\ FoundIndex(seen, a.tree) \in Nat /\ FoundIndex(seen, b.tree) \in Nat
         /\ TieBreak(seen, a, b) = FoundIndex(seen, a.tree) - FoundIndex(seen, b.tree)
         /\ FoundIndex(seen, a.tree) = FoundIndex(seen, b.tree) => a.tree = b.tree
<1>1. seen \in Seq(Trees)
  BY DEF Roots
<1>2. PICK i \in 1 .. Len(seen) : seen[i] = a.tree
  BY DEF Contains
<1>3. PICK j \in 1 .. Len(seen) : seen[j] = b.tree
  BY DEF Contains
<1>4. FoundIndex(seen, a.tree) = i - 1 /\ FoundIndex(seen, b.tree) = j - 1
  BY <1>1, <1>2, <1>3, FoundOnce
<1>5. TieBreak(seen, a, b) = FoundIndex(seen, a.tree) - FoundIndex(seen, b.tree)
  BY DEF TieBreak, Pushed
<1> QED BY <1>1, <1>2, <1>3, <1>4, <1>5

\* Which of two known nodes comes first.
LEMMA BeforeIs ==
  ASSUME TypeOK, NEW a \in Nodes, NEW b \in Nodes, Known(a), Known(b)
  PROVE  LET Index(n) == FoundIndex(orderOfDetachedNodes, n.tree)
         IN /\ Index(a) \in Nat /\ Index(b) \in Nat
            /\ Index(a) = Index(b) => a.tree = b.tree
            /\ a.tree = b.tree => (Before(a, b) <=> FirstInTree(a, b))
            /\ a.tree # b.tree => (Before(a, b) <=> Index(a) < Index(b))
<1>1. orderOfDetachedNodes \in Roots
  BY TypeIsRoots
<1>2. Contains(orderOfDetachedNodes, a.tree) /\ Contains(orderOfDetachedNodes, b.tree)
  BY <1>1 DEF Known, Contains, Roots
<1>3. a \in NodesOf(Trees) /\ b \in NodesOf(Trees)
  BY NodesAreNodes DEF NodesOf, Path
<1>4. a.tree = b.tree => (Before(a, b) <=> FirstInTree(a, b))
  BY <1>3, CompareInTree DEF Before
<1>5. a.tree # b.tree => Compare(orderOfDetachedNodes, a, b) = TieBreak(orderOfDetachedNodes, a, b)
  BY CompareReadsTies
<1> QED BY <1>1, <1>2, <1>4, <1>5, TreesByIndex DEF Before

\* The nodes whose trees were seen are totally ordered, when no element has two
\* attributes of one local name (the comparison says of two such that each is
\* the smaller).
THEOREM TotalOrder ==
  ASSUME NamesDiffer(Nodes)
  PROVE  Spec => []OrderIsTotal
<1> DEFINE K == {n \in Nodes : Known(n)}
<1>1. TypeOK => OrderIsTotal
  <2> SUFFICES ASSUME TypeOK
               PROVE  /\ \A a, b \in K : a # b => (Before(a, b) <=> ~Before(b, a))
                      /\ \A a, b, c \in K : a # b /\ b # c /\ Before(a, b) /\ Before(b, c) => Before(a, c)
    BY DEF OrderIsTotal
  <2> DEFINE Index(n) == FoundIndex(orderOfDetachedNodes, n.tree)
  <2>1. Nodes \in SUBSET NodesOf(Trees)
    BY NodesAreNodes DEF NodesOf, Path
  <2>2. ASSUME NEW a \in K, NEW b \in K
        PROVE  /\ Index(a) \in Nat /\ Index(b) \in Nat
               /\ Index(a) = Index(b) <=> a.tree = b.tree
               /\ a.tree = b.tree => (Before(a, b) <=> FirstInTree(a, b))
               /\ a.tree # b.tree => (Before(a, b) <=> Index(a) < Index(b))
    BY BeforeIs
  <2>3. ASSUME NEW a \in K, NEW b \in K, a # b
        PROVE  Before(a, b) <=> ~Before(b, a)
    <3>1. CASE a.tree = b.tree
      <4>1. FirstInTree(a, b) <=> ~FirstInTree(b, a)
        BY <2>1, <2>3, <3>1, FirstOneWay
      <4> QED BY <2>2, <3>1, <4>1
    <3>2. CASE a.tree # b.tree
      <4> HIDE DEF Index
      <4> QED BY <2>2, <3>2
    <3> QED BY <3>1, <3>2
  <2>4. ASSUME NEW a \in K, NEW b \in K, NEW c \in K, Before(a, b), Before(b, c)
        PROVE  Before(a, c)
    <3>1. CASE a.tree = b.tree /\ b.tree = c.tree
      <4>1. FirstInTree(a, b) /\ FirstInTree(b, c)
        BY <2>2, <2>4, <3>1
      <4>2. FirstInTree(a, c)
        BY <2>1, <4>1, FirstOnwards
      <4> QED BY <2>2, <3>1, <4>2
    <3>2. CASE a.tree # b.tree \/ b.tree # c.tree
      <4> HIDE DEF Index
      <4>1. Index(a) <= Index(b) /\ Index(b) <= Index(c) /\ ~(Index(a) = Index(b) /\ Index(b) = Index(c))
        BY <2>2, <2>4, <3>2
      <4>2. Index(a) < Index(c)
        BY <2>2, <4>1
      <4> QED BY <2>2, <4>2
    <3> QED BY <3>1, <3>2
  <2> QED BY <2>3, <2>4
<1> QED BY <1>1, TypeCorrect, PTL
=============================================================================
