------------------------ MODULE PathExpressionProofs ------------------------
(***************************************************************************)
(* A path expression returns the nodes it denotes in document order: for   *)
(* documents of any shape and paths of any length, the flags that allow    *)
(* concatenation say what they must, the unsound axes left aside.          *)
(***************************************************************************)
EXTENDS PathExpression, DocumentOrderProofs

Shape ==
  /\ document \in Documents
  /\ result \in Seq(AllNodes(document))
  /\ sequenceHasPeerProperty \in BOOLEAN
  /\ steps \in 0 .. MaxSteps
  /\ reached \in SUBSET AllNodes(document)
  /\ sound \in BOOLEAN

\* All attributes, or all elements: only the ancestor-or-self axis mixes them.
OneKind(nodes) == (\A n \in nodes : IsAttribute(n)) \/ (\A n \in nodes : ~IsAttribute(n))

PathInv ==
  /\ Shape
  /\ ToSet(result) = reached
  /\ sound => Strictly(result)
  /\ sequenceHasPeerProperty => OneKind(reached)
  /\ PeersAreDisjoint

-----------------------------------------------------------------------------
(* The nodes of a document. *)

\* No element has two attributes of one local name.
LocalNamesDiffer == \A doc \in Documents : NamesDiffer(AllNodes(doc))

\* What a node of a document is.
LEMMA DocumentNodes ==
  ASSUME NEW doc \in Documents
  PROVE  /\ \A n \in Elements(doc) : n \in NodesOf({1}) /\ ~IsAttribute(n) /\ n.local = 0 /\ n.ns = 0
         /\ \A n \in Attributes(doc) : n \in NodesOf({1}) /\ IsAttribute(n)
<1>1. doc.elements \subseteq Path /\ doc.attributes \subseteq Path \X (Nat \ {0}) \X Nat
  BY DocumentsAreTrees DEF Path
<1>2. ASSUME NEW n \in Elements(doc)
      PROVE  n \in NodesOf({1}) /\ ~IsAttribute(n) /\ n.local = 0 /\ n.ns = 0
  <2>1. PICK path \in doc.elements : n = [tree |-> 1, at |-> path, local |-> 0, ns |-> 0]
    BY DEF Elements, Element
  <2> QED BY <1>1, <2>1 DEF NodesOf, IsAttribute
<1>3. ASSUME NEW n \in Attributes(doc)
      PROVE  n \in NodesOf({1}) /\ IsAttribute(n)
  <2>1. PICK a \in doc.attributes : n = [tree |-> 1, at |-> a[1], local |-> a[2], ns |-> a[3]]
    BY DEF Attributes
  <2>2. a[1] \in Path /\ a[2] \in Nat \ {0} /\ a[3] \in Nat
    BY <1>1
  <2> QED BY <2>1, <2>2 DEF NodesOf, IsAttribute
<1> QED BY <1>2, <1>3

\* They are in one order, and the comparison answers with it.
LEMMA DocumentInOrder ==
  ASSUME LocalNamesDiffer, NEW doc \in Documents
  PROVE  /\ AllNodes(doc) \in SUBSET NodesOf({1}) /\ NamesDiffer(AllNodes(doc))
         /\ Ordered(AllNodes(doc)) /\ \A seen : Decides(seen, AllNodes(doc))
         /\ IsFiniteSet(AllNodes(doc))
         /\ \A n \in AllNodes(doc) : n.tree = 1 /\ n.at \in Path
<1>1. AllNodes(doc) \in SUBSET NodesOf({1})
  BY DocumentNodes DEF AllNodes
<1>2. OneTree(1, AllNodes(doc))
  BY <1>1 DEF OneTree, LocalNamesDiffer
<1>3. \A n \in AllNodes(doc) : n.tree = 1 /\ n.at \in Path
  BY <1>1 DEF NodesOf
<1> QED BY <1>2, <1>3, TreeOrdered, TreeDecides, DocumentsAreTrees DEF OneTree

\* Some of its nodes, written in document order.
LEMMA NodesWritten ==
  ASSUME LocalNamesDiffer, NEW doc \in Documents, NEW S \in SUBSET AllNodes(doc)
  PROVE  /\ InDocumentOrderOf(S) \in Seq(AllNodes(doc)) /\ ToSet(InDocumentOrderOf(S)) = S
         /\ Strictly(InDocumentOrderOf(S))
<1>1. IsFiniteSet(S) /\ Ordered(S)
  BY DocumentInOrder, OrderedSubset, FS_Subset
<1>2. InDocumentOrderOf(S) \in Seq(S) /\ Strictly(InDocumentOrderOf(S))
  BY <1>1, InOrderOf
<1>3. ToSet(InDocumentOrderOf(S)) = S
  BY <1>1, InOrderSet
<1>4. InDocumentOrderOf(S) \in Seq(AllNodes(doc))
  BY <1>2
<1> QED BY <1>2, <1>3, <1>4

\* What an axis finds are nodes of the document.
LEMMA AxisInDocument ==
  ASSUME NEW doc \in Documents, NEW axis \in Axes, NEW n \in AllNodes(doc)
  PROVE  OnAxis(doc, axis, n) \in SUBSET AllNodes(doc)
BY AxesAreAxes DEF OnAxis, AllNodes, SelfAxis, ChildAxis, DescendantAxis, ParentAxis, AncestorAxis,
   FollowingSiblingAxis, PrecedingSiblingAxis, FollowingAxis, PrecedingAxis, AttributeAxis

-----------------------------------------------------------------------------
(* The nodes a test accepts. *)

\* What Filtered keeps of the first k nodes, given what it keeps of fewer.
FilteredFrom(s, S, kept, k) ==
  IF k = 0 THEN <<>> ELSE IF s[k] \in S THEN Append(kept[k - 1], s[k]) ELSE kept[k - 1]
FilteredUpTo(s, S, kept, n) == kept = [k \in 0 .. n |-> FilteredFrom(s, S, kept, k)]

\* There is such a function, for every number of nodes.
LEMMA FilteredExists ==
  ASSUME NEW s, NEW S, NEW m \in Nat
  PROVE  \E kept : FilteredUpTo(s, S, kept, m)
<1> DEFINE Good == {n \in Nat : \E kept : FilteredUpTo(s, S, kept, n)}
<1>1. 0 \in Good
  <2> DEFINE none == [k \in 0 .. 0 |-> <<>>]
  <2>1. FilteredUpTo(s, S, none, 0)
    BY DEF FilteredUpTo, FilteredFrom
  <2> HIDE DEF none
  <2> QED BY <2>1
<1>2. ASSUME NEW n \in Good
      PROVE  n + 1 \in Good
  <2>1. PICK kept : FilteredUpTo(s, S, kept, n)
    OBVIOUS
  <2> DEFINE longer == [k \in 0 .. n + 1 |-> IF k = n + 1 THEN FilteredFrom(s, S, kept, k) ELSE kept[k]]
  <2>2. ASSUME NEW k \in 0 .. n + 1
        PROVE  longer[k] = FilteredFrom(s, S, longer, k)
    <3>1. n \in Nat
      OBVIOUS
    <3>2. k # 0 => FilteredFrom(s, S, longer, k) = FilteredFrom(s, S, kept, k)
      BY <3>1 DEF FilteredFrom
    <3>3. k = 0 => FilteredFrom(s, S, longer, k) = <<>> /\ FilteredFrom(s, S, kept, k) = <<>>
      BY DEF FilteredFrom
    <3>4. k # n + 1 => k \in 0 .. n /\ kept[k] = FilteredFrom(s, S, kept, k)
      BY <2>1, <3>1 DEF FilteredUpTo
    <3> QED BY <3>1, <3>2, <3>3, <3>4
  <2>3. FilteredUpTo(s, S, longer, n + 1)
    <3>1. longer = [k \in 0 .. n + 1 |-> longer[k]]
      OBVIOUS
    <3> HIDE DEF longer
    <3> QED BY <2>2, <3>1 DEF FilteredUpTo
  <2> HIDE DEF longer
  <2> QED BY <2>3
<1>3. Good = Nat
  <2>1. Good \in SUBSET Nat
    OBVIOUS
  <2> HIDE DEF Good
  <2> QED BY <1>1, <1>2, <2>1, AllNumbers
<1> QED BY <1>3

\* A test keeps the nodes it accepts, in the order they are in.
LEMMA FilteredOrder ==
  ASSUME NEW N, NEW s \in Seq(N), NEW S
  PROVE  /\ Filtered(s, S) \in Seq(N) /\ ToSet(Filtered(s, S)) = ToSet(s) \cap S
         /\ Strictly(s) => Strictly(Filtered(s, S))
<1> DEFINE kept == CHOOSE kept : FilteredUpTo(s, S, kept, Len(s))
           Part(n) == {s[i] : i \in 1 .. n}
<1>1. Len(s) \in Nat /\ DOMAIN s = 1 .. Len(s) /\ \A i \in DOMAIN s : s[i] \in N
  OBVIOUS
<1>2. FilteredUpTo(s, S, kept, Len(s))
  BY <1>1, FilteredExists
<1>3. Filtered(s, S) = kept[Len(s)]
  BY DEF Filtered, FilteredUpTo, FilteredFrom
<1> HIDE DEF kept
<1>4. \A k \in 0 .. Len(s) : kept[k] = FilteredFrom(s, S, kept, k)
  BY <1>2 DEF FilteredUpTo
<1> DEFINE Fine(n) == /\ kept[n] \in Seq(N) /\ ToSet(kept[n]) = Part(n) \cap S
                      /\ Strictly(s) => Strictly(kept[n])
           Good == {n \in Nat : n <= Len(s) => Fine(n)}
<1>5. 0 \in Good
  <2>1. kept[0] = <<>>
    BY <1>1, <1>4 DEF FilteredFrom
  <2>2. Part(0) = {}
    OBVIOUS
  <2>3. <<>> \in Seq(N)
    OBVIOUS
  <2> QED BY <2>1, <2>2, <2>3, NoNode
<1>6. ASSUME NEW n \in Good
      PROVE  n + 1 \in Good
  <2> SUFFICES ASSUME n + 1 <= Len(s)
               PROVE  Fine(n + 1)
    OBVIOUS
  <2>1. n \in Nat /\ Fine(n) /\ s[n + 1] \in N /\ n + 1 \in DOMAIN s
    BY <1>1
  <2>2. Part(n + 1) = Part(n) \cup {s[n + 1]}
    BY <2>1
  <2>3. kept[n + 1] = FilteredFrom(s, S, kept, n + 1)
    BY <1>1, <1>4, <2>1
  <2>a. Strictly(s) => AllBefore(Part(n), {s[n + 1]})
    <3>1. \A i \in 1 .. n : i \in DOMAIN s /\ i < n + 1
      BY <1>1, <2>1
    <3> QED BY <2>1, <3>1 DEF AllBefore, Strictly
  <2> HIDE DEF Part
  <2>4. CASE s[n + 1] \notin S
    <3>1. kept[n + 1] = kept[n]
      BY <2>1, <2>3, <2>4 DEF FilteredFrom
    <3>2. Part(n + 1) \cap S = Part(n) \cap S
      BY <2>2, <2>4
    <3> QED BY <2>1, <3>1, <3>2
  <2>5. CASE s[n + 1] \in S
    <3> DEFINE old == kept[n]
               x == s[n + 1]
    <3>1. kept[n + 1] = Append(old, x)
      BY <2>1, <2>3, <2>5 DEF FilteredFrom
    <3>2. old \in Seq(N) /\ x \in N /\ ToSet(old) = Part(n) \cap S
      BY <2>1
    <3> HIDE DEF old, x
    <3>3. /\ Append(old, x) \in Seq(N)
          /\ Strictly(old) /\ AllBefore(ToSet(old), {x}) => Strictly(Append(old, x))
      BY <3>2, AppendOrder
    <3>4. ToSet(Append(old, x)) = ToSet(old) \cup {x}
      BY <3>2, AppendSet
    <3>5. ToSet(kept[n + 1]) = Part(n + 1) \cap S
      BY <2>2, <2>5, <3>1, <3>2, <3>4 DEF x
    <3>6. Strictly(s) => AllBefore(ToSet(old), {x})
      BY <2>a, <3>2 DEF AllBefore, x
    <3> QED BY <2>1, <3>1, <3>3, <3>5, <3>6 DEF old
  <2> QED BY <2>4, <2>5
<1>7. Fine(Len(s))
  <2>1. Good \in SUBSET Nat
    OBVIOUS
  <2> HIDE DEF Fine
  <2>2. Good = Nat
    <3> HIDE DEF Good
    <3> QED BY <1>5, <1>6, <2>1, AllNumbers
  <2>3. Len(s) \in Good
    <3> HIDE DEF Good
    <3> QED BY <1>1, <2>2
  <2> QED BY <2>3
<1>8. Part(Len(s)) = ToSet(s)
  BY <1>1 DEF ToSet
<1> QED BY <1>3, <1>7, <1>8

-----------------------------------------------------------------------------
(* One step for one context node. *)

\* The results of a step for one context node as they are combined.
Forward(selector, found) ==
  IF Claims(selector.axis).order = ReverseSorted THEN Reverse(found) ELSE found

\* One node is its own reverse.
LEMMA ReverseOne ==
  ASSUME NEW N, NEW x \in N
  PROVE  Reverse(<<x>>) = <<x>>
<1> DEFINE s == <<x>>
<1>1. s \in Seq(N) /\ Len(s) = 1
  OBVIOUS
<1> HIDE DEF s
<1>2. Reverse(s) \in Seq(N) /\ Len(Reverse(s)) = Len(s) /\ \A i \in 1 .. Len(s) : Reverse(s)[i] = s[Len(s) - i + 1]
  BY <1>1, ReverseItems
<1>3. \A i \in 1 .. Len(s) : Reverse(s)[i] = s[i]
  BY <1>1, <1>2
<1>4. Reverse(s) = s
  BY <1>1, <1>2, <1>3, SeqEqual
<1> QED BY <1>4 DEF s

\* They are nodes on the axis, in document order, once they are turned around.
LEMMA EvaluateOrder ==
  ASSUME LocalNamesDiffer, document \in Documents, NEW selector, selector.axis \in Axes,
         NEW n \in AllNodes(document), NEW e, e = Evaluate(selector, n)
  PROVE  /\ e \in Seq(AllNodes(document)) /\ Forward(selector, e) \in Seq(AllNodes(document))
         /\ Strictly(Forward(selector, e))
         /\ ToSet(e) \subseteq OnAxis(document, selector.axis, n)
<1> DEFINE N == AllNodes(document)
           axis == OnAxis(document, selector.axis, n)
           base == InDocumentOrderOf(axis)
           accepted == selector.test \cup (IF selector.axis = "union" THEN {n} ELSE {})
           inOrder == Filtered(base, accepted)
           axisOrder == Forward(selector, inOrder)
<1>1. axis \in SUBSET N
  BY AxisInDocument
<1>2. AxisNodes[document][selector.axis][n] = base
  BY DEF AxisNodes
<1>3. e = IF selector.first /\ axisOrder # <<>> THEN <<axisOrder[1]>> ELSE axisOrder
  BY <1>2 DEF Evaluate, Forward
<1> HIDE DEF axis, accepted
<1>4. base \in Seq(N) /\ ToSet(base) = axis /\ Strictly(base)
  BY <1>1, NodesWritten
<1> HIDE DEF base
<1>5. inOrder \in Seq(N) /\ ToSet(inOrder) \subseteq axis /\ Strictly(inOrder)
  BY <1>4, FilteredOrder
<1> HIDE DEF inOrder
<1>6. axisOrder \in Seq(N) /\ ToSet(axisOrder) = ToSet(inOrder) /\ Forward(selector, axisOrder) = inOrder
  <2>1. Reverse(inOrder) \in Seq(N) /\ ToSet(Reverse(inOrder)) = ToSet(inOrder) /\ Reverse(Reverse(inOrder)) = inOrder
    BY <1>5, ReverseItems, ReverseSet, ReverseTwice
  <2> QED BY <1>5, <2>1 DEF Forward
<1> HIDE DEF axisOrder
<1>7. CASE selector.first /\ axisOrder # <<>>
  <2> DEFINE x == axisOrder[1]
  <2>1. x \in N /\ x \in ToSet(axisOrder)
    <3>1. 1 \in 1 .. Len(axisOrder)
      BY <1>6, <1>7
    <3> QED BY <1>6, <3>1, ToSetFacts
  <2> HIDE DEF x
  <2>2. <<x>> \in Seq(N) /\ ToSet(<<x>>) = {x} /\ Strictly(<<x>>)
    BY <2>1, OneNode
  <2>3. e = <<x>>
    BY <1>3, <1>7 DEF x
  <2>4. Reverse(<<x>>) = <<x>>
    BY <2>1, ReverseOne
  <2>5. Forward(selector, e) = e
    BY <2>3, <2>4 DEF Forward
  <2> QED BY <1>5, <1>6, <2>1, <2>2, <2>3, <2>5 DEF axis
<1>8. CASE ~(selector.first /\ axisOrder # <<>>)
  <2>1. e = axisOrder
    BY <1>3, <1>8
  <2> QED BY <1>5, <1>6, <2>1 DEF axis
<1> QED BY <1>7, <1>8

\* Turned around or not, they are the same nodes.
LEMMA ForwardSet ==
  ASSUME NEW N, NEW selector, NEW e \in Seq(N)
  PROVE  ToSet(Forward(selector, e)) = ToSet(e)
BY ReverseSet DEF Forward

\* The sequences to combine, one for each context node.
LEMMA CombinedRow ==
  ASSUME LocalNamesDiffer, Shape, NEW selector, selector.axis \in Axes,
         NEW row, row = ToCombine(selector)
  PROVE  /\ row \in Seq(Seq(AllNodes(document))) /\ Len(row) = Len(result) /\ Len(result) \in Nat
         /\ \A i \in 1 .. Len(result) :
              /\ result[i] \in AllNodes(document) /\ Strictly(row[i])
              /\ ToSet(row[i]) = ToSet(Evaluate(selector, result[i]))
              /\ ToSet(row[i]) \subseteq OnAxis(document, selector.axis, result[i])
<1> DEFINE N == AllNodes(document)
           Item(i) == Forward(selector, Evaluate(selector, result[i]))
<1>1. result \in Seq(N) /\ DOMAIN result = 1 .. Len(result) /\ Len(result) \in Nat /\ document \in Documents
  BY DEF Shape
<1>2. row = [i \in 1 .. Len(result) |-> Item(i)]
  BY <1>1 DEF ToCombine, Forward
<1>3. ASSUME NEW i \in 1 .. Len(result)
      PROVE  /\ result[i] \in N /\ Item(i) \in Seq(N) /\ Strictly(Item(i))
             /\ ToSet(Item(i)) = ToSet(Evaluate(selector, result[i]))
             /\ ToSet(Item(i)) \subseteq OnAxis(document, selector.axis, result[i])
  <2>1. result[i] \in N
    BY <1>1
  <2> DEFINE e == Evaluate(selector, result[i])
  <2>2. /\ e \in Seq(N) /\ Forward(selector, e) \in Seq(N) /\ Strictly(Forward(selector, e))
        /\ ToSet(e) \subseteq OnAxis(document, selector.axis, result[i])
    BY <1>1, <2>1, EvaluateOrder
  <2>3. ToSet(Forward(selector, e)) = ToSet(e)
    <3> HIDE DEF e
    <3> QED BY <2>2, ForwardSet
  <2> QED BY <2>1, <2>2, <2>3
<1> HIDE DEF Item
<1>4. row \in Seq(Seq(N)) /\ Len(row) = Len(result) /\ \A i \in 1 .. Len(result) : row[i] = Item(i)
  BY <1>1, <1>2, <1>3
<1> QED BY <1>1, <1>3, <1>4

\* What they hold is what the step denotes.
LEMMA CombinedSet ==
  ASSUME LocalNamesDiffer, Shape, NEW selector, selector.axis \in Axes
  PROVE  Held(ToCombine(selector)) = UNION {ToSet(Evaluate(selector, n)) : n \in ToSet(result)}
<1> DEFINE row == ToCombine(selector)
           Of(n) == ToSet(Evaluate(selector, n))
<1>1. /\ Len(row) = Len(result) /\ Len(result) \in Nat
      /\ \A i \in 1 .. Len(result) : ToSet(row[i]) = Of(result[i])
  BY CombinedRow
<1>2. result \in Seq(AllNodes(document))
  BY DEF Shape
<1> HIDE DEF row, Of
<1>3. ToSet(result) = {result[i] : i \in 1 .. Len(result)}
  BY <1>2 DEF ToSet
<1>4. Held(row) = UNION {Of(n) : n \in ToSet(result)}
  <2>1. ASSUME NEW x \in Held(row)
        PROVE  x \in UNION {Of(n) : n \in ToSet(result)}
    <3>1. PICK i \in 1 .. Len(result) : x \in ToSet(row[i])
      BY <1>1, <2>1 DEF Held
    <3>2. x \in Of(result[i]) /\ result[i] \in ToSet(result)
      BY <1>1, <1>3, <3>1
    <3> QED BY <3>2
  <2>2. ASSUME NEW n \in ToSet(result), NEW x \in Of(n)
        PROVE  x \in Held(row)
    <3>1. PICK i \in 1 .. Len(result) : n = result[i]
      BY <1>3
    <3>2. x \in ToSet(row[i])
      BY <1>1, <2>2, <3>1
    <3> QED BY <1>1, <3>2 DEF Held
  <2> QED BY <2>1, <2>2
<1> QED BY <1>4 DEF row, Of

-----------------------------------------------------------------------------
(* Peers. *)

\* The path q begins as p does.
Below(p, q) == Len(p) <= Len(q) /\ \A i \in 1 .. Len(p) : q[i] = p[i]

\* What is below two places of one depth is in the order of these places.
LEMMA BelowKeepsOrder ==
  ASSUME NEW p \in Path, NEW q \in Path, NEW x \in Path, NEW y \in Path,
         Len(p) = Len(q), p # q, Leads(p, q), Below(p, x), Below(q, y)
  PROVE  x # y /\ Leads(x, y)
<1> DEFINE k == Parting(p, q)
<1>1. PartAt(p, q, k)
  BY PartingParts
<1>2. /\ Len(p) \in Nat /\ Len(q) \in Nat /\ Len(x) \in Nat /\ Len(y) \in Nat
      /\ k \in Nat \ {0} /\ LeadsAt(p, q, k)
  BY <1>1 DEF Path, PartAt, Leads
<1> HIDE DEF k
<1>3. k <= Len(p) /\ k <= Len(q)
  BY <1>1, <1>2, PathsDiffer
<1>4. x[k] = p[k] /\ y[k] = q[k] /\ p[k] # q[k] /\ p[k] < q[k] /\ k <= Len(x) /\ k <= Len(y)
  BY <1>1, <1>2, <1>3 DEF Below, PartAt, LeadsAt
<1>5. PartAt(x, y, k)
  BY <1>1, <1>2, <1>3, <1>4 DEF PartAt, Below
<1>6. Parting(x, y) = k
  BY <1>5, PartOnce
<1> QED BY <1>4, <1>6 DEF Leads, LeadsAt

\* And two places that begin alike but for their last index are below one, or below
\* two places in their order.
LEMMA FrontKeepsOrder ==
  ASSUME NEW p \in Path, NEW q \in Path, NEW x \in Path, NEW y \in Path,
         Len(p) = Len(q), p # q, Leads(p, q), Below(x, p), Below(y, q), Len(x) = Len(y), x # y
  PROVE  Leads(x, y)
<1>1. Len(x) \in Nat /\ Len(y) \in Nat /\ Len(p) \in Nat /\ Len(q) \in Nat
  BY DEF Path
<1>2. CASE Leads(y, x)
  <2>1. Leads(q, p)
    BY <1>2, BelowKeepsOrder
  <2> QED BY <2>1, LeadsOneWay
<1> QED BY <1>2, LeadsOneWay

\* Nodes of one kind at one depth are peers.
LEMMA OneDepthPeers ==
  ASSUME NEW trees, NEW nodes \in SUBSET NodesOf(trees), OneKind(nodes),
         \A m, n \in nodes : Len(m.at) = Len(n.at)
  PROVE  ArePeers(nodes)
<1>1. ASSUME NEW m \in nodes, NEW n \in nodes, IsAncestor(m, n)
      PROVE  FALSE
  <2>1. m.at \in Path /\ n.at \in Path /\ Len(m.at) = Len(n.at)
    BY DEF NodesOf
  <2>2. CASE IsStrictPrefix(m.at, n.at)
    <3>1. SubSeq(m.at, 1, Len(m.at)) = SubSeq(n.at, 1, Len(n.at)) /\ m.at # n.at
      BY <2>1, <2>2 DEF IsStrictPrefix, IsPrefix
    <3>2. SubSeq(m.at, 1, Len(m.at)) = m.at /\ SubSeq(n.at, 1, Len(n.at)) = n.at
      BY <2>1 DEF Path
    <3> QED BY <3>1, <3>2
  <2>3. CASE m.at = n.at /\ IsAttribute(n)
    BY <1>1, <2>3 DEF IsAncestor, OneKind
  <2> QED BY <1>1, <2>2, <2>3 DEF IsAncestor
<1> QED BY <1>1 DEF ArePeers

\* A path is one longer than its front, and begins as it does.
LEMMA FrontPlace ==
  ASSUME NEW p \in Path, p # <<>>
  PROVE  Len(p) = Len(Front(p)) + 1 /\ Below(Front(p), p)
<1>1. p \in Seq(Int) /\ Len(p) \in Nat /\ Len(p) # 0
  BY DEF Path
<1>2. Front(p) = [i \in 1 .. Len(p) - 1 |-> p[i]]
  BY <1>1 DEF Front
<1> DEFINE f == [i \in 1 .. Len(p) - 1 |-> p[i]]
<1>3. Len(f) = Len(p) - 1 /\ \A i \in 1 .. Len(p) - 1 : f[i] = p[i]
  BY <1>1
<1> HIDE DEF f
<1> QED BY <1>1, <1>2, <1>3 DEF Below, f

\* A path begins as its prefixes do.
LEMMA PrefixPlace ==
  ASSUME NEW p \in Path, NEW q \in Path, IsPrefix(p, q)
  PROVE  Below(p, q)
<1>1. Len(p) \in Nat /\ Len(q) \in Nat /\ Len(p) <= Len(q)
  BY DEF Path, IsPrefix
<1>2. SubSeq(p, 1, Len(p)) = SubSeq(q, 1, Len(p))
  BY DEF IsPrefix
<1>3. \A j \in 1 .. Len(p) : p[j] = q[j]
  BY <1>1, <1>2, BeginAlike
<1> QED BY <1>1, <1>3 DEF Below

\* Where the children, the descendants, the parent and the siblings of a node are.
LEMMA AxisPlaces ==
  ASSUME LocalNamesDiffer, NEW doc \in Documents, NEW n \in AllNodes(doc), NEW x \in AllNodes(doc)
  PROVE  /\ x \in ChildAxis(doc, n) =>
              ~IsAttribute(n) /\ ~IsAttribute(x) /\ Len(x.at) = Len(n.at) + 1 /\ Below(n.at, x.at)
         /\ x \in DescendantAxis(doc, n) => ~IsAttribute(n) /\ ~IsAttribute(x) /\ Below(n.at, x.at)
         /\ x \in ParentAxis(doc, n) =>
              /\ ~IsAttribute(x)
              /\ IsAttribute(n) => x.at = n.at
              /\ ~IsAttribute(n) => Len(n.at) = Len(x.at) + 1 /\ Below(x.at, n.at)
         /\ x \in FollowingSiblingAxis(doc, n) => ~IsAttribute(x) /\ Len(x.at) = Len(n.at)
         /\ x \in PrecedingSiblingAxis(doc, n) => ~IsAttribute(x) /\ Len(x.at) = Len(n.at)
         /\ x \in AttributeAxis(doc, n) => IsAttribute(x) /\ ~IsAttribute(n) /\ x.at = n.at
<1>1. n.at \in Path /\ x.at \in Path /\ n \in NodesOf({1}) /\ x \in NodesOf({1})
  BY DocumentInOrder
<1>2. \A p, q \in Path : p # <<>> /\ Front(p) = q => Len(p) = Len(q) + 1 /\ Below(q, p)
  BY FrontPlace
<1>3. x \in Elements(doc) => ~IsAttribute(x)
  BY DocumentNodes
<1>4. x \in ChildAxis(doc, n) =>
        ~IsAttribute(n) /\ ~IsAttribute(x) /\ Len(x.at) = Len(n.at) + 1 /\ Below(n.at, x.at)
  BY <1>1, <1>2, <1>3 DEF ChildAxis, IsChild
<1>5. x \in DescendantAxis(doc, n) => ~IsAttribute(n) /\ ~IsAttribute(x) /\ Below(n.at, x.at)
  <2>1. x \in DescendantAxis(doc, n) => x \in Elements(doc) /\ ~IsAttribute(n) /\ IsAncestor(n, x)
    BY DEF DescendantAxis
  <2>2. x \in Elements(doc) /\ IsAncestor(n, x) => IsPrefix(n.at, x.at)
    BY <1>3 DEF IsAncestor, IsStrictPrefix
  <2> QED BY <1>1, <1>3, <2>1, <2>2, PrefixPlace
<1>6. x \in ParentAxis(doc, n) =>
        /\ ~IsAttribute(x)
        /\ IsAttribute(n) => x.at = n.at
        /\ ~IsAttribute(n) => Len(n.at) = Len(x.at) + 1 /\ Below(x.at, n.at)
  <2>1. x \in ParentAxis(doc, n) =>
          x \in Elements(doc) /\ (IF IsAttribute(n) THEN x = Owner(n) ELSE IsChild(x, n))
    BY DEF ParentAxis, AncestorAxis
  <2>2. Owner(n).at = n.at
    BY <1>1, OwnerIsPlace
  <2> QED BY <1>1, <1>2, <1>3, <2>1, <2>2 DEF IsChild
<1>7. IsSibling(n, x) => Len(x.at) = Len(n.at)
  <2>1. IsSibling(n, x) => n.at # <<>> /\ x.at # <<>> /\ Front(n.at) = Front(x.at)
    BY DEF IsSibling
  <2>2. n.at # <<>> => Len(n.at) = Len(Front(n.at)) + 1
    BY <1>1, FrontPlace
  <2>3. x.at # <<>> => Len(x.at) = Len(Front(x.at)) + 1
    BY <1>1, FrontPlace
  <2> QED BY <2>1, <2>2, <2>3
<1>8. x \in FollowingSiblingAxis(doc, n) => ~IsAttribute(x) /\ Len(x.at) = Len(n.at)
  BY <1>3, <1>7 DEF FollowingSiblingAxis
<1>9. x \in PrecedingSiblingAxis(doc, n) => ~IsAttribute(x) /\ Len(x.at) = Len(n.at)
  BY <1>3, <1>7 DEF PrecedingSiblingAxis
<1>10. x \in AttributeAxis(doc, n) => IsAttribute(x) /\ ~IsAttribute(n) /\ x.at = n.at
  BY DocumentNodes DEF AttributeAxis
<1> QED BY <1>4, <1>5, <1>6, <1>8, <1>9, <1>10

Downwards == {"self", "child", "descendant", "descendant-or-self"}

\* Downwards from an element one stays below it; an attribute has nothing below it.
LEMMA BelowOnAxis ==
  ASSUME LocalNamesDiffer, NEW doc \in Documents, NEW n \in AllNodes(doc), NEW axis \in Downwards,
         NEW x \in AllNodes(doc), x \in OnAxis(doc, axis, n)
  PROVE  /\ IsAttribute(n) => x = n
         /\ ~IsAttribute(n) => ~IsAttribute(x) /\ Below(n.at, x.at)
<1>1. x \in ChildAxis(doc, n) \/ x \in DescendantAxis(doc, n) \/ x = n
  BY DEF OnAxis, Downwards, SelfAxis
<1>2. Below(n.at, n.at)
  BY DocumentInOrder DEF Below, Path
<1> QED BY <1>1, <1>2, AxisPlaces

\* Elements at one place are one.
LEMMA OneElement ==
  ASSUME NEW x \in NodesOf({1}), NEW y \in NodesOf({1}), ~IsAttribute(x), ~IsAttribute(y), x.at = y.at
  PROVE  x = y
BY DEF NodesOf, IsAttribute

\* From two peers of one kind, in order, a step that is concatenated finds nodes in order.
LEMMA AxisKeepsOrder ==
  ASSUME LocalNamesDiffer, NEW doc \in Documents, NEW a \in AllNodes(doc), NEW b \in AllNodes(doc),
         Precedes(a, b), IsAttribute(a) <=> IsAttribute(b), Len(a.at) = Len(b.at),
         NEW axis \in Axes, axis \in Downwards \cup {"parent"},
         NEW x, NEW y, x \in OnAxis(doc, axis, a), y \in OnAxis(doc, axis, b)
  PROVE  NotAfter(x, y)
<1> DEFINE N == AllNodes(doc)
<1>1. x \in N /\ y \in N
  BY AxisInDocument
<1>2. /\ N \in SUBSET NodesOf({1}) /\ NamesDiffer(N)
      /\ \A n \in N : n.tree = 1 /\ n.at \in Path /\ n \in NodesOf({1})
  BY DocumentInOrder
<1>3. \A m, n \in N : Precedes(m, n) <=> m # n /\ FirstInTree(m, n)
  BY <1>2, PrecedesInTree
<1> HIDE DEF N
<1>4. a \in N /\ b \in N
  BY DEF N
<1>5. a # b /\ FirstInTree(a, b)
  BY <1>3, <1>4
<1>6. CASE axis \in Downwards
  <2>1. /\ IsAttribute(a) => x = a
        /\ ~IsAttribute(a) => ~IsAttribute(x) /\ Below(a.at, x.at)
    BY <1>1, <1>6, BelowOnAxis DEF N
  <2>2. /\ IsAttribute(b) => y = b
        /\ ~IsAttribute(b) => ~IsAttribute(y) /\ Below(b.at, y.at)
    BY <1>1, <1>6, BelowOnAxis DEF N
  <2>3. CASE IsAttribute(a)
    BY <2>1, <2>2, <2>3 DEF NotAfter
  <2>4. CASE ~IsAttribute(a)
    <3>1. a.at # b.at /\ Leads(a.at, b.at)
      BY <1>5, <2>4 DEF FirstInTree
    <3>2. x.at # y.at /\ Leads(x.at, y.at)
      BY <1>1, <1>2, <1>4, <2>1, <2>2, <2>4, <3>1, BelowKeepsOrder
    <3> QED BY <1>1, <1>3, <3>2 DEF FirstInTree, NotAfter
  <2> QED BY <2>3, <2>4
<1>7. CASE axis = "parent"
  <2>1. x \in ParentAxis(doc, a) /\ y \in ParentAxis(doc, b)
    BY <1>7 DEF OnAxis
  <2>2. /\ ~IsAttribute(x)
        /\ IsAttribute(a) => x.at = a.at
        /\ ~IsAttribute(a) => Len(a.at) = Len(x.at) + 1 /\ Below(x.at, a.at)
    BY <1>1, <2>1, AxisPlaces DEF N
  <2>3. /\ ~IsAttribute(y)
        /\ IsAttribute(b) => y.at = b.at
        /\ ~IsAttribute(b) => Len(b.at) = Len(y.at) + 1 /\ Below(y.at, b.at)
    BY <1>1, <2>1, AxisPlaces DEF N
  <2>4. CASE x.at = y.at
    BY <1>1, <1>2, <2>2, <2>3, <2>4, OneElement DEF NotAfter
  <2>5. CASE x.at # y.at
    <3>1. Leads(x.at, y.at)
      <4>1. CASE IsAttribute(a)
        BY <1>5, <2>2, <2>3, <2>5, <4>1 DEF FirstInTree
      <4>2. CASE ~IsAttribute(a)
        <5>1. a.at # b.at /\ Leads(a.at, b.at)
          BY <1>5, <4>2 DEF FirstInTree
        <5>2. Len(x.at) = Len(y.at)
          BY <1>1, <1>2, <2>2, <2>3, <4>2 DEF Path
        <5> QED BY <1>1, <1>2, <1>4, <2>2, <2>3, <2>5, <4>2, <5>1, <5>2, FrontKeepsOrder
      <4> QED BY <4>1, <4>2
    <3> QED BY <1>1, <1>3, <2>5, <3>1 DEF FirstInTree, NotAfter
  <2> QED BY <2>4, <2>5
<1> QED BY <1>6, <1>7

-----------------------------------------------------------------------------
(* One step. *)

\* The results of one step are concatenated for some axes only, while the nodes so
\* far are taken for peers.
LEMMA ConcatAxes ==
  ASSUME NEW axis \in Axes, How(Claims(axis)) = "concat"
  PROVE  sequenceHasPeerProperty /\ axis \in Downwards \cup {"parent"}
<1>1. Claims(axis).order # Unsorted /\ Claims(axis).subtree /\ sequenceHasPeerProperty
  BY DEF How
<1> QED BY <1>1, AxesAreAxes DEF Claims, Downwards

\* Then the sequences come in document order, whichever nodes they start from.
LEMMA ConcatRow ==
  ASSUME LocalNamesDiffer, Shape, NEW selector, selector.axis \in Axes,
         selector.axis \in Downwards \cup {"parent"}, Strictly(result),
         ArePeers(ToSet(result)), OneKind(ToSet(result))
  PROVE  RowInOrder(ToCombine(selector))
<1> DEFINE row == ToCombine(selector)
           N == AllNodes(document)
<1>1. /\ row \in Seq(Seq(N)) /\ Len(row) = Len(result) /\ Len(result) \in Nat
      /\ \A i \in 1 .. Len(result) :
           /\ result[i] \in N /\ Strictly(row[i])
           /\ ToSet(row[i]) \subseteq OnAxis(document, selector.axis, result[i])
  BY CombinedRow
<1>2. result \in Seq(N) /\ document \in Documents
  BY DEF Shape
<1> HIDE DEF row, N
<1>3. ASSUME NEW i \in 1 .. Len(row)
      PROVE  Weakly(row[i])
  BY <1>1, <1>3, StrictIsWeak
<1>4. ASSUME NEW i \in 1 .. Len(row), NEW j \in 1 .. Len(row), i < j
      PROVE  NoneAfter(ToSet(row[i]), ToSet(row[j]))
  <2> DEFINE a == result[i]
             b == result[j]
  <2>1. a \in N /\ b \in N /\ a \in ToSet(result) /\ b \in ToSet(result)
    BY <1>1, <1>2, ToSetFacts
  <2>2. Precedes(a, b)
    <3>1. i \in DOMAIN result /\ j \in DOMAIN result
      BY <1>1, <1>2
    <3> QED BY <1>4, <3>1 DEF Strictly
  <2>3. Len(a.at) = Len(b.at)
    BY <2>1 DEF ArePeers
  <2>4. IsAttribute(a) <=> IsAttribute(b)
    BY <2>1 DEF OneKind
  <2>5. ToSet(row[i]) \subseteq OnAxis(document, selector.axis, a)
        /\ ToSet(row[j]) \subseteq OnAxis(document, selector.axis, b)
    BY <1>1
  <2> HIDE DEF a, b
  <2>6. ASSUME NEW x \in ToSet(row[i]), NEW y \in ToSet(row[j])
        PROVE  NotAfter(x, y)
    BY <1>2, <2>1, <2>2, <2>3, <2>4, <2>5, <2>6, AxisKeepsOrder DEF N
  <2> QED BY <2>6 DEF NoneAfter
<1> QED BY <1>3, <1>4 DEF RowInOrder, row

\* However they are combined, no node is lost or added, and they are in document order
\* if the nodes the step starts from are, and are peers when they are taken for peers.
LEMMA CombineOrder ==
  ASSUME LocalNamesDiffer, Shape, NEW selector, selector.axis \in Axes, NEW r,
         r \in Combine(How(Claims(selector.axis)), ToCombine(selector))
  PROVE  /\ r \in Seq(AllNodes(document)) /\ ToSet(r) = Held(ToCombine(selector))
         /\ Strictly(result)
            /\ (sequenceHasPeerProperty => ArePeers(ToSet(result)) /\ OneKind(ToSet(result)))
              => Strictly(r)
<1> DEFINE row == ToCombine(selector)
           N == AllNodes(document)
           how == How(Claims(selector.axis))
           flat == ConcatSortedSequences(row)
<1>1. row \in Seq(Seq(N)) /\ \A i \in 1 .. Len(row) : Strictly(row[i])
  BY CombinedRow
<1>2. Ordered(N) /\ Decides(<<>>, N)
  BY DocumentInOrder DEF Shape
<1>3. how = "concat" /\ Strictly(result)
      /\ (sequenceHasPeerProperty => ArePeers(ToSet(result)) /\ OneKind(ToSet(result)))
        => RowInOrder(row)
  BY ConcatAxes, ConcatRow
<1>4. how \in {"concat", "merge", "sort"}
  BY DEF How
<1>5. r \in Combine(how, row)
  OBVIOUS
<1> HIDE DEF row, N, how
<1>6. /\ flat \in Seq(N) /\ ToSet(flat) = Held(row)
      /\ Ordered(N) /\ RowInOrder(row) => Strictly(flat)
  BY <1>1, ConcatSortedOrder
<1>7. CASE how = "concat"
  <2>1. r = flat
    BY <1>5, <1>7 DEF Combine
  <2> HIDE DEF flat
  <2> QED BY <1>2, <1>3, <1>6, <1>7, <2>1 DEF row, N
<1>8. CASE how = "merge"
  <2>1. r \in MergeSortedSequences(<<>>, row)
    BY <1>5, <1>8 DEF Combine
  <2>2. r \in Seq(N) /\ ToSet(r) = Held(row) /\ Strictly(r)
    BY <1>1, <1>2, <2>1, MergeSortedOrder
  <2> QED BY <2>2 DEF row, N
<1>9. CASE how = "sort"
  <2>1. r = SortNodeValues(<<>>, flat)
    BY <1>5, <1>9 DEF Combine
  <2> HIDE DEF flat
  <2>2. /\ SortNodeValues(<<>>, flat) \in Seq(N) /\ ToSet(SortNodeValues(<<>>, flat)) = ToSet(flat)
        /\ Strictly(SortNodeValues(<<>>, flat))
    BY <1>2, <1>6, SortNodeValuesOrder
  <2> QED BY <1>6, <2>1, <2>2 DEF row, N
<1> QED BY <1>4, <1>7, <1>8, <1>9

\* The selectors are steps along one of the axes.
LEMMA SelectorAxis ==
  ASSUME NEW selector \in Selectors
  PROVE  selector.axis \in Axes
BY DEF Selectors

\* After a step the result holds the nodes the path denotes, if it did before, and is in
\* document order under the same conditions.
LEMMA StepResult ==
  ASSUME LocalNamesDiffer, Shape, ToSet(result) = reached, NEW selector \in Selectors, Step(selector)
  PROVE  /\ Shape' /\ ToSet(result') = reached'
         /\ Strictly(result) /\ (sequenceHasPeerProperty => ArePeers(reached) /\ OneKind(reached))
              => Strictly(result')
<1> DEFINE N == AllNodes(document)
<1>1. /\ steps < MaxSteps /\ result' \in Combine(How(Claims(selector.axis)), ToCombine(selector))
      /\ sequenceHasPeerProperty' = PeersAfter(Claims(selector.axis)) /\ steps' = steps + 1
      /\ reached' = UNION {ToSet(Evaluate(selector, n)) : n \in reached}
      /\ sound' = (sound /\ selector.axis \notin Unsound) /\ document' = document
  BY DEF Step
<1>2. selector.axis \in Axes
  BY SelectorAxis
<1>3. /\ result' \in Seq(N) /\ ToSet(result') = Held(ToCombine(selector))
      /\ Strictly(result)
         /\ (sequenceHasPeerProperty => ArePeers(ToSet(result)) /\ OneKind(ToSet(result)))
           => Strictly(result')
  BY <1>1, <1>2, CombineOrder
<1>4. Held(ToCombine(selector)) = UNION {ToSet(Evaluate(selector, n)) : n \in ToSet(result)}
  BY <1>2, CombinedSet
<1>5. ToSet(result') = reached'
  BY <1>1, <1>3, <1>4
<1>6. Shape'
  <2>1. steps' \in 0 .. MaxSteps
    BY <1>1, MaxStepsIsNumber DEF Shape
  <2>2. sequenceHasPeerProperty' \in BOOLEAN
    <3>1. Claims(selector.axis).peer \in BOOLEAN
      BY <1>2, AxesAreAxes DEF Claims
    <3> QED BY <1>1, <3>1 DEF PeersAfter, Shape
  <2>3. reached' \in SUBSET N
    BY <1>3, <1>5, ToSetFacts
  <2>4. sound' \in BOOLEAN
    BY <1>1
  <2>5. AllNodes(document') = N
    BY <1>1
  <2> HIDE DEF N
  <2> QED BY <1>1, <1>3, <2>1, <2>2, <2>3, <2>4, <2>5 DEF Shape
<1> QED BY <1>3, <1>5, <1>6

\* What a step reaches is on its axis, for some node it started from.
LEMMA ReachedOnAxis ==
  ASSUME LocalNamesDiffer, Shape, NEW selector \in Selectors, Step(selector), NEW x \in reached'
  PROVE  \E n \in reached : x \in OnAxis(document, selector.axis, n)
<1>1. reached' = UNION {ToSet(Evaluate(selector, n)) : n \in reached}
  BY DEF Step
<1>2. PICK n \in reached : x \in ToSet(Evaluate(selector, n))
  BY <1>1
<1>3. n \in AllNodes(document) /\ document \in Documents /\ selector.axis \in Axes
  BY SelectorAxis DEF Shape
<1>4. ToSet(Evaluate(selector, n)) \subseteq OnAxis(document, selector.axis, n)
  BY <1>3, EvaluateOrder
<1> QED BY <1>2, <1>4

\* The axes after which nodes may still be taken for peers.
Level == {"self", "child", "parent", "following-sibling", "preceding-sibling", "attribute"}

LEMMA PeerAxes ==
  ASSUME NEW selector \in Selectors, Step(selector), sequenceHasPeerProperty'
  PROVE  sequenceHasPeerProperty /\ selector.axis \in Level \cup Unsound
<1>1. sequenceHasPeerProperty' = PeersAfter(Claims(selector.axis))
  BY DEF Step
<1>2. /\ sequenceHasPeerProperty
      /\ Claims(selector.axis).order = Unsorted \/ Claims(selector.axis).peer
  BY <1>1 DEF PeersAfter
<1> QED BY <1>2, SelectorAxis, AxesAreAxes DEF Claims, Level, Unsound, Unsorted, Sorted, ReverseSorted

\* On them, all that is found from nodes of one kind is of one kind.
LEMMA KindOnAxis ==
  ASSUME LocalNamesDiffer, NEW doc \in Documents, NEW axis \in Axes, axis \in Level \cup Unsound,
         NEW n \in AllNodes(doc), NEW x \in OnAxis(doc, axis, n)
  PROVE  /\ axis \in {"self", "union"} => (IsAttribute(x) <=> IsAttribute(n))
         /\ axis = "attribute" => IsAttribute(x)
         /\ axis \notin {"self", "union", "attribute"} => ~IsAttribute(x)
<1>1. x \in AllNodes(doc)
  BY AxisInDocument
<1>2. \A y \in Elements(doc) : ~IsAttribute(y)
  BY DocumentNodes
<1>3. axis = "self" => x = n
  BY DEF OnAxis, SelfAxis
<1>4. axis = "union" => x = n \/ x \in ChildAxis(doc, n)
  BY DEF OnAxis
<1>5. axis = "attribute" => x \in AttributeAxis(doc, n)
  BY DEF OnAxis
<1>6. axis \in {"child", "parent", "following-sibling", "preceding-sibling", "following", "preceding"}
        => x \in Elements(doc)
  BY DEF OnAxis, ChildAxis, ParentAxis, AncestorAxis, FollowingSiblingAxis, PrecedingSiblingAxis,
         FollowingAxis, PrecedingAxis
<1>7. axis \in {"self", "union", "attribute", "child", "parent", "following-sibling",
               "preceding-sibling", "following", "preceding"}
  BY DEF Level, Unsound
<1> QED BY <1>1, <1>2, <1>3, <1>4, <1>5, <1>6, <1>7, AxisPlaces

\* And on those that are sound, all at one depth if it is found from one depth.
LEMMA DepthOnAxis ==
  ASSUME LocalNamesDiffer, NEW doc \in Documents, NEW axis \in Axes, axis \in Level,
         NEW m \in AllNodes(doc), NEW n \in AllNodes(doc), Len(m.at) = Len(n.at),
         IsAttribute(m) <=> IsAttribute(n),
         NEW x \in OnAxis(doc, axis, m), NEW y \in OnAxis(doc, axis, n)
  PROVE  Len(x.at) = Len(y.at)
<1>1. x \in AllNodes(doc) /\ y \in AllNodes(doc)
  BY AxisInDocument
<1>2. Len(x.at) \in Nat /\ Len(y.at) \in Nat
  <2>1. x.at \in Path /\ y.at \in Path
    BY <1>1, DocumentInOrder
  <2> QED BY <2>1 DEF Path
<1>3. CASE axis = "self"
  BY <1>3 DEF OnAxis, SelfAxis
<1>4. CASE axis = "child"
  BY <1>1, <1>4, AxisPlaces DEF OnAxis
<1>5. CASE axis = "parent"
  <2>1. x \in ParentAxis(doc, m) /\ y \in ParentAxis(doc, n)
    BY <1>5 DEF OnAxis
  <2> QED BY <1>1, <1>2, <2>1, AxisPlaces
<1>6. CASE axis = "following-sibling"
  BY <1>1, <1>6, AxisPlaces DEF OnAxis
<1>7. CASE axis = "preceding-sibling"
  BY <1>1, <1>7, AxisPlaces DEF OnAxis
<1>8. CASE axis = "attribute"
  BY <1>1, <1>8, AxisPlaces DEF OnAxis
<1> QED BY <1>3, <1>4, <1>5, <1>6, <1>7, <1>8 DEF Level

\* So the nodes taken for peers are peers after a step, if they were before.
LEMMA StepPeers ==
  ASSUME LocalNamesDiffer, Shape, Shape', NEW selector \in Selectors, Step(selector),
         sequenceHasPeerProperty => OneKind(reached), PeersAreDisjoint
  PROVE  (sequenceHasPeerProperty => OneKind(reached))' /\ PeersAreDisjoint'
<1>1. selector.axis \in Axes /\ document \in Documents /\ reached \in SUBSET AllNodes(document)
  BY SelectorAxis DEF Shape
<1>2. document' = document /\ sound' = (sound /\ selector.axis \notin Unsound)
  BY DEF Step
<1>3. ASSUME sequenceHasPeerProperty'
      PROVE  OneKind(reached')
  <2>1. OneKind(reached) /\ selector.axis \in Level \cup Unsound
    BY <1>3, PeerAxes
  <2>2. ASSUME NEW x \in reached'
        PROVE  \E n \in reached :
                 /\ selector.axis \in {"self", "union"} => (IsAttribute(x) <=> IsAttribute(n))
                 /\ selector.axis = "attribute" => IsAttribute(x)
                 /\ selector.axis \notin {"self", "union", "attribute"} => ~IsAttribute(x)
    <3>1. PICK n \in reached : x \in OnAxis(document, selector.axis, n)
      BY ReachedOnAxis
    <3> QED BY <1>1, <2>1, <3>1, KindOnAxis
  <2> QED BY <2>1, <2>2 DEF OneKind
<1>4. ASSUME sound', sequenceHasPeerProperty'
      PROVE  ArePeers(reached')
  <2>1. sequenceHasPeerProperty /\ sound /\ selector.axis \in Level
    BY <1>2, <1>4, PeerAxes
  <2>2. OneKind(reached) /\ ArePeers(reached) /\ OneKind(reached')
    BY <1>3, <1>4, <2>1 DEF PeersAreDisjoint
  <2>3. ASSUME NEW x \in reached', NEW y \in reached'
        PROVE  Len(x.at) = Len(y.at)
    <3>1. PICK m \in reached : x \in OnAxis(document, selector.axis, m)
      BY ReachedOnAxis
    <3>2. PICK n \in reached : y \in OnAxis(document, selector.axis, n)
      BY ReachedOnAxis
    <3>3. Len(m.at) = Len(n.at) /\ (IsAttribute(m) <=> IsAttribute(n))
      BY <2>2 DEF ArePeers, OneKind
    <3> QED BY <1>1, <2>1, <3>1, <3>2, <3>3, DepthOnAxis
  <2>4. reached' \in SUBSET NodesOf({1})
    <3>1. reached' \in SUBSET AllNodes(document)
      BY <1>2 DEF Shape
    <3> QED BY <1>1, <3>1, DocumentInOrder
  <2>5. \A x, y \in reached' : Len(x.at) = Len(y.at)
    BY <2>3
  <2>6. \A x, y \in reached' : ~IsAncestor(x, y)
    BY <2>2, <2>4, <2>5, OneDepthPeers DEF ArePeers
  <2> QED BY <2>5, <2>6 DEF ArePeers
<1> QED BY <1>3, <1>4 DEF PeersAreDisjoint

-----------------------------------------------------------------------------
(* The path. *)

\* It starts from one node.
LEMMA InitPath ==
  ASSUME LocalNamesDiffer, Init
  PROVE  PathInv
<1>1. PICK n \in AllNodes(document) : result = <<n>> /\ reached = {n}
  BY DEF Init
<1>2. document \in Documents /\ sequenceHasPeerProperty = TRUE /\ steps = 0 /\ sound = TRUE
  BY DEF Init
<1>3. <<n>> \in Seq(AllNodes(document)) /\ ToSet(<<n>>) = {n} /\ Strictly(<<n>>)
  BY OneNode
<1>4. OneKind({n})
  BY DEF OneKind
<1>5. ArePeers({n})
  <2>1. {n} \in SUBSET NodesOf({1})
    BY <1>2, DocumentInOrder
  <2>2. \A x, y \in {n} : Len(x.at) = Len(y.at)
    OBVIOUS
  <2>3. \A x, y \in {n} : ~IsAncestor(x, y)
    BY <1>4, <2>1, <2>2, OneDepthPeers DEF ArePeers
  <2> QED BY <2>2, <2>3 DEF ArePeers
<1>6. Shape
  BY <1>1, <1>2, <1>3, MaxStepsIsNumber DEF Shape
<1> QED BY <1>1, <1>2, <1>3, <1>4, <1>5, <1>6 DEF PathInv, PeersAreDisjoint

\* And every step keeps the invariant.
LEMMA PathSteps ==
  ASSUME LocalNamesDiffer, PathInv, [Next]_vars
  PROVE  PathInv'
<1>1. CASE UNCHANGED vars
  BY <1>1 DEF vars, PathInv, Shape, PeersAreDisjoint, AllNodes, Elements, Attributes
<1>2. CASE Next
  <2>1. PICK selector \in Selectors : Step(selector)
    BY <1>2 DEF Next
  <2>2. /\ Shape /\ ToSet(result) = reached /\ (sound => Strictly(result))
        /\ (sequenceHasPeerProperty => OneKind(reached)) /\ PeersAreDisjoint
    BY DEF PathInv
  <2>3. /\ Shape' /\ ToSet(result') = reached'
        /\ Strictly(result) /\ (sequenceHasPeerProperty => ArePeers(reached) /\ OneKind(reached))
             => Strictly(result')
    BY <2>1, <2>2, StepResult
  <2>4. (sequenceHasPeerProperty => OneKind(reached))' /\ PeersAreDisjoint'
    BY <2>1, <2>2, <2>3, StepPeers
  <2>5. sound' => Strictly(result')
    <3>1. sound' => sound
      BY <2>1 DEF Step
    <3> QED BY <2>2, <2>3, <3>1 DEF PeersAreDisjoint
  <2> QED BY <2>3, <2>4, <2>5 DEF PathInv
<1> QED BY <1>1, <1>2

\* The invariant of a path expression: the nodes so far are those the path denotes,
\* in document order, and all at one depth and of one kind while the flag says that
\* they are peers.  Only documents where two attributes of an element share their local
\* name are left out: the comparison puts each of two such before the other.
THEOREM PathInvariant ==
  ASSUME LocalNamesDiffer
  PROVE  Spec => []PathInv
<1>1. Init => PathInv
  BY InitPath
<1>2. PathInv /\ [Next]_vars => PathInv'
  BY PathSteps
<1> QED BY <1>1, <1>2, PTL DEF Spec

\* The nodes of a sequence in document order are different nodes.
LEMMA NoNodeTwice ==
  ASSUME NEW N, IsFiniteSet(N), Ordered(N), NEW s \in Seq(N), Strictly(s)
  PROVE  Len(s) <= Cardinality(N)
<1>1. Len(s) \in Nat /\ DOMAIN s = 1 .. Len(s) /\ s \in [1 .. Len(s) -> N] /\ Cardinality(N) \in Nat
  BY FS_CardinalityType
<1>2. IsFiniteSet(1 .. Len(s)) /\ Cardinality(1 .. Len(s)) = Len(s)
  <2> DEFINE n == Len(s)
  <2>1. n \in Int /\ 1 \in Int /\ n >= 0
    BY <1>1
  <2> HIDE DEF n
  <2>2. IsFiniteSet(1 .. n) /\ Cardinality(1 .. n) = IF 1 > n THEN 0 ELSE n - 1 + 1
    BY <2>1, FS_Interval
  <2>3. (IF 1 > n THEN 0 ELSE n - 1 + 1) = n
    BY <2>1
  <2> QED BY <2>2, <2>3 DEF n
<1>3. SUFFICES ASSUME Cardinality(N) < Cardinality(1 .. Len(s))
               PROVE  FALSE
  BY <1>1, <1>2
<1>4. PICK x, y \in 1 .. Len(s) : x # y /\ s[x] = s[y]
  BY <1>1, <1>2, <1>3, FS_PigeonHole
<1>5. Precedes(s[x], s[x])
  <2>1. x < y \/ y < x
    BY <1>1, <1>4
  <2> QED BY <1>1, <1>4, <2>1 DEF Strictly
<1>6. s[x] \in N
  BY <1>1
<1> QED BY <1>5, <1>6 DEF Ordered

\* A path expression without an unsound step returns its nodes in document order and none
\* twice, whichever of the three ways combined them, for any document and any path.
THEOREM PathInDocumentOrder ==
  ASSUME LocalNamesDiffer
  PROVE  Spec => []InDocumentOrder
<1>1. PathInv => InDocumentOrder
  <2> SUFFICES ASSUME PathInv, sound
               PROVE  IsInDocumentOrder(result)
    BY DEF InDocumentOrder
  <2>1. Shape /\ Strictly(result)
    BY DEF PathInv
  <2>2. Ordered(AllNodes(document)) /\ result \in Seq(AllNodes(document))
    BY <2>1, DocumentInOrder DEF Shape
  <2> QED BY <2>1, <2>2, NeighboursInOrder
<1> QED BY <1>1, PathInvariant, PTL

\* It returns exactly the nodes it denotes, the unsound steps included.
THEOREM PathReachesExactly ==
  ASSUME LocalNamesDiffer
  PROVE  Spec => []ExactlyTheNodesReached
<1>1. PathInv => ExactlyTheNodesReached
  <2> SUFFICES ASSUME PathInv
               PROVE  TypeOK /\ ToSet(result) = reached
    BY DEF ExactlyTheNodesReached
  <2>1. Shape /\ ToSet(result) = reached /\ (sound => Strictly(result))
    BY DEF PathInv
  <2>2. /\ Ordered(AllNodes(document)) /\ IsFiniteSet(AllNodes(document))
        /\ result \in Seq(AllNodes(document))
    BY <2>1, DocumentInOrder DEF Shape
  <2>3. sound => Len(result) <= Cardinality(AllNodes(document))
    BY <2>1, <2>2, NoNodeTwice
  <2> QED BY <2>1, <2>3 DEF TypeOK, Shape
<1> QED BY <1>1, PathInvariant, PTL

\* While it takes the nodes so far for peers, they are, unless an unsound step was taken.
THEOREM PathPeersAreDisjoint ==
  ASSUME LocalNamesDiffer
  PROVE  Spec => []PeersAreDisjoint
<1>1. PathInv => PeersAreDisjoint
  BY DEF PathInv
<1> QED BY <1>1, PathInvariant, PTL

\* Every step, on every axis, sound or not, turns nodes in document order into nodes in
\* document order if those taken for peers are peers.
THEOREM PathStepKeepsOrder ==
  ASSUME LocalNamesDiffer
  PROVE  Spec => StepKeepsOrder
<1>1. ASSUME PathInv, [Next]_vars
      PROVE  [IsInDocumentOrder(result) /\ (sequenceHasPeerProperty => ArePeers(reached))
                => IsInDocumentOrder(result')]_vars
  <2>1. CASE UNCHANGED vars
    BY <2>1
  <2>2. CASE Next
    <3> SUFFICES ASSUME IsInDocumentOrder(result), sequenceHasPeerProperty => ArePeers(reached)
                 PROVE  IsInDocumentOrder(result')
      OBVIOUS
    <3>1. PICK selector \in Selectors : Step(selector)
      BY <2>2 DEF Next
    <3>2. Shape /\ ToSet(result) = reached /\ (sequenceHasPeerProperty => OneKind(reached))
      BY <1>1 DEF PathInv
    <3>3. Ordered(AllNodes(document)) /\ result \in Seq(AllNodes(document))
      BY <3>2, DocumentInOrder DEF Shape
    <3>4. Strictly(result)
      BY <3>3, NeighboursInOrder
    <3>5. Shape' /\ Strictly(result')
      BY <3>1, <3>2, <3>4, StepResult
    <3>6. document' = document
      BY <3>1 DEF Step
    <3>7. result' \in Seq(AllNodes(document))
      BY <3>5, <3>6 DEF Shape
    <3> QED BY <3>3, <3>5, <3>7, NeighboursInOrder
  <2> QED BY <1>1, <2>1, <2>2
<1> QED BY <1>1, PathInvariant, PTL DEF Spec, StepKeepsOrder
=============================================================================
