----------------------- MODULE NodeSetOperatorsProofs -----------------------
(***************************************************************************)
(* One pass over two operands in document order decides every node of the  *)
(* first: for any finite tree, whatever the operands claim of their order. *)
(***************************************************************************)
EXTENDS NodeSetOperators, DocumentOrderProofs

A == ToSet(operands[1].values)
B == ToSet(operands[2].values)

\* The nodes of an operand that were not yet decided on, or not yet compared.
RestOf(held, left) == (IF held = Null THEN {} ELSE {held}) \cup ToSet(left)
RestOfA == RestOf(firstValue, first)
RestOfB == RestOf(secondValue, second)

Shape ==
  /\ operator \in Operators
  /\ operands \in [1 .. 2 -> Operand]
  /\ first \in Seq(Nodes) /\ second \in Seq(Nodes)
  /\ firstValue \in Nodes \cup {Null} /\ secondValue \in Nodes \cup {Null}
  /\ secondIteratorDone \in BOOLEAN /\ done \in BOOLEAN
  /\ result \in Seq(Nodes)

\* What is left of an operand is in order, after the node pulled from it.
OperandsInOrder ==
  /\ Strictly(first) /\ Strictly(second)
  /\ firstValue # Null => AllBefore({firstValue}, ToSet(first))
  /\ secondValue # Null => AllBefore({secondValue}, ToSet(second))
  /\ RestOfA \subseteq A /\ RestOfB \subseteq B

\* The nodes of the second operand that were passed come before what is left of the
\* first, so none of them is there.
PassedBefore ==
  /\ AllBefore(B \ RestOfB, RestOfA)
  /\ secondIteratorDone => RestOfB = {}

\* The nodes decided on were returned if they are denoted, in order.
DecidedRightly ==
  /\ ToSet(result) = Denoted \ RestOfA
  /\ AllBefore(ToSet(result), RestOfA)

SetsInv ==
  /\ Shape
  /\ Strictly(result)
  /\ operator = "unionOp" => result = <<>> \/ done
  /\ operator # "unionOp" => OperandsInOrder /\ PassedBefore /\ DecidedRightly
  /\ done => ToSet(result) = Denoted

-----------------------------------------------------------------------------
\* The nodes are in one order, and the comparison answers with it.
LEMMA NodesInOrder ==
  ASSUME NamesDiffer(Nodes)
  PROVE  Ordered(Nodes) /\ \A seen : Decides(seen, Nodes)
<1>1. PICK tree : \A n \in Nodes : n.tree = tree
  BY NodesOfATree
<1>2. OneTree(tree, Nodes)
  BY <1>1, NodesOfATree DEF OneTree, NodesOf, Path
<1> QED BY <1>2, TreeOrdered, TreeDecides

\* A set of nodes written in document order.
LEMMA SetInOrder ==
  ASSUME NamesDiffer(Nodes), NEW S \in SUBSET Nodes
  PROVE  LET s == InDocumentOrderOf(S) IN s \in Seq(Nodes) /\ ToSet(s) = S /\ Strictly(s)
<1>1. IsFiniteSet(S) /\ Ordered(S)
  BY NodesInOrder, NodesOfATree, OrderedSubset, FS_Subset
<1>2. InDocumentOrderOf(S) \in Seq(S) /\ Strictly(InDocumentOrderOf(S))
  BY <1>1, InOrderOf
<1>3. ToSet(InDocumentOrderOf(S)) = S
  BY <1>1, InOrderSet
<1>4. InDocumentOrderOf(S) \in Seq(Nodes)
  BY <1>2
<1> QED BY <1>2, <1>3, <1>4

\* What an operand returns, as it claims.
LEMMA OperandAsClaimed ==
  ASSUME NamesDiffer(Nodes), NEW operand \in Operand
  PROVE  /\ operand.order \in Claimed /\ operand.values \in Seq(Nodes)
         /\ operand.order = "sorted" => Strictly(operand.values)
         /\ operand.order = "reverse-sorted" =>
              \E s \in Seq(Nodes) : operand.values = Reverse(s) /\ Strictly(s)
<1>1. PICK order \in Claimed : operand \in [order : {order}, values : Returned(order)]
  BY DEF Operand
<1>2. operand.order = order /\ operand.values \in Returned(order)
  BY <1>1
<1>3. CASE order = "sorted"
  <2>1. \E S \in SUBSET Nodes : operand.values = InDocumentOrderOf(S)
    BY <1>2, <1>3 DEF Returned
  <2> QED BY <1>1, <1>2, <1>3, <2>1, SetInOrder
<1>4. CASE order = "reverse-sorted"
  <2>1. PICK S \in SUBSET Nodes : operand.values = Reverse(InDocumentOrderOf(S))
    BY <1>2, <1>4 DEF Returned
  <2>2. InDocumentOrderOf(S) \in Seq(Nodes) /\ Strictly(InDocumentOrderOf(S))
    BY SetInOrder
  <2>3. Reverse(InDocumentOrderOf(S)) \in Seq(Nodes)
    BY <2>2, ReverseItems
  <2> QED BY <1>1, <1>2, <1>4, <2>1, <2>2, <2>3
<1>5. CASE order = "unsorted"
  <2>1. \E n \in 0 .. MaxLen : operand.values \in [1 .. n -> Nodes]
    BY <1>2, <1>5 DEF Returned
  <2>2. operand.values \in Seq(Nodes)
    BY <2>1, MaxLenIsNumber
  <2> QED BY <1>1, <1>2, <1>5, <2>2
<1> QED BY <1>3, <1>4, <1>5 DEF Claimed

\* ensureSortedSequence brings it in document order.
LEMMA EnsuredOrder ==
  ASSUME NamesDiffer(Nodes), NEW operand \in Operand
  PROVE  EnsureSortedSequence(operand) \in Seq(Nodes) /\ Strictly(EnsureSortedSequence(operand))
<1>1. /\ operand.order \in Claimed /\ operand.values \in Seq(Nodes)
      /\ operand.order = "sorted" => Strictly(operand.values)
      /\ operand.order = "reverse-sorted" =>
           \E s \in Seq(Nodes) : operand.values = Reverse(s) /\ Strictly(s)
  BY OperandAsClaimed
<1>2. CASE operand.order = "sorted"
  BY <1>1, <1>2 DEF EnsureSortedSequence
<1>3. CASE operand.order = "reverse-sorted"
  <2>1. EnsureSortedSequence(operand) = Reverse(operand.values)
    BY <1>3 DEF EnsureSortedSequence
  <2>2. PICK s \in Seq(Nodes) : operand.values = Reverse(s) /\ Strictly(s)
    BY <1>1, <1>3
  <2>3. Reverse(Reverse(s)) = s
    BY ReverseTwice
  <2> QED BY <2>1, <2>2, <2>3
<1>4. CASE operand.order = "unsorted"
  <2>1. EnsureSortedSequence(operand) = SortNodeValues(<<>>, operand.values)
    BY <1>4 DEF EnsureSortedSequence
  <2>2. SortNodeValues(<<>>, operand.values) \in Seq(Nodes) /\ Strictly(SortNodeValues(<<>>, operand.values))
    BY <1>1, NodesInOrder, SortNodeValuesOrder
  <2> QED BY <2>1, <2>2
<1> QED BY <1>1, <1>2, <1>3, <1>4 DEF Claimed

\* And keeps its nodes.
LEMMA EnsuredSet ==
  ASSUME NamesDiffer(Nodes), NEW operand \in Operand
  PROVE  ToSet(EnsureSortedSequence(operand)) = ToSet(operand.values)
<1>1. operand.order \in Claimed /\ operand.values \in Seq(Nodes)
  BY OperandAsClaimed
<1>2. ToSet(Reverse(operand.values)) = ToSet(operand.values)
  BY <1>1, ReverseSet
<1>3. ToSet(SortNodeValues(<<>>, operand.values)) = ToSet(operand.values)
  BY <1>1, SortNodeValuesOrder
<1> QED BY <1>1, <1>2, <1>3 DEF EnsureSortedSequence, Claimed

\* The values of the two operands, as union takes them.
LEMMA TwoValues ==
  ASSUME NamesDiffer(Nodes), NEW ops \in [1 .. 2 -> Operand], NEW values,
         values = [i \in 1 .. 2 |-> ops[i].values]
  PROVE  values \in Seq(Seq(Nodes)) /\ Held(values) = ToSet(ops[1].values) \cup ToSet(ops[2].values)
<1>1. ops[1] \in Operand /\ ops[2] \in Operand
  OBVIOUS
<1>2. ops[1].values \in Seq(Nodes) /\ ops[2].values \in Seq(Nodes)
  BY <1>1, OperandAsClaimed
<1>3. /\ values \in Seq(Seq(Nodes)) /\ Len(values) = 2
      /\ values[1] = ops[1].values /\ values[2] = ops[2].values
  BY <1>2
<1>4. 1 .. 2 = {1, 2}
  OBVIOUS
<1>5. Held(values) = ToSet(values[1]) \cup ToSet(values[2])
  BY <1>3, <1>4 DEF Held
<1> QED BY <1>3, <1>5

-----------------------------------------------------------------------------
\* The node a is decided on, before the nodes of R: from the result s to the result t.
Deciding(R, a, D, s, t) ==
  /\ R \in SUBSET Nodes /\ a \in Nodes /\ AllBefore({a}, R)
  /\ s \in Seq(Nodes) /\ Strictly(s) /\ ToSet(s) = D \ ({a} \cup R) /\ AllBefore(ToSet(s), {a} \cup R)
  /\ t = IF a \in D THEN Append(s, a) ELSE s

\* It is returned if it is denoted, in order.
LEMMA DecideOrder ==
  ASSUME NEW R, NEW a, NEW D, NEW s, NEW t, Deciding(R, a, D, s, t)
  PROVE  t \in Seq(Nodes) /\ Strictly(t) /\ AllBefore(ToSet(t), R)
<1> USE DEF Deciding
<1>1. ToSet(Append(s, a)) = ToSet(s) \cup {a}
  BY AppendSet
<1>2. Append(s, a) \in Seq(Nodes) /\ Strictly(Append(s, a))
  <2>1. AllBefore(ToSet(s), {a})
    BY DEF AllBefore
  <2> QED BY <2>1, AppendOrder
<1> QED BY <1>1, <1>2 DEF AllBefore

\* Then all that is denoted, but for the rest, was returned.
LEMMA DecideSet ==
  ASSUME NamesDiffer(Nodes), NEW R, NEW a, NEW D, NEW s, NEW t, Deciding(R, a, D, s, t)
  PROVE  ToSet(t) = D \ R
<1> USE DEF Deciding
<1>1. ToSet(Append(s, a)) = ToSet(s) \cup {a}
  BY AppendSet
<1>2. a \notin R
  BY NodesInOrder DEF AllBefore, Ordered
<1> QED BY <1>1, <1>2

\* What each operator denotes, and that it stays what it is.
LEMMA DenotedIs ==
  /\ operator = "unionOp" => Denoted = A \cup B
  /\ operator = "intersectOp" => Denoted = A \cap B
  /\ operator = "exceptOp" => Denoted = A \ B
BY DEF Denoted, A, B

LEMMA DenotedStays ==
  ASSUME operator' = operator, operands' = operands
  PROVE  A' = A /\ B' = B /\ Denoted' = Denoted
BY DEF Denoted, A, B

\* A node is in the second operand if it is left there, or it is none of the first's rest.
LEMMA RestHasNodes ==
  ASSUME Shape
  PROVE  RestOfA \in SUBSET Nodes /\ RestOfB \in SUBSET Nodes
<1>1. ToSet(first) \in SUBSET Nodes /\ ToSet(second) \in SUBSET Nodes
  BY ToSetFacts DEF Shape
<1> QED BY <1>1 DEF Shape, RestOfA, RestOfB, RestOf

-----------------------------------------------------------------------------
\* The operands, brought in order, are all still left.
LEMMA InitSets ==
  ASSUME NamesDiffer(Nodes), Init
  PROVE  SetsInv
<1>1. operands[1] \in Operand /\ operands[2] \in Operand /\ operands \in [1 .. 2 -> Operand]
  BY DEF Init
<1>2. first \in Seq(Nodes) /\ Strictly(first) /\ second \in Seq(Nodes) /\ Strictly(second)
  BY <1>1, EnsuredOrder DEF Init
<1>3. ToSet(first) = A
  BY <1>1, EnsuredSet DEF Init, A
<1>4. ToSet(second) = B
  BY <1>1, EnsuredSet DEF Init, B
<1>5. Shape
  <2>1. /\ operator \in Operators /\ firstValue = Null /\ secondValue = Null
        /\ secondIteratorDone = FALSE /\ done = FALSE /\ result = <<>>
    BY DEF Init
  <2>2. result \in Seq(Nodes)
    BY <2>1
  <2>3. secondIteratorDone \in BOOLEAN /\ done \in BOOLEAN
    BY <2>1, Zenon
  <2> QED BY <1>1, <1>2, <2>1, <2>2, <2>3, Zenon DEF Shape
<1>6. RestOfA = A /\ RestOfB = B
  BY <1>3, <1>4 DEF Init, RestOfA, RestOfB, RestOf
<1>7. OperandsInOrder
  BY <1>2, <1>6 DEF Init, OperandsInOrder
<1>8. PassedBefore
  BY <1>6 DEF Init, PassedBefore, AllBefore
<1>9. operator # "unionOp" => DecidedRightly
  <2>1. ToSet(result) = {}
    BY NoNode DEF Init
  <2>2. operator # "unionOp" => Denoted \subseteq A
    BY <1>5, DenotedIs DEF Shape, Operators
  <2> QED BY <1>6, <2>1, <2>2 DEF DecidedRightly, AllBefore
<1>10. Strictly(result)
  BY NoNode DEF Init
<1> QED BY <1>5, <1>7, <1>8, <1>9, <1>10 DEF Init, SetsInv

\* The union of two operands, merged or sorted.
LEMMA UnionKeeps ==
  ASSUME NamesDiffer(Nodes), SetsInv, Union
  PROVE  SetsInv'
<1> DEFINE values == [i \in 1 .. 2 |-> operands[i].values]
<1>1. /\ operator = "unionOp" /\ done' = TRUE /\ operator' = operator /\ operands' = operands
      /\ first' = first /\ second' = second /\ firstValue' = firstValue /\ secondValue' = secondValue
      /\ secondIteratorDone' = secondIteratorDone
  BY DEF Union
<1>2. operands \in [1 .. 2 -> Operand] /\ operands[1] \in Operand /\ operands[2] \in Operand
  BY DEF SetsInv, Shape
<1>3. values \in Seq(Seq(Nodes)) /\ Held(values) = A \cup B
  BY <1>2, TwoValues DEF A, B
<1>4. IF \A i \in 1 .. 2 : operands[i].order = "sorted"
        THEN result' \in MergeSortedSequences(<<>>, values)
        ELSE result' = SortNodeValues(<<>>, FlattenSeq(values))
  BY DEF Union
<1>5. (\A i \in 1 .. 2 : operands[i].order = "sorted") => \A i \in 1 .. Len(values) : Strictly(values[i])
  <2>1. Len(values) = 2 /\ \A i \in 1 .. 2 : values[i] = operands[i].values /\ operands[i] \in Operand
    BY <1>2
  <2> HIDE DEF values
  <2> QED BY <2>1, OperandAsClaimed
<1> HIDE DEF values
<1>6. result' \in Seq(Nodes) /\ ToSet(result') = A \cup B /\ Strictly(result')
  <2>1. CASE \A i \in 1 .. 2 : operands[i].order = "sorted"
    BY <1>3, <1>4, <1>5, <2>1, NodesInOrder, MergeSortedOrder
  <2>2. CASE ~ \A i \in 1 .. 2 : operands[i].order = "sorted"
    <3> DEFINE flat == FlattenSeq(values)
    <3>1. flat \in Seq(Nodes) /\ ToSet(flat) = A \cup B
      BY <1>3, FlattenOrder
    <3> HIDE DEF flat
    <3>2. SortNodeValues(<<>>, flat) \in Seq(Nodes) /\ Strictly(SortNodeValues(<<>>, flat))
      BY <3>1, NodesInOrder, SortNodeValuesOrder
    <3>3. ToSet(SortNodeValues(<<>>, flat)) = ToSet(flat)
      BY <3>1, SortNodeValuesOrder
    <3>4. result' = SortNodeValues(<<>>, flat)
      BY <1>4, <2>2 DEF flat
    <3> QED BY <3>1, <3>2, <3>3, <3>4
  <2> QED BY <2>1, <2>2
<1>7. ToSet(result)' = Denoted'
  BY <1>1, <1>6, DenotedIs, DenotedStays
<1>8. Shape'
  BY <1>1, <1>6 DEF SetsInv, Shape
<1> QED BY <1>1, <1>6, <1>7, <1>8 DEF SetsInv

-----------------------------------------------------------------------------
\* A sequence in order is its head, before the nodes of its tail.
LEMMA TakeHead ==
  ASSUME NEW s \in Seq(Nodes), Strictly(s), s # <<>>
  PROVE  /\ Head(s) \in Nodes /\ Head(s) # Null /\ Tail(s) \in Seq(Nodes) /\ Strictly(Tail(s))
         /\ AllBefore({Head(s)}, ToSet(Tail(s)))
         /\ ToSet(s) = {Head(s)} \cup ToSet(Tail(s))
<1>1. ToSet(s) = {Head(s)} \cup ToSet(Tail(s))
  BY HeadTailSet
<1>2. Head(s) \in Nodes /\ Tail(s) \in Seq(Nodes) /\ Strictly(Tail(s)) /\ AllBefore({Head(s)}, ToSet(Tail(s)))
  BY HeadTailOrder
<1> QED BY <1>1, <1>2, NullIsNoNode

\* The single pass, opened.
LEMMA InPass ==
  ASSUME SetsInv, operator # "unionOp"
  PROVE  Shape /\ Strictly(result) /\ OperandsInOrder /\ PassedBefore /\ DecidedRightly
BY DEF SetsInv

\* Pulling the next node of the first operand, or finding that there is none.
LEMMA PullFirstKeeps ==
  ASSUME NamesDiffer(Nodes), SetsInv, PullFirst
  PROVE  SetsInv'
<1>1. operator # "unionOp" /\ ~done /\ firstValue = Null
  BY DEF PullFirst, Loops
<1>2. Shape /\ Strictly(result) /\ OperandsInOrder /\ PassedBefore /\ DecidedRightly
  BY <1>1, InPass
<1>3. CASE first = <<>>
  <2>1. /\ done' = TRUE /\ operator' = operator /\ operands' = operands /\ first' = first /\ second' = second
        /\ firstValue' = firstValue /\ secondValue' = secondValue
        /\ secondIteratorDone' = secondIteratorDone /\ result' = result
    BY <1>3 DEF PullFirst, Finish
  <2>2. RestOfA = {}
    BY <1>1, <1>3, NoNode DEF RestOfA, RestOf
  <2>3. ToSet(result) = Denoted
    BY <1>2, <2>2 DEF DecidedRightly
  <2>4. A' = A /\ B' = B /\ Denoted' = Denoted /\ RestOfA' = RestOfA /\ RestOfB' = RestOfB
    BY <2>1, DenotedStays DEF RestOfA, RestOfB
  <2>5. Shape'
    BY <1>2, <2>1 DEF Shape
  <2>6. OperandsInOrder' /\ PassedBefore' /\ DecidedRightly'
    BY <1>2, <2>1, <2>4 DEF OperandsInOrder, PassedBefore, DecidedRightly
  <2>7. Strictly(result') /\ ToSet(result') = Denoted'
    BY <1>2, <2>1, <2>3, <2>4
  <2> QED BY <1>1, <2>1, <2>5, <2>6, <2>7 DEF SetsInv
<1>4. CASE first # <<>>
  <2>1. /\ firstValue' = Head(first) /\ first' = Tail(first)
        /\ operator' = operator /\ operands' = operands /\ second' = second /\ secondValue' = secondValue
        /\ secondIteratorDone' = secondIteratorDone /\ done' = done /\ result' = result
    BY <1>4 DEF PullFirst
  <2>2. first \in Seq(Nodes) /\ Strictly(first)
    BY <1>2 DEF Shape, OperandsInOrder
  <2>3. /\ Head(first) \in Nodes /\ Head(first) # Null /\ Tail(first) \in Seq(Nodes) /\ Strictly(Tail(first))
        /\ AllBefore({Head(first)}, ToSet(Tail(first)))
        /\ ToSet(first) = {Head(first)} \cup ToSet(Tail(first))
    BY <1>4, <2>2, TakeHead
  <2>4. RestOfA' = RestOfA /\ RestOfB' = RestOfB
    BY <1>1, <2>1, <2>3 DEF RestOfA, RestOfB, RestOf
  <2>5. A' = A /\ B' = B /\ Denoted' = Denoted
    BY <2>1, DenotedStays
  <2>6. Shape'
    BY <1>2, <2>1, <2>3 DEF Shape
  <2>7. OperandsInOrder'
    BY <1>2, <2>1, <2>3, <2>4, <2>5 DEF OperandsInOrder
  <2>8. PassedBefore' /\ DecidedRightly'
    BY <1>2, <2>1, <2>4, <2>5 DEF PassedBefore, DecidedRightly
  <2> QED BY <1>1, <1>2, <2>1, <2>6, <2>7, <2>8 DEF SetsInv
<1> QED BY <1>3, <1>4

\* Pulling the next node of the second.
LEMMA PullSecondKeeps ==
  ASSUME NamesDiffer(Nodes), SetsInv, PullSecond
  PROVE  SetsInv'
<1>1. operator # "unionOp" /\ ~done /\ secondValue = Null
  BY DEF PullSecond, Loops
<1>2. Shape /\ Strictly(result) /\ OperandsInOrder /\ PassedBefore /\ DecidedRightly
  BY <1>1, InPass
<1>3. /\ operator' = operator /\ operands' = operands /\ first' = first /\ firstValue' = firstValue
      /\ done' = done /\ result' = result
  BY DEF PullSecond
<1>4. A' = A /\ B' = B /\ Denoted' = Denoted /\ RestOfA' = RestOfA
  BY <1>3, DenotedStays DEF RestOfA
<1>5. second \in Seq(Nodes) /\ Strictly(second)
  BY <1>2 DEF Shape, OperandsInOrder
<1>6. CASE second = <<>>
  <2>1. secondIteratorDone' = TRUE /\ second' = second /\ secondValue' = secondValue
    BY <1>6 DEF PullSecond
  <2>2. RestOfB = {} /\ RestOfB' = RestOfB
    BY <1>1, <1>6, <2>1, NoNode DEF RestOfB, RestOf
  <2>3. Shape'
    BY <1>2, <1>3, <2>1 DEF Shape
  <2>4. OperandsInOrder' /\ PassedBefore' /\ DecidedRightly'
    BY <1>2, <1>3, <1>4, <2>1, <2>2 DEF OperandsInOrder, PassedBefore, DecidedRightly
  <2> QED BY <1>1, <1>2, <1>3, <2>3, <2>4 DEF SetsInv
<1>7. CASE second # <<>>
  <2>1. secondValue' = Head(second) /\ second' = Tail(second) /\ secondIteratorDone' = secondIteratorDone
    BY <1>7 DEF PullSecond
  <2>2. /\ Head(second) \in Nodes /\ Head(second) # Null /\ Tail(second) \in Seq(Nodes) /\ Strictly(Tail(second))
        /\ AllBefore({Head(second)}, ToSet(Tail(second)))
        /\ ToSet(second) = {Head(second)} \cup ToSet(Tail(second))
    BY <1>5, <1>7, TakeHead
  <2>3. RestOfB' = RestOfB
    BY <1>1, <2>1, <2>2 DEF RestOfB, RestOf
  <2>4. Shape'
    BY <1>2, <1>3, <2>1, <2>2 DEF Shape
  <2>5. OperandsInOrder'
    BY <1>2, <1>3, <1>4, <2>1, <2>2, <2>3 DEF OperandsInOrder
  <2>6. PassedBefore' /\ DecidedRightly'
    BY <1>2, <1>3, <1>4, <2>1, <2>3 DEF PassedBefore, DecidedRightly
  <2> QED BY <1>1, <1>2, <1>3, <2>4, <2>5, <2>6 DEF SetsInv
<1> QED BY <1>6, <1>7

\* What is left of the operands once the node held of each was decided on.
LEMMA HeldFirst ==
  ASSUME Shape, OperandsInOrder, firstValue # Null
  PROVE  /\ firstValue \in Nodes /\ firstValue \in A /\ ToSet(first) \in SUBSET Nodes
         /\ AllBefore({firstValue}, ToSet(first)) /\ RestOfA = {firstValue} \cup ToSet(first)
<1>1. ToSet(first) \in SUBSET Nodes
  BY ToSetFacts DEF Shape
<1> QED BY <1>1 DEF Shape, OperandsInOrder, RestOfA, RestOf

LEMMA HeldSecond ==
  ASSUME Shape, OperandsInOrder, secondValue # Null
  PROVE  /\ secondValue \in Nodes /\ secondValue \in B /\ ToSet(second) \in SUBSET Nodes
         /\ AllBefore({secondValue}, ToSet(second)) /\ RestOfB = {secondValue} \cup ToSet(second)
<1>1. ToSet(second) \in SUBSET Nodes
  BY ToSetFacts DEF Shape
<1> QED BY <1>1 DEF Shape, OperandsInOrder, RestOfB, RestOf

\* Deciding on a node of the first operand, and perhaps on one of the second.
LEMMA DecisionKeeps ==
  ASSUME NamesDiffer(Nodes), SetsInv, operator # "unionOp", ~done,
         operator' = operator, operands' = operands, done' = done,
         secondIteratorDone' = secondIteratorDone, Shape', OperandsInOrder', PassedBefore',
         NEW a \in Nodes, AllBefore({a}, RestOfA'), RestOfA = {a} \cup RestOfA',
         result' = IF a \in Denoted THEN Append(result, a) ELSE result
  PROVE  SetsInv'
<1>1. Shape /\ Strictly(result) /\ DecidedRightly
  BY InPass
<1>2. RestOfA' \in SUBSET Nodes
  <2>1. RestOfA \in SUBSET Nodes
    BY <1>1, RestHasNodes
  <2> QED BY <2>1
<1>3. Denoted' = Denoted
  BY DenotedStays
<1>4. result \in Seq(Nodes)
  BY <1>1 DEF Shape
<1>5. ToSet(result) = Denoted \ ({a} \cup RestOfA') /\ AllBefore(ToSet(result), {a} \cup RestOfA')
  BY <1>1 DEF DecidedRightly
<1>6. Deciding(RestOfA', a, Denoted, result, result')
  BY <1>1, <1>2, <1>4, <1>5 DEF Deciding
<1>7. Strictly(result') /\ AllBefore(ToSet(result'), RestOfA') /\ ToSet(result') = Denoted \ RestOfA'
  BY <1>6, DecideOrder, DecideSet
<1>8. DecidedRightly'
  BY <1>3, <1>7 DEF DecidedRightly
<1> QED BY <1>7, <1>8 DEF SetsInv

\* The nodes held are the same: both are decided on.
LEMMA SameNodeKeeps ==
  ASSUME NamesDiffer(Nodes), SetsInv, SameNode
  PROVE  SetsInv'
<1>1. /\ operator # "unionOp" /\ ~done /\ firstValue # Null /\ secondValue # Null /\ firstValue = secondValue
      /\ firstValue' = Null /\ secondValue' = Null /\ first' = first /\ second' = second
      /\ operator' = operator /\ operands' = operands /\ done' = done
      /\ secondIteratorDone' = secondIteratorDone
      /\ result' = IF operator = "intersectOp" THEN Append(result, firstValue) ELSE result
  BY DEF SameNode, Holding, Loops, Return
<1>2. Shape /\ OperandsInOrder /\ PassedBefore
  BY <1>1, InPass
<1>3. /\ firstValue \in Nodes /\ firstValue \in A /\ ToSet(first) \in SUBSET Nodes
      /\ AllBefore({firstValue}, ToSet(first)) /\ RestOfA = {firstValue} \cup ToSet(first)
  BY <1>1, <1>2, HeldFirst
<1>4. secondValue \in B /\ RestOfB = {secondValue} \cup ToSet(second)
  BY <1>1, <1>2, HeldSecond
<1>5. RestOfA' = ToSet(first) /\ RestOfB' = ToSet(second)
  BY <1>1 DEF RestOfA, RestOfB, RestOf
<1>6. A' = A /\ B' = B
  BY <1>1, DenotedStays
<1>7. firstValue \in Denoted <=> operator = "intersectOp"
  BY <1>1, <1>2, <1>3, <1>4, DenotedIs DEF Shape, Operators
<1>8. Shape'
  <2>1. Append(result, firstValue) \in Seq(Nodes)
    BY <1>2, <1>3 DEF Shape
  <2> QED BY <1>1, <1>2, <2>1 DEF Shape
<1>9. OperandsInOrder'
  BY <1>1, <1>2, <1>3, <1>4, <1>5, <1>6 DEF OperandsInOrder
<1>10. PassedBefore'
  BY <1>1, <1>2, <1>3, <1>4, <1>5, <1>6 DEF PassedBefore, AllBefore
<1>11. result' = IF firstValue \in Denoted THEN Append(result, firstValue) ELSE result
  BY <1>1, <1>7
<1> QED BY <1>1, <1>3, <1>5, <1>8, <1>9, <1>10, <1>11, DecisionKeeps

\* The node of the first operand comes before all that is left of the second: it is not there.
LEMMA FirstComesBeforeKeeps ==
  ASSUME NamesDiffer(Nodes), SetsInv, FirstComesBefore
  PROVE  SetsInv'
<1>1. /\ operator # "unionOp" /\ ~done /\ firstValue # Null /\ secondValue # Null /\ firstValue # secondValue
      /\ Compare(<<>>, firstValue, secondValue) < 0
      /\ firstValue' = Null /\ secondValue' = secondValue /\ first' = first /\ second' = second
      /\ operator' = operator /\ operands' = operands /\ done' = done
      /\ secondIteratorDone' = secondIteratorDone
      /\ result' = IF operator = "exceptOp" THEN Append(result, firstValue) ELSE result
  BY DEF FirstComesBefore, Holding, Loops, Return
<1>2. Shape /\ OperandsInOrder /\ PassedBefore
  BY <1>1, InPass
<1>3. /\ firstValue \in Nodes /\ firstValue \in A /\ ToSet(first) \in SUBSET Nodes
      /\ AllBefore({firstValue}, ToSet(first)) /\ RestOfA = {firstValue} \cup ToSet(first)
  BY <1>1, <1>2, HeldFirst
<1>4. /\ secondValue \in Nodes /\ ToSet(second) \in SUBSET Nodes
      /\ AllBefore({secondValue}, ToSet(second)) /\ RestOfB = {secondValue} \cup ToSet(second)
  BY <1>1, <1>2, HeldSecond
<1>5. RestOfA' = ToSet(first) /\ RestOfB' = RestOfB
  BY <1>1 DEF RestOfA, RestOfB, RestOf
<1>6. A' = A /\ B' = B
  BY <1>1, DenotedStays
<1>7. firstValue \notin B
  <2>1. Ordered(Nodes) /\ Decides(<<>>, Nodes)
    BY NodesInOrder
  <2>2. Compare(<<>>, firstValue, secondValue) \in Int
    BY <1>3, <1>4, <2>1 DEF Decides
  <2>3. Precedes(firstValue, secondValue)
    BY <1>1, <1>3, <1>4, <2>1, <2>2 DEF Decides
  <2>4. firstValue \notin RestOfB
    BY <1>3, <1>4, <2>1, <2>3 DEF Ordered, AllBefore
  <2>5. firstValue \notin B \ RestOfB
    BY <1>2, <1>3, <2>1 DEF PassedBefore, AllBefore, Ordered
  <2> QED BY <2>4, <2>5
<1>8. firstValue \in Denoted <=> operator = "exceptOp"
  BY <1>1, <1>2, <1>3, <1>7, DenotedIs DEF Shape, Operators
<1>9. Shape'
  <2>1. Append(result, firstValue) \in Seq(Nodes)
    BY <1>2, <1>3 DEF Shape
  <2> QED BY <1>1, <1>2, <2>1 DEF Shape
<1>10. OperandsInOrder'
  BY <1>1, <1>2, <1>3, <1>5, <1>6 DEF OperandsInOrder
<1>11. PassedBefore'
  BY <1>1, <1>2, <1>3, <1>5, <1>6 DEF PassedBefore, AllBefore
<1>12. result' = IF firstValue \in Denoted THEN Append(result, firstValue) ELSE result
  BY <1>1, <1>8
<1> QED BY <1>1, <1>3, <1>5, <1>9, <1>10, <1>11, <1>12, DecisionKeeps

\* The node of the second operand comes first: nothing left of the first is that node.
LEMMA SecondComesBeforeKeeps ==
  ASSUME NamesDiffer(Nodes), SetsInv, SecondComesBefore
  PROVE  SetsInv'
<1>1. /\ operator # "unionOp" /\ ~done /\ firstValue # Null /\ secondValue # Null /\ firstValue # secondValue
      /\ Compare(<<>>, firstValue, secondValue) >= 0
      /\ firstValue' = firstValue /\ secondValue' = Null /\ first' = first /\ second' = second
      /\ operator' = operator /\ operands' = operands /\ done' = done
      /\ secondIteratorDone' = secondIteratorDone /\ result' = result
  BY DEF SecondComesBefore, Holding, Loops
<1>2. Shape /\ Strictly(result) /\ OperandsInOrder /\ PassedBefore /\ DecidedRightly
  BY <1>1, InPass
<1>3. /\ firstValue \in Nodes /\ ToSet(first) \in SUBSET Nodes
      /\ AllBefore({firstValue}, ToSet(first)) /\ RestOfA = {firstValue} \cup ToSet(first)
  BY <1>1, <1>2, HeldFirst
<1>4. secondValue \in Nodes /\ RestOfB = {secondValue} \cup ToSet(second)
  BY <1>1, <1>2, HeldSecond
<1>5. RestOfA' = RestOfA /\ RestOfB' = ToSet(second)
  BY <1>1 DEF RestOfA, RestOfB, RestOf
<1>6. A' = A /\ B' = B /\ Denoted' = Denoted
  BY <1>1, DenotedStays
<1>7. AllBefore({secondValue}, RestOfA)
  <2>1. Ordered(Nodes) /\ Decides(<<>>, Nodes)
    BY NodesInOrder
  <2>2. Compare(<<>>, firstValue, secondValue) \in Int
    BY <1>3, <1>4, <2>1 DEF Decides
  <2>3. ~Precedes(firstValue, secondValue)
    BY <1>1, <1>3, <1>4, <2>1, <2>2 DEF Decides
  <2>4. Precedes(secondValue, firstValue)
    BY <1>1, <1>3, <1>4, <2>1, <2>3 DEF Ordered
  <2> QED BY <1>3, <1>4, <2>1, <2>4 DEF AllBefore, Ordered
<1>8. Shape'
  BY <1>1, <1>2 DEF Shape
<1>9. OperandsInOrder'
  BY <1>1, <1>2, <1>4, <1>5, <1>6 DEF OperandsInOrder
<1>10. PassedBefore'
  BY <1>1, <1>2, <1>4, <1>5, <1>6, <1>7 DEF PassedBefore, AllBefore
<1>11. DecidedRightly'
  BY <1>1, <1>2, <1>5, <1>6 DEF DecidedRightly
<1> QED BY <1>1, <1>2, <1>8, <1>9, <1>10, <1>11 DEF SetsInv

\* With nothing left of the second operand, no node left of the first is in it.
LEMMA NoneOfSecond ==
  ASSUME NamesDiffer(Nodes), Shape, PassedBefore, secondIteratorDone
  PROVE  \A n \in RestOfA : n \notin B
<1>1. RestOfA \in SUBSET Nodes
  BY RestHasNodes
<1>2. RestOfB = {}
  BY DEF PassedBefore
<1>3. AllBefore(B, RestOfA)
  BY <1>2 DEF PassedBefore
<1> QED BY <1>1, <1>3, NodesInOrder DEF AllBefore, Ordered

\* except returns the node it holds.
LEMMA ReturnHeldKeeps ==
  ASSUME NamesDiffer(Nodes), SetsInv, ReturnHeld
  PROVE  SetsInv'
<1>1. /\ operator = "exceptOp" /\ operator # "unionOp" /\ ~done /\ secondIteratorDone /\ firstValue # Null
      /\ firstValue' = Null /\ secondValue' = secondValue /\ first' = first /\ second' = second
      /\ operator' = operator /\ operands' = operands /\ done' = done
      /\ secondIteratorDone' = secondIteratorDone /\ result' = Append(result, firstValue)
  BY DEF ReturnHeld, Exhausted
<1>2. Shape /\ OperandsInOrder /\ PassedBefore
  BY <1>1, InPass
<1>3. /\ firstValue \in Nodes /\ firstValue \in A /\ ToSet(first) \in SUBSET Nodes
      /\ AllBefore({firstValue}, ToSet(first)) /\ RestOfA = {firstValue} \cup ToSet(first)
  BY <1>1, <1>2, HeldFirst
<1>4. RestOfA' = ToSet(first) /\ RestOfB' = RestOfB
  BY <1>1 DEF RestOfA, RestOfB, RestOf
<1>5. A' = A /\ B' = B
  BY <1>1, DenotedStays
<1>6. firstValue \in Denoted
  BY <1>1, <1>2, <1>3, NoneOfSecond, DenotedIs
<1>7. Shape'
  <2>1. Append(result, firstValue) \in Seq(Nodes)
    BY <1>2, <1>3 DEF Shape
  <2> QED BY <1>1, <1>2, <2>1 DEF Shape
<1>8. OperandsInOrder'
  BY <1>1, <1>2, <1>3, <1>4, <1>5 DEF OperandsInOrder
<1>9. PassedBefore'
  BY <1>1, <1>2, <1>3, <1>4, <1>5 DEF PassedBefore, AllBefore
<1>10. result' = IF firstValue \in Denoted THEN Append(result, firstValue) ELSE result
  BY <1>1, <1>6
<1> QED BY <1>1, <1>3, <1>4, <1>7, <1>8, <1>9, <1>10, DecisionKeeps

\* And then what is left of its first operand.
LEMMA ReturnRestKeeps ==
  ASSUME NamesDiffer(Nodes), SetsInv, ReturnRest
  PROVE  SetsInv'
<1> DEFINE a == Head(first)
<1>1. /\ operator = "exceptOp" /\ operator # "unionOp" /\ ~done /\ secondIteratorDone
      /\ firstValue = Null /\ first # <<>>
      /\ firstValue' = firstValue /\ secondValue' = secondValue /\ first' = Tail(first) /\ second' = second
      /\ operator' = operator /\ operands' = operands /\ done' = done
      /\ secondIteratorDone' = secondIteratorDone /\ result' = Append(result, a)
  BY DEF ReturnRest, Exhausted
<1>2. Shape /\ OperandsInOrder /\ PassedBefore
  BY <1>1, InPass
<1>3. /\ a \in Nodes /\ Tail(first) \in Seq(Nodes) /\ Strictly(Tail(first))
      /\ AllBefore({a}, ToSet(Tail(first))) /\ ToSet(first) = {a} \cup ToSet(Tail(first))
  BY <1>1, <1>2, TakeHead DEF Shape, OperandsInOrder
<1> HIDE DEF a
<1>4. RestOfA' = ToSet(Tail(first)) /\ RestOfA = {a} \cup ToSet(Tail(first)) /\ RestOfB' = RestOfB
  BY <1>1, <1>3 DEF RestOfA, RestOfB, RestOf
<1>5. A' = A /\ B' = B
  BY <1>1, DenotedStays
<1>6. a \in Denoted
  BY <1>1, <1>2, <1>4, NoneOfSecond, DenotedIs DEF OperandsInOrder
<1>7. Shape'
  <2>1. Append(result, a) \in Seq(Nodes)
    BY <1>2, <1>3 DEF Shape
  <2> QED BY <1>1, <1>2, <1>3, <2>1 DEF Shape
<1>8. OperandsInOrder'
  BY <1>1, <1>2, <1>3, <1>4, <1>5 DEF OperandsInOrder
<1>9. PassedBefore'
  BY <1>1, <1>2, <1>4, <1>5 DEF PassedBefore, AllBefore
<1>10. result' = IF a \in Denoted THEN Append(result, a) ELSE result
  BY <1>1, <1>6
<1> QED BY <1>1, <1>3, <1>4, <1>7, <1>8, <1>9, <1>10, DecisionKeeps

\* Nothing left to decide on, or nothing left to be found in the second operand.
LEMMA NothingLeftKeeps ==
  ASSUME NamesDiffer(Nodes), SetsInv, NothingLeft
  PROVE  SetsInv'
<1>1. /\ operator # "unionOp" /\ ~done /\ secondIteratorDone
      /\ operator = "exceptOp" => firstValue = Null /\ first = <<>>
      /\ done' = TRUE /\ operator' = operator /\ operands' = operands /\ first' = first /\ second' = second
      /\ firstValue' = firstValue /\ secondValue' = secondValue
      /\ secondIteratorDone' = secondIteratorDone /\ result' = result
  BY DEF NothingLeft, Exhausted, Finish
<1>2. Shape /\ Strictly(result) /\ OperandsInOrder /\ PassedBefore /\ DecidedRightly
  BY <1>1, InPass
<1>3. \A n \in RestOfA : n \notin B
  BY <1>1, <1>2, NoneOfSecond
<1>4. Denoted \ RestOfA = Denoted
  <2>1. CASE operator = "exceptOp"
    <3>1. RestOfA = {}
      BY <1>1, <2>1, NoNode DEF RestOfA, RestOf
    <3> QED BY <3>1
  <2>2. CASE operator = "intersectOp"
    <3>1. Denoted = A \cap B
      BY <2>2, DenotedIs
    <3> QED BY <1>3, <3>1
  <2> QED BY <1>1, <1>2, <2>1, <2>2 DEF Shape, Operators
<1>5. ToSet(result) = Denoted
  BY <1>2, <1>4 DEF DecidedRightly
<1>6. A' = A /\ B' = B /\ Denoted' = Denoted /\ RestOfA' = RestOfA /\ RestOfB' = RestOfB
  BY <1>1, DenotedStays DEF RestOfA, RestOfB
<1>7. Shape'
  BY <1>1, <1>2 DEF Shape
<1>8. OperandsInOrder' /\ PassedBefore' /\ DecidedRightly'
  BY <1>1, <1>2, <1>6 DEF OperandsInOrder, PassedBefore, DecidedRightly
<1>9. Strictly(result') /\ ToSet(result') = Denoted'
  BY <1>1, <1>2, <1>5, <1>6
<1> QED BY <1>1, <1>7, <1>8, <1>9 DEF SetsInv

-----------------------------------------------------------------------------
\* Every step keeps the invariant.
LEMMA SetsSteps ==
  ASSUME NamesDiffer(Nodes), SetsInv, [Next]_vars
  PROVE  SetsInv'
<1>1. CASE UNCHANGED vars
  <2>1. /\ operator' = operator /\ operands' = operands /\ first' = first /\ second' = second
        /\ firstValue' = firstValue /\ secondValue' = secondValue
        /\ secondIteratorDone' = secondIteratorDone /\ done' = done /\ result' = result
    BY <1>1 DEF vars
  <2>2. A' = A /\ B' = B /\ Denoted' = Denoted /\ RestOfA' = RestOfA /\ RestOfB' = RestOfB
    BY <2>1, DenotedStays DEF RestOfA, RestOfB
  <2> QED BY <2>1, <2>2 DEF SetsInv, Shape, OperandsInOrder, PassedBefore, DecidedRightly
<1>2. CASE AfterDone
  BY <1>1, <1>2 DEF AfterDone
<1> QED BY <1>1, <1>2, UnionKeeps, PullFirstKeeps, PullSecondKeeps, SameNodeKeeps, FirstComesBeforeKeeps,
           SecondComesBeforeKeeps, ReturnHeldKeeps, ReturnRestKeeps, NothingLeftKeeps DEF Next

\* The invariant of the operators' iterators: what is left of the operands is in
\* order, what was passed cannot come again, and what was decided on was returned
\* if it is denoted.  Only trees where two attributes of an element share their
\* local name are left out: the comparison puts each of two such before the other.
THEOREM SetsInvariant ==
  ASSUME NamesDiffer(Nodes)
  PROVE  Spec => []SetsInv
<1>1. Init => SetsInv
  BY InitSets
<1>2. SetsInv /\ [Next]_vars => SetsInv'
  BY SetsSteps
<1> QED BY <1>1, <1>2, PTL DEF Spec

\* union, intersect and except return the nodes they denote, all of them and no
\* other, for operands of any length and any claimed order.
THEOREM SetsDenote ==
  ASSUME NamesDiffer(Nodes)
  PROVE  Spec => []ReturnsWhatItDenotes
<1>1. SetsInv => ReturnsWhatItDenotes
  BY DEF SetsInv, ReturnsWhatItDenotes
<1> QED BY <1>1, SetsInvariant, PTL

\* And a consumer that stops early holds nodes that are denoted, in document order.
THEOREM SetsPrefix ==
  ASSUME NamesDiffer(Nodes)
  PROVE  Spec => []EveryPrefixIsRight
<1>1. ASSUME SetsInv
      PROVE  EveryPrefixIsRight
  <2>1. Shape /\ Strictly(result)
    BY <1>1 DEF SetsInv
  <2>2. TypeOK
    <3>1. ToSet(first) \in SUBSET Nodes /\ ToSet(second) \in SUBSET Nodes /\ ToSet(result) \in SUBSET Nodes
      BY <2>1, ToSetFacts DEF Shape
    <3>2. ASSUME NEW i \in 1 .. 2
          PROVE  operands[i].order \in Claimed /\ ToSet(operands[i].values) \in SUBSET Nodes
      <4>1. operands[i] \in Operand
        BY <2>1 DEF Shape
      <4>2. operands[i].order \in Claimed /\ operands[i].values \in Seq(Nodes)
        BY <4>1, OperandAsClaimed
      <4> QED BY <4>2, ToSetFacts
    <3> QED BY <2>1, <3>1, <3>2 DEF Shape, TypeOK
  <2>3. IsInDocumentOrder(result)
    BY <2>1, NodesInOrder, NeighboursInOrder DEF Shape
  <2>4. ToSet(result) \subseteq Denoted
    <3>1. CASE operator = "unionOp"
      BY <1>1, <3>1, NoNode DEF SetsInv
    <3>2. CASE operator # "unionOp"
      BY <1>1, <3>2 DEF SetsInv, DecidedRightly
    <3> QED BY <3>1, <3>2
  <2> QED BY <2>2, <2>3, <2>4 DEF EveryPrefixIsRight
<1> QED BY <1>1, SetsInvariant, PTL
=============================================================================
