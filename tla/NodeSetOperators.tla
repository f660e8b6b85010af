-------------------------- MODULE NodeSetOperators --------------------------
(***************************************************************************)
(* The operators on node sequences: union, intersect and except.  Each     *)
(* operand is an expression with a claimed result order; the operator      *)
(* brings both in document order, by doing nothing, reversing or sorting,  *)
(* and then goes through them once, side by side, pulling from each when   *)
(* it needs the next node.                                                 *)
(***************************************************************************)
EXTENDS DocumentOrder

CONSTANTS
  Nodes,      \* the nodes operands are made of
  MaxLen,     \* bound on the length of an unsorted operand
  Null        \* no value held

\* The nodes are nodes of one tree, a finite one.
ASSUME NodesOfATree ==
  /\ Nodes \subseteq [tree : {n.tree : n \in Nodes}, at : Seq(Int), local : Nat, ns : Nat]
  /\ \A m, n \in Nodes : m.tree = n.tree
  /\ \A n \in Nodes : IsAttribute(n) \/ n.ns = 0
  /\ IsFiniteSet(Nodes)

ASSUME NullIsNoNode == Null \notin Nodes

ASSUME MaxLenIsNumber == MaxLen \in Nat

Claimed == {"sorted", "reverse-sorted", "unsorted"}
Operators == {"unionOp", "intersectOp", "exceptOp"}

VARIABLES
  operator,   \* the operator evaluated
  operands,   \* what the two operand expressions return, and the order they claim
  first, second,              \* what is left of the two ordered operands
  firstValue, secondValue,    \* the nodes pulled and not yet decided on
  secondIteratorDone, done,
  result      \* the nodes returned so far

vars == <<operator, operands, first, second, firstValue, secondValue,
          secondIteratorDone, done, result>>

\* The sequences an expression may return that keeps to the order it claims.
\* Only a sequence expression repeats nodes.
Returned(order) ==
  CASE order = "sorted"         -> {InDocumentOrderOf(S) : S \in SUBSET Nodes}
    [] order = "reverse-sorted" -> {Reverse(InDocumentOrderOf(S)) : S \in SUBSET Nodes}
    [] order = "unsorted"       -> UNION {[1 .. n -> Nodes] : n \in 0 .. MaxLen}

Operand == UNION {[order : {order}, values : Returned(order)] : order \in Claimed}

\* Mutant: a reverse-sorted operand counts as sorted.
EnsureSortedOnce(operand) ==
  IF operand.order = "unsorted" THEN SortNodeValues(<<>>, operand.values) ELSE operand.values

EnsureSortedSequence(operand) ==
  CASE operand.order = "sorted"         -> operand.values
    [] operand.order = "reverse-sorted" -> Reverse(operand.values)
    [] operand.order = "unsorted"       -> SortNodeValues(<<>>, operand.values)

Init ==
  /\ operator \in Operators
  /\ operands \in [1 .. 2 -> Operand]
  /\ first = EnsureSortedSequence(operands[1])
  /\ second = EnsureSortedSequence(operands[2])
  /\ firstValue = Null
  /\ secondValue = Null
  /\ secondIteratorDone = FALSE
  /\ done = FALSE
  /\ result = <<>>

(***************************************************************************)
(* Union: a merge when every operand claims to be sorted, a sort of        *)
(* everything otherwise.                                                   *)
(***************************************************************************)
Union ==
  /\ operator = "unionOp" /\ ~done
  /\ LET values == [i \in 1 .. 2 |-> operands[i].values]
     IN IF \A i \in 1 .. 2 : operands[i].order = "sorted"
          THEN result' \in MergeSortedSequences(<<>>, values)
          ELSE result' = SortNodeValues(<<>>, FlattenSeq(values))
  /\ done' = TRUE
  /\ UNCHANGED <<operator, operands, first, second, firstValue, secondValue, secondIteratorDone>>

(***************************************************************************)
(* Intersect and except: the passes through the loop of next().  Every     *)
(* step but the last consumes a node, so they end unless they are stuck.   *)
(***************************************************************************)
Loops == operator # "unionOp" /\ ~done /\ ~secondIteratorDone

Finish ==
  /\ done' = TRUE
  /\ UNCHANGED <<operator, operands, first, second, firstValue, secondValue,
                 secondIteratorDone, result>>

PullFirst ==
  /\ Loops /\ firstValue = Null
  /\ IF first = <<>> THEN Finish
     ELSE /\ firstValue' = Head(first)
          /\ first' = Tail(first)
          /\ UNCHANGED <<operator, operands, second, secondValue, secondIteratorDone,
                         done, result>>

PullSecond ==
  /\ Loops /\ firstValue # Null /\ secondValue = Null
  /\ IF second = <<>>
       THEN secondIteratorDone' = TRUE /\ UNCHANGED <<second, secondValue>>
       ELSE /\ secondValue' = Head(second)
            /\ second' = Tail(second)
            /\ UNCHANGED secondIteratorDone
  /\ UNCHANGED <<operator, operands, first, firstValue, done, result>>

Holding == Loops /\ firstValue # Null /\ secondValue # Null

Return(n, op) == result' = IF operator = op THEN Append(result, n) ELSE result

SameNode ==
  /\ Holding /\ firstValue = secondValue
  /\ Return(firstValue, "intersectOp")
  /\ firstValue' = Null /\ secondValue' = Null
  /\ UNCHANGED <<operator, operands, first, second, secondIteratorDone, done>>

FirstComesBefore ==
  /\ Holding /\ firstValue # secondValue
  /\ Compare(<<>>, firstValue, secondValue) < 0
  /\ Return(firstValue, "exceptOp")
  /\ firstValue' = Null
  /\ UNCHANGED <<operator, operands, first, second, secondValue, secondIteratorDone, done>>

SecondComesBefore ==
  /\ Holding /\ firstValue # secondValue
  /\ Compare(<<>>, firstValue, secondValue) >= 0
  /\ secondValue' = Null
  /\ UNCHANGED <<operator, operands, first, second, firstValue, secondIteratorDone, done, result>>

\* The second operand has run out: except returns what is left of the first.
Exhausted == operator # "unionOp" /\ secondIteratorDone /\ ~done

ReturnHeld ==
  /\ Exhausted /\ operator = "exceptOp" /\ firstValue # Null
  /\ result' = Append(result, firstValue)
  /\ firstValue' = Null
  /\ UNCHANGED <<operator, operands, first, second, secondValue, secondIteratorDone, done>>

ReturnRest ==
  /\ Exhausted /\ operator = "exceptOp" /\ firstValue = Null /\ first # <<>>
  /\ result' = Append(result, Head(first))
  /\ first' = Tail(first)
  /\ UNCHANGED <<operator, operands, second, firstValue, secondValue, secondIteratorDone, done>>

\* Mutant: except ends with its second operand.
StopWithSecond == Exhausted /\ Finish

NothingLeft ==
  /\ Exhausted
  /\ operator = "exceptOp" => firstValue = Null /\ first = <<>>
  /\ Finish

\* next() after the end reports the end again.
AfterDone == done /\ UNCHANGED vars

Next == \/ Union \/ PullFirst \/ PullSecond \/ SameNode \/ FirstComesBefore
        \/ SecondComesBefore \/ ReturnHeld \/ ReturnRest \/ NothingLeft \/ AfterDone

Spec == Init /\ [][Next]_vars

-----------------------------------------------------------------------------
TypeOK ==
  /\ operator \in Operators
  /\ \A i \in 1 .. 2 : operands[i].order \in Claimed /\ ToSet(operands[i].values) \subseteq Nodes
  /\ ToSet(first) \cup ToSet(second) \subseteq Nodes
  /\ {firstValue, secondValue} \subseteq Nodes \cup {Null}
  /\ secondIteratorDone \in BOOLEAN /\ done \in BOOLEAN
  /\ ToSet(result) \subseteq Nodes

Denoted ==
  LET A == ToSet(operands[1].values)
      B == ToSet(operands[2].values)
  IN CASE operator = "unionOp"     -> A \cup B
       [] operator = "intersectOp" -> A \cap B
       [] operator = "exceptOp"    -> A \ B

\* When the operator is done its result holds exactly the nodes it denotes:
\* the single pass over both operands skips no node and lets none through.
ReturnsWhatItDenotes == done => ToSet(result) = Denoted

\* Whatever was returned so far is final: in document order, and nothing the
\* operator does not denote.  A consumer may stop after any node.
EveryPrefixIsRight == TypeOK /\ IsInDocumentOrder(result) /\ ToSet(result) \subseteq Denoted
=============================================================================
