--------------------------- MODULE DocumentOrder ---------------------------
(***************************************************************************)
(* Document order: how two nodes are compared, how a list of nodes is      *)
(* sorted and deduplicated, and how the results of one step for several    *)
(* context nodes become one ordered list.                                  *)
(*                                                                         *)
(* A node is a record.  tree names the tree it is in; at is the path of    *)
(* child indexes from the root of the tree to the element; local is 0 for  *)
(* the element itself and the alphabetical rank of the local name for an   *)
(* attribute of it; ns is the namespace of the attribute.  Two nodes are   *)
(* the same node (arePointersEqual) iff they are equal.                    *)
(***************************************************************************)
EXTENDS Integers, FiniteSets, SequencesExt

IsAttribute(n) == n.local # 0

\* getParentNodePointer of an attribute: the element it is on.
Owner(n) == [tree |-> n.tree, at |-> n.at, local |-> 0, ns |-> 0]

(***************************************************************************)
(* Nodes of different trees: seen is tieBreakerArr, the roots compared     *)
(* earlier.  A root that is not in it is pushed, and the length push       *)
(* returns stands in for its index.                                        *)
(***************************************************************************)

Pushed(seen, tree) == IF Contains(seen, tree) THEN seen ELSE Append(seen, tree)

\* Mutant: each comparison starts a list of its own.
SeenAfresh(seen, a, b) == IF a.tree = b.tree THEN seen ELSE <<a.tree, b.tree>>

SeenAfter(seen, a, b) ==
  IF a.tree = b.tree THEN seen ELSE Pushed(Pushed(seen, a.tree), b.tree)

FoundIndex(seen, tree) == (CHOOSE i \in DOMAIN seen : seen[i] = tree) - 1

\* Mutant: the index of a new root stays -1.
TieBreakUnpushed(seen, a, b) ==
  LET Rank(tree) == IF Contains(seen, tree) THEN FoundIndex(seen, tree) ELSE -1
  IN Rank(a.tree) - Rank(b.tree)

TieBreak(seen, a, b) ==
  LET Rank(before, tree) == IF Contains(seen, tree) THEN FoundIndex(seen, tree)
                                                    ELSE Len(before) + 1
  IN Rank(seen, a.tree) - Rank(Pushed(seen, a.tree), b.tree)

\* The first place where two paths part: skip the common ancestors.
Parting(p, q) ==
  CHOOSE i \in 1 .. Len(p) + 1 :
    /\ \A j \in 1 .. i - 1 : j <= Len(q) /\ p[j] = q[j]
    /\ i > Len(p) \/ i > Len(q) \/ p[i] # q[i]

CompareElements(seen, a, b) ==
  LET y == Parting(a.at, b.at)
  IN IF a.tree # b.tree THEN TieBreak(seen, a, b)
     ELSE IF a = b THEN 0
     ELSE IF y > Len(a.at) \/ (y <= Len(b.at) /\ a.at[y] < b.at[y]) THEN -1
     ELSE 1

\* Mutant: an attribute is compared as its element.
CompareOwners(seen, a, b) == CompareElements(seen, Owner(a), Owner(b))

Compare(seen, a, b) ==
  IF Owner(a) # Owner(b) \/ ~(IsAttribute(a) \/ IsAttribute(b))
    THEN CompareElements(seen, Owner(a), Owner(b))
  ELSE IF ~IsAttribute(b) THEN 1
  ELSE IF ~IsAttribute(a) THEN -1
  ELSE IF a.local > b.local THEN 1 ELSE -1

(***************************************************************************)
(* sortNodeValues.  The comparisons below are made in one tree, or after   *)
(* the trees involved have been compared, so seen is a parameter.          *)
(***************************************************************************)
MergeHalves(seen, left, right) ==
  LET m[at \in (1 .. Len(left) + 1) \X (1 .. Len(right) + 1)] ==
        LET i == at[1]
            j == at[2]
        IN IF i > Len(left) \/ j > Len(right)
             THEN SubSeq(left, i, Len(left)) \o SubSeq(right, j, Len(right))
             ELSE IF Compare(seen, left[i], right[j]) < 0
                    THEN <<left[i]>> \o m[<<i + 1, j>>]
                    ELSE <<right[j]>> \o m[<<i, j + 1>>]
  IN m[<<1, 1>>]

\* Sorts the items first .. last of s by halves.
MergeSort(seen, s) ==
  LET sorted[part \in (1 .. Len(s)) \X (0 .. Len(s))] ==
        LET first == part[1]
            last == part[2]
            mid == first + ((last - first + 1) \div 2) - 1
        IN IF last <= first
             THEN SubSeq(s, first, last)
             ELSE MergeHalves(seen, sorted[<<first, mid>>], sorted[<<mid + 1, last>>])
  IN IF s = <<>> THEN s ELSE sorted[<<1, Len(s)>>]

\* Mutant: two attributes of an element count as the same node.
DropSameElement(s) ==
  FoldLeft(LAMBDA kept, n : IF kept # <<>> /\ Owner(Last(kept)) = Owner(n) THEN kept
                                                                         ELSE Append(kept, n),
           <<>>, s)

\* Drops an item equal to the one before it.
DropRepeats(s) ==
  LET kept[k \in 0 .. Len(s)] ==
        IF k = 0 THEN <<>>
        ELSE IF k > 1 /\ s[k - 1] = s[k] THEN kept[k - 1]
        ELSE Append(kept[k - 1], s[k])
  IN kept[Len(s)]

SortNodeValues(seen, s) == DropRepeats(MergeSort(seen, s))

ConcatSortedSequences(seqs) == DropRepeats(FlattenSeq(seqs))

(***************************************************************************)
(* mergeSortedSequences.  queue holds what is left of each sequence, none  *)
(* empty; the sequence consumed last is put back where a binary search for *)
(* its next node ends.                                                     *)
(***************************************************************************)
\* Mutant: the search does not look at the last sequence.
InsertBeforeLast(seen, n, queue) ==
  LET search[range \in (0 .. Len(queue)) \X (-2 .. Len(queue) - 2)] ==
        LET low == range[1]
            high == range[2]
            mid == (low + high) \div 2
        IN IF low > high THEN low
           ELSE IF Compare(seen, n, queue[mid + 1][1]) > 0 THEN search[<<mid + 1, high>>]
                                                           ELSE search[<<low, mid - 1>>]
  IN search[<<0, Len(queue) - 2>>]

InsertionPoint(seen, n, queue) ==
  LET search[range \in (0 .. Len(queue)) \X (-1 .. Len(queue) - 1)] ==
        LET low == range[1]
            high == range[2]
            mid == (low + high) \div 2
            c == Compare(seen, n, queue[mid + 1][1])
        IN IF low > high THEN low
           ELSE IF c = 0 THEN mid
           ELSE IF c > 0 THEN search[<<mid + 1, high>>]
                         ELSE search[<<low, mid - 1>>]
  IN search[<<0, Len(queue) - 1>>]

PutBack(seen, rest, queue) ==
  IF rest = <<>> THEN queue
  ELSE InsertAt(queue, InsertionPoint(seen, rest[1], queue) + 1, rest)

\* One call of next: the first node of the first sequence.
Consumed(seen, state) ==
  [queue |-> PutBack(seen, Tail(Head(state.queue)), Tail(state.queue)),
   out |-> Append(state.out, Head(Head(state.queue)))]

MergeFrom(seen, queue) ==
  LET size == Len(FlattenSeq(queue))
      merged[k \in 0 .. size] ==
        IF k = 0 THEN [queue |-> queue, out |-> <<>>] ELSE Consumed(seen, merged[k - 1])
  IN DropRepeats(merged[size].out)

\* Array.sort is stable; iterators whose heads each compare as the smaller
\* may end up either way.
StrictlyAfter(seen, s, t) == Compare(seen, s[1], t[1]) > 0 /\ Compare(seen, t[1], s[1]) < 0

Fits(seen, queue, k, s) ==
  /\ \A i \in 1 .. k - 1 : ~StrictlyAfter(seen, queue[i], s)
  /\ \A i \in k .. Len(queue) : ~StrictlyAfter(seen, s, queue[i]) /\ Compare(seen, s[1], queue[i][1]) # 0

Placed(seen, queue, s) ==
  {InsertAt(queue, k, s) : k \in {l \in 1 .. Len(queue) + 1 : Fits(seen, queue, l, s)}}

\* The orders in which the iterators may stand; one that has ended is left out.
Orders(seen, seqs) ==
  LET queues[k \in 0 .. Len(seqs)] ==
        IF k = 0 THEN {<<>>}
        ELSE IF seqs[k] = <<>> THEN queues[k - 1]
        ELSE UNION {Placed(seen, queue, seqs[k]) : queue \in queues[k - 1]}
  IN queues[Len(seqs)]

MergeSortedSequences(seen, seqs) == {MergeFrom(seen, queue) : queue \in Orders(seen, seqs)}

(***************************************************************************)
(* Reference definitions, for the properties.                              *)
(***************************************************************************)
IsAncestor(a, b) ==
  /\ ~IsAttribute(a) /\ a.tree = b.tree
  /\ \/ IsStrictPrefix(a.at, b.at)
     \/ a.at = b.at /\ IsAttribute(b)

\* Document order of one tree: elements before their attributes, attributes
\* before children, siblings by index, attributes by local name (and those
\* of one local name in some fixed order).
Precedes(a, b) ==
  \/ IsAncestor(a, b)
  \/ /\ a.at # b.at /\ ~IsPrefix(a.at, b.at) /\ ~IsPrefix(b.at, a.at)
     /\ \E i \in DOMAIN a.at \cap DOMAIN b.at :
          a.at[i] < b.at[i] /\ SubSeq(a.at, 1, i - 1) = SubSeq(b.at, 1, i - 1)
  \/ IsAttribute(a) /\ IsStrictPrefix(a.at, b.at)
  \/ IsAttribute(a) /\ IsAttribute(b) /\ a.at = b.at
     /\ \/ a.local < b.local
        \/ a.local = b.local /\ a.ns < b.ns

InDocumentOrderOf(S) ==
  [i \in 1 .. Cardinality(S) |-> CHOOSE n \in S : Cardinality({m \in S : Precedes(m, n)}) = i - 1]

IsInDocumentOrder(s) == \A i \in 1 .. Len(s) - 1 : Precedes(s[i], s[i + 1])
============================================================================
