------------------------ MODULE PendingUpdatesProofs ------------------------
(***************************************************************************)
(* Whatever the pending update list, the tree it is applied to stays a     *)
(* tree, keeps the order of what it keeps, and no primitive misses the     *)
(* parent of its target unless a rename took it; and after each primitive  *)
(* every node has the children and attributes that are declared.           *)
(***************************************************************************)
EXTENDS PendingUpdatesProps, TLAPS, SequenceTheorems

\* For the least elements of sets of numbers.
Order == INSTANCE DocumentOrderProofs

-----------------------------------------------------------------------------
(* Rows of nodes. *)

\* What Without keeps of the first k places of a row, given what it keeps of fewer.
KeptOf(row, nodes, kept, k) ==
  IF k = 0 THEN <<>> ELSE IF Contains(nodes, row[k]) THEN kept[k - 1] ELSE Append(kept[k - 1], row[k])
KeptUpTo(row, nodes, kept, n) == kept = [k \in 0 .. n |-> KeptOf(row, nodes, kept, k)]

\* The function by which Without is defined exists: its equation has a solution for rows of every
\* length.
LEMMA KeptExists ==
  ASSUME NEW row, NEW nodes, NEW m \in Nat
  PROVE  \E kept : KeptUpTo(row, nodes, kept, m)
<1> DEFINE Good == {n \in Nat : \E kept : KeptUpTo(row, nodes, kept, n)}
<1>1. 0 \in Good
  <2> DEFINE none == [k \in 0 .. 0 |-> <<>>]
  <2>1. KeptUpTo(row, nodes, none, 0)
    BY DEF KeptUpTo, KeptOf
  <2> HIDE DEF none
  <2> QED BY <2>1
<1>2. ASSUME NEW n \in Good
      PROVE  n + 1 \in Good
  <2>1. PICK kept : KeptUpTo(row, nodes, kept, n)
    OBVIOUS
  <2> DEFINE longer == [k \in 0 .. n + 1 |-> IF k = n + 1 THEN KeptOf(row, nodes, kept, k) ELSE kept[k]]
  <2>2. ASSUME NEW k \in 0 .. n + 1
        PROVE  longer[k] = KeptOf(row, nodes, longer, k)
    <3>1. n \in Nat
      OBVIOUS
    <3>2. k # 0 => KeptOf(row, nodes, longer, k) = KeptOf(row, nodes, kept, k)
      BY <3>1 DEF KeptOf
    <3>3. k = 0 => KeptOf(row, nodes, longer, k) = <<>> /\ KeptOf(row, nodes, kept, k) = <<>>
      BY DEF KeptOf
    <3>4. k # n + 1 => k \in 0 .. n /\ kept[k] = KeptOf(row, nodes, kept, k)
      BY <2>1, <3>1 DEF KeptUpTo
    <3> QED BY <3>1, <3>2, <3>3, <3>4
  <2>3. KeptUpTo(row, nodes, longer, n + 1)
    <3>1. longer = [k \in 0 .. n + 1 |-> longer[k]]
      OBVIOUS
    <3> HIDE DEF longer
    <3> QED BY <2>2, <3>1 DEF KeptUpTo
  <2> HIDE DEF longer
  <2> QED BY <2>3
<1>3. Good = Nat
  <2>1. Good \in SUBSET Nat
    OBVIOUS
  <2> HIDE DEF Good
  <2> QED BY <1>1, <1>2, <2>1, Order!AllNumbers
<1> QED BY <1>3

\* So Without is what that equation gives.
LEMMA WithoutRule ==
  ASSUME NEW row, NEW nodes, Len(row) \in Nat
  PROVE  \E kept : KeptUpTo(row, nodes, kept, Len(row)) /\ Without(row, nodes) = kept[Len(row)]
<1> DEFINE kept0 == CHOOSE kept : KeptUpTo(row, nodes, kept, Len(row))
<1>1. KeptUpTo(row, nodes, kept0, Len(row))
  BY KeptExists
<1>2. Without(row, nodes) = kept0[Len(row)]
  BY DEF Without, KeptUpTo, KeptOf
<1> QED BY <1>1, <1>2

\* What is left of the first k places of a row: nothing but what was there and is not
\* in nodes, all of that, in order.
OnlyThose(row, nodes, kept, k) ==
  \A a \in DOMAIN kept : \E c \in 1 .. k : row[c] = kept[a] /\ ~ Contains(nodes, kept[a])
AllThose(row, nodes, kept, k) == \A c \in 1 .. k : Contains(nodes, row[c]) \/ \E a \in DOMAIN kept : kept[a] = row[c]
InOrder(row, kept, k) ==
  \A a, b \in DOMAIN kept : a < b => \E c, d \in 1 .. k : c < d /\ row[c] = kept[a] /\ row[d] = kept[b]
Left(row, nodes, kept, k) == OnlyThose(row, nodes, kept, k) /\ AllThose(row, nodes, kept, k) /\ InOrder(row, kept, k)

\* Without keeps, of every beginning of a row, what is not in nodes, in order.
LEMMA WithoutLeaves ==
  ASSUME NEW S, NEW row \in Seq(S), NEW nodes
  PROVE  Without(row, nodes) \in Seq(S) /\ Left(row, nodes, Without(row, nodes), Len(row))
<1>1. Len(row) \in Nat
  OBVIOUS
<1>2. PICK kept : KeptUpTo(row, nodes, kept, Len(row)) /\ Without(row, nodes) = kept[Len(row)]
  BY <1>1, WithoutRule
<1>3. \A k \in 0 .. Len(row) : kept[k] = KeptOf(row, nodes, kept, k)
  BY <1>2 DEF KeptUpTo
<1> DEFINE Good == {n \in Nat : n <= Len(row) => kept[n] \in Seq(S) /\ Left(row, nodes, kept[n], n)}
<1>4. 0 \in Good
  <2>1. kept[0] = <<>>
    BY <1>1, <1>3 DEF KeptOf
  <2>2. kept[0] \in Seq(S) /\ DOMAIN kept[0] = {}
    BY <2>1
  <2>3. Left(row, nodes, kept[0], 0)
    BY <2>2 DEF Left, OnlyThose, AllThose, InOrder
  <2> QED BY <2>2, <2>3
<1>5. ASSUME NEW n \in Good
      PROVE  n + 1 \in Good
  <2>1. n \in Nat
    OBVIOUS
  <2> SUFFICES ASSUME n + 1 <= Len(row)
               PROVE  kept[n + 1] \in Seq(S) /\ Left(row, nodes, kept[n + 1], n + 1)
    BY <2>1
  <2>2. kept[n] \in Seq(S) /\ Left(row, nodes, kept[n], n)
    BY <1>1, <2>1
  <2>3. row[n + 1] \in S
    BY <2>1
  <2>4. CASE Contains(nodes, row[n + 1])
    <3>1. kept[n + 1] = kept[n]
      BY <1>1, <1>3, <2>1, <2>4 DEF KeptOf
    <3>2. OnlyThose(row, nodes, kept[n], n + 1)
      BY <2>1, <2>2 DEF Left, OnlyThose
    <3>3. AllThose(row, nodes, kept[n], n + 1)
      BY <2>1, <2>2, <2>4 DEF Left, AllThose
    <3>4. InOrder(row, kept[n], n + 1)
      BY <2>1, <2>2 DEF Left, InOrder
    <3> QED BY <2>2, <3>1, <3>2, <3>3, <3>4 DEF Left
  <2>5. CASE ~ Contains(nodes, row[n + 1])
    <3>1. kept[n + 1] = Append(kept[n], row[n + 1])
      <4>1. n + 1 \in 0 .. Len(row) /\ n + 1 # 0 /\ (n + 1) - 1 = n
        BY <1>1, <2>1
      <4>2. kept[n + 1] = KeptOf(row, nodes, kept, n + 1)
        BY <1>3, <4>1
      <4> QED BY <2>5, <4>1, <4>2 DEF KeptOf
    <3> DEFINE old == kept[n]
               new == Append(old, row[n + 1])
    <3>2. /\ new \in Seq(S) /\ Len(old) \in Nat /\ DOMAIN old = 1 .. Len(old)
          /\ DOMAIN new = 1 .. Len(old) + 1 /\ new[Len(old) + 1] = row[n + 1]
          /\ \A a \in DOMAIN old : new[a] = old[a]
      BY <2>2, <2>3
    <3> HIDE DEF new, old
    <3>3. Left(row, nodes, old, n)
      BY <2>2 DEF old
    <3>4. OnlyThose(row, nodes, new, n + 1)
      <4>1. ASSUME NEW a \in DOMAIN new, a \in DOMAIN old
            PROVE  \E c \in 1 .. n + 1 : row[c] = new[a] /\ ~ Contains(nodes, new[a])
        BY <2>1, <3>2, <3>3, <4>1 DEF Left, OnlyThose
      <4>2. \E c \in 1 .. n + 1 : row[c] = new[Len(old) + 1] /\ ~ Contains(nodes, new[Len(old) + 1])
        BY <2>1, <2>5, <3>2
      <4>3. \A a \in DOMAIN new : a \in DOMAIN old \/ a = Len(old) + 1
        BY <3>2
      <4> QED BY <4>1, <4>2, <4>3 DEF OnlyThose
    <3>5. AllThose(row, nodes, new, n + 1)
      <4>1. ASSUME NEW c \in 1 .. n
            PROVE  Contains(nodes, row[c]) \/ \E a \in DOMAIN new : new[a] = row[c]
        BY <3>2, <3>3 DEF Left, AllThose
      <4>2. \E a \in DOMAIN new : new[a] = row[n + 1]
        BY <3>2
      <4>3. \A c \in 1 .. n + 1 : c \in 1 .. n \/ c = n + 1
        BY <2>1
      <4> QED BY <4>1, <4>2, <4>3 DEF AllThose
    <3>6. ASSUME NEW a \in DOMAIN new, NEW b \in DOMAIN new, a < b
          PROVE  \E c, d \in 1 .. n + 1 : c < d /\ row[c] = new[a] /\ row[d] = new[b]
      <4>0. a \in DOMAIN old /\ new[a] = old[a] /\ a \in Nat /\ b \in Nat
        BY <3>2, <3>6
      <4>1. CASE b = Len(old) + 1
        <5>1. PICK c \in 1 .. n : row[c] = old[a]
          BY <3>3, <4>0 DEF Left, OnlyThose
        <5> QED BY <2>1, <3>2, <4>0, <4>1, <5>1
      <4>2. CASE b # Len(old) + 1
        <5>1. b \in DOMAIN old /\ new[b] = old[b]
          BY <3>2, <4>2
        <5>2. PICK c, d \in 1 .. n : c < d /\ row[c] = old[a] /\ row[d] = old[b]
          BY <3>3, <3>6, <4>0, <5>1 DEF Left, InOrder
        <5> QED BY <2>1, <4>0, <5>1, <5>2
      <4> QED BY <4>1, <4>2
    <3>7. Left(row, nodes, new, n + 1)
      BY <3>4, <3>5, <3>6 DEF Left, InOrder
    <3> QED BY <3>1, <3>2, <3>7 DEF new, old
  <2> QED BY <2>4, <2>5
<1>6. Good = Nat
  <2>1. Good \in SUBSET Nat
    OBVIOUS
  <2> HIDE DEF Good
  <2> QED BY <1>4, <1>5, <2>1, Order!AllNumbers
<1> QED BY <1>1, <1>2, <1>6

\* Without takes away the nodes and nothing else, and keeps the others in order.
LEMMA WithoutKeeps ==
  ASSUME NEW S, NEW row \in Seq(S), NEW nodes
  PROVE  /\ Without(row, nodes) \in Seq(S)
         /\ ToSet(Without(row, nodes)) = {m \in ToSet(row) : ~ Contains(nodes, m)}
         /\ NoRepeats(row) => NoRepeats(Without(row, nodes))
         /\ \A m, n : Before(Without(row, nodes), m, n) => Before(row, m, n)
<1> DEFINE new == Without(row, nodes)
<1>1. new \in Seq(S) /\ Left(row, nodes, new, Len(row))
  BY WithoutLeaves
<1> HIDE DEF new
<1>2. DOMAIN row = 1 .. Len(row) /\ DOMAIN new = 1 .. Len(new) /\ Len(new) \in Nat
  BY <1>1
<1>3. ToSet(new) = {m \in ToSet(row) : ~ Contains(nodes, m)}
  <2>1. ASSUME NEW a \in DOMAIN new
        PROVE  new[a] \in ToSet(row) /\ ~ Contains(nodes, new[a])
    BY <1>1, <1>2 DEF Left, OnlyThose, ToSet
  <2>2. ASSUME NEW c \in DOMAIN row, ~ Contains(nodes, row[c])
        PROVE  row[c] \in ToSet(new)
    BY <1>1, <1>2, <2>2 DEF Left, AllThose, ToSet
  <2> QED BY <2>1, <2>2 DEF ToSet
<1>4. ASSUME NEW m, NEW n, Before(new, m, n)
      PROVE  Before(row, m, n)
  <2>1. PICK a, b \in DOMAIN new : a < b /\ new[a] = m /\ new[b] = n
    BY <1>4 DEF Before
  <2>2. PICK c, d \in 1 .. Len(row) : c < d /\ row[c] = new[a] /\ row[d] = new[b]
    BY <1>1, <2>1 DEF Left, InOrder
  <2> QED BY <1>2, <2>1, <2>2 DEF Before
<1>5. NoRepeats(row) => NoRepeats(new)
  <2> SUFFICES ASSUME NoRepeats(row), NEW i \in DOMAIN new, NEW j \in DOMAIN new, i < j, new[i] = new[j]
               PROVE  FALSE
    BY <1>2 DEF NoRepeats
  <2>1. Before(row, new[i], new[j])
    BY <1>4 DEF Before
  <2> QED BY <1>2, <2>1 DEF Before, NoRepeats
<1> QED BY <1>1, <1>3, <1>4, <1>5 DEF new

\* Where everything is in a row that nodes were put into: k nodes of the row come before them.
PutAt(row, nodes, new, k) ==
  \A j \in DOMAIN new :
    new[j] = IF j <= k THEN row[j] ELSE IF j <= k + Len(nodes) THEN nodes[j - k] ELSE row[j - Len(nodes)]

\* Where Spliced puts the nodes of the row and the new ones.
LEMMA SplicedPlaces ==
  ASSUME NEW S, NEW row \in Seq(S), NEW nodes \in Seq(S), NEW reference,
         reference = NoNode \/ reference \in ToSet(row)
  PROVE  /\ Spliced(row, nodes, reference) \in Seq(S)
         /\ Len(Spliced(row, nodes, reference)) = Len(row) + Len(nodes)
         /\ \E k \in 0 .. Len(row) : PutAt(row, nodes, Spliced(row, nodes, reference), k)
<1> DEFINE i == IF reference = NoNode THEN Len(row) + 1 ELSE SelectInSeq(row, LAMBDA m : m = reference)
           k == i - 1
           first == SubSeq(row, 1, k)
           last == SubSeq(row, k + 1, Len(row))
           new == first \o nodes \o last
<1>1. i \in 1 .. Len(row) + 1
  <2>1. CASE reference = NoNode
    BY <2>1
  <2>2. CASE reference # NoNode
    <3> DEFINE I == {j \in 1 .. Len(row) : row[j] = reference}
    <3>1. I # {} /\ I \in SUBSET Nat
      BY <2>2 DEF ToSet
    <3>2. Min(I) \in I
      <4> HIDE DEF I
      <4> QED BY <3>1, Order!MinIsLeast DEF Min, Order!Min
    <3>3. i = Min(I)
      BY <2>2, <3>1 DEF SelectInSeq
    <3> QED BY <3>2, <3>3
  <2> QED BY <2>1, <2>2
<1>2. Spliced(row, nodes, reference) = new
  <2>1. i = k + 1
    BY <1>1
  <2>2. Spliced(row, nodes, reference) = SubSeq(row, 1, i - 1) \o nodes \o SubSeq(row, i, Len(row))
    BY DEF Spliced
  <2> HIDE DEF i
  <2> QED BY <2>1, <2>2
<1> HIDE DEF i
<1>3. k \in 0 .. Len(row) /\ Len(row) \in Nat /\ Len(nodes) \in Nat
  BY <1>1
<1> HIDE DEF k
<1>4. first \in Seq(S) /\ Len(first) = k /\ \A j \in 1 .. k : first[j] = row[j]
  BY <1>3
<1>5. last \in Seq(S) /\ Len(last) = Len(row) - k /\ \A j \in 1 .. Len(row) - k : last[j] = row[j + k]
  BY <1>3
<1> HIDE DEF first, last
<1>6. new \in Seq(S) /\ Len(new) = Len(row) + Len(nodes)
  <2> DEFINE front == first \o nodes
  <2>1. front \in Seq(S) /\ Len(front) = k + Len(nodes)
    BY <1>3, <1>4, ConcatProperties
  <2>2. new = front \o last
    OBVIOUS
  <2> HIDE DEF front, new
  <2>3. front \o last \in Seq(S) /\ Len(front \o last) = Len(front) + Len(last)
    BY <1>5, <2>1, ConcatProperties
  <2> QED BY <1>3, <1>5, <2>1, <2>2, <2>3
<1>7. ASSUME NEW j \in DOMAIN new
      PROVE  new[j] = IF j <= k THEN row[j] ELSE IF j <= k + Len(nodes) THEN nodes[j - k] ELSE row[j - Len(nodes)]
  <2>1. j \in 1 .. Len(row) + Len(nodes)
    BY <1>6
  <2>2. CASE j <= k
    BY <1>3, <1>4, <1>5, <2>1, <2>2
  <2>3. CASE j > k /\ j <= k + Len(nodes)
    BY <1>3, <1>4, <1>5, <2>1, <2>3
  <2>4. CASE j > k + Len(nodes)
    <3>1. new[j] = last[j - (k + Len(nodes))]
      <4> DEFINE front == first \o nodes
      <4>1. front \in Seq(S) /\ Len(front) = k + Len(nodes)
        BY <1>3, <1>4, ConcatProperties
      <4>2. new = front \o last
        OBVIOUS
      <4> HIDE DEF front, new
      <4>3. (front \o last)[j] = last[j - Len(front)]
        BY <1>3, <1>5, <2>1, <2>4, <4>1, ConcatProperties
      <4> QED BY <4>1, <4>2, <4>3
    <3>2. last[j - (k + Len(nodes))] = row[j - Len(nodes)]
      <4> DEFINE m == j - (k + Len(nodes))
      <4>1. m \in 1 .. Len(row) - k /\ m + k = j - Len(nodes)
        BY <1>3, <2>1, <2>4
      <4> HIDE DEF m
      <4>2. last[m] = row[m + k]
        BY <1>5, <4>1
      <4> QED BY <4>1, <4>2 DEF m
    <3> QED BY <1>3, <2>1, <2>4, <3>1, <3>2
  <2> QED BY <1>3, <2>1, <2>2, <2>3, <2>4
<1>8. PutAt(row, nodes, new, k)
  BY <1>7 DEF PutAt
<1> HIDE DEF new
<1> QED BY <1>2, <1>3, <1>6, <1>8

\* Putting nodes into a row adds them and takes nothing away, and keeps the order of the row
\* and that of the nodes.
LEMMA SplicedKeeps ==
  ASSUME NEW S, NEW row \in Seq(S), NEW nodes \in Seq(S), NEW reference,
         reference = NoNode \/ reference \in ToSet(row)
  PROVE  /\ Spliced(row, nodes, reference) \in Seq(S)
         /\ ToSet(Spliced(row, nodes, reference)) = ToSet(row) \cup ToSet(nodes)
         /\ NoRepeats(row) /\ NoRepeats(nodes) /\ ToSet(row) \cap ToSet(nodes) = {}
              => NoRepeats(Spliced(row, nodes, reference))
         /\ \A m, n : Before(Spliced(row, nodes, reference), m, n) =>
              \/ Before(row, m, n) \/ Before(nodes, m, n)
              \/ m \in ToSet(row) /\ n \in ToSet(nodes)
              \/ m \in ToSet(nodes) /\ n \in ToSet(row)
<1> DEFINE new == Spliced(row, nodes, reference)
<1>1. new \in Seq(S) /\ Len(new) = Len(row) + Len(nodes)
  BY SplicedPlaces
<1>2. PICK k \in 0 .. Len(row) : PutAt(row, nodes, new, k)
  BY SplicedPlaces
<1> HIDE DEF new
<1>3. /\ DOMAIN row = 1 .. Len(row) /\ DOMAIN nodes = 1 .. Len(nodes) /\ DOMAIN new = 1 .. Len(row) + Len(nodes)
      /\ Len(row) \in Nat /\ Len(nodes) \in Nat /\ k \in 0 .. Len(row)
  BY <1>1
<1> DEFINE FromRow(j) == j <= k \/ j > k + Len(nodes)
           InRow(j) == IF j <= k THEN j ELSE j - Len(nodes)
<1>4. ASSUME NEW j \in DOMAIN new
      PROVE  /\ FromRow(j) => InRow(j) \in DOMAIN row /\ new[j] = row[InRow(j)]
             /\ ~ FromRow(j) => j - k \in DOMAIN nodes /\ new[j] = nodes[j - k]
  BY <1>2, <1>3 DEF PutAt
<1>5. ToSet(new) = ToSet(row) \cup ToSet(nodes)
  <2>1. ASSUME NEW j \in DOMAIN new
        PROVE  new[j] \in ToSet(row) \cup ToSet(nodes)
    BY <1>4 DEF ToSet
  <2>2. ASSUME NEW j \in DOMAIN row
        PROVE  \E l \in DOMAIN new : new[l] = row[j]
    <3>1. CASE j <= k
      BY <1>2, <1>3, <3>1 DEF PutAt
    <3>2. CASE j > k
      <4> DEFINE l == j + Len(nodes)
      <4>1. l \in DOMAIN new /\ ~ (l <= k) /\ ~ (l <= k + Len(nodes)) /\ l - Len(nodes) = j
        BY <1>3, <3>2
      <4>2. new[l] = row[j]
        BY <1>2, <4>1 DEF PutAt
      <4> QED BY <4>1, <4>2
    <3> QED BY <1>3, <3>1, <3>2
  <2>3. ASSUME NEW j \in DOMAIN nodes
        PROVE  \E l \in DOMAIN new : new[l] = nodes[j]
    <3> DEFINE l == j + k
    <3>1. l \in DOMAIN new /\ ~ (l <= k) /\ l <= k + Len(nodes) /\ l - k = j
      BY <1>3
    <3>2. new[l] = nodes[j]
      BY <1>2, <3>1 DEF PutAt
    <3> QED BY <3>1, <3>2
  <2> QED BY <2>1, <2>2, <2>3 DEF ToSet
<1>6. ASSUME NoRepeats(row), NoRepeats(nodes), ToSet(row) \cap ToSet(nodes) = {}
      PROVE  NoRepeats(new)
  <2> SUFFICES ASSUME NEW i \in DOMAIN new, NEW j \in DOMAIN new, i # j
               PROVE  new[i] # new[j]
    BY DEF NoRepeats
  <2>0. ASSUME NEW l \in DOMAIN new
        PROVE  (FromRow(l) => new[l] \in ToSet(row)) /\ (~ FromRow(l) => new[l] \in ToSet(nodes))
    BY <1>4 DEF ToSet
  <2>1. CASE FromRow(i) /\ FromRow(j)
    <3>1. InRow(i) # InRow(j)
      BY <1>3, <2>1
    <3> QED BY <1>4, <1>6, <2>1, <3>1 DEF NoRepeats
  <2>2. CASE ~ FromRow(i) /\ ~ FromRow(j)
    <3>1. i - k # j - k
      BY <1>3
    <3> QED BY <1>4, <1>6, <2>2, <3>1 DEF NoRepeats
  <2>3. CASE FromRow(i) /\ ~ FromRow(j)
    <3>1. (FromRow(i) => new[i] \in ToSet(row)) /\ (~ FromRow(i) => new[i] \in ToSet(nodes))
      BY <2>0
    <3>2. (FromRow(j) => new[j] \in ToSet(row)) /\ (~ FromRow(j) => new[j] \in ToSet(nodes))
      BY <2>0
    <3> HIDE DEF FromRow
    <3> QED BY <1>6, <2>3, <3>1, <3>2
  <2>4. CASE ~ FromRow(i) /\ FromRow(j)
    <3>1. (FromRow(i) => new[i] \in ToSet(row)) /\ (~ FromRow(i) => new[i] \in ToSet(nodes))
      BY <2>0
    <3>2. (FromRow(j) => new[j] \in ToSet(row)) /\ (~ FromRow(j) => new[j] \in ToSet(nodes))
      BY <2>0
    <3> HIDE DEF FromRow
    <3> QED BY <1>6, <2>4, <3>1, <3>2
  <2> QED BY <2>1, <2>2, <2>3, <2>4
<1>7. ASSUME NEW m, NEW n, Before(new, m, n)
      PROVE  \/ Before(row, m, n) \/ Before(nodes, m, n)
             \/ m \in ToSet(row) /\ n \in ToSet(nodes)
             \/ m \in ToSet(nodes) /\ n \in ToSet(row)
  <2>1. PICK i, j \in DOMAIN new : i < j /\ new[i] = m /\ new[j] = n
    BY <1>7 DEF Before
  <2>2. CASE FromRow(i) /\ FromRow(j)
    <3>1. InRow(i) < InRow(j)
      BY <1>3, <2>1, <2>2
    <3> QED BY <1>4, <2>1, <2>2, <3>1 DEF Before
  <2>3. CASE ~ FromRow(i) /\ ~ FromRow(j)
    <3>1. i - k < j - k
      BY <1>3, <2>1
    <3> QED BY <1>4, <2>1, <2>3, <3>1 DEF Before
  <2>4. CASE FromRow(i) /\ ~ FromRow(j)
    BY <1>4, <2>1, <2>4 DEF ToSet
  <2>5. CASE ~ FromRow(i) /\ FromRow(j)
    BY <1>4, <2>1, <2>5 DEF ToSet
  <2> QED BY <2>2, <2>3, <2>4, <2>5
<1> QED BY <1>1, <1>5, <1>6, <1>7 DEF new

-----------------------------------------------------------------------------
(* Nodes that primitives bring. *)

\* The element that a rename makes is none of the caller's nodes.
LEMMA RenamedIsNew ==
  ASSUME NEW i
  PROVE  /\ Renamed(i)[1] = "renamed" /\ Renamed(i)[2] = i
         /\ Renamed(i) \notin Nodes /\ Renamed(i) # NoNode
BY NewNodesAreNew DEF Renamed, NoNode

\* NoNode is not a node.
LEMMA NoNodeIsNoPlace == NoNode \notin Places /\ NoNode \notin Nodes
<1>1. NoNode[1] = "none"
  BY DEF NoNode
<1> QED BY <1>1, RenamedIsNew, NewNodesAreNew DEF Places, ElementLike

\* The text that replaceElementContent makes is none of the caller's nodes and has no children.
LEMMA TextIsNew ==
  ASSUME NEW i
  PROVE  Text(i)[1] = "text" /\ Text(i)[2] = i /\ Text(i) \notin Nodes /\ Text(i) \notin Places
<1>1. Text(i)[1] = "text" /\ Text(i)[2] = i
  BY DEF Text
<1> QED BY <1>1, RenamedIsNew, NewNodesAreNew DEF Places, ElementLike

\* The content nodes of a primitive are all different, and none of them is in the caller's tree or
\* has children.
LEMMA ContentIsNew ==
  ASSUME NEW i \in Nat, NEW count \in Nat
  PROVE  /\ Content(i, count) \in Rows /\ NoRepeats(Content(i, count))
         /\ \A c \in ToSet(Content(i, count)) :
              c[1] = "content" /\ c[2] = i /\ c \notin Nodes /\ c \notin Places
<1> DEFINE s == Content(i, count)
<1>1. s = [j \in 1 .. count |-> <<"content", i, j>>]
  BY DEF Content
<1>2. s \in Seq(NodeLabels \X Nat \X Nat)
  BY <1>1 DEF NodeLabels
<1>3. s \in Rows
  BY <1>2 DEF Rows
<1>4. NoRepeats(s)
  BY <1>1 DEF NoRepeats
<1>5. ASSUME NEW c \in ToSet(s)
      PROVE  c[1] = "content" /\ c[2] = i /\ c \notin Nodes /\ c \notin Places
  <2>1. PICK j \in 1 .. count : c = <<"content", i, j>>
    BY <1>1 DEF ToSet
  <2>2. c[1] = "content" /\ c[2] = i
    BY <2>1
  <2>3. c \notin Nodes
    BY <2>2, NewNodesAreNew
  <2>4. \A k \in Updates : c # Renamed(k)
    BY <2>2, RenamedIsNew
  <2> QED BY <2>2, <2>3, <2>4 DEF Places, ElementLike
<1> QED BY <1>3, <1>4, <1>5

-----------------------------------------------------------------------------
(* The children of the tree. *)

AllOf(kids) == UNION {ToSet(kids[p]) : p \in Places}

\* Nodes of M that are in one row now were in one row, and in that order.
OrderKept(M, old, new) ==
  \A q \in Places : \A m, n \in M : Before(new[q], m, n) => \E r \in Places : Before(old[r], m, n)

Inserted(kids, p, nodes, reference) ==
  [q \in Places |-> IF q = p THEN Spliced(Without(kids[q], nodes), nodes, reference) ELSE Without(kids[q], nodes)]
RemovedFrom(kids, n) == [p \in Places |-> Without(kids[p], <<n>>)]

\* Contains is membership of the set of a row.
LEMMA ContainsToSet ==
  ASSUME NEW S, NEW row \in Seq(S), NEW m
  PROVE  Contains(row, m) <=> m \in ToSet(row)
BY DEF Contains, ToSet

\* What inserting does to the rows, as sets and in order.
LEMMA InsertedRows ==
  ASSUME NEW kids \in [Places -> Rows], NEW p \in Places, NEW nodes \in Rows, NEW reference,
         OnePlaceEach(kids), NoRepeats(nodes),
         reference = NoNode \/ reference \in ToSet(kids[p]) \ ToSet(nodes)
  PROVE  /\ Inserted(kids, p, nodes, reference) \in [Places -> Rows]
         /\ ToSet(Inserted(kids, p, nodes, reference)[p]) = ToSet(kids[p]) \cup ToSet(nodes)
         /\ \A q \in Places \ {p} : \A c :
              c \in ToSet(Inserted(kids, p, nodes, reference)[q]) <=> c \in ToSet(kids[q]) /\ c \notin ToSet(nodes)
         /\ OnePlaceEach(Inserted(kids, p, nodes, reference))
         /\ \A q \in Places \ {p} : \A m, n :
              Before(Inserted(kids, p, nodes, reference)[q], m, n) => Before(kids[q], m, n)
         /\ \A m, n : Before(Inserted(kids, p, nodes, reference)[p], m, n) =>
              \/ Before(kids[p], m, n) \/ Before(nodes, m, n)
              \/ m \in ToSet(kids[p]) /\ n \in ToSet(nodes)
              \/ m \in ToSet(nodes) /\ n \in ToSet(kids[p])
<1> DEFINE new == Inserted(kids, p, nodes, reference)
           S == Children \cup (NodeLabels \X Nat \X Nat)
           rest(q) == Without(kids[q], nodes)
<1>1. ASSUME NEW q \in Places
      PROVE  /\ rest(q) \in Seq(S) /\ ToSet(rest(q)) = ToSet(kids[q]) \ ToSet(nodes)
             /\ NoRepeats(rest(q)) /\ \A m, n : Before(rest(q), m, n) => Before(kids[q], m, n)
  <2>1. kids[q] \in Seq(S) /\ nodes \in Seq(S) /\ NoRepeats(kids[q])
    BY DEF Rows, OnePlaceEach
  <2> HIDE DEF S
  <2>2. /\ Without(kids[q], nodes) \in Seq(S)
        /\ ToSet(Without(kids[q], nodes)) = {m \in ToSet(kids[q]) : ~ Contains(nodes, m)}
        /\ NoRepeats(kids[q]) => NoRepeats(Without(kids[q], nodes))
        /\ \A m, n : Before(Without(kids[q], nodes), m, n) => Before(kids[q], m, n)
    BY <2>1, WithoutKeeps
  <2>3. \A m : Contains(nodes, m) <=> m \in ToSet(nodes)
    BY <2>1, ContainsToSet
  <2> QED BY <2>1, <2>2, <2>3
<1>2. new = [q \in Places |-> IF q = p THEN Spliced(rest(q), nodes, reference) ELSE rest(q)]
  BY DEF Inserted
<1>3. nodes \in Seq(S)
  BY DEF Rows
<1> HIDE DEF new, rest
<1>4. /\ new[p] \in Seq(S)
      /\ ToSet(new[p]) = ToSet(rest(p)) \cup ToSet(nodes)
      /\ NoRepeats(new[p])
      /\ \A m, n : Before(new[p], m, n) =>
           \/ Before(rest(p), m, n) \/ Before(nodes, m, n)
           \/ m \in ToSet(rest(p)) /\ n \in ToSet(nodes)
           \/ m \in ToSet(nodes) /\ n \in ToSet(rest(p))
  <2>1. new[p] = Spliced(rest(p), nodes, reference)
    BY <1>2
  <2>2. reference = NoNode \/ reference \in ToSet(rest(p))
    BY <1>1
  <2>3. rest(p) \in Seq(S) /\ NoRepeats(rest(p)) /\ ToSet(rest(p)) \cap ToSet(nodes) = {}
    BY <1>1
  <2> DEFINE spliced == Spliced(rest(p), nodes, reference)
  <2> HIDE DEF S
  <2>4. /\ spliced \in Seq(S)
        /\ ToSet(spliced) = ToSet(rest(p)) \cup ToSet(nodes)
        /\ NoRepeats(rest(p)) /\ NoRepeats(nodes) /\ ToSet(rest(p)) \cap ToSet(nodes) = {} => NoRepeats(spliced)
        /\ \A m, n : Before(spliced, m, n) =>
             \/ Before(rest(p), m, n) \/ Before(nodes, m, n)
             \/ m \in ToSet(rest(p)) /\ n \in ToSet(nodes)
             \/ m \in ToSet(nodes) /\ n \in ToSet(rest(p))
    BY <1>3, <2>2, <2>3, SplicedKeeps
  <2>5. new[p] = spliced
    BY <2>1
  <2> HIDE DEF spliced
  <2> QED BY <2>3, <2>4, <2>5
<1>5. \A q \in Places \ {p} : new[q] = rest(q)
  BY <1>2
<1>6. new \in [Places -> Rows]
  <2>1. \A q \in Places : new[q] \in Rows
    BY <1>1, <1>4, <1>5 DEF Rows
  <2> QED BY <1>2, <2>1
<1>7. ToSet(new[p]) = ToSet(kids[p]) \cup ToSet(nodes)
  BY <1>1, <1>4
<1>8. \A q \in Places \ {p} : ToSet(new[q]) = ToSet(kids[q]) \ ToSet(nodes)
  BY <1>1, <1>5
<1>9. OnePlaceEach(new)
  <2>1. \A q \in Places : NoRepeats(new[q])
    BY <1>1, <1>4, <1>5
  <2>2. \A q, r \in Places : q # r => ToSet(new[q]) \cap ToSet(new[r]) = {}
    BY <1>7, <1>8 DEF OnePlaceEach
  <2> QED BY <2>1, <2>2 DEF OnePlaceEach
<1>10. \A q \in Places \ {p} : \A m, n : Before(new[q], m, n) => Before(kids[q], m, n)
  BY <1>1, <1>5
<1>11. \A m, n : Before(new[p], m, n) =>
         \/ Before(kids[p], m, n) \/ Before(nodes, m, n)
         \/ m \in ToSet(kids[p]) /\ n \in ToSet(nodes)
         \/ m \in ToSet(nodes) /\ n \in ToSet(kids[p])
  BY <1>1, <1>4
<1>12. \A q \in Places \ {p} : \A c : c \in ToSet(new[q]) <=> c \in ToSet(kids[q]) /\ c \notin ToSet(nodes)
  BY <1>8
<1> QED BY <1>6, <1>7, <1>9, <1>10, <1>11, <1>12 DEF new

\* The part of the invariant about children, for a primitive more that has been applied.
LEMMA KidsGrow ==
  ASSUME NEW kids, NEW list, NEW done, NEW i, KidsInv(kids, list, done)
  PROVE  KidsInv(kids, list, done \cup {i})
<1>1. \A c : KnownChild(c, done) => KnownChild(c, done \cup {i})
  BY DEF KnownChild, MadeBy
<1>2. InUse(list, done) \subseteq InUse(list, done \cup {i})
  BY DEF InUse
<1> QED BY <1>1, <1>2 DEF KidsInv, UnderTheirOrigin

\* Only nodes of a row are before one another in it.
LEMMA BeforeInRow ==
  ASSUME NEW row, NEW m, NEW n, Before(row, m, n)
  PROVE  m \in ToSet(row) /\ n \in ToSet(row)
BY DEF Before, ToSet

\* Where nodes may be put: under a parent whose origin had theirs for children.
MayGoUnder(list, done, p, nodes) ==
  /\ p \in InUse(list, done)
  /\ \A c \in ToSet(nodes) :
       KnownChild(c, done) /\ (c \in Places => OriginIn(list, c) \in ToSet(Kids[OriginIn(list, p)]))

\* Inserting keeps the invariant of the children and adds the nodes inserted, no more.
LEMMA InsertedKids ==
  ASSUME NEW kids, NEW list, NEW done, NEW p \in Places, NEW nodes \in Rows, NEW reference,
         KidsInv(kids, list, done), NoRepeats(nodes), MayGoUnder(list, done, p, nodes),
         reference = NoNode \/ reference \in ToSet(kids[p]) \ ToSet(nodes)
  PROVE  /\ KidsInv(Inserted(kids, p, nodes, reference), list, done)
         /\ \A c : c \in AllOf(Inserted(kids, p, nodes, reference)) <=> c \in AllOf(kids) \/ c \in ToSet(nodes)
<1> DEFINE new == Inserted(kids, p, nodes, reference)
<1>1. kids \in [Places -> Rows] /\ OnePlaceEach(kids)
  BY DEF KidsInv
<1>2. /\ new \in [Places -> Rows]
      /\ ToSet(new[p]) = ToSet(kids[p]) \cup ToSet(nodes)
      /\ \A q \in Places \ {p} : \A c : c \in ToSet(new[q]) <=> c \in ToSet(kids[q]) /\ c \notin ToSet(nodes)
      /\ OnePlaceEach(new)
  <2>1. new \in [Places -> Rows] /\ ToSet(new[p]) = ToSet(kids[p]) \cup ToSet(nodes) /\ OnePlaceEach(new)
    BY <1>1, InsertedRows
  <2>2. ASSUME NEW q \in Places \ {p}
        PROVE  \A c : c \in ToSet(new[q]) <=> c \in ToSet(kids[q]) /\ c \notin ToSet(nodes)
    BY <1>1, InsertedRows
  <2> QED BY <2>1, <2>2
<1> HIDE DEF new
<1>3. ASSUME NEW q \in Places, NEW c \in ToSet(new[q])
      PROVE  c \in ToSet(kids[q]) \/ (q = p /\ c \in ToSet(nodes))
  <2>1. CASE q = p
    BY <1>2, <2>1
  <2>2. CASE q # p
    BY <1>2, <2>2
  <2> QED BY <2>1, <2>2
<1>4. \A q \in Places : \A c \in ToSet(new[q]) : KnownChild(c, done)
  BY <1>3 DEF KidsInv, MayGoUnder
<1>5. UnderTheirOrigin(new, list, done)
  BY <1>3 DEF KidsInv, UnderTheirOrigin, MayGoUnder
<1>6. \A c : c \in AllOf(new) <=> c \in AllOf(kids) \/ c \in ToSet(nodes)
  BY <1>2 DEF AllOf
<1> QED BY <1>2, <1>4, <1>5, <1>6 DEF KidsInv, new

\* Inserting new nodes, or all the children of another parent, swaps nothing.
LEMMA InsertedOrder ==
  ASSUME NEW kids \in [Places -> Rows], NEW p \in Places, NEW nodes \in Rows, NEW reference, NEW M,
         OnePlaceEach(kids), NoRepeats(nodes),
         reference = NoNode \/ reference \in ToSet(kids[p]) \ ToSet(nodes),
         \/ M \cap ToSet(nodes) = {}
         \/ ToSet(kids[p]) = {} /\ \E r \in Places : nodes = kids[r]
  PROVE  OrderKept(M, kids, Inserted(kids, p, nodes, reference))
<1> DEFINE new == Inserted(kids, p, nodes, reference)
<1>1. /\ \A q \in Places \ {p} : \A m, n : Before(new[q], m, n) => Before(kids[q], m, n)
      /\ \A m, n : Before(new[p], m, n) =>
           \/ Before(kids[p], m, n) \/ Before(nodes, m, n)
           \/ m \in ToSet(kids[p]) /\ n \in ToSet(nodes)
           \/ m \in ToSet(nodes) /\ n \in ToSet(kids[p])
  BY InsertedRows
<1> HIDE DEF new
<1> SUFFICES ASSUME NEW q \in Places, NEW m \in M, NEW n \in M, Before(new[q], m, n)
             PROVE  \E r \in Places : Before(kids[r], m, n)
  BY DEF OrderKept, new
<1>2. CASE q # p
  BY <1>1, <1>2
<1>3. CASE q = p /\ M \cap ToSet(nodes) = {}
  <2>1. ~ Before(nodes, m, n)
    BY <1>3, BeforeInRow
  <2> QED BY <1>1, <1>3, <2>1
<1>4. CASE q = p /\ ToSet(kids[p]) = {} /\ \E r \in Places : nodes = kids[r]
  <2>1. ~ Before(kids[p], m, n)
    BY <1>4, BeforeInRow
  <2>2. Before(nodes, m, n)
    BY <1>1, <1>4, <2>1
  <2> QED BY <1>4, <2>2
<1> QED BY <1>2, <1>3, <1>4

\* What removing a child does to the rows, as sets and in order.
LEMMA RemovedRows ==
  ASSUME NEW kids \in [Places -> Rows], NEW node, OnePlaceEach(kids), node \in Children
  PROVE  /\ RemovedFrom(kids, node) \in [Places -> Rows]
         /\ \A q \in Places : ToSet(RemovedFrom(kids, node)[q]) = ToSet(kids[q]) \ {node}
         /\ OnePlaceEach(RemovedFrom(kids, node))
         /\ \A q \in Places : \A m, n : Before(RemovedFrom(kids, node)[q], m, n) => Before(kids[q], m, n)
<1> DEFINE new == RemovedFrom(kids, node)
           S == Children \cup (NodeLabels \X Nat \X Nat)
           gone == <<node>>
<1>1. gone \in Seq(S) /\ ToSet(gone) = {node}
  BY DEF ToSet
<1>2. new = [p \in Places |-> Without(kids[p], gone)]
  BY DEF RemovedFrom
<1> HIDE DEF new, gone
<1>3. ASSUME NEW q \in Places
      PROVE  /\ new[q] \in Rows /\ ToSet(new[q]) = ToSet(kids[q]) \ {node}
             /\ NoRepeats(new[q]) /\ \A m, n : Before(new[q], m, n) => Before(kids[q], m, n)
  <2>1. kids[q] \in Seq(S) /\ NoRepeats(kids[q])
    BY DEF Rows, OnePlaceEach
  <2>2. new[q] = Without(kids[q], gone)
    BY <1>2
  <2> DEFINE w == Without(kids[q], gone)
  <2>3. Rows = Seq(S)
    BY DEF Rows
  <2>4. \A m : Contains(gone, m) <=> m = node
    <3> HIDE DEF S
    <3> QED BY <1>1, ContainsToSet
  <2> HIDE DEF S
  <2>5. /\ w \in Seq(S)
        /\ ToSet(w) = {m \in ToSet(kids[q]) : ~ Contains(gone, m)}
        /\ NoRepeats(kids[q]) => NoRepeats(w)
        /\ \A m, n : Before(w, m, n) => Before(kids[q], m, n)
    BY <2>1, WithoutKeeps
  <2>6. new[q] = w
    BY <2>2
  <2> HIDE DEF w
  <2> QED BY <2>1, <2>3, <2>4, <2>5, <2>6
<1>4. new \in [Places -> Rows]
  BY <1>2, <1>3
<1>5. OnePlaceEach(new)
  BY <1>3 DEF OnePlaceEach
<1> QED BY <1>3, <1>4, <1>5 DEF new

\* Removing a child keeps the invariant of the children, takes that child away and swaps nothing.
LEMMA RemovedKids ==
  ASSUME NEW kids, NEW list, NEW done, NEW node \in Children, KidsInv(kids, list, done)
  PROVE  /\ KidsInv(RemovedFrom(kids, node), list, done)
         /\ AllOf(RemovedFrom(kids, node)) = AllOf(kids) \ {node}
         /\ \A M : OrderKept(M, kids, RemovedFrom(kids, node))
<1> DEFINE new == RemovedFrom(kids, node)
<1>1. kids \in [Places -> Rows] /\ OnePlaceEach(kids)
  BY DEF KidsInv
<1>2. /\ new \in [Places -> Rows]
      /\ \A q \in Places : ToSet(new[q]) = ToSet(kids[q]) \ {node}
      /\ OnePlaceEach(new)
      /\ \A q \in Places : \A m, n : Before(new[q], m, n) => Before(kids[q], m, n)
  BY <1>1, RemovedRows
<1> HIDE DEF new
<1>3. \A q \in Places : \A c \in ToSet(new[q]) : c \in ToSet(kids[q])
  BY <1>2
<1>4. \A q \in Places : \A c \in ToSet(new[q]) : KnownChild(c, done)
  BY <1>3 DEF KidsInv
<1>5. UnderTheirOrigin(new, list, done)
  BY <1>3 DEF KidsInv, UnderTheirOrigin
<1>6. AllOf(new) = AllOf(kids) \ {node}
  BY <1>2 DEF AllOf
<1>7. \A M : OrderKept(M, kids, new)
  BY <1>2 DEF OrderKept
<1> QED BY <1>2, <1>4, <1>5, <1>6, <1>7 DEF KidsInv, new

Emptied(kids, p) == [kids EXCEPT ![p] = <<>>]
\* So does emptying the row of a node, which takes its children away.
LEMMA EmptiedKids ==
  ASSUME NEW kids, NEW list, NEW done, NEW p \in Places, KidsInv(kids, list, done)
  PROVE  /\ KidsInv(Emptied(kids, p), list, done)
         /\ AllOf(Emptied(kids, p)) \subseteq AllOf(kids)
         /\ \A M : OrderKept(M, kids, Emptied(kids, p))
<1> DEFINE new == Emptied(kids, p)
<1>1. kids \in [Places -> Rows] /\ OnePlaceEach(kids)
  BY DEF KidsInv
<1>2. <<>> \in Rows /\ ToSet(<<>>) = {} /\ NoRepeats(<<>>) /\ \A m, n : ~ Before(<<>>, m, n)
  BY DEF Rows, ToSet, NoRepeats, Before
<1>3. new \in [Places -> Rows] /\ new[p] = <<>> /\ \A q \in Places \ {p} : new[q] = kids[q]
  BY <1>1, <1>2 DEF Emptied
<1> HIDE DEF new
<1>4. \A q \in Places : \A c \in ToSet(new[q]) : c \in ToSet(kids[q])
  BY <1>2, <1>3
<1>5. OnePlaceEach(new)
  <2>1. \A q \in Places : NoRepeats(new[q])
    BY <1>1, <1>2, <1>3 DEF OnePlaceEach
  <2>2. \A q, r \in Places : q # r => ToSet(new[q]) \cap ToSet(new[r]) = {}
    BY <1>1, <1>4 DEF OnePlaceEach
  <2> QED BY <2>1, <2>2 DEF OnePlaceEach
<1>6. \A q \in Places : \A c \in ToSet(new[q]) : KnownChild(c, done)
  BY <1>4 DEF KidsInv
<1>7. UnderTheirOrigin(new, list, done)
  BY <1>4 DEF KidsInv, UnderTheirOrigin
<1>8. AllOf(new) \subseteq AllOf(kids)
  BY <1>4 DEF AllOf
<1>9. \A M : OrderKept(M, kids, new)
  BY <1>2, <1>3 DEF OrderKept
<1> QED BY <1>3, <1>5, <1>6, <1>7, <1>8, <1>9 DEF KidsInv, new

\* Two steps that swap nothing swap nothing together.
LEMMA OrderKeptTwice ==
  ASSUME NEW M, NEW a, NEW b, NEW c, OrderKept(M, a, b), OrderKept(M, b, c)
  PROVE  OrderKept(M, a, c)
BY DEF OrderKept

\* What a primitive that has not been applied brings is not in the tree.
LEMMA NotYetThere ==
  ASSUME NEW kids, NEW list, NEW done, NEW i, NEW node, KidsInv(kids, list, done), i \notin done,
         node \notin Nodes, node[2] = i
  PROVE  node \notin AllOf(kids)
<1>1. ~ KnownChild(node, done)
  BY DEF KnownChild, MadeBy, Children
<1> QED BY <1>1 DEF KidsInv, AllOf

-----------------------------------------------------------------------------
(* What is read from the tree. *)

\* A tree has rows and sets of attributes for the nodes that may have any.
LEMMA TreePlaces ==
  ASSUME NEW t, NEW list, NEW done, TreeInv(t, list, done)
  PROVE  /\ DOMAIN t.kids = Places /\ DOMAIN t.attrs = Places
         /\ \A p \in Places : t.kids[p] \in Rows
BY DEF TreeInv, KidsInv, AttributesInv

\* A node of the caller is never both a child and an attribute.
LEMMA ChildrenAndAttributesDiffer ==
  ASSUME NEW n \in Nodes, NEW done
  PROVE  /\ n \in Children => ~ KnownAttribute(n, done)
         /\ n \notin Children => ~ KnownChild(n, done)
BY NewNodesAreNew DEF KnownChild, KnownAttribute, MadeBy, NodeLabels, Children

\* Contains is membership for the rows of a tree.
LEMMA RowHolds ==
  ASSUME NEW row \in Rows, NEW m
  PROVE  Contains(row, m) <=> m \in ToSet(row)
<1> DEFINE S == Children \cup (NodeLabels \X Nat \X Nat)
<1>1. row \in Seq(S)
  BY DEF Rows
<1> HIDE DEF S
<1> QED BY <1>1, ContainsToSet

\* The parent of a child is where it is in the row, that of an attribute where it is in the set.
LEMMA ParentIsOwner ==
  ASSUME NEW t, NEW list, NEW done, TreeInv(t, list, done), NEW n \in Nodes
  PROVE  /\ ParentOf(t, n) = NoNode <=> ~ Owned(t, n)
         /\ ParentOf(t, n) # NoNode /\ n \in Children =>
              ParentOf(t, n) \in Places /\ n \in ToSet(t.kids[ParentOf(t, n)])
         /\ ParentOf(t, n) # NoNode /\ n \notin Children =>
              ParentOf(t, n) \in Places /\ n \in Ids(t.attrs[ParentOf(t, n)])
<1> DEFINE above == {p \in Places : n \in ToSet(t.kids[p]) \/ n \in Ids(t.attrs[p])}
<1>1. ParentOf(t, n) = IF above = {} THEN NoNode ELSE CHOOSE p \in above : TRUE
  <2> DEFINE A(p) == Contains(t.kids[p], n) \/ \E a \in t.attrs[p] : a.id = n
             found == {p \in Parents(t) : A(p)}
  <2>1. \A p \in Places : A(p) <=> n \in ToSet(t.kids[p]) \/ n \in Ids(t.attrs[p])
    BY TreePlaces, RowHolds DEF Ids
  <2>2. above = found
    <3>1. Parents(t) = Places
      BY TreePlaces DEF Parents
    <3> HIDE DEF A
    <3> QED BY <2>1, <3>1
  <2>3. ParentOf(t, n) = IF found = {} THEN NoNode ELSE CHOOSE p \in found : TRUE
    BY DEF ParentOf
  <2> HIDE DEF above, found
  <2> QED BY <2>2, <2>3
<1>2. above = {} <=> ~ Owned(t, n)
  BY DEF Owned
<1>3. ~ Owned(t, n) => ParentOf(t, n) = NoNode
  BY <1>1, <1>2
<1>4. Owned(t, n) => ParentOf(t, n) \in above /\ ParentOf(t, n) # NoNode
  <2>1. NoNode \notin above
    BY NoNodeIsNoPlace
  <2>2. ASSUME above # {}
        PROVE  (CHOOSE p \in above : TRUE) \in above
    <3> HIDE DEF above
    <3> QED BY <2>2
  <2> QED BY <1>1, <1>2, <2>1, <2>2
<1>5. \A p \in Places : n \in ToSet(t.kids[p]) => n \in Children
  BY ChildrenAndAttributesDiffer DEF TreeInv, KidsInv
<1>6. \A p \in Places : n \in Ids(t.attrs[p]) => n \notin Children
  BY ChildrenAndAttributesDiffer DEF TreeInv, AttributesInv, Ids
<1> QED BY <1>3, <1>4, <1>5, <1>6

\* The first child of a node is one of its children, if it has any.
LEMMA FirstChildIsChild ==
  ASSUME NEW t, NEW list, NEW done, TreeInv(t, list, done), NEW p \in Places
  PROVE  FirstChild(t, p) = NoNode \/ FirstChild(t, p) \in ToSet(t.kids[p])
<1> DEFINE row == t.kids[p]
           S == Children \cup (NodeLabels \X Nat \X Nat)
<1>1. row \in Seq(S)
  BY TreePlaces DEF Rows
<1>2. FirstChild(t, p) = IF row = <<>> THEN NoNode ELSE Head(row)
  BY DEF FirstChild
<1> HIDE DEF row, S
<1>3. row # <<>> => Head(row) = row[1] /\ 1 \in DOMAIN row
  BY <1>1
<1>4. FirstChild(t, p) = NoNode \/ FirstChild(t, p) \in ToSet(row)
  BY <1>2, <1>3 DEF ToSet
<1> QED BY <1>4 DEF row

\* What comes after a child is another child of its parent.
LEMMA NextSiblingIsChild ==
  ASSUME NEW t, NEW list, NEW done, TreeInv(t, list, done), NEW n \in Children, ParentOf(t, n) # NoNode
  PROVE  NextSibling(t, n) = NoNode \/ NextSibling(t, n) \in ToSet(t.kids[ParentOf(t, n)]) \ {n}
<1> DEFINE p == ParentOf(t, n)
           row == t.kids[p]
           S == Children \cup (NodeLabels \X Nat \X Nat)
           i == SelectInSeq(row, LAMBDA m : m = n)
<1>1. p \in Places /\ n \in ToSet(row)
  BY ParentIsOwner DEF Children
<1>2. row \in Seq(S) /\ NoRepeats(row)
  BY <1>1 DEF TreeInv, KidsInv, OnePlaceEach, Rows
<1>3. NextSibling(t, n) = IF i < Len(row) THEN row[i + 1] ELSE NoNode
  BY DEF NextSibling
<1> HIDE DEF p, row, S
<1>4. i \in 1 .. Len(row) /\ row[i] = n
  <2> DEFINE I == {j \in 1 .. Len(row) : row[j] = n}
  <2>1. I # {} /\ I \in SUBSET Nat
    BY <1>1, <1>2 DEF ToSet
  <2>2. Min(I) \in I
    <3> HIDE DEF I
    <3> QED BY <2>1, Order!MinIsLeast DEF Min, Order!Min
  <2>3. i = Min(I)
    BY <2>1 DEF SelectInSeq
  <2> QED BY <2>2, <2>3
<1> HIDE DEF i
<1>5. i < Len(row) => row[i + 1] \in ToSet(row) /\ row[i + 1] # n
  BY <1>2, <1>4 DEF ToSet, NoRepeats
<1>6. NextSibling(t, n) = NoNode \/ NextSibling(t, n) \in ToSet(row) \ {n}
  BY <1>3, <1>5
<1> QED BY <1>6 DEF row, p

-----------------------------------------------------------------------------
(* The attributes of the tree. *)

\* The part of the invariant about attributes, for a primitive more that has been applied.
LEMMA AttributesGrow ==
  ASSUME NEW attrs, NEW done, NEW i, AttributesInv(attrs, done)
  PROVE  AttributesInv(attrs, done \cup {i})
<1>1. \A id : KnownAttribute(id, done) => KnownAttribute(id, done \cup {i})
  BY DEF KnownAttribute, MadeBy
<1> QED BY <1>1 DEF AttributesInv

\* What the attributes of element e may become.
GoodAttributes(attrs, done, e, new) ==
  /\ \A a \in new : /\ a = Attribute(a.id, a.name, a.value) /\ KnownAttribute(a.id, done)
                    /\ a.id \in Nodes => e \in ElementLike
  /\ \A p \in Places \ {e} : \A a \in new : a.id \notin Ids(attrs[p])
  /\ \A a, b \in new : a # b => a.id # b.id /\ ~ SameName(a.name, b.name)

\* Giving an element other attributes, good ones, keeps the invariant.
LEMMA AttributesReplaced ==
  ASSUME NEW attrs, NEW done, NEW e \in Places, NEW new,
         AttributesInv(attrs, done), GoodAttributes(attrs, done, e, new)
  PROVE  AttributesInv([attrs EXCEPT ![e] = new], done)
<1> DEFINE A == [attrs EXCEPT ![e] = new]
<1>1. DOMAIN A = Places /\ A[e] = new /\ \A p \in Places \ {e} : A[p] = attrs[p]
  BY DEF AttributesInv
<1> HIDE DEF A
<1>2. \A p \in Places : \A a \in A[p] :
        /\ a = Attribute(a.id, a.name, a.value) /\ KnownAttribute(a.id, done)
        /\ a.id \in Nodes => p \in ElementLike
  BY <1>1 DEF AttributesInv, GoodAttributes
<1>3. ASSUME NEW p \in Places, NEW q \in Places, p # q, NEW id \in Ids(A[p]), id \in Ids(A[q])
      PROVE  FALSE
  <2>1. CASE p = e
    <3>1. id \in Ids(attrs[q]) /\ \E a \in new : a.id = id
      BY <1>1, <1>3, <2>1 DEF Ids
    <3> QED BY <1>3, <2>1, <3>1 DEF GoodAttributes
  <2>2. CASE q = e
    <3>1. id \in Ids(attrs[p]) /\ \E a \in new : a.id = id
      BY <1>1, <1>3, <2>2 DEF Ids
    <3> QED BY <1>3, <2>2, <3>1 DEF GoodAttributes
  <2>3. CASE p # e /\ q # e
    BY <1>1, <1>3, <2>3 DEF AttributesInv
  <2> QED BY <2>1, <2>2, <2>3
<1>4. \A p \in Places : \A a, b \in A[p] : a # b => a.id # b.id /\ ~ SameName(a.name, b.name)
  BY <1>1 DEF AttributesInv, GoodAttributes
<1>5. AttributesInv(A, done)
  BY <1>1, <1>2, <1>3, <1>4 DEF AttributesInv
<1> QED BY <1>5 DEF A

\* Some of the attributes of an element are good ones for it.
LEMMA SomeAttributes ==
  ASSUME NEW attrs, NEW done, NEW e \in Places, AttributesInv(attrs, done), NEW new, new \subseteq attrs[e]
  PROVE  GoodAttributes(attrs, done, e, new)
BY DEF AttributesInv, GoodAttributes, Ids

\* removeAttributeNS with the name of an attribute takes that one away and nothing else.
LEMMA RemovedAttribute ==
  ASSUME NEW t, NEW done, NEW e \in Places, AttributesInv(t.attrs, done), NEW a \in t.attrs[e]
  PROVE  /\ RemoveAttribute(t, e, a.name).kids = t.kids
         /\ AttributesInv(RemoveAttribute(t, e, a.name).attrs, done)
         /\ \A p \in Places : \A n : n \in Ids(t.attrs[p]) /\ n # a.id =>
              n \in Ids(RemoveAttribute(t, e, a.name).attrs[p])
         /\ \A b \in RemoveAttribute(t, e, a.name).attrs[e] : b \in t.attrs[e]
<1> DEFINE left == {b \in t.attrs[e] : ~ (b.name.local = a.name.local /\ b.name.uri = a.name.uri)}
           new == RemoveAttribute(t, e, a.name)
<1>1. new.kids = t.kids /\ new.attrs = [t.attrs EXCEPT ![e] = left]
  BY DEF RemoveAttribute, WithAttributes
<1>2. \A b \in t.attrs[e] : b # a => b \in left
  BY DEF AttributesInv, SameName
<1> HIDE DEF new
<1>3. left \subseteq t.attrs[e]
  OBVIOUS
<1> HIDE DEF left
<1>4. GoodAttributes(t.attrs, done, e, left)
  BY <1>3, SomeAttributes
<1>5. AttributesInv([t.attrs EXCEPT ![e] = left], done)
  BY <1>4, AttributesReplaced
<1>6. new.attrs[e] = left /\ \A p \in Places \ {e} : new.attrs[p] = t.attrs[p]
  BY <1>1 DEF AttributesInv
<1>7. ASSUME NEW p \in Places, NEW n \in Ids(t.attrs[p]), n # a.id
      PROVE  n \in Ids(new.attrs[p])
  <2>1. CASE p = e
    <3>1. PICK b \in t.attrs[e] : b.id = n
      BY <2>1 DEF Ids
    <3>2. b \in left
      BY <1>2, <1>7, <3>1
    <3> QED BY <1>6, <2>1, <3>1, <3>2 DEF Ids
  <2>2. CASE p # e
    BY <1>6, <2>2
  <2> QED BY <2>1, <2>2
<1> QED BY <1>1, <1>3, <1>5, <1>6, <1>7 DEF new

\* setAttributeNS for an attribute that is there changes no identity.
LEMMA ValueSet ==
  ASSUME NEW t, NEW done, NEW e \in Places, AttributesInv(t.attrs, done), NEW name, NEW value
  PROVE  /\ SetValue(t, e, name, value).kids = t.kids
         /\ AttributesInv(SetValue(t, e, name, value).attrs, done)
         /\ \A p \in Places : \A n : n \in Ids(t.attrs[p]) => n \in Ids(SetValue(t, e, name, value).attrs[p])
<1> DEFINE set(a) == IF a.name.local = name.local /\ a.name.uri = name.uri THEN Attribute(a.id, a.name, value) ELSE a
           new == SetValue(t, e, name, value)
           all == {set(a) : a \in t.attrs[e]}
<1>1. new.kids = t.kids /\ new.attrs = [t.attrs EXCEPT ![e] = all]
  BY DEF SetValue, WithAttributes
<1>2. ASSUME NEW a \in t.attrs[e]
      PROVE  set(a).id = a.id /\ set(a).name = a.name /\ set(a) = Attribute(a.id, a.name, set(a).value)
  BY DEF AttributesInv, Attribute
<1> HIDE DEF new, set
<1>3. \A b \in all : \E a \in t.attrs[e] : b = set(a) /\ b.id = a.id /\ b.name = a.name
  BY <1>2
<1>4. GoodAttributes(t.attrs, done, e, all)
  <2>1. ASSUME NEW b \in all
        PROVE  /\ b = Attribute(b.id, b.name, b.value) /\ KnownAttribute(b.id, done)
               /\ b.id \in Nodes => e \in ElementLike
               /\ \A p \in Places \ {e} : b.id \notin Ids(t.attrs[p])
    <3>1. PICK a \in t.attrs[e] : b = set(a) /\ b.id = a.id /\ b.name = a.name
      BY <1>3
    <3> QED BY <1>2, <3>1 DEF AttributesInv, Ids
  <2>2. ASSUME NEW b \in all, NEW c \in all, b # c
        PROVE  b.id # c.id /\ ~ SameName(b.name, c.name)
    BY <1>3, <2>2 DEF AttributesInv
  <2> QED BY <2>1, <2>2 DEF GoodAttributes
<1>5. AttributesInv([t.attrs EXCEPT ![e] = all], done)
  <2> HIDE DEF all
  <2> QED BY <1>4, AttributesReplaced
<1>6. new.attrs[e] = all /\ \A p \in Places \ {e} : new.attrs[p] = t.attrs[p]
  BY <1>1 DEF AttributesInv
<1>7. ASSUME NEW p \in Places, NEW n \in Ids(t.attrs[p])
      PROVE  n \in Ids(new.attrs[p])
  BY <1>2, <1>6 DEF Ids
<1> QED BY <1>1, <1>5, <1>7 DEF new

-----------------------------------------------------------------------------
(* One primitive: i, which is among those of done, works on a tree t that has nothing of what i *)
(* brings yet.                                                                                  *)

Untouched(t, i) ==
  /\ \A c \in AllOf(t.kids) : c \notin Nodes => c[2] # i
  /\ \A p \in Places : \A a \in t.attrs[p] : a.id \notin Nodes => a.id[2] # i
  /\ i \in Updates => ToSet(t.kids[Renamed(i)]) = {}

\* What the steps of a primitive make of a tree.
GoodStep(t, new, list, done) == TreeInv(new, list, done) /\ OrderKept(AllOf(t.kids), t.kids, new.kids)

\* When its turn comes, a primitive finds the invariant and nothing of what it brings.
LEMMA Begun ==
  ASSUME NEW t, NEW list, NEW done, NEW i, TreeInv(t, list, done), i \notin done
  PROVE  TreeInv(t, list, done \cup {i}) /\ Untouched(t, i)
<1>1. KidsInv(t.kids, list, done \cup {i}) /\ AttributesInv(t.attrs, done \cup {i})
  BY KidsGrow, AttributesGrow DEF TreeInv
<1>2. OwnedUntilTaken(t, list, done \cup {i})
  BY DEF TreeInv, OwnedUntilTaken
<1>3. \A c \in AllOf(t.kids) : c \notin Nodes => c[2] # i
  BY NotYetThere DEF TreeInv
<1>4. \A p \in Places : \A a \in t.attrs[p] : a.id \notin Nodes => a.id[2] # i
  BY DEF TreeInv, AttributesInv, KnownAttribute, MadeBy
<1>5. ASSUME i \in Updates
      PROVE  ToSet(t.kids[Renamed(i)]) = {}
  <2>1. \A j : Renamed(i) = Renamed(j) => i = j
    BY RenamedIsNew
  <2>2. Renamed(i) \in Places /\ Renamed(i) \notin InUse(list, done)
    BY <1>5, <2>1, RenamedIsNew DEF Places, InUse, ElementLike
  <2> QED BY <2>2 DEF TreeInv, KidsInv, UnderTheirOrigin
<1> QED BY <1>1, <1>2, <1>3, <1>4, <1>5 DEF TreeInv, Untouched

\* Who had a parent has one, if a step only takes away the parents that its primitive takes.
LEMMA OwnedStill ==
  ASSUME NEW t, NEW new, NEW list, NEW done, NEW i \in done, OwnedUntilTaken(t, list, done),
         \A n \in Nodes : Owned(t, n) => Owned(new, n) \/ TakesAway(list[i], n)
  PROVE  OwnedUntilTaken(new, list, done)
BY DEF OwnedUntilTaken

\* Leaving the tree alone is a good step.
LEMMA SameTree ==
  ASSUME NEW t, NEW list, NEW done, TreeInv(t, list, done)
  PROVE  GoodStep(t, t, list, done)
BY DEF GoodStep, OrderKept

\* Only rows have changed.
LEMMA RowsChanged ==
  ASSUME NEW t, NEW new, NEW list, NEW done, NEW i \in done, TreeInv(t, list, done),
         new.attrs = t.attrs, KidsInv(new.kids, list, done),
         \A c \in AllOf(t.kids) : c \in AllOf(new.kids) \/ TakesAway(list[i], c)
  PROVE  TreeInv(new, list, done)
<1>1. ASSUME NEW n \in Nodes, Owned(t, n)
      PROVE  Owned(new, n) \/ TakesAway(list[i], n)
  <2>1. PICK p \in Places : n \in ToSet(t.kids[p]) \/ n \in Ids(t.attrs[p])
    BY <1>1 DEF Owned
  <2>2. CASE n \in ToSet(t.kids[p])
    <3>1. n \in AllOf(t.kids)
      BY <2>2 DEF AllOf
    <3> QED BY <3>1 DEF AllOf, Owned
  <2>3. CASE n \in Ids(t.attrs[p])
    BY <2>3 DEF Owned
  <2> QED BY <2>1, <2>2, <2>3
<1> QED BY <1>1, OwnedStill DEF TreeInv

\* Only attributes have changed.
LEMMA AttributesChanged ==
  ASSUME NEW t, NEW new, NEW list, NEW done, NEW i \in done, TreeInv(t, list, done),
         new.kids = t.kids, AttributesInv(new.attrs, done),
         \A p \in Places : \A n \in Nodes :
           n \in Ids(t.attrs[p]) => n \in Ids(new.attrs[p]) \/ TakesAway(list[i], n)
  PROVE  GoodStep(t, new, list, done)
<1>1. ASSUME NEW n \in Nodes, Owned(t, n)
      PROVE  Owned(new, n) \/ TakesAway(list[i], n)
  BY <1>1 DEF Owned
<1>2. TreeInv(new, list, done)
  BY <1>1, OwnedStill DEF TreeInv
<1>3. OrderKept(AllOf(t.kids), t.kids, new.kids)
  BY DEF OrderKept
<1> QED BY <1>2, <1>3 DEF GoodStep

\* insertBefore in terms of rows.
LEMMA InsertNodesRows ==
  ASSUME NEW t, NEW p, NEW nodes, NEW reference, DOMAIN t.kids = Places
  PROVE  /\ InsertNodes(t, p, nodes, reference).kids = Inserted(t.kids, p, nodes, reference)
         /\ InsertNodes(t, p, nodes, reference).attrs = t.attrs
BY DEF InsertNodes, Inserted, Parents

\* removeChild in terms of rows.
LEMMA RemoveChildRows ==
  ASSUME NEW t, NEW n, DOMAIN t.kids = Places
  PROVE  /\ RemoveChild(t, n).kids = RemovedFrom(t.kids, n)
         /\ RemoveChild(t, n).attrs = t.attrs
BY DEF RemoveChild, RemovedFrom, Parents

\* Nodes that are not in the tree and may be under p.
NewUnder(kids, list, done, p, nodes) ==
  /\ nodes \in Rows /\ NoRepeats(nodes) /\ MayGoUnder(list, done, p, nodes)
  /\ ToSet(nodes) \cap AllOf(kids) = {}

\* Inserting new nodes keeps the invariant of the children and swaps nothing.
LEMMA NewInserted ==
  ASSUME NEW kids, NEW list, NEW done, NEW p \in Places, NEW nodes, NEW reference, NEW M,
         KidsInv(kids, list, done), NewUnder(kids, list, done, p, nodes), M \cap ToSet(nodes) = {},
         reference = NoNode \/ reference \in ToSet(kids[p])
  PROVE  /\ KidsInv(Inserted(kids, p, nodes, reference), list, done)
         /\ \A c : c \in AllOf(Inserted(kids, p, nodes, reference)) <=> c \in AllOf(kids) \/ c \in ToSet(nodes)
         /\ OrderKept(M, kids, Inserted(kids, p, nodes, reference))
<1>1. reference = NoNode \/ reference \in ToSet(kids[p]) \ ToSet(nodes)
  BY DEF NewUnder, AllOf
<1>2. nodes \in Rows /\ NoRepeats(nodes) /\ MayGoUnder(list, done, p, nodes)
  BY DEF NewUnder
<1>3. /\ KidsInv(Inserted(kids, p, nodes, reference), list, done)
      /\ \A c : c \in AllOf(Inserted(kids, p, nodes, reference)) <=> c \in AllOf(kids) \/ c \in ToSet(nodes)
  BY <1>1, <1>2, InsertedKids
<1>4. kids \in [Places -> Rows] /\ OnePlaceEach(kids)
  BY DEF KidsInv
<1>5. OrderKept(M, kids, Inserted(kids, p, nodes, reference))
  BY <1>1, <1>2, <1>4, InsertedOrder
<1> QED BY <1>3, <1>5

\* Content may go under whatever is in use.
LEMMA ContentMayGo ==
  ASSUME NEW t, NEW list, NEW done, NEW i \in done, i \in Nat, NEW p \in InUse(list, done), NEW count \in Nat,
         Untouched(t, i)
  PROVE  NewUnder(t.kids, list, done, p, Content(i, count))
<1> DEFINE nodes == Content(i, count)
<1>1. /\ nodes \in Rows /\ NoRepeats(nodes)
      /\ \A c \in ToSet(nodes) : c[1] = "content" /\ c[2] = i /\ c \notin Nodes /\ c \notin Places
  BY ContentIsNew
<1> HIDE DEF nodes
<1>2. MayGoUnder(list, done, p, nodes)
  BY <1>1 DEF MayGoUnder, KnownChild, MadeBy, NodeLabels
<1>3. ToSet(nodes) \cap AllOf(t.kids) = {}
  BY <1>1 DEF Untouched
<1>4. NewUnder(t.kids, list, done, p, nodes)
  BY <1>1, <1>2, <1>3 DEF NewUnder
<1> QED BY <1>4 DEF nodes

\* insertInto and insertIntoAsLast, insertIntoAsFirst, insertBefore, insertAfter
LEMMA ContentInserted ==
  ASSUME NEW t, NEW list, NEW done, NEW i \in done, i \in Nat, TreeInv(t, list, done), Untouched(t, i),
         NEW p \in Places, p \in InUse(list, done), NEW count \in Nat,
         NEW reference, reference = NoNode \/ reference \in ToSet(t.kids[p])
  PROVE  GoodStep(t, InsertNodes(t, p, Content(i, count), reference), list, done)
<1> DEFINE nodes == Content(i, count)
           new == InsertNodes(t, p, nodes, reference)
           M == AllOf(t.kids)
<1>1. NewUnder(t.kids, list, done, p, nodes)
  BY ContentMayGo
<1>2. new.kids = Inserted(t.kids, p, nodes, reference) /\ new.attrs = t.attrs
  BY InsertNodesRows, TreePlaces
<1> HIDE DEF nodes, new
<1>3. M \cap ToSet(nodes) = {} /\ KidsInv(t.kids, list, done)
  BY <1>1 DEF NewUnder, TreeInv
<1> HIDE DEF M
<1>4. /\ KidsInv(new.kids, list, done)
      /\ \A c : c \in AllOf(new.kids) <=> c \in AllOf(t.kids) \/ c \in ToSet(nodes)
      /\ OrderKept(M, t.kids, new.kids)
  <2> DEFINE rows == Inserted(t.kids, p, nodes, reference)
  <2>1. /\ KidsInv(rows, list, done)
        /\ \A c : c \in AllOf(rows) <=> c \in AllOf(t.kids) \/ c \in ToSet(nodes)
        /\ OrderKept(M, t.kids, rows)
    BY <1>1, <1>3, NewInserted
  <2>2. new.kids = rows
    BY <1>2
  <2> HIDE DEF rows
  <2> QED BY <2>1, <2>2
<1>5. TreeInv(new, list, done)
  BY <1>2, <1>4, RowsChanged
<1>6. GoodStep(t, new, list, done)
  BY <1>4, <1>5 DEF GoodStep, M
<1> QED BY <1>6 DEF nodes, new

\* Where a child is, its parent is in use.
LEMMA ParentInUse ==
  ASSUME NEW t, NEW list, NEW done, TreeInv(t, list, done), NEW n \in Children, ParentOf(t, n) # NoNode
  PROVE  /\ ParentOf(t, n) \in Places /\ ParentOf(t, n) \in InUse(list, done)
         /\ n \in ToSet(t.kids[ParentOf(t, n)])
         /\ n \in Places => OriginIn(list, n) \in ToSet(Kids[OriginIn(list, ParentOf(t, n))])
<1>1. n \in Nodes
  BY DEF Children
<1>2. ParentOf(t, n) \in Places /\ n \in ToSet(t.kids[ParentOf(t, n)])
  BY <1>1, ParentIsOwner
<1>3. UnderTheirOrigin(t.kids, list, done)
  BY DEF TreeInv, KidsInv
<1> QED BY <1>2, <1>3 DEF UnderTheirOrigin

\* replaceNode on a child, and the last part of rename on an element
LEMMA ChildReplaced ==
  ASSUME NEW t, NEW list, NEW done, NEW i \in done, TreeInv(t, list, done),
         NEW target \in Children, ParentOf(t, target) # NoNode, TakesAway(list[i], target),
         NEW nodes, NewUnder(t.kids, list, done, ParentOf(t, target), nodes),
         NEW M, M \cap ToSet(nodes) = {}
  PROVE  /\ TreeInv(ReplaceChild(t, target, nodes), list, done)
         /\ OrderKept(M, t.kids, ReplaceChild(t, target, nodes).kids)
<1> DEFINE parent == ParentOf(t, target)
           following == NextSibling(t, target)
           removed == RemoveChild(t, target)
           middle == RemovedFrom(t.kids, target)
           new == InsertNodes(removed, parent, nodes, following)
<1>1. ReplaceChild(t, target, nodes) = new
  BY DEF ReplaceChild
<1>2. parent \in Places
  BY ParentInUse
<1>3. following = NoNode \/ following \in ToSet(t.kids[parent]) \ {target}
  BY NextSiblingIsChild
<1>4. removed.kids = middle /\ removed.attrs = t.attrs
  BY RemoveChildRows, TreePlaces
<1>5. KidsInv(t.kids, list, done)
  BY DEF TreeInv
<1>6. /\ KidsInv(middle, list, done)
      /\ AllOf(middle) = AllOf(t.kids) \ {target}
      /\ OrderKept(M, t.kids, middle)
  BY <1>5, RemovedKids
<1>7. following = NoNode \/ following \in ToSet(middle[parent])
  <2>1. t.kids \in [Places -> Rows] /\ OnePlaceEach(t.kids)
    BY <1>5 DEF KidsInv
  <2>2. ToSet(middle[parent]) = ToSet(t.kids[parent]) \ {target}
    BY <1>2, <2>1, RemovedRows
  <2> QED BY <1>3, <2>2
<1>8. NewUnder(middle, list, done, parent, nodes)
  BY <1>6 DEF NewUnder
<1> HIDE DEF middle
<1>9. new.kids = Inserted(middle, parent, nodes, following) /\ new.attrs = t.attrs
  <2>1. DOMAIN removed.kids = Places
    BY <1>4, <1>6 DEF KidsInv
  <2> HIDE DEF removed, following, parent
  <2> QED BY <1>4, <2>1, InsertNodesRows
<1> HIDE DEF removed, following, parent, new
<1>10. /\ KidsInv(new.kids, list, done)
       /\ \A c : c \in AllOf(new.kids) <=> c \in AllOf(middle) \/ c \in ToSet(nodes)
       /\ OrderKept(M, middle, new.kids)
  <2> DEFINE rows == Inserted(middle, parent, nodes, following)
  <2>1. /\ KidsInv(rows, list, done)
        /\ \A c : c \in AllOf(rows) <=> c \in AllOf(middle) \/ c \in ToSet(nodes)
        /\ OrderKept(M, middle, rows)
    BY <1>2, <1>6, <1>7, <1>8, NewInserted
  <2>2. new.kids = rows
    BY <1>9
  <2> HIDE DEF rows
  <2> QED BY <2>1, <2>2
<1>11. OrderKept(M, t.kids, new.kids)
  BY <1>6, <1>10, OrderKeptTwice
<1>12. \A c \in AllOf(t.kids) : c \in AllOf(new.kids) \/ TakesAway(list[i], c)
  BY <1>6, <1>10
<1>13. TreeInv(new, list, done)
  BY <1>9, <1>10, <1>12, RowsChanged
<1> QED BY <1>1, <1>11, <1>13

\* replaceElementContent
LEMMA TextMayGo ==
  ASSUME NEW t, NEW list, NEW done, NEW i \in done, i \in Nat, NEW p \in InUse(list, done), NEW text \in BOOLEAN,
         Untouched(t, i)
  PROVE  NewUnder(t.kids, list, done, p, IF text THEN <<Text(i)>> ELSE <<>>)
<1> DEFINE nodes == IF text THEN <<Text(i)>> ELSE <<>>
           S == Children \cup (NodeLabels \X Nat \X Nat)
<1>1. \A c \in ToSet(nodes) : c = Text(i)
  BY DEF ToSet
<1>2. Text(i) \in S
  BY DEF Text, NodeLabels
<1>3. nodes \in Seq(S) /\ NoRepeats(nodes)
  <2> HIDE DEF S
  <2>1. \A c, d \in DOMAIN nodes : c = d
    OBVIOUS
  <2>2. nodes \in Seq(S)
    BY <1>2
  <2> HIDE DEF nodes
  <2> QED BY <2>1, <2>2 DEF NoRepeats
<1>4. nodes \in Rows
  BY <1>3 DEF Rows
<1> HIDE DEF nodes, S
<1>5. MayGoUnder(list, done, p, nodes)
  BY <1>1, TextIsNew DEF MayGoUnder, KnownChild, MadeBy, NodeLabels
<1>6. ToSet(nodes) \cap AllOf(t.kids) = {}
  BY <1>1, TextIsNew DEF Untouched
<1>7. NewUnder(t.kids, list, done, p, nodes)
  BY <1>3, <1>4, <1>5, <1>6 DEF NewUnder
<1> QED BY <1>7 DEF nodes

\* replaceElementContent is a good step: the row is emptied and filled again.
LEMMA ContentReplaced ==
  ASSUME NEW t, NEW list, NEW done, NEW i \in done, TreeInv(t, list, done),
         NEW p \in Places, \A n : TakesAway(list[i], n),
         NEW nodes, NewUnder(t.kids, list, done, p, nodes)
  PROVE  GoodStep(t, InsertNodes([kids |-> [t.kids EXCEPT ![p] = <<>>], attrs |-> t.attrs], p, nodes, NoNode),
                  list, done)
<1> DEFINE middle == Emptied(t.kids, p)
           emptied == [kids |-> [t.kids EXCEPT ![p] = <<>>], attrs |-> t.attrs]
           new == InsertNodes(emptied, p, nodes, NoNode)
           M == AllOf(t.kids)
           rows == Inserted(middle, p, nodes, NoNode)
<1>1. emptied.kids = middle /\ emptied.attrs = t.attrs
  BY DEF Emptied
<1>2. KidsInv(t.kids, list, done) /\ M \cap ToSet(nodes) = {}
  BY DEF TreeInv, NewUnder
<1> HIDE DEF M
<1>3. /\ KidsInv(middle, list, done)
      /\ AllOf(middle) \subseteq AllOf(t.kids)
      /\ OrderKept(M, t.kids, middle)
  BY <1>2, EmptiedKids
<1> HIDE DEF middle, emptied
<1>4. new.kids = rows /\ new.attrs = t.attrs
  <2>1. DOMAIN emptied.kids = Places
    BY <1>1, <1>3 DEF KidsInv
  <2>2. /\ InsertNodes(emptied, p, nodes, NoNode).kids = Inserted(emptied.kids, p, nodes, NoNode)
        /\ InsertNodes(emptied, p, nodes, NoNode).attrs = emptied.attrs
    BY <2>1, InsertNodesRows
  <2> QED BY <1>1, <2>2
<1>5. NewUnder(middle, list, done, p, nodes)
  BY <1>3 DEF NewUnder
<1>6. KidsInv(rows, list, done) /\ OrderKept(M, middle, rows)
  BY <1>2, <1>3, <1>5, NewInserted
<1> HIDE DEF rows, new
<1>7. OrderKept(M, t.kids, rows)
  BY <1>3, <1>6, OrderKeptTwice
<1>8. TreeInv(new, list, done)
  BY <1>4, <1>6, RowsChanged
<1>9. GoodStep(t, new, list, done)
  BY <1>4, <1>7, <1>8 DEF GoodStep, M
<1> QED BY <1>9 DEF new, emptied

\* delete on a child
LEMMA ChildDeleted ==
  ASSUME NEW t, NEW list, NEW done, NEW i \in done, TreeInv(t, list, done),
         NEW target \in Children, TakesAway(list[i], target)
  PROVE  GoodStep(t, RemoveChild(t, target), list, done)
<1> DEFINE new == RemoveChild(t, target)
           rows == RemovedFrom(t.kids, target)
           M == AllOf(t.kids)
<1>1. new.kids = rows /\ new.attrs = t.attrs
  BY RemoveChildRows, TreePlaces
<1>2. KidsInv(t.kids, list, done)
  BY DEF TreeInv
<1> HIDE DEF M
<1>3. KidsInv(rows, list, done) /\ AllOf(rows) = AllOf(t.kids) \ {target} /\ OrderKept(M, t.kids, rows)
  BY <1>2, RemovedKids
<1> HIDE DEF new, rows
<1>4. TreeInv(new, list, done)
  BY <1>1, <1>3, RowsChanged
<1>5. GoodStep(t, new, list, done)
  BY <1>1, <1>3, <1>4 DEF GoodStep, M
<1> QED BY <1>5 DEF new

\* The first step on an attribute that replaceNode, rename and delete take away.
LEMMA AttributeTaken ==
  ASSUME NEW t, NEW list, NEW done, NEW i \in done, TreeInv(t, list, done),
         NEW e \in Places, NEW a \in t.attrs[e], TakesAway(list[i], a.id)
  PROVE  /\ GoodStep(t, RemoveAttribute(t, e, a.name), list, done)
         /\ Untouched(t, i) => Untouched(RemoveAttribute(t, e, a.name), i)
<1> DEFINE new == RemoveAttribute(t, e, a.name)
<1>1. AttributesInv(t.attrs, done)
  BY DEF TreeInv
<1>2. /\ new.kids = t.kids
      /\ AttributesInv(new.attrs, done)
      /\ \A p \in Places : \A n : n \in Ids(t.attrs[p]) /\ n # a.id => n \in Ids(new.attrs[p])
      /\ \A b \in new.attrs[e] : b \in t.attrs[e]
  BY <1>1, RemovedAttribute
<1>3. \A p \in Places \ {e} : new.attrs[p] = t.attrs[p]
  BY <1>1 DEF RemoveAttribute, WithAttributes, AttributesInv
<1> HIDE DEF new
<1>4. GoodStep(t, new, list, done)
  BY <1>2, AttributesChanged
<1>5. Untouched(t, i) => Untouched(new, i)
  BY <1>2, <1>3 DEF Untouched
<1> QED BY <1>4, <1>5 DEF new

-----------------------------------------------------------------------------
(* Setting attributes, one after the other. *)

TakenName(t, e, attributes, k) ==
  \/ HasAttribute(t, e, attributes[k].name)
  \/ \E j \in 1 .. k - 1 :
       attributes[j].name.local = attributes[k].name.local /\ attributes[j].name.uri = attributes[k].name.uri
SetOnes(t, e, attributes) == {k \in DOMAIN attributes : \A j \in 1 .. k : ~ TakenName(t, e, attributes, j)}
NewOnes(i, t, e, attributes) ==
  {Attribute(NewAttribute(i, k), WithoutPrefix(attributes[k].name), attributes[k].value) : k \in SetOnes(t, e, attributes)}

\* Losing the prefix leaves the local name and the namespace.
LEMMA PrefixLost ==
  ASSUME NEW name
  PROVE  WithoutPrefix(name).local = name.local /\ WithoutPrefix(name).uri = name.uri
BY DEF WithoutPrefix

\* insertAttributes, and the second step of replaceNode and rename on an attribute, are good
\* steps: each attribute that is set is new and has a name that is not taken.
LEMMA AttributesSet ==
  ASSUME NEW t, NEW list, NEW done, NEW i \in done, TreeInv(t, list, done), Untouched(t, i),
         NEW e \in Places, NEW attributes, DOMAIN attributes \subseteq Nat \ {0}
  PROVE  GoodStep(t, WithAttributes(t, e, t.attrs[e] \cup NewOnes(i, t, e, attributes)), list, done)
<1> DEFINE added == NewOnes(i, t, e, attributes)
           all == t.attrs[e] \cup added
           new == WithAttributes(t, e, all)
<1>1. AttributesInv(t.attrs, done)
  BY DEF TreeInv
<1>2. ASSUME NEW a \in added
      PROVE  \E k \in SetOnes(t, e, attributes) :
               a = Attribute(NewAttribute(i, k), WithoutPrefix(attributes[k].name), attributes[k].value)
  BY DEF NewOnes
<1>3. ASSUME NEW a \in added
      PROVE  /\ a = Attribute(a.id, a.name, a.value) /\ a.id[1] = "attribute" /\ a.id[2] = i
             /\ a.id \notin Nodes
  <2>1. PICK k \in SetOnes(t, e, attributes) :
               a = Attribute(NewAttribute(i, k), WithoutPrefix(attributes[k].name), attributes[k].value)
    BY <1>2
  <2>2. a.id = NewAttribute(i, k) /\ a = Attribute(a.id, a.name, a.value)
    BY <2>1 DEF Attribute
  <2>3. a.id[1] = "attribute" /\ a.id[2] = i
    BY <2>2 DEF NewAttribute
  <2> QED BY <2>2, <2>3, NewNodesAreNew
<1>4. ASSUME NEW p \in Places, NEW b \in t.attrs[p], NEW a \in added
      PROVE  a.id # b.id
  BY <1>3 DEF Untouched
<1>5. ASSUME NEW b \in t.attrs[e], NEW a \in added
      PROVE  ~ SameName(a.name, b.name)
  <2>1. PICK k \in SetOnes(t, e, attributes) :
               a = Attribute(NewAttribute(i, k), WithoutPrefix(attributes[k].name), attributes[k].value)
    BY <1>2
  <2>2. a.name = WithoutPrefix(attributes[k].name)
    BY <2>1 DEF Attribute
  <2>3. k \in 1 .. k
    BY DEF SetOnes
  <2>4. ~ HasAttribute(t, e, attributes[k].name)
    BY <2>3 DEF SetOnes, TakenName
  <2>5. a.name.local = attributes[k].name.local /\ a.name.uri = attributes[k].name.uri
    BY <2>2, PrefixLost
  <2> QED BY <2>4, <2>5 DEF HasAttribute, SameName
<1>6. ASSUME NEW k \in SetOnes(t, e, attributes), NEW l \in SetOnes(t, e, attributes), k < l
      PROVE  ~ SameName(attributes[k].name, attributes[l].name)
  <2>1. k \in 1 .. l - 1 /\ l \in 1 .. l
    BY <1>6 DEF SetOnes
  <2>2. ~ TakenName(t, e, attributes, l)
    BY <2>1 DEF SetOnes
  <2> QED BY <2>1, <2>2 DEF TakenName, SameName
<1>7. ASSUME NEW a \in added, NEW b \in added, a # b
      PROVE  a.id # b.id /\ ~ SameName(a.name, b.name)
  <2>1. PICK k \in SetOnes(t, e, attributes) :
               a = Attribute(NewAttribute(i, k), WithoutPrefix(attributes[k].name), attributes[k].value)
    BY <1>2
  <2>2. PICK l \in SetOnes(t, e, attributes) :
               b = Attribute(NewAttribute(i, l), WithoutPrefix(attributes[l].name), attributes[l].value)
    BY <1>2
  <2>3. k # l
    BY <1>7, <2>1, <2>2
  <2>4. k \in Nat /\ l \in Nat
    BY DEF SetOnes
  <2>5. /\ a.id = NewAttribute(i, k) /\ a.name = WithoutPrefix(attributes[k].name)
        /\ b.id = NewAttribute(i, l) /\ b.name = WithoutPrefix(attributes[l].name)
    BY <2>1, <2>2 DEF Attribute
  <2>6. a.id # b.id
    BY <2>3, <2>5 DEF NewAttribute
  <2>7. ~ SameName(attributes[k].name, attributes[l].name)
    <3>1. CASE k < l
      BY <1>6, <3>1
    <3>2. CASE l < k
      BY <1>6, <3>2 DEF SameName
    <3> QED BY <2>3, <2>4, <3>1, <3>2
  <2>8. ~ SameName(a.name, b.name)
    <3>1. /\ a.name.local = attributes[k].name.local /\ a.name.uri = attributes[k].name.uri
          /\ b.name.local = attributes[l].name.local /\ b.name.uri = attributes[l].name.uri
      BY <2>5, PrefixLost
    <3> QED BY <2>7, <3>1 DEF SameName
  <2> QED BY <2>6, <2>8
<1> HIDE DEF added
<1>8. GoodAttributes(t.attrs, done, e, all)
  <2>1. ASSUME NEW a \in all
        PROVE  /\ a = Attribute(a.id, a.name, a.value) /\ KnownAttribute(a.id, done)
               /\ a.id \in Nodes => e \in ElementLike
    BY <1>1, <1>3 DEF AttributesInv, KnownAttribute, MadeBy
  <2>2. ASSUME NEW p \in Places \ {e}, NEW a \in all
        PROVE  a.id \notin Ids(t.attrs[p])
    BY <1>1, <1>4 DEF AttributesInv, Ids
  <2>3. ASSUME NEW a \in all, NEW b \in all, a # b
        PROVE  a.id # b.id /\ ~ SameName(a.name, b.name)
    <3>1. CASE a \in t.attrs[e] /\ b \in t.attrs[e]
      BY <1>1, <2>3, <3>1 DEF AttributesInv
    <3>2. CASE a \in added /\ b \in t.attrs[e]
      BY <1>4, <1>5, <3>2
    <3>3. CASE a \in t.attrs[e] /\ b \in added
      BY <1>4, <1>5, <3>3 DEF SameName
    <3>4. CASE a \in added /\ b \in added
      BY <1>7, <2>3, <3>4
    <3> QED BY <3>1, <3>2, <3>3, <3>4
  <2> QED BY <2>1, <2>2, <2>3 DEF GoodAttributes
<1>9. new.kids = t.kids /\ new.attrs = [t.attrs EXCEPT ![e] = all]
  BY DEF WithAttributes
<1>10. AttributesInv(new.attrs, done)
  <2> HIDE DEF all, new
  <2>1. AttributesInv([t.attrs EXCEPT ![e] = all], done)
    BY <1>1, <1>8, AttributesReplaced
  <2> QED BY <1>9, <2>1
<1>11. \A p \in Places : \A n : n \in Ids(t.attrs[p]) => n \in Ids(new.attrs[p])
  <2>1. new.attrs[e] = all /\ \A p \in Places \ {e} : new.attrs[p] = t.attrs[p]
    BY <1>1, <1>9 DEF AttributesInv
  <2> HIDE DEF new
  <2> QED BY <2>1 DEF Ids
<1>12. GoodStep(t, new, list, done)
  <2> HIDE DEF new
  <2> QED BY <1>9, <1>10, <1>11, AttributesChanged
<1> QED BY <1>12 DEF added

-----------------------------------------------------------------------------
(* Renaming an element: the new one gets copies of the attributes and the children themselves, *)
(* and then the place of the old one.                                                          *)

Copies(i, t, target) == {Attribute(CopiedAttribute(i, a.id), a.name, a.value) : a \in t.attrs[target]}
Moved(i, t, target) ==
  InsertNodes(WithAttributes(t, Renamed(i), Copies(i, t, target)), Renamed(i), t.kids[target], NoNode)

\* Copies of different attributes are different.
LEMMA CopiesDiffer ==
  ASSUME NEW i, NEW id, NEW other, id # other
  PROVE  CopiedAttribute(i, id) # CopiedAttribute(i, other)
BY DEF CopiedAttribute

\* The first step of rename on an element, copying the attributes, is a good step.
LEMMA AttributesCopied ==
  ASSUME NEW t, NEW list, NEW done, NEW i \in done, i \in Updates, TreeInv(t, list, done), Untouched(t, i),
         NEW target \in Elements
  PROVE  GoodStep(t, WithAttributes(t, Renamed(i), Copies(i, t, target)), list, done)
<1> DEFINE copies == Copies(i, t, target)
           new == WithAttributes(t, Renamed(i), copies)
<1>1. AttributesInv(t.attrs, done) /\ target \in Places /\ Renamed(i) \in Places
  BY DEF TreeInv, Places, Elements, ElementLike
<1>2. ASSUME NEW a \in copies
      PROVE  \E b \in t.attrs[target] : a = Attribute(CopiedAttribute(i, b.id), b.name, b.value)
  BY DEF Copies
<1>3. ASSUME NEW a \in copies
      PROVE  /\ a = Attribute(a.id, a.name, a.value) /\ a.id[1] = "copied attribute" /\ a.id[2] = i
             /\ a.id \notin Nodes
  <2>1. PICK b \in t.attrs[target] : a = Attribute(CopiedAttribute(i, b.id), b.name, b.value)
    BY <1>2
  <2>2. a.id = CopiedAttribute(i, b.id) /\ a = Attribute(a.id, a.name, a.value)
    BY <2>1 DEF Attribute
  <2>3. a.id[1] = "copied attribute" /\ a.id[2] = i
    <3>1. PICK id : a.id = CopiedAttribute(i, id)
      BY <2>2
    <3>2. CopiedAttribute(i, id)[1] = "copied attribute" /\ CopiedAttribute(i, id)[2] = i
      BY DEF CopiedAttribute
    <3> QED BY <3>1, <3>2
  <2> QED BY <2>2, <2>3, NewNodesAreNew
<1>4. ASSUME NEW a \in copies, NEW b \in copies, a # b
      PROVE  a.id # b.id /\ ~ SameName(a.name, b.name)
  <2>1. PICK c \in t.attrs[target] : a = Attribute(CopiedAttribute(i, c.id), c.name, c.value)
    BY <1>2
  <2>2. PICK d \in t.attrs[target] : b = Attribute(CopiedAttribute(i, d.id), d.name, d.value)
    BY <1>2
  <2>3. c # d
    BY <1>4, <2>1, <2>2
  <2>4. c.id # d.id /\ ~ SameName(c.name, d.name)
    BY <1>1, <2>3 DEF AttributesInv
  <2>5. a.id = CopiedAttribute(i, c.id) /\ b.id = CopiedAttribute(i, d.id) /\ a.name = c.name /\ b.name = d.name
    BY <2>1, <2>2 DEF Attribute
  <2>6. a.id # b.id
    BY <2>4, <2>5, CopiesDiffer, Zenon
  <2> QED BY <2>4, <2>5, <2>6
<1> HIDE DEF copies
<1>5. GoodAttributes(t.attrs, done, Renamed(i), copies)
  <2>1. ASSUME NEW a \in copies
        PROVE  /\ a = Attribute(a.id, a.name, a.value) /\ KnownAttribute(a.id, done)
               /\ a.id \in Nodes => Renamed(i) \in ElementLike
    BY <1>3 DEF KnownAttribute, MadeBy
  <2>2. ASSUME NEW p \in Places \ {Renamed(i)}, NEW a \in copies
        PROVE  a.id \notin Ids(t.attrs[p])
    BY <1>3 DEF Untouched, Ids
  <2> QED BY <1>4, <2>1, <2>2 DEF GoodAttributes
<1>6. new.kids = t.kids /\ new.attrs = [t.attrs EXCEPT ![Renamed(i)] = copies]
  BY DEF WithAttributes
<1> HIDE DEF new
<1>7. AttributesInv(new.attrs, done)
  <2>1. AttributesInv([t.attrs EXCEPT ![Renamed(i)] = copies], done)
    BY <1>1, <1>5, AttributesReplaced
  <2> QED BY <1>6, <2>1
<1>8. ASSUME NEW p \in Places, NEW n \in Nodes, n \in Ids(t.attrs[p])
      PROVE  n \in Ids(new.attrs[p])
  <2>1. p # Renamed(i)
    BY <1>1, <1>8, RenamedIsNew DEF AttributesInv, Ids, ElementLike
  <2> QED BY <1>1, <1>6, <1>8, <2>1 DEF AttributesInv
<1>9. GoodStep(t, new, list, done)
  BY <1>6, <1>7, <1>8, AttributesChanged
<1> QED BY <1>9 DEF copies, new

\* A renamed element has its target for origin.
LEMMA RenamedOrigin ==
  ASSUME NEW list, NEW i
  PROVE  OriginIn(list, Renamed(i)) = list[i].target
BY RenamedIsNew DEF OriginIn, ElementLike

\* An element of the caller is its own origin.
LEMMA ElementOrigin ==
  ASSUME NEW list, NEW n \in ElementLike
  PROVE  OriginIn(list, n) = n
BY DEF OriginIn

\* The second step, moving the children, is a good step and loses none.
LEMMA ChildrenMoved ==
  ASSUME NEW t, NEW list, NEW done, NEW i \in done, i \in Updates, TreeInv(t, list, done), Untouched(t, i),
         NEW target \in Elements, list[i].type = "rename", list[i].target = target
  PROVE  /\ GoodStep(t, Moved(i, t, target), list, done)
         /\ \A c : c \in AllOf(Moved(i, t, target).kids) <=> c \in AllOf(t.kids)
<1> DEFINE p == Renamed(i)
           copied == WithAttributes(t, p, Copies(i, t, target))
           nodes == t.kids[target]
           rows == Inserted(t.kids, p, nodes, NoNode)
           new == InsertNodes(copied, p, nodes, NoNode)
           M == AllOf(t.kids)
<1>1. p \in Places /\ target \in Places /\ target \in ElementLike
  BY DEF Places, Elements, ElementLike
<1>2. TreeInv(copied, list, done) /\ copied.kids = t.kids
  BY AttributesCopied DEF GoodStep, WithAttributes
<1>3. new = Moved(i, t, target)
  BY DEF Moved
<1> HIDE DEF copied
<1>4. new.kids = rows /\ new.attrs = copied.attrs
  <2>1. DOMAIN copied.kids = Places
    BY <1>2, TreePlaces
  <2>2. /\ InsertNodes(copied, p, nodes, NoNode).kids = Inserted(copied.kids, p, nodes, NoNode)
        /\ InsertNodes(copied, p, nodes, NoNode).attrs = copied.attrs
    BY <2>1, InsertNodesRows
  <2> QED BY <1>2, <2>2
<1>5. KidsInv(t.kids, list, done) /\ t.kids \in [Places -> Rows] /\ OnePlaceEach(t.kids)
  BY DEF TreeInv, KidsInv
<1>6. nodes \in Rows /\ NoRepeats(nodes) /\ ToSet(t.kids[p]) = {}
  BY <1>1, <1>5 DEF OnePlaceEach, Untouched
<1>7. MayGoUnder(list, done, p, nodes)
  <2>1. p \in InUse(list, done)
    BY DEF InUse
  <2>2. OriginIn(list, p) = target /\ OriginIn(list, target) = target
    BY <1>1, RenamedOrigin, ElementOrigin
  <2>3. ASSUME NEW c \in ToSet(nodes)
        PROVE  KnownChild(c, done) /\ (c \in Places => OriginIn(list, c) \in ToSet(Kids[target]))
    <3>1. \A q \in Places : \A d \in ToSet(t.kids[q]) :
            KnownChild(d, done) /\ (d \in Places => OriginIn(list, d) \in ToSet(Kids[OriginIn(list, q)]))
      BY <1>5 DEF KidsInv, UnderTheirOrigin
    <3> QED BY <1>1, <2>2, <3>1
  <2> HIDE DEF nodes, p
  <2> QED BY <2>1, <2>2, <2>3 DEF MayGoUnder
<1>8. OrderKept(M, t.kids, rows)
  <2>1. \E r \in Places : nodes = t.kids[r]
    BY <1>1
  <2> HIDE DEF M, nodes, p
  <2> QED BY <1>1, <1>5, <1>6, <2>1, InsertedOrder
<1>9. KidsInv(rows, list, done) /\ \A c : c \in AllOf(rows) <=> c \in AllOf(t.kids) \/ c \in ToSet(nodes)
  <2> HIDE DEF nodes, p
  <2> QED BY <1>1, <1>5, <1>6, <1>7, InsertedKids
<1>10. \A c : c \in AllOf(rows) <=> c \in AllOf(t.kids)
  <2>1. \A c \in ToSet(nodes) : c \in AllOf(t.kids)
    BY <1>1 DEF AllOf
  <2> HIDE DEF rows, nodes
  <2> QED BY <1>9, <2>1
<1> HIDE DEF new, rows
<1>11. TreeInv(new, list, done)
  BY <1>2, <1>4, <1>9, <1>10, RowsChanged
<1> QED BY <1>3, <1>4, <1>8, <1>10, <1>11 DEF GoodStep

\* The third, giving the new element the place of the old one, is a good step too.
LEMMA ElementRenamed ==
  ASSUME NEW t, NEW list, NEW done, NEW i \in done, i \in Updates, TreeInv(t, list, done), Untouched(t, i),
         NEW target \in Elements, list[i].type = "rename", list[i].target = target,
         ParentOf(t, target) # NoNode
  PROVE  GoodStep(t, ReplaceChild(Moved(i, t, target), target, <<Renamed(i)>>), list, done)
<1> DEFINE moved == Moved(i, t, target)
           parent == ParentOf(moved, target)
           nodes == <<Renamed(i)>>
           new == ReplaceChild(moved, target, nodes)
           M == AllOf(t.kids)
<1>1. target \in Children /\ target \in Nodes /\ target \in ElementLike /\ target \in Places
  BY DEF Children, Elements, ElementLike, Places
<1>2. TreeInv(moved, list, done) /\ OrderKept(M, t.kids, moved.kids) /\ \A c : c \in AllOf(moved.kids) <=> c \in M
  BY ChildrenMoved DEF GoodStep
<1> HIDE DEF moved
<1>3. target \in AllOf(moved.kids)
  <2>1. target \in AllOf(t.kids)
    BY <1>1, ParentIsOwner DEF AllOf
  <2> QED BY <1>2, <2>1
<1>4. ParentOf(moved, target) # NoNode
  <2>1. Owned(moved, target)
    BY <1>3 DEF Owned, AllOf
  <2> QED BY <1>1, <1>2, <2>1, ParentIsOwner
<1>5. TakesAway(list[i], target)
  BY DEF TakesAway
<1>6. ToSet(nodes) = {Renamed(i)} /\ NoRepeats(nodes) /\ nodes \in Rows
  <2> DEFINE S == Children \cup (NodeLabels \X Nat \X Nat)
  <2>1. Renamed(i) \in S
    BY DEF Renamed, NodeLabels, Updates
  <2> HIDE DEF S
  <2>2. nodes \in Seq(S)
    BY <2>1
  <2>3. Rows = Seq(S)
    BY DEF Rows, S
  <2> QED BY <2>2, <2>3 DEF ToSet, NoRepeats
<1>7. Renamed(i) \notin M
  BY RenamedIsNew DEF Untouched
<1>8. NewUnder(moved.kids, list, done, parent, nodes)
  <2>1. /\ parent \in InUse(list, done)
        /\ OriginIn(list, target) \in ToSet(Kids[OriginIn(list, parent)])
    BY <1>1, <1>2, <1>4, ParentInUse
  <2>2. OriginIn(list, target) = target /\ OriginIn(list, Renamed(i)) = target
    BY <1>1, RenamedOrigin, ElementOrigin
  <2>3. KnownChild(Renamed(i), done)
    BY RenamedIsNew DEF KnownChild, MadeBy, NodeLabels
  <2> HIDE DEF nodes, parent
  <2>4. MayGoUnder(list, done, parent, nodes)
    BY <1>6, <2>1, <2>2, <2>3 DEF MayGoUnder
  <2>5. ToSet(nodes) \cap AllOf(moved.kids) = {}
    BY <1>2, <1>6, <1>7
  <2> QED BY <1>6, <2>4, <2>5 DEF NewUnder
<1>9. M \cap ToSet(nodes) = {}
  BY <1>6, <1>7
<1> HIDE DEF nodes, M
<1>10. TreeInv(new, list, done) /\ OrderKept(M, moved.kids, new.kids)
  BY <1>1, <1>2, <1>4, <1>5, <1>8, <1>9, ChildReplaced
<1> HIDE DEF new
<1>11. OrderKept(M, t.kids, new.kids)
  BY <1>2, <1>10, OrderKeptTwice
<1>12. GoodStep(t, new, list, done)
  BY <1>10, <1>11 DEF GoodStep, M
<1> QED BY <1>12 DEF new, moved, nodes

-----------------------------------------------------------------------------
(* The actions. *)

\* A primitive whose turn it is, at work on the tree the ones before it left.
AtWork(i) ==
  /\ i \in DOMAIN pul /\ i \in Updates /\ i \in Nat
  /\ pul[i] \in Primitives /\ RightTarget(pul[i])
  /\ TreeInv(tree, pul, applied \cup {i}) /\ Untouched(tree, i)

\* What it leaves: a good tree, and no error but those of its own.
Worked(i, codes) ==
  /\ GoodStep(tree, tree', pul, applied \cup {i})
  /\ applied' = applied \cup {i} /\ UNCHANGED pul
  /\ \/ UNCHANGED <<status, error>>
     \/ status' = "raised" /\ error' \in codes

\* What a primitive may rely on when its turn comes follows from the invariant.
LEMMA TurnIsWork ==
  ASSUME PendingInv, NEW i \in DOMAIN pul, Turn(i)
  PROVE  AtWork(i)
<1>1. pul \in Seq(Primitives) /\ Len(pul) <= MaxUpdates /\ Len(pul) \in Nat /\ MaxUpdates \in Nat
  BY MaxUpdatesIsNat DEF PendingInv, TypeOK
<1>2. i \in 1 .. Len(pul) /\ pul[i] \in Primitives
  BY <1>1
<1>3. i \in Updates /\ i \in Nat
  BY <1>1, <1>2 DEF Updates
<1>4. TreeInv(tree, pul, applied \cup {i}) /\ Untouched(tree, i)
  BY Begun DEF PendingInv, Turn
<1> QED BY <1>2, <1>3, <1>4 DEF AtWork, PendingInv

\* An applied primitive worked if its tree is good.
LEMMA AppliedIsWorked ==
  ASSUME NEW i, NEW new, NEW codes, Applied(i, new), GoodStep(tree, new, pul, applied \cup {i})
  PROVE  Worked(i, codes)
BY DEF Applied, Worked

\* A broken one as well: it leaves a good tree behind.
LEMMA BrokenIsWorked ==
  ASSUME NEW i, NEW new, NEW codes, NEW code \in codes, Broken(i, new, code),
         GoodStep(tree, new, pul, applied \cup {i})
  PROVE  Worked(i, codes)
BY DEF Broken, Worked

\* Setting attributes leaves the tree with the new ones, whether it gets to the last or not.
LEMMA SetAttributesWorked ==
  ASSUME NEW i, NEW t, NEW e \in Places, NEW attributes, DOMAIN attributes \subseteq Nat \ {0},
         GoodStep(tree, t, pul, applied \cup {i}), t.kids = tree.kids, Untouched(t, i),
         SetAttributes(i, t, e, attributes)
  PROVE  Worked(i, {"XUDY0021"})
<1> DEFINE new == WithAttributes(t, e, t.attrs[e] \cup NewOnes(i, t, e, attributes))
           set == SetOnes(t, e, attributes)
<1>1. IF set = DOMAIN attributes THEN Applied(i, new) ELSE Broken(i, new, "XUDY0021")
  BY DEF SetAttributes, NewOnes, SetOnes, TakenName
<1> HIDE DEF new, set
<1>2. GoodStep(t, new, pul, applied \cup {i})
  BY AttributesSet DEF GoodStep, new
<1>3. GoodStep(tree, new, pul, applied \cup {i})
  BY <1>2 DEF GoodStep
<1> QED BY <1>1, <1>3, AppliedIsWorked, BrokenIsWorked

\* insertInto, insertIntoAsLast and insertIntoAsFirst always work.
LEMMA InsertIntoWorks ==
  ASSUME NEW i, AtWork(i), ApplyInsertInto(i) \/ ApplyInsertIntoAsFirst(i)
  PROVE  Worked(i, {})
<1> DEFINE done == applied \cup {i}
           target == pul[i].target
           count == pul[i].nodes
<1>1. TreeInv(tree, pul, done) /\ Untouched(tree, i) /\ i \in done /\ i \in Nat /\ count \in Nat
  BY DEF AtWork, Primitives
<1>2. pul[i].type \in {"insertInto", "insertIntoAsLast", "insertIntoAsFirst"}
  BY DEF ApplyInsertInto, ApplyInsertIntoAsFirst
<1>3. target \in ElementLike
  BY <1>2 DEF AtWork, RightTarget, Into
<1>4. target \in Places /\ target \in InUse(pul, done)
  BY <1>3 DEF Places, InUse
<1> HIDE DEF done, target, count
<1>5. CASE ApplyInsertInto(i)
  <2>1. Applied(i, InsertNodes(tree, target, Content(i, count), NoNode))
    BY <1>5 DEF ApplyInsertInto, target, count
  <2>2. GoodStep(tree, InsertNodes(tree, target, Content(i, count), NoNode), pul, done)
    BY <1>1, <1>4, ContentInserted
  <2> QED BY <2>1, <2>2, AppliedIsWorked DEF done
<1>6. CASE ApplyInsertIntoAsFirst(i)
  <2>1. Applied(i, InsertNodes(tree, target, Content(i, count), FirstChild(tree, target)))
    BY <1>6 DEF ApplyInsertIntoAsFirst, target, count
  <2>2. FirstChild(tree, target) = NoNode \/ FirstChild(tree, target) \in ToSet(tree.kids[target])
    BY <1>1, <1>4, FirstChildIsChild
  <2>3. GoodStep(tree, InsertNodes(tree, target, Content(i, count), FirstChild(tree, target)), pul, done)
    BY <1>1, <1>4, <2>2, ContentInserted
  <2> QED BY <2>1, <2>3, AppliedIsWorked DEF done
<1> QED BY <1>5, <1>6

\* The parent of the target of insertBefore, insertAfter and replaceNode is missing only when a
\* rename took it.
MissedParent(i) ==
  /\ pul[i].type \in Beside \cup {"replaceNode"}
  /\ ~ Owned(tree, pul[i].target)

\* insertBefore and insertAfter work, or break for want of a parent.
LEMMA InsertBesideWorks ==
  ASSUME NEW i, AtWork(i), ApplyInsertBefore(i) \/ ApplyInsertAfter(i)
  PROVE  Worked(i, {"TypeError"}) /\ (error' # error => MissedParent(i))
<1> DEFINE done == applied \cup {i}
           target == pul[i].target
           count == pul[i].nodes
           parent == ParentOf(tree, target)
           reference == IF pul[i].type = "insertBefore" THEN target ELSE NextSibling(tree, target)
           new == InsertNodes(tree, parent, Content(i, count), reference)
<1>1. TreeInv(tree, pul, done) /\ Untouched(tree, i) /\ i \in done /\ i \in Nat /\ count \in Nat /\ target \in Nodes
  BY DEF AtWork, Primitives
<1>2. pul[i].type \in Beside /\ target \in Children
  BY DEF ApplyInsertBefore, ApplyInsertAfter, AtWork, RightTarget, Beside
<1>3. IF parent = NoNode THEN Broken(i, tree, "TypeError") ELSE Applied(i, new)
  BY DEF ApplyInsertBefore, ApplyInsertAfter
<1> HIDE DEF done, target, count
<1>4. CASE parent = NoNode
  <2>1. GoodStep(tree, tree, pul, done)
    BY <1>1, SameTree
  <2>2. ~ Owned(tree, target)
    BY <1>1, <1>4, ParentIsOwner
  <2>3. Worked(i, {"TypeError"})
    BY <1>3, <1>4, <2>1, BrokenIsWorked DEF done
  <2> QED BY <1>2, <2>2, <2>3 DEF MissedParent, target
<1>5. CASE parent # NoNode
  <2>1. parent \in Places /\ parent \in InUse(pul, done) /\ target \in ToSet(tree.kids[parent])
    BY <1>1, <1>2, <1>5, ParentInUse
  <2>2. NextSibling(tree, target) = NoNode \/ NextSibling(tree, target) \in ToSet(tree.kids[parent]) \ {target}
    BY <1>1, <1>2, <1>5, NextSiblingIsChild
  <2>3. reference = NoNode \/ reference \in ToSet(tree.kids[parent])
    BY <2>1, <2>2
  <2> HIDE DEF parent, reference
  <2>4. GoodStep(tree, new, pul, done)
    BY <1>1, <2>1, <2>3, ContentInserted
  <2>5. Applied(i, new)
    BY <1>3, <1>5
  <2> HIDE DEF new
  <2>6. Worked(i, {"TypeError"})
    BY <2>4, <2>5, AppliedIsWorked DEF done
  <2> QED BY <2>5, <2>6 DEF Applied
<1> QED BY <1>4, <1>5

\* The attribute with an identity is one of the set and has that identity.
LEMMA ChosenAttribute ==
  ASSUME NEW S, NEW id \in Ids(S)
  PROVE  (CHOOSE a \in S : a.id = id) \in S /\ (CHOOSE a \in S : a.id = id).id = id
BY DEF Ids

\* The attributes a primitive brings are numbered from 1.
LEMMA BroughtPlaces ==
  ASSUME NEW i, AtWork(i)
  PROVE  DOMAIN Brought(i) \subseteq Nat \ {0}
<1>1. pul[i].attributes \in Seq(ToSet(Names))
  BY DEF AtWork, Primitives
<1>2. DOMAIN pul[i].attributes \subseteq Nat \ {0}
  BY <1>1
<1> QED BY <1>2 DEF Brought

\* insertAttributes works, or breaks at a name that is taken.
LEMMA InsertAttributesWorks ==
  ASSUME NEW i, AtWork(i), ApplyInsertAttributes(i)
  PROVE  Worked(i, {"XUDY0021"})
<1> DEFINE target == pul[i].target
<1>1. target \in Places
  BY DEF ApplyInsertAttributes, AtWork, RightTarget, Elements, ElementLike, Places
<1>2. SetAttributes(i, tree, target, Brought(i))
  BY DEF ApplyInsertAttributes
<1>3. GoodStep(tree, tree, pul, applied \cup {i}) /\ Untouched(tree, i)
  BY SameTree DEF AtWork
<1> HIDE DEF target
<1> QED BY <1>1, <1>2, <1>3, BroughtPlaces, SetAttributesWorked

\* replaceValue always works.
LEMMA ReplaceValueWorks ==
  ASSUME NEW i, AtWork(i), ApplyReplaceValue(i)
  PROVE  Worked(i, {})
<1> DEFINE done == applied \cup {i}
           target == pul[i].target
           owner == ParentOf(tree, target)
           a == CHOOSE a \in tree.attrs[owner] : a.id = target
           new == SetValue(tree, owner, a.name, <<"replaced", i, 0>>)
<1>1. TreeInv(tree, pul, done) /\ i \in done /\ target \in Nodes
  BY DEF AtWork, Primitives
<1>2. IF KindOf[target] = "attribute" /\ owner # NoNode THEN Applied(i, new) ELSE Applied(i, tree)
  BY DEF ApplyReplaceValue
<1>3. GoodStep(tree, tree, pul, done)
  BY <1>1, SameTree
<1>4. ASSUME KindOf[target] = "attribute", owner # NoNode
      PROVE  GoodStep(tree, new, pul, done)
  <2>1. owner \in Places
    BY <1>1, <1>4, ParentIsOwner DEF Children
  <2>2. AttributesInv(tree.attrs, done)
    BY <1>1 DEF TreeInv
  <2> HIDE DEF done, target, owner, a
  <2> DEFINE value == <<"replaced", i, 0>>
             name == a.name
  <2>3. new = SetValue(tree, owner, name, value)
    OBVIOUS
  <2> HIDE DEF new, value, name
  <2>4. /\ SetValue(tree, owner, name, value).kids = tree.kids
        /\ AttributesInv(SetValue(tree, owner, name, value).attrs, done)
        /\ \A p \in Places : \A n : n \in Ids(tree.attrs[p]) => n \in Ids(SetValue(tree, owner, name, value).attrs[p])
    BY <2>1, <2>2, ValueSet
  <2>5. /\ new.kids = tree.kids
        /\ AttributesInv(new.attrs, done)
        /\ \A p \in Places : \A n : n \in Ids(tree.attrs[p]) => n \in Ids(new.attrs[p])
    BY <2>3, <2>4
  <2> QED BY <1>1, <2>5, AttributesChanged
<1> HIDE DEF done, target, owner, new
<1> QED BY <1>2, <1>3, <1>4, AppliedIsWorked DEF done

\* replaceNode works, or breaks for want of a parent or at a name that is taken.
LEMMA ReplaceNodeWorks ==
  ASSUME NEW i, AtWork(i), ApplyReplaceNode(i)
  PROVE  /\ Worked(i, {"TypeError", "XUDY0021"})
         /\ error' # error => MissedParent(i) \/ error' # "TypeError"
<1> DEFINE done == applied \cup {i}
           target == pul[i].target
           count == pul[i].nodes
           parent == ParentOf(tree, target)
<1>1. TreeInv(tree, pul, done) /\ Untouched(tree, i) /\ i \in done /\ i \in Nat /\ count \in Nat /\ target \in Nodes
  BY DEF AtWork, Primitives
<1>2. pul[i].type = "replaceNode" /\ TakesAway(pul[i], target)
  BY DEF ApplyReplaceNode, TakesAway
<1>3. CASE parent = NoNode
  <2>1. Broken(i, tree, "TypeError")
    BY <1>3 DEF ApplyReplaceNode
  <2>2. ~ Owned(tree, target)
    BY <1>1, <1>3, ParentIsOwner
  <2>3. GoodStep(tree, tree, pul, done)
    BY <1>1, SameTree
  <2>4. Worked(i, {"TypeError", "XUDY0021"})
    BY <2>1, <2>3, BrokenIsWorked
  <2> QED BY <1>2, <2>2, <2>4 DEF MissedParent
<1>4. CASE parent # NoNode /\ KindOf[target] # "attribute"
  <2> DEFINE nodes == Content(i, count)
             new == ReplaceChild(tree, target, nodes)
  <2>1. Applied(i, new)
    BY <1>4 DEF ApplyReplaceNode
  <2>2. target \in Children
    BY <1>1, <1>4 DEF Children
  <2> HIDE DEF done, target, count
  <2>3. parent \in InUse(pul, done)
    BY <1>1, <1>4, <2>2, ParentInUse
  <2>4. NewUnder(tree.kids, pul, done, parent, nodes)
    <3> HIDE DEF parent
    <3> QED BY <1>1, <2>3, ContentMayGo
  <2> HIDE DEF nodes
  <2>5. AllOf(tree.kids) \cap ToSet(nodes) = {}
    BY <2>4 DEF NewUnder
  <2>6. TakesAway(pul[i], target)
    BY <1>2
  <2>7. GoodStep(tree, new, pul, done)
    BY <1>1, <1>4, <2>2, <2>4, <2>5, <2>6, ChildReplaced DEF GoodStep
  <2> HIDE DEF new
  <2>8. Worked(i, {"TypeError", "XUDY0021"})
    BY <2>1, <2>7, AppliedIsWorked DEF done
  <2> QED BY <2>1, <2>8 DEF Applied
<1>5. CASE parent # NoNode /\ KindOf[target] = "attribute"
  <2> DEFINE old == CHOOSE a \in tree.attrs[parent] : a.id = target
             left == RemoveAttribute(tree, parent, old.name)
  <2>1. SetAttributes(i, left, parent, Brought(i))
    BY <1>5 DEF ApplyReplaceNode
  <2>2. parent \in Places /\ target \in Ids(tree.attrs[parent])
    BY <1>1, <1>5, ParentIsOwner DEF Children
  <2> HIDE DEF done, target, parent
  <2>3. old \in tree.attrs[parent] /\ old.id = target
    BY <2>2, ChosenAttribute
  <2> HIDE DEF old
  <2>4. TakesAway(pul[i], old.id)
    BY <1>2, <2>3
  <2>5. GoodStep(tree, left, pul, done) /\ Untouched(left, i)
    BY <1>1, <2>2, <2>3, <2>4, AttributeTaken
  <2>6. left.kids = tree.kids
    BY DEF RemoveAttribute, WithAttributes
  <2> HIDE DEF left
  <2>7. Worked(i, {"XUDY0021"})
    BY <2>1, <2>2, <2>5, <2>6, BroughtPlaces, SetAttributesWorked DEF done
  <2> QED BY <2>7 DEF Worked
<1> QED BY <1>3, <1>4, <1>5

\* replaceElementContent always works.
LEMMA ReplaceElementContentWorks ==
  ASSUME NEW i, AtWork(i), ApplyReplaceElementContent(i)
  PROVE  Worked(i, {})
<1> DEFINE done == applied \cup {i}
           target == pul[i].target
           nodes == IF pul[i].text THEN <<Text(i)>> ELSE <<>>
           new == InsertNodes([kids |-> [tree.kids EXCEPT ![target] = <<>>], attrs |-> tree.attrs], target, nodes, NoNode)
<1>1. TreeInv(tree, pul, done) /\ Untouched(tree, i) /\ i \in done /\ i \in Nat /\ pul[i].text \in BOOLEAN
  BY DEF AtWork, Primitives
<1>2. Applied(i, new)
  BY DEF ApplyReplaceElementContent
<1>3. \A n : TakesAway(pul[i], n)
  BY DEF ApplyReplaceElementContent, TakesAway
<1>4. target \in Places /\ target \in InUse(pul, done)
  BY DEF ApplyReplaceElementContent, AtWork, RightTarget, Elements, ElementLike, Places, InUse
<1> HIDE DEF done, target
<1>5. NewUnder(tree.kids, pul, done, target, nodes)
  BY <1>1, <1>4, TextMayGo
<1> HIDE DEF nodes
<1>6. GoodStep(tree, new, pul, done)
  BY <1>1, <1>3, <1>4, <1>5, ContentReplaced
<1> HIDE DEF new
<1> QED BY <1>2, <1>6, AppliedIsWorked DEF done

RenameCodes == {"XUDY0021", "Not supported: renaming detached nodes."}
\* rename on an element works, or breaks because there is no parent.
LEMMA RenameElementWorks ==
  ASSUME NEW i, AtWork(i), pul[i].type = "rename", NEW target \in Elements, pul[i].target = target,
         RenameElement(i, target)
  PROVE  Worked(i, RenameCodes)
<1> DEFINE done == applied \cup {i}
           moved == Moved(i, tree, target)
           new == ReplaceChild(moved, target, <<Renamed(i)>>)
<1>1. TreeInv(tree, pul, done) /\ Untouched(tree, i) /\ i \in done /\ i \in Updates
  BY DEF AtWork
<1>2. IF ParentOf(tree, target) = NoNode
      THEN Broken(i, moved, "Not supported: renaming detached nodes.") ELSE Applied(i, new)
  BY DEF RenameElement, Moved, Copies, MovedChildren
<1> HIDE DEF done, moved
<1>3. GoodStep(tree, moved, pul, done)
  BY <1>1, ChildrenMoved DEF moved
<1>4. ParentOf(tree, target) # NoNode => GoodStep(tree, new, pul, done)
  BY <1>1, ElementRenamed DEF moved
<1> HIDE DEF new
<1> QED BY <1>2, <1>3, <1>4, AppliedIsWorked, BrokenIsWorked DEF done, RenameCodes

\* rename on an attribute works, or breaks because there is no parent or the name is taken.
LEMMA RenameAttributeWorks ==
  ASSUME NEW i, AtWork(i), pul[i].type = "rename", NEW target \in Nodes, pul[i].target = target,
         target \notin Children, RenameAttribute(i, target)
  PROVE  Worked(i, RenameCodes)
<1> DEFINE done == applied \cup {i}
           owner == ParentOf(tree, target)
           old == CHOOSE a \in tree.attrs[owner] : a.id = target
           left == RemoveAttribute(tree, owner, old.name)
           attributes == <<[name |-> pul[i].name, value |-> old.value]>>
<1>1. TreeInv(tree, pul, done) /\ Untouched(tree, i) /\ i \in done
  BY DEF AtWork
<1>2. IF owner = NoNode THEN Broken(i, tree, "Not supported: renaming detached nodes.")
      ELSE SetAttributes(i, left, owner, attributes)
  BY DEF RenameAttribute
<1>3. CASE owner = NoNode
  <2>1. GoodStep(tree, tree, pul, done)
    BY <1>1, SameTree
  <2> QED BY <1>2, <1>3, <2>1, BrokenIsWorked DEF RenameCodes
<1>4. CASE owner # NoNode
  <2>1. owner \in Places /\ target \in Ids(tree.attrs[owner])
    BY <1>1, <1>4, ParentIsOwner
  <2>2. DOMAIN attributes \subseteq Nat \ {0}
    OBVIOUS
  <2> HIDE DEF done, owner, attributes
  <2>3. old \in tree.attrs[owner] /\ old.id = target
    BY <2>1, ChosenAttribute
  <2> HIDE DEF old
  <2>4. TakesAway(pul[i], old.id)
    BY <2>3 DEF TakesAway
  <2>5. GoodStep(tree, left, pul, done) /\ Untouched(left, i)
    BY <1>1, <2>1, <2>3, <2>4, AttributeTaken
  <2>6. left.kids = tree.kids
    BY DEF RemoveAttribute, WithAttributes
  <2>7. SetAttributes(i, left, owner, attributes)
    BY <1>2, <1>4
  <2> HIDE DEF left
  <2>8. Worked(i, {"XUDY0021"})
    BY <2>1, <2>2, <2>5, <2>6, <2>7, SetAttributesWorked DEF done
  <2> QED BY <2>8 DEF Worked, RenameCodes
<1> QED BY <1>3, <1>4

\* rename on a processing instruction works, or breaks because there is no parent.
LEMMA RenameInstructionWorks ==
  ASSUME NEW i, AtWork(i), pul[i].type = "rename", NEW target \in Children, pul[i].target = target,
         RenameInstruction(i, target)
  PROVE  Worked(i, RenameCodes)
<1> DEFINE done == applied \cup {i}
           parent == ParentOf(tree, target)
           nodes == Content(i, 1)
           new == ReplaceChild(tree, target, nodes)
<1>1. TreeInv(tree, pul, done) /\ Untouched(tree, i) /\ i \in done /\ i \in Nat /\ 1 \in Nat
  BY DEF AtWork
<1>2. IF parent = NoNode THEN Broken(i, tree, "Not supported: renaming detached nodes.") ELSE Applied(i, new)
  BY DEF RenameInstruction
<1>3. TakesAway(pul[i], target)
  BY DEF TakesAway
<1>4. GoodStep(tree, tree, pul, done)
  BY <1>1, SameTree
<1>5. ASSUME parent # NoNode
      PROVE  GoodStep(tree, new, pul, done)
  <2> HIDE DEF done
  <2>1. parent \in InUse(pul, done)
    BY <1>1, <1>5, ParentInUse
  <2>2. NewUnder(tree.kids, pul, done, parent, nodes)
    <3> HIDE DEF parent
    <3> QED BY <1>1, <2>1, ContentMayGo
  <2> HIDE DEF nodes
  <2>3. AllOf(tree.kids) \cap ToSet(nodes) = {}
    BY <2>2 DEF NewUnder
  <2> QED BY <1>1, <1>3, <1>5, <2>2, <2>3, ChildReplaced DEF GoodStep
<1> HIDE DEF new, parent
<1> QED BY <1>2, <1>4, <1>5, AppliedIsWorked, BrokenIsWorked DEF done, RenameCodes

\* delete always works.
LEMMA DeleteWorks ==
  ASSUME NEW i, AtWork(i), ApplyDelete(i)
  PROVE  Worked(i, {})
<1> DEFINE done == applied \cup {i}
           target == pul[i].target
           parent == ParentOf(tree, target)
           old == CHOOSE a \in tree.attrs[parent] : a.id = target
           left == RemoveAttribute(tree, parent, old.name)
<1>1. TreeInv(tree, pul, done) /\ i \in done /\ target \in Nodes
  BY DEF AtWork, Primitives
<1>2. \A n : TakesAway(pul[i], n)
  BY DEF ApplyDelete, TakesAway
<1>3. \/ parent = NoNode /\ Applied(i, tree)
      \/ parent # NoNode /\ KindOf[target] = "attribute" /\ Applied(i, left)
      \/ parent # NoNode /\ KindOf[target] # "attribute" /\ Applied(i, RemoveChild(tree, target))
  BY DEF ApplyDelete
<1>4. GoodStep(tree, tree, pul, done)
  BY <1>1, SameTree
<1>5. ASSUME parent # NoNode, KindOf[target] = "attribute"
      PROVE  GoodStep(tree, left, pul, done)
  <2>1. parent \in Places /\ target \in Ids(tree.attrs[parent])
    BY <1>1, <1>5, ParentIsOwner DEF Children
  <2> HIDE DEF done, target, parent
  <2>2. old \in tree.attrs[parent]
    BY <2>1, ChosenAttribute
  <2> HIDE DEF old
  <2> QED BY <1>1, <1>2, <2>1, <2>2, AttributeTaken
<1>6. ASSUME KindOf[target] # "attribute"
      PROVE  GoodStep(tree, RemoveChild(tree, target), pul, done)
  <2>1. target \in Children
    BY <1>1, <1>6 DEF Children
  <2> HIDE DEF done, target
  <2> QED BY <1>1, <1>2, <2>1, ChildDeleted
<1> HIDE DEF target, parent, left
<1> QED BY <1>3, <1>4, <1>5, <1>6, AppliedIsWorked

-----------------------------------------------------------------------------

OwnErrors == {"TypeError"} \cup RenameCodes
\* Whatever the primitive, it works or breaks in one of its ways, and a TypeError is a missing
\* parent.
LEMMA ApplyWorks ==
  ASSUME PendingInv, NEW i \in DOMAIN pul, Apply(i)
  PROVE  /\ AtWork(i) /\ Worked(i, OwnErrors) /\ Turn(i)
         /\ error' # error /\ error' = "TypeError" => MissedParent(i)
<1>1. Turn(i)
  BY DEF Apply, ApplyInsertInto, ApplyInsertIntoAsFirst, ApplyInsertAttributes, ApplyInsertBefore, ApplyInsertAfter,
         ApplyReplaceValue, ApplyReplaceNode, ApplyReplaceElementContent, ApplyRename, ApplyDelete
<1>2. AtWork(i)
  BY <1>1, TurnIsWork
<1>3. ASSUME NEW codes \in SUBSET RenameCodes, Worked(i, codes)
      PROVE  /\ Worked(i, OwnErrors)
             /\ error' # error /\ error' = "TypeError" => MissedParent(i)
  BY <1>3 DEF Worked, OwnErrors, RenameCodes
<1>4. {} \in SUBSET RenameCodes /\ {"XUDY0021"} \in SUBSET RenameCodes
  BY DEF RenameCodes
<1>5. CASE ApplyInsertInto(i) \/ ApplyInsertIntoAsFirst(i)
  BY <1>1, <1>2, <1>3, <1>4, <1>5, InsertIntoWorks
<1>6. CASE ApplyInsertAttributes(i)
  BY <1>1, <1>2, <1>3, <1>4, <1>6, InsertAttributesWorks
<1>7. CASE ApplyInsertBefore(i) \/ ApplyInsertAfter(i)
  <2>1. Worked(i, {"TypeError"}) /\ (error' # error => MissedParent(i))
    BY <1>2, <1>7, InsertBesideWorks
  <2> QED BY <1>1, <1>2, <2>1 DEF Worked, OwnErrors
<1>8. CASE ApplyReplaceValue(i)
  BY <1>1, <1>2, <1>3, <1>4, <1>8, ReplaceValueWorks
<1>9. CASE ApplyReplaceNode(i)
  <2>1. /\ Worked(i, {"TypeError", "XUDY0021"})
        /\ error' # error => MissedParent(i) \/ error' # "TypeError"
    BY <1>2, <1>9, ReplaceNodeWorks
  <2> QED BY <1>1, <1>2, <2>1 DEF Worked, OwnErrors, RenameCodes
<1>10. CASE ApplyReplaceElementContent(i)
  BY <1>1, <1>2, <1>3, <1>4, <1>10, ReplaceElementContentWorks
<1>11. CASE ApplyRename(i)
  <2>1. pul[i].type = "rename" /\ pul[i].target \in Nodes
    BY <1>2, <1>11 DEF ApplyRename, AtWork, Primitives
  <2>2. Worked(i, RenameCodes)
    <3>1. CASE pul[i].target \in Elements /\ RenameElement(i, pul[i].target)
      BY <1>2, <2>1, <3>1, RenameElementWorks
    <3>2. CASE KindOf[pul[i].target] = "attribute" /\ RenameAttribute(i, pul[i].target)
      <4>1. pul[i].target \notin Children
        BY <3>2 DEF Children
      <4> QED BY <1>2, <2>1, <3>2, <4>1, RenameAttributeWorks
    <3>3. CASE KindOf[pul[i].target] = "processing-instruction" /\ RenameInstruction(i, pul[i].target)
      <4>1. pul[i].target \in Children
        BY <2>1, <3>3 DEF Children
      <4> QED BY <1>2, <2>1, <3>3, <4>1, RenameInstructionWorks
    <3> QED BY <1>11, <3>1, <3>2, <3>3 DEF ApplyRename
  <2> QED BY <1>1, <1>2, <1>3, <2>2
<1>12. CASE ApplyDelete(i)
  BY <1>1, <1>2, <1>3, <1>4, <1>12, DeleteWorks
<1> QED BY <1>1, <1>2, <1>5, <1>6, <1>7, <1>8, <1>9, <1>10, <1>11, <1>12 DEF Apply

-----------------------------------------------------------------------------
(* The invariant. *)

\* The tree of the caller, before any primitive, is as it must be, whatever the list.
LEMMA InitialTreeGood ==
  ASSUME NEW list
  PROVE  TreeInv(InitialTree, list, {})
<1> DEFINE kids == InitialTree.kids
           attrs == InitialTree.attrs
<1>1. /\ kids = [p \in Places |-> IF p \in ElementLike THEN Kids[p] ELSE <<>>]
      /\ attrs = [p \in Places |-> IF p \in ElementLike THEN Attrs[p] ELSE {}]
  BY DEF InitialTree, Places
<1>2. IsForest(InitialTree) /\ Parents(InitialTree) = Places
  BY CallersTree, <1>1 DEF Parents
<1>3. ASSUME NEW p \in ElementLike
      PROVE  Kids[p] \in Seq(Children) /\ kids[p] = Kids[p] /\ kids[p] \in Rows
  <2>1. Kids[p] \in Seq(Children)
    BY CallersTree DEF Children
  <2>2. kids[p] = Kids[p]
    BY <1>1 DEF Places
  <2> HIDE DEF kids
  <2> QED BY <2>1, <2>2 DEF Rows
<1>4. ASSUME NEW p \in Places, p \notin ElementLike
      PROVE  kids[p] = <<>> /\ kids[p] \in Rows /\ ToSet(kids[p]) = {} /\ attrs[p] = {}
  <2>1. kids[p] = <<>> /\ attrs[p] = {}
    BY <1>1, <1>4
  <2> HIDE DEF kids, attrs
  <2> QED BY <2>1 DEF Rows, ToSet
<1>5. \A p \in ElementLike : attrs[p] = Attrs[p]
  BY <1>1 DEF Places
<1> HIDE DEF kids, attrs
<1>6. kids \in [Places -> Rows]
  BY <1>1, <1>3, <1>4
<1>7. OnePlaceEach(kids)
  BY <1>2 DEF OnePlaceEach, IsForest, kids
<1>8. ASSUME NEW p \in Places, NEW c \in ToSet(kids[p])
      PROVE  /\ c \in Children /\ p \in ElementLike
             /\ p \in InUse(list, {}) /\ (c \in Places => OriginIn(list, c) \in ToSet(Kids[OriginIn(list, p)]))
  <2>1. p \in ElementLike
    BY <1>4
  <2>2. c \in Children
    BY <1>3, <2>1 DEF ToSet
  <2>3. p \in InUse(list, {})
    BY <2>1 DEF InUse
  <2>4. c \in Places => c \in ElementLike
    BY <2>2, RenamedIsNew DEF Places, Children
  <2>5. OriginIn(list, p) = p /\ (c \in Places => OriginIn(list, c) = c)
    BY <2>1, <2>4, ElementOrigin
  <2> QED BY <1>3, <2>1, <2>2, <2>3, <2>5
<1>9. KidsInv(kids, list, {})
  BY <1>6, <1>7, <1>8 DEF KidsInv, KnownChild, UnderTheirOrigin
<1>10. AttributesInv(attrs, {})
  <2>1. DOMAIN attrs = Places
    BY <1>1
  <2>2. ASSUME NEW p \in Places, NEW a \in attrs[p]
        PROVE  /\ a = Attribute(a.id, a.name, a.value) /\ KnownAttribute(a.id, {})
               /\ a.id \in Nodes => p \in ElementLike
    <3>1. p \in ElementLike /\ a \in Attrs[p]
      BY <1>4, <1>5
    <3> QED BY CallersTree, <3>1 DEF KnownAttribute, Children
  <2>3. \A p, q \in Places : p # q => Ids(attrs[p]) \cap Ids(attrs[q]) = {}
    BY <1>2 DEF IsForest, Ids, attrs
  <2>4. \A p \in Places : \A a, b \in attrs[p] : a # b => a.id # b.id /\ ~ SameName(a.name, b.name)
    BY <1>2 DEF IsForest, SameName, attrs
  <2> QED BY <2>1, <2>2, <2>3, <2>4 DEF AttributesInv
<1> QED BY <1>9, <1>10 DEF TreeInv, OwnedUntilTaken, kids, attrs

\* The invariant holds initially.
LEMMA InitInv == Init => PendingInv
<1> SUFFICES ASSUME Init
             PROVE  PendingInv
  OBVIOUS
<1>1. pul = <<>> /\ tree = InitialTree /\ applied = {} /\ status = "collecting" /\ error = "none"
  BY DEF Init
<1>2. pul \in Seq(Primitives) /\ Len(pul) = 0 /\ DOMAIN pul = {}
  BY <1>1
<1>3. TypeOK
  BY <1>1, <1>2, MaxUpdatesIsNat DEF TypeOK
<1> QED BY <1>1, <1>2, <1>3, InitialTreeGood DEF PendingInv, BreaksOnlyAfterRename

\* Nothing that is said of the list alone changes when the list does not.
LEMMA SameList ==
  ASSUME pul' = pul
  PROVE  /\ \A i, j : Precedes(i, j)' <=> Precedes(i, j)
         /\ RenameClash' <=> RenameClash
         /\ \A type : SameTarget(type)' <=> SameTarget(type)
<1>1. \A i, j : Precedes(i, j)' <=> Precedes(i, j)
  BY DEF Precedes
<1>2. RenameClash' <=> RenameClash
  BY DEF RenameClash, OfType, Precedes
<1>3. \A type : SameTarget(type)' <=> SameTarget(type)
  BY DEF SameTarget, OfType
<1> QED BY <1>1, <1>2, <1>3

\* The invariant survives an expression, or the compatibility check, that raises.
LEMMA RaisedInv ==
  ASSUME PendingInv, NEW code, code # "TypeError", Raise(code)
  PROVE  PendingInv'
<1>1. pul' = pul /\ tree' = tree /\ applied' = applied /\ status' = "raised" /\ error' = code
  BY DEF Raise
<1>2. TypeOK'
  BY <1>1 DEF PendingInv, TypeOK
<1>3. TreeInv(tree', pul', applied')
  BY <1>1 DEF PendingInv
<1>4. \A j \in applied', i \in DOMAIN pul' \ applied' : Precedes(j, i)'
  BY <1>1, SameList DEF PendingInv
<1> QED BY <1>1, <1>2, <1>3, <1>4 DEF PendingInv, BreaksOnlyAfterRename

RightOnes == {u \in Primitives : RightTarget(u)}
\* The invariant survives primitives added to the list.
LEMMA MergedInv ==
  ASSUME PendingInv, status = "collecting", NEW updates \in Seq(RightOnes), MergeUpdates(updates)
  PROVE  PendingInv'
<1>1. /\ pul' = pul \o updates /\ Len(pul) + Len(updates) <= MaxUpdates
      /\ tree' = tree /\ applied' = applied /\ status' = status /\ error' = error
  BY DEF MergeUpdates
<1>2. tree = InitialTree /\ applied = {} /\ error = "none" /\ pul \in Seq(Primitives)
  BY DEF PendingInv, TypeOK
<1>3. updates \in Seq(Primitives) /\ \A i \in DOMAIN updates : RightTarget(updates[i])
  BY DEF RightOnes
<1>4. pul' \in Seq(Primitives) /\ Len(pul') = Len(pul) + Len(updates)
  BY <1>1, <1>2, <1>3, ConcatProperties
<1>5. ASSUME NEW i \in DOMAIN pul'
      PROVE  RightTarget(pul'[i])
  <2>1. Len(pul) \in Nat /\ Len(updates) \in Nat /\ i \in 1 .. Len(pul) + Len(updates)
    BY <1>2, <1>3, <1>4
  <2>2. CASE i <= Len(pul)
    <3>1. pul'[i] = pul[i] /\ i \in DOMAIN pul
      BY <1>1, <1>2, <1>3, <2>1, <2>2
    <3> QED BY <3>1 DEF PendingInv
  <2>3. CASE i > Len(pul)
    <3>1. pul'[i] = updates[i - Len(pul)] /\ i - Len(pul) \in DOMAIN updates
      BY <1>1, <1>2, <1>3, <2>1, <2>3
    <3> QED BY <1>3, <3>1
  <2> QED BY <2>1, <2>2, <2>3
<1>6. TypeOK'
  BY <1>1, <1>2, <1>4 DEF PendingInv, TypeOK
<1>7. TreeInv(tree', pul', applied')
  BY <1>1, <1>2, InitialTreeGood
<1> QED BY <1>1, <1>2, <1>5, <1>6, <1>7 DEF PendingInv, BreaksOnlyAfterRename

\* What the updating expressions put on the list is what they have checked.
LEMMA InsertUpdatesRight ==
  ASSUME tree = InitialTree, NEW choice \in Into \cup Beside, NEW target \in Nodes, NEW content \in Contents,
         InsertError(choice, target, content) = "none"
  PROVE  InsertUpdates(choice, target, content) \in Seq(RightOnes)
<1> DEFINE parent == ParentOf(tree, target)
           owner == IF choice \in Into THEN target ELSE parent
           first == Primitive("insertAttributes", owner, 0, content.attributes, NoName, FALSE)
           second == Primitive(choice, target, content.nodes, <<>>, NoName, FALSE)
           one == IF content.attributes = <<>> THEN <<>> ELSE <<first>>
           two == IF content.nodes = 0 THEN <<>> ELSE <<second>>
<1>1. InsertUpdates(choice, target, content) = one \o two
  BY DEF InsertUpdates
<1>2. /\ choice \in Into => target \in ElementLike
      /\ choice \in Beside => KindOf[target] \notin {"document", "attribute"} /\ parent # NoNode
      /\ content.attributes # <<>> => owner \in Elements
  BY DEF InsertError, Into, Beside
<1>3. content.nodes \in Nat /\ content.attributes \in Seq(ToSet(Names))
  BY ContentsAreContents
<1>4. parent # NoNode => Owned(InitialTree, target)
  <2>1. TreeInv(tree, <<>>, {})
    BY InitialTreeGood
  <2> QED BY <2>1, ParentIsOwner
<1> HIDE DEF parent, owner
<1>5. content.attributes # <<>> => first \in RightOnes
  <2> SUFFICES ASSUME owner \in Elements
               PROVE  first \in RightOnes
    BY <1>2
  <2>1. first = [type |-> "insertAttributes", target |-> owner, nodes |-> 0, attributes |-> content.attributes,
                 name |-> NoName, text |-> FALSE]
    BY DEF Primitive
  <2>2. owner \in Nodes
    BY DEF Elements
  <2> HIDE DEF first
  <2>3. first \in Primitives
    BY <1>3, <2>1, <2>2 DEF Primitives
  <2>4. first.type = "insertAttributes" /\ first.target = owner
    BY <2>1
  <2>5. RightTarget(first)
    BY <2>4 DEF RightTarget, Into, Beside
  <2> QED BY <2>3, <2>5 DEF RightOnes
<1>6. second \in RightOnes
  <2>1. second = [type |-> choice, target |-> target, nodes |-> content.nodes, attributes |-> <<>>,
                  name |-> NoName, text |-> FALSE]
    BY DEF Primitive
  <2> HIDE DEF second
  <2>2. second \in Primitives
    BY <1>3, <2>1 DEF Primitives
  <2>3. second.type = choice /\ second.target = target
    BY <2>1
  <2>4. RightTarget(second)
    BY <1>2, <1>4, <2>3 DEF RightTarget, Into, Beside, Children
  <2> QED BY <2>2, <2>4 DEF RightOnes
<1>7. one \in Seq(RightOnes)
  <2> HIDE DEF first
  <2> QED BY <1>5
<1>8. two \in Seq(RightOnes)
  <2> HIDE DEF second
  <2> QED BY <1>6
<1> HIDE DEF one, two
<1> QED BY <1>1, <1>7, <1>8, ConcatProperties

\* A list of one right primitive is one of right primitives.
LEMMA OneUpdateRight ==
  ASSUME NEW u \in Primitives, RightTarget(u)
  PROVE  <<u>> \in Seq(RightOnes)
<1>1. u \in RightOnes
  BY DEF RightOnes
<1> HIDE DEF RightOnes
<1> QED BY <1>1

\* What the checks of the names raise.
LEMMA BindingErrors ==
  ASSUME NEW names, NEW bindings
  PROVE  BindingError(names, bindings) \in {"none", "XUDY0023", "XUDY0024"}
BY DEF BindingError

\* A renaming that is put on the list has a target of a kind that has a name.
LEMMA RenameChecked ==
  ASSUME NEW target, NEW name
  PROVE  /\ RenameError(target, name) # "TypeError"
         /\ RenameError(target, name) = "none" =>
              KindOf[target] \in {"element", "attribute", "processing-instruction"}
BY DEF RenameError

\* The invariant survives the evaluation of every updating expression.
LEMMA EvaluateInv ==
  ASSUME PendingInv, Evaluate
  PROVE  PendingInv'
<1>1. status = "collecting"
  BY DEF Evaluate, EvaluateInsert, EvaluateDelete, EvaluateReplaceNode, EvaluateReplaceValue, EvaluateRename
<1>2. tree = InitialTree
  BY <1>1 DEF PendingInv
<1>3. ASSUME NEW choice \in Into \cup Beside, NEW target \in Nodes, NEW content \in Contents,
             EvaluateInsert(choice, target, content)
      PROVE  PendingInv'
  <2> DEFINE code == InsertError(choice, target, content)
             updates == InsertUpdates(choice, target, content)
  <2>1. IF code # "none" THEN Raise(code) ELSE MergeUpdates(updates)
    BY <1>3 DEF EvaluateInsert
  <2>2. code # "TypeError"
    BY BindingErrors DEF InsertError
  <2>3. code = "none" => updates \in Seq(RightOnes)
    BY <1>2, InsertUpdatesRight
  <2> HIDE DEF code, updates
  <2> QED BY <1>1, <2>1, <2>2, <2>3, RaisedInv, MergedInv
<1>4. ASSUME NEW target \in Nodes, EvaluateDelete(target)
      PROVE  PendingInv'
  <2> DEFINE u == Primitive("delete", target, 0, <<>>, NoName, FALSE)
  <2>1. u = [type |-> "delete", target |-> target, nodes |-> 0, attributes |-> <<>>, name |-> NoName, text |-> FALSE]
    BY DEF Primitive
  <2>2. MergeUpdates(<<u>>)
    BY <1>4 DEF EvaluateDelete
  <2> HIDE DEF u
  <2>3. u \in Primitives /\ u.type = "delete"
    BY <2>1 DEF Primitives
  <2>4. RightTarget(u)
    BY <2>3 DEF RightTarget, Into, Beside
  <2> QED BY <1>1, <2>2, <2>3, <2>4, OneUpdateRight, MergedInv
<1>5. ASSUME NEW target \in Nodes, NEW content \in Contents, EvaluateReplaceNode(target, content)
      PROVE  PendingInv'
  <2> DEFINE code == ReplaceError(target, content)
             u == Primitive("replaceNode", target, content.nodes, content.attributes, NoName, FALSE)
  <2>1. IF code # "none" THEN Raise(code) ELSE MergeUpdates(<<u>>)
    BY <1>5 DEF EvaluateReplaceNode
  <2>2. code # "TypeError"
    BY BindingErrors DEF ReplaceError
  <2>3. code = "none" => ParentOf(tree, target) # NoNode
    BY DEF ReplaceError
  <2>4. code = "none" => Owned(InitialTree, target)
    <3>1. TreeInv(tree, <<>>, {})
      BY <1>2, InitialTreeGood
    <3> QED BY <1>2, <2>3, <3>1, ParentIsOwner
  <2>5. u = [type |-> "replaceNode", target |-> target, nodes |-> content.nodes, attributes |-> content.attributes,
             name |-> NoName, text |-> FALSE]
    BY DEF Primitive
  <2>6. content.nodes \in Nat /\ content.attributes \in Seq(ToSet(Names))
    BY ContentsAreContents
  <2> HIDE DEF u, code
  <2>7. u \in Primitives /\ u.type = "replaceNode" /\ u.target = target
    BY <2>5, <2>6 DEF Primitives
  <2>8. code = "none" => RightTarget(u)
    BY <2>4, <2>7 DEF RightTarget, Into, Beside
  <2> QED BY <1>1, <2>1, <2>2, <2>7, <2>8, RaisedInv, OneUpdateRight, MergedInv
<1>6. ASSUME NEW target \in Nodes, NEW hasText \in BOOLEAN, EvaluateReplaceValue(target, hasText)
      PROVE  PendingInv'
  <2> DEFINE type == IF target \in Elements THEN "replaceElementContent" ELSE "replaceValue"
             u == Primitive(type, target, 0, <<>>, NoName, hasText)
  <2>1. Raise("XUTY0008") \/ MergeUpdates(<<u>>)
    BY <1>6 DEF EvaluateReplaceValue
  <2>2. u = [type |-> type, target |-> target, nodes |-> 0, attributes |-> <<>>, name |-> NoName, text |-> hasText]
    BY DEF Primitive
  <2>3. type \in {"replaceElementContent", "replaceValue"} /\ (type = "replaceElementContent" => target \in Elements)
    OBVIOUS
  <2> HIDE DEF u, type
  <2>4. u \in Primitives /\ u.type = type /\ u.target = target
    BY <2>2, <2>3 DEF Primitives
  <2>5. RightTarget(u)
    BY <2>3, <2>4 DEF RightTarget, Into, Beside
  <2> QED BY <1>1, <2>1, <2>4, <2>5, RaisedInv, OneUpdateRight, MergedInv
<1>7. ASSUME NEW target \in Nodes, NEW k \in DOMAIN Names, EvaluateRename(target, Names[k])
      PROVE  PendingInv'
  <2> DEFINE code == RenameError(target, Names[k])
             name == IF KindOf[target] = "processing-instruction" THEN NoName ELSE Names[k]
             u == Primitive("rename", target, 0, <<>>, name, FALSE)
  <2>1. IF code # "none" THEN Raise(code) ELSE MergeUpdates(<<u>>)
    BY <1>7 DEF EvaluateRename
  <2>2. u = [type |-> "rename", target |-> target, nodes |-> 0, attributes |-> <<>>,
             name |-> name, text |-> FALSE]
    BY DEF Primitive
  <2>3. name \in ToSet(Names) \cup {NoName}
    BY DEF ToSet
  <2>6. /\ code # "TypeError"
        /\ code = "none" => KindOf[target] \in {"element", "attribute", "processing-instruction"}
    BY RenameChecked
  <2> HIDE DEF u, code, name
  <2>4. u \in Primitives /\ u.type = "rename" /\ u.target = target
    BY <2>2, <2>3 DEF Primitives
  <2>5. code = "none" => RightTarget(u)
    BY <2>4, <2>6 DEF RightTarget, Into, Beside
  <2> QED BY <1>1, <2>1, <2>4, <2>5, <2>6, RaisedInv, OneUpdateRight, MergedInv
<1> QED BY <1>3, <1>4, <1>5, <1>6, <1>7 DEF Evaluate

\* The invariant survives the compatibility check, which finds every node that is replaced twice.
LEMMA CheckInv ==
  ASSUME PendingInv, CheckCompatibility
  PROVE  PendingInv'
<1>1. CASE Incompatibility # "none"
  <2>1. Raise(Incompatibility) /\ Incompatibility # "TypeError"
    BY <1>1 DEF CheckCompatibility, Incompatibility
  <2> QED BY <2>1, RaisedInv
<1>2. CASE Incompatibility = "none"
  <2>1. /\ status = "collecting" /\ status' = "applying"
        /\ pul' = pul /\ tree' = tree /\ applied' = applied /\ error' = error
    BY <1>2 DEF CheckCompatibility
  <2>2. ~ SameTarget("replaceNode")
    BY <1>2 DEF Incompatibility
  <2>3. TypeOK'
    BY <2>1 DEF PendingInv, TypeOK
  <2>4. TreeInv(tree', pul', applied') /\ applied' = {}
    BY <2>1 DEF PendingInv
  <2>5. ~ SameTarget("replaceNode")'
    BY <2>1, <2>2, SameList
  <2> QED BY <2>1, <2>3, <2>4, <2>5 DEF PendingInv, BreaksOnlyAfterRename
<1> QED BY <1>1, <1>2

\* What took the parent of the target of an insertion beside it, or of its replacement, is a rename:
\* deletions and replacements of content come later, and no target is replaced twice.
LEMMA MissedBecauseRenamed ==
  ASSUME PendingInv, NEW i \in DOMAIN pul, Turn(i), MissedParent(i)
  PROVE  RenameClash
<1> DEFINE target == pul[i].target
<1>1. pul[i] \in Primitives /\ RightTarget(pul[i]) /\ i \notin applied /\ applied \subseteq DOMAIN pul
  BY DEF PendingInv, TypeOK, Turn
<1>2. target \in Nodes /\ Owned(InitialTree, target) /\ ~ Owned(tree, target)
  BY <1>1 DEF Primitives, RightTarget, MissedParent
<1>3. PICK j \in applied : TakesAway(pul[j], target)
  BY <1>2 DEF PendingInv, TreeInv, OwnedUntilTaken
<1>4. Precedes(j, i) /\ j # i /\ j \in DOMAIN pul
  BY <1>1 DEF PendingInv
<1>5. pul[i].type \in {"insertBefore", "insertAfter", "replaceNode"}
  BY DEF MissedParent, Beside
<1>6. pul[j].type \notin {"delete", "replaceElementContent"}
  BY <1>4, <1>5 DEF Precedes, Phase
<1>7. ~ (pul[j].type = "replaceNode" /\ pul[j].target = target)
  <2> SUFFICES ASSUME pul[j].type = "replaceNode", pul[j].target = target
               PROVE  FALSE
    OBVIOUS
  <2>1. pul[i].type = "replaceNode"
    BY <1>4, <1>5 DEF Precedes, Phase
  <2>2. SameTarget("replaceNode")
    BY <1>4, <2>1 DEF SameTarget, OfType
  <2> QED BY <2>2 DEF PendingInv, Turn
<1>8. /\ pul[j].type = "rename"
      /\ pul[j].target = target \/ (pul[j].target \in Elements /\ target \in Ids(Attrs[pul[j].target]))
  BY <1>3, <1>6, <1>7 DEF TakesAway
<1> QED BY <1>4, <1>8 DEF RenameClash, OfType, Ids

\* The invariant survives every primitive.
LEMMA ApplyInv ==
  ASSUME PendingInv, NEW i \in DOMAIN pul, Apply(i)
  PROVE  PendingInv'
<1>1. /\ AtWork(i) /\ Worked(i, OwnErrors) /\ Turn(i)
      /\ error' # error /\ error' = "TypeError" => MissedParent(i)
  BY ApplyWorks
<1>2. /\ pul' = pul /\ applied' = applied \cup {i} /\ TreeInv(tree', pul, applied')
      /\ \/ status' = status /\ error' = error
         \/ status' = "raised"
  BY <1>1 DEF Worked, GoodStep
<1>3. status = "applying" /\ error = "none"
  BY <1>1 DEF Turn, PendingInv
<1>4. TypeOK'
  <2>1. DOMAIN tree'.kids = Places /\ DOMAIN tree'.attrs = Places
    BY <1>2, TreePlaces
  <2>2. DOMAIN InitialTree.kids = Places /\ DOMAIN InitialTree.attrs = Places
    BY InitialTreeGood, TreePlaces
  <2>3. pul' \in Seq(Primitives) /\ Len(pul') <= MaxUpdates /\ applied' \subseteq DOMAIN pul'
    BY <1>2 DEF PendingInv, TypeOK
  <2> QED BY <1>2, <1>3, <2>1, <2>2, <2>3 DEF TypeOK
<1>5. \A k \in DOMAIN pul' : RightTarget(pul'[k])
  BY <1>2 DEF PendingInv
<1>6. \A j \in applied', k \in DOMAIN pul' \ applied' : Precedes(j, k)'
  <2>1. ASSUME NEW j \in applied', NEW k \in DOMAIN pul' \ applied'
        PROVE  Precedes(j, k)
    <3>1. CASE j = i
      BY <1>1, <1>2, <3>1 DEF Turn
    <3>2. CASE j # i
      BY <1>2, <3>2 DEF PendingInv
    <3> QED BY <3>1, <3>2
  <2> QED BY <1>2, <2>1, SameList
<1>7. ~ SameTarget("replaceNode")'
  BY <1>2, <1>3, SameList DEF PendingInv
<1>8. BreaksOnlyAfterRename'
  <2> SUFFICES ASSUME error' = "TypeError"
               PROVE  RenameClash'
    BY DEF BreaksOnlyAfterRename
  <2>1. MissedParent(i)
    BY <1>1, <1>3
  <2>2. RenameClash
    BY <1>1, <2>1, MissedBecauseRenamed
  <2> QED BY <1>2, <2>2, SameList
<1> QED BY <1>2, <1>3, <1>4, <1>5, <1>6, <1>7, <1>8 DEF PendingInv

\* The invariant survives the end of the list.
LEMMA FinishInv ==
  ASSUME PendingInv, Finish
  PROVE  PendingInv'
<1>1. /\ status = "applying" /\ status' = "done"
      /\ pul' = pul /\ tree' = tree /\ applied' = applied /\ error' = error
  BY DEF Finish
<1>2. TypeOK'
  BY <1>1 DEF PendingInv, TypeOK
<1>3. TreeInv(tree', pul', applied')
  BY <1>1 DEF PendingInv
<1>4. \A j \in applied', k \in DOMAIN pul' \ applied' : Precedes(j, k)'
  BY <1>1, SameList DEF PendingInv
<1>5. ~ SameTarget("replaceNode")'
  BY <1>1, SameList DEF PendingInv
<1> QED BY <1>1, <1>2, <1>3, <1>4, <1>5 DEF PendingInv, BreaksOnlyAfterRename

\* The invariant survives steps that change nothing.
LEMMA StutterInv ==
  ASSUME PendingInv, UNCHANGED vars
  PROVE  PendingInv'
<1>1. pul' = pul /\ tree' = tree /\ applied' = applied /\ status' = status /\ error' = error
  BY DEF vars
<1>2. TypeOK'
  BY <1>1 DEF PendingInv, TypeOK
<1>3. TreeInv(tree', pul', applied')
  BY <1>1 DEF PendingInv
<1>4. \A j \in applied', k \in DOMAIN pul' \ applied' : Precedes(j, k)'
  BY <1>1, SameList DEF PendingInv
<1>5. (status' \in {"applying", "done"} => ~ SameTarget("replaceNode")') /\ BreaksOnlyAfterRename'
  BY <1>1, SameList DEF PendingInv, BreaksOnlyAfterRename
<1> QED BY <1>1, <1>2, <1>3, <1>4, <1>5 DEF PendingInv

\* The inductive invariant holds in every state (applyUpdates and everything it calls).
THEOREM PendingInvariant == Spec => []PendingInv
<1>1. PendingInv /\ [Next]_vars => PendingInv'
  <2> SUFFICES ASSUME PendingInv, [Next]_vars
               PROVE  PendingInv'
    OBVIOUS
  <2>1. CASE Evaluate
    BY <2>1, EvaluateInv
  <2>2. CASE CheckCompatibility
    BY <2>2, CheckInv
  <2>3. CASE \E i \in DOMAIN pul : Apply(i)
    BY <2>3, ApplyInv
  <2>4. CASE Finish
    BY <2>4, FinishInv
  <2>5. CASE UNCHANGED vars
    BY <2>5, StutterInv
  <2> QED BY <2>1, <2>2, <2>3, <2>4, <2>5 DEF Next
<1> QED BY <1>1, InitInv, PTL DEF Spec

\* Among any parents there is one that has none of them for a child, because that holds of their
\* origins in the tree of the caller: so nobody is below itself.
LEMMA NobodyBelowItself ==
  ASSUME NEW kids, NEW list, NEW done, KidsInv(kids, list, done),
         NEW S \in SUBSET Places, S # {}
  PROVE  \E p \in S : ToSet(kids[p]) \cap S = {}
<1> SUFFICES ASSUME \A p \in S : \E c \in S : c \in ToSet(kids[p])
             PROVE  FALSE
  OBVIOUS
<1> DEFINE origins == {OriginIn(list, p) : p \in S}
<1>1. \A p \in Places : \A c \in ToSet(kids[p]) :
        p \in InUse(list, done) /\ (c \in Places => OriginIn(list, c) \in ToSet(Kids[OriginIn(list, p)]))
  BY DEF KidsInv, UnderTheirOrigin
<1>2. \A p \in InUse(list, done) : OriginIn(list, p) \in ElementLike
  <2> SUFFICES ASSUME NEW p \in InUse(list, done)
               PROVE  OriginIn(list, p) \in ElementLike
    OBVIOUS
  <2>1. CASE p \in ElementLike
    BY <2>1, ElementOrigin
  <2>2. CASE p \notin ElementLike
    <3>1. PICK j \in done : p = Renamed(j) /\ list[j].target \in Elements
      BY <2>2 DEF InUse
    <3>2. OriginIn(list, p) = list[j].target
      BY <3>1, RenamedOrigin
    <3> QED BY <3>1, <3>2 DEF Elements, ElementLike
  <2> QED BY <2>1, <2>2
<1>3. origins # {} /\ origins \subseteq ElementLike
  BY <1>1, <1>2
<1>4. PICK o \in origins : ToSet(InitialTree.kids[o]) \cap origins = {}
  <2>1. ElementLike \subseteq Parents(InitialTree)
    BY DEF InitialTree, Parents
  <2>2. origins \in SUBSET Parents(InitialTree)
    BY <1>3, <2>1
  <2> HIDE DEF origins
  <2> QED BY <1>3, <2>2, CallersTree DEF IsForest
<1>5. InitialTree.kids[o] = Kids[o]
  BY <1>3 DEF InitialTree
<1>6. PICK p \in S : o = OriginIn(list, p)
  OBVIOUS
<1>7. PICK c \in S : c \in ToSet(kids[p])
  OBVIOUS
<1>8. OriginIn(list, c) \in ToSet(Kids[o]) /\ OriginIn(list, c) \in origins
  BY <1>1, <1>6, <1>7
<1> HIDE DEF origins
<1> QED BY <1>4, <1>5, <1>8

\* Whatever the list, also when it raises half-way, the tree stays a tree (applyUpdates, all
\* primitives of applyPulPrimitives.ts): for any tree, any list of any length.
THEOREM TreeStaysForest == Spec => []StaysForest
<1>1. PendingInv => StaysForest
  <2> SUFFICES ASSUME PendingInv
               PROVE  IsForest(tree)
    BY DEF PendingInv, StaysForest
  <2>1. KidsInv(tree.kids, pul, applied) /\ AttributesInv(tree.attrs, applied)
    BY DEF PendingInv, TreeInv
  <2>2. Parents(tree) = Places
    BY <2>1 DEF KidsInv, Parents
  <2>3. \A p \in Places : NoRepeats(tree.kids[p])
    BY <2>1 DEF KidsInv, OnePlaceEach
  <2>4. \A p, q \in Places : p # q =>
          /\ ToSet(tree.kids[p]) \cap ToSet(tree.kids[q]) = {}
          /\ {a.id : a \in tree.attrs[p]} \cap {a.id : a \in tree.attrs[q]} = {}
    BY <2>1 DEF KidsInv, OnePlaceEach, AttributesInv, Ids
  <2>5. \A S \in SUBSET Places : S # {} => \E p \in S : ToSet(tree.kids[p]) \cap S = {}
    BY <2>1, NobodyBelowItself
  <2>6. \A p \in Places : \A a, b \in tree.attrs[p] :
          a # b => a.id # b.id /\ <<a.name.local, a.name.uri>> # <<b.name.local, b.name.uri>>
    BY <2>1 DEF AttributesInv, SameName
  <2> QED BY <2>2, <2>3, <2>4, <2>5, <2>6 DEF IsForest
<1> QED BY <1>1, PendingInvariant, PTL

\* A primitive misses the parent of its target only when a rename took it (the TypeErrors of
\* insertBefore, insertAfter and replaceNode).
THEOREM OnlyRenamesBreak == Spec => []BreaksOnlyAfterRename
<1>1. PendingInv => BreaksOnlyAfterRename
  BY DEF PendingInv
<1> QED BY <1>1, PendingInvariant, PTL

\* Two nodes of one row are in one order in it, and in no other.
LEMMA OneOrder ==
  ASSUME NEW kids, OnePlaceEach(kids), NEW p \in Places, NEW r \in Places, NEW m, NEW n,
         Before(kids[p], m, n), Before(kids[r], n, m), DOMAIN kids[p] \subseteq Nat
  PROVE  FALSE
<1>1. m \in ToSet(kids[p]) /\ m \in ToSet(kids[r])
  BY BeforeInRow
<1>2. r = p
  BY <1>1 DEF OnePlaceEach
<1>3. PICK i, j \in DOMAIN kids[p] : i < j /\ kids[p][i] = m /\ kids[p][j] = n
  BY DEF Before
<1>4. PICK k, l \in DOMAIN kids[p] : k < l /\ kids[p][k] = n /\ kids[p][l] = m
  BY <1>2 DEF Before
<1>5. i = l /\ j = k
  BY <1>3, <1>4 DEF OnePlaceEach, NoRepeats
<1> QED BY <1>3, <1>4, <1>5

\* No step swaps two children (applyPulPrimitives.ts: insertions, replacements and the rename of an
\* element keep the order of what they leave).
THEOREM OrderOfTheRest == Spec => KeepsOrder
<1>1. PendingInv /\ [Next]_vars =>
        [\A p, q \in Parents(tree) : \A m, n \in ToSet(tree.kids[p]) :
           Before(tree.kids[p], m, n) => ~ Before(tree'.kids[q], n, m)]_vars
  <2> SUFFICES ASSUME PendingInv, Next, NEW p \in Parents(tree), NEW q \in Parents(tree),
                      NEW m \in ToSet(tree.kids[p]), NEW n \in ToSet(tree.kids[p]),
                      Before(tree.kids[p], m, n), Before(tree'.kids[q], n, m)
               PROVE  FALSE
    OBVIOUS
  <2>1. KidsInv(tree.kids, pul, applied)
    BY DEF PendingInv, TreeInv
  <2>2. Parents(tree) = Places /\ tree.kids \in [Places -> Rows] /\ OnePlaceEach(tree.kids)
    BY <2>1 DEF KidsInv, Parents
  <2>3. OrderKept(AllOf(tree.kids), tree.kids, tree'.kids)
    <3>1. tree' = tree => OrderKept(AllOf(tree.kids), tree.kids, tree'.kids)
      BY DEF OrderKept
    <3>2. CASE Evaluate
      <4>1. tree' = tree
        BY <3>2 DEF Evaluate, EvaluateInsert, EvaluateDelete, EvaluateReplaceNode, EvaluateReplaceValue,
                    EvaluateRename, MergeUpdates, Raise
      <4> QED BY <3>1, <4>1
    <3>3. CASE CheckCompatibility \/ Finish
      BY <3>1, <3>3 DEF CheckCompatibility, Raise, Finish
    <3>4. CASE \E i \in DOMAIN pul : Apply(i)
      BY <3>4, ApplyWorks DEF Worked, GoodStep
    <3> QED BY <3>2, <3>3, <3>4 DEF Next
  <2>4. m \in AllOf(tree.kids) /\ n \in AllOf(tree.kids)
    BY <2>2 DEF AllOf
  <2>5. PICK r \in Places : Before(tree.kids[r], n, m)
    BY <2>2, <2>3, <2>4 DEF OrderKept
  <2>6. DOMAIN tree.kids[p] \subseteq Nat
    <3>1. tree.kids[p] \in Rows
      BY <2>2
    <3> QED BY <3>1 DEF Rows
  <2> QED BY <2>2, <2>5, <2>6, OneOrder
<1> QED BY <1>1, PendingInvariant, PTL DEF Spec, KeepsOrder

-----------------------------------------------------------------------------
(* What the list amounts to: joining rows. *)

\* The library's joining of rows is the one that is meant here.
LEMMA FlattenSame ==
  ASSUME NEW q
  PROVE  Order!FlattenSeq(q) = FlattenSeq(q)
BY DEF FlattenSeq, Order!FlattenSeq

\* So is the set of a row.
LEMMA ToSetSame ==
  ASSUME NEW s
  PROVE  Order!ToSet(s) = ToSet(s)
BY DEF ToSet, Order!ToSet

\* What joining rows gives.
LEMMA Joined ==
  ASSUME NEW N, NEW q \in Seq(Seq(N))
  PROVE  /\ FlattenSeq(q) \in Seq(N)
         /\ \A x : x \in ToSet(FlattenSeq(q)) <=> \E k \in DOMAIN q : x \in ToSet(q[k])
<1>1. Order!FlattenSeq(q) \in Seq(N) /\ Order!ToSet(Order!FlattenSeq(q)) = Order!Held(q)
  BY Order!FlattenOrder
<1>2. FlattenSeq(q) \in Seq(N) /\ ToSet(FlattenSeq(q)) = Order!Held(q)
  BY <1>1, FlattenSame, ToSetSame
<1>3. ASSUME NEW x
      PROVE  x \in Order!Held(q) <=> \E k \in DOMAIN q : x \in ToSet(q[k])
  <2>1. DOMAIN q = 1 .. Len(q)
    OBVIOUS
  <2>2. x \in Order!Held(q) <=> \E k \in 1 .. Len(q) : x \in Order!ToSet(q[k])
    BY DEF Order!Held
  <2> QED BY <2>1, <2>2, ToSetSame
<1> QED BY <1>2, <1>3

\* A row of empty rows is empty.
LEMMA NothingJoined ==
  ASSUME NEW N, NEW q \in Seq(Seq(N)), \A k \in DOMAIN q : q[k] = <<>>
  PROVE  FlattenSeq(q) = <<>>
<1>0. ToSet(<<>>) = {}
  BY DEF ToSet
<1>1. FlattenSeq(q) \in Seq(N) /\ \A x : x \notin ToSet(FlattenSeq(q))
  BY <1>0, Joined
<1> DEFINE f == FlattenSeq(q)
<1> HIDE DEF f
<1>2. f \in Seq(N) => f = <<>> \/ f[1] \in ToSet(f)
  BY DEF ToSet
<1> QED BY <1>1, <1>2 DEF f

Associates(u, x, v) == (u \o x) \o v = u \o (x \o v)
\* Joining rows is associative.
LEMMA SequencesAssociate ==
  ASSUME NEW N, NEW u \in Seq(N), NEW x \in Seq(N), NEW v \in Seq(N)
  PROVE  Associates(u, x, v)
BY ConcatAssociative DEF Associates

\* The same as an equation.
LEMMA Regrouped ==
  ASSUME NEW N, NEW u \in Seq(N), NEW x \in Seq(N), NEW v \in Seq(N)
  PROVE  (u \o x) \o v = u \o (x \o v)
BY SequencesAssociate DEF Associates

\* Joining the rows before a place, the row at that place and the rows after it.
LEMMA JoinedAround ==
  ASSUME NEW N, NEW q \in Seq(Seq(N)), NEW k \in DOMAIN q
  PROVE  /\ SubSeq(q, 1, k - 1) \in Seq(Seq(N)) /\ SubSeq(q, k + 1, Len(q)) \in Seq(Seq(N))
         /\ q[k] \in Seq(N)
         /\ FlattenSeq(q) = FlattenSeq(SubSeq(q, 1, k - 1)) \o (q[k] \o FlattenSeq(SubSeq(q, k + 1, Len(q))))
<1> DEFINE S == Seq(N)
           a == SubSeq(q, 1, k - 1)
           c == SubSeq(q, k + 1, Len(q))
           x == q[k]
<1>1. k \in 1 .. Len(q) /\ Len(q) \in Nat /\ k + 1 \in 1 .. Len(q) + 1 /\ k - 1 \in Nat /\ (k - 1) + 1 = k
  OBVIOUS
<1>2. a \in Seq(S) /\ x \in S /\ SubSeq(q, 1, k) = Append(a, x)
  <2> DEFINE n == k - 1
  <2>1. n \in Nat /\ n + 1 <= Len(q) /\ n + 1 = k
    BY <1>1
  <2> HIDE DEF n, S
  <2>2. q \in Seq(S)
    BY DEF S
  <2>3. SubSeq(q, 1, n) \in Seq(S) /\ q[n + 1] \in S /\ SubSeq(q, 1, n + 1) = Append(SubSeq(q, 1, n), q[n + 1])
    BY <2>1, <2>2, Order!OneLonger
  <2> QED BY <2>1, <2>3 DEF n
<1>3. c \in Seq(S)
  OBVIOUS
<1>4. q = SubSeq(q, 1, k) \o c
  <2>1. (k + 1) - 1 = k
    BY <1>1
  <2> QED BY <1>1, <2>1, Order!TwoParts
<1> HIDE DEF a, c, x, S
<1>5. FlattenSeq(Append(a, x)) = FlattenSeq(a) \o x
  BY <1>2, Order!FlattenAppend, FlattenSame DEF S
<1>6. Append(a, x) \in Seq(S)
  BY <1>2
<1>7. FlattenSeq(q) = FlattenSeq(Append(a, x)) \o FlattenSeq(c)
  <2> DEFINE b == Append(a, x)
  <2>1. b \in Seq(Seq(N)) /\ c \in Seq(Seq(N))
    BY <1>3, <1>6 DEF S
  <2>2. q = b \o c
    BY <1>2, <1>4
  <2> HIDE DEF b
  <2>3. Order!FlattenSeq(b \o c) = Order!FlattenSeq(b) \o Order!FlattenSeq(c)
    BY <2>1, Order!FlattenConcat
  <2> QED BY <2>2, <2>3, FlattenSame DEF b
<1>8. FlattenSeq(a) \in Seq(N) /\ FlattenSeq(c) \in Seq(N) /\ x \in Seq(N)
  BY <1>2, <1>3, Joined DEF S
<1>9. (FlattenSeq(a) \o x) \o FlattenSeq(c) = FlattenSeq(a) \o (x \o FlattenSeq(c))
  <2>1. Associates(FlattenSeq(a), x, FlattenSeq(c))
    BY <1>8, SequencesAssociate
  <2> QED BY <2>1 DEF Associates
<1> QED BY <1>2, <1>3, <1>5, <1>7, <1>9 DEF a, c, x, S

PartIs(q, m, n) ==
  /\ Len(SubSeq(q, m, n)) = n - m + 1
  /\ \A i \in 1 .. n - m + 1 : SubSeq(q, m, n)[i] = q[m + i - 1]
\* Parts of rows, place by place.
LEMMA PartPlaces ==
  ASSUME NEW S, NEW q \in Seq(S), NEW m \in 1 .. Len(q) + 1, NEW n \in m - 1 .. Len(q)
  PROVE  /\ SubSeq(q, m, n) \in Seq(S) /\ Len(SubSeq(q, m, n)) = n - m + 1
         /\ \A i \in 1 .. n - m + 1 : SubSeq(q, m, n)[i] = q[m + i - 1] /\ m + i - 1 \in m .. n
OBVIOUS

\* The same without naming the places.
LEMMA PartOf ==
  ASSUME NEW S, NEW q \in Seq(S), NEW m \in 1 .. Len(q) + 1, NEW n \in m - 1 .. Len(q)
  PROVE  PartIs(q, m, n)
BY PartPlaces DEF PartIs

\* The same part of two rows that agree there is the same.
LEMMA SamePart ==
  ASSUME NEW S, NEW q \in Seq(S), NEW r \in Seq(S), Len(q) = Len(r),
         NEW m \in 1 .. Len(q) + 1, NEW n \in m - 1 .. Len(q), \A j \in m .. n : q[j] = r[j]
  PROVE  SubSeq(q, m, n) = SubSeq(r, m, n)
<1> DEFINE a == SubSeq(q, m, n)
           b == SubSeq(r, m, n)
<1>1. a \in Seq(S) /\ Len(a) = n - m + 1 /\ \A i \in 1 .. n - m + 1 : a[i] = q[m + i - 1] /\ m + i - 1 \in m .. n
  BY PartPlaces
<1>2. b \in Seq(S) /\ Len(b) = n - m + 1 /\ \A i \in 1 .. n - m + 1 : b[i] = r[m + i - 1] /\ m + i - 1 \in m .. n
  BY PartPlaces
<1> HIDE DEF a, b
<1>3. a = b
  BY <1>1, <1>2, SeqEqual
<1> QED BY <1>3 DEF a, b

\* Rows joined, with one of them exchanged.
Around(old, new, x, y, pre, post) == old = pre \o (x \o post) /\ new = pre \o (y \o post)
Exchanged(N, q, r, k) ==
  \E pre, post \in Seq(N) :
    /\ Around(FlattenSeq(q), FlattenSeq(r), q[k], r[k], pre, post)
    /\ (\A j \in DOMAIN q : j < k => q[j] = <<>>) => pre = <<>>
    /\ (\A j \in DOMAIN q : j > k => q[j] = <<>>) => post = <<>>
\* Two sequences of rows that differ in one row differ in that row when they are joined.
LEMMA OneExchanged ==
  ASSUME NEW N, NEW q \in Seq(Seq(N)), NEW r \in Seq(Seq(N)), NEW k \in DOMAIN q, Len(r) = Len(q),
         \A j \in DOMAIN q \ {k} : r[j] = q[j]
  PROVE  Exchanged(N, q, r, k)
<1> DEFINE a == SubSeq(q, 1, k - 1)
           c == SubSeq(q, k + 1, Len(q))
           d == SubSeq(r, 1, k - 1)
           e == SubSeq(r, k + 1, Len(r))
<1>0. k \in 1 .. Len(q) /\ Len(q) \in Nat /\ k \in DOMAIN r /\ DOMAIN q = 1 .. Len(q)
  OBVIOUS
<1>1. a \in Seq(Seq(N)) /\ c \in Seq(Seq(N)) /\ FlattenSeq(q) = FlattenSeq(a) \o (q[k] \o FlattenSeq(c))
  BY JoinedAround
<1>2. d \in Seq(Seq(N)) /\ e \in Seq(Seq(N)) /\ FlattenSeq(r) = FlattenSeq(d) \o (r[k] \o FlattenSeq(e))
  BY <1>0, JoinedAround
<1>4. a = d
  <2>1. 1 \in 1 .. Len(q) + 1 /\ k - 1 \in 1 - 1 .. Len(q) /\ \A j \in 1 .. k - 1 : j \in DOMAIN q \ {k}
    <3>1. 1 \in 1 .. Len(q) + 1 /\ k - 1 \in 1 - 1 .. Len(q)
      BY <1>0
    <3>2. ASSUME NEW j \in 1 .. k - 1
          PROVE  j \in DOMAIN q \ {k}
      BY <1>0
    <3> QED BY <3>1, <3>2
  <2> QED BY <2>1, SamePart
<1>5. c = e
  <2>1. k + 1 \in 1 .. Len(q) + 1 /\ Len(q) \in (k + 1) - 1 .. Len(q) /\ \A j \in k + 1 .. Len(q) : j \in DOMAIN q \ {k}
    BY <1>0
  <2>2. SubSeq(q, k + 1, Len(q)) = SubSeq(r, k + 1, Len(q))
    BY <2>1, SamePart
  <2> QED BY <2>2
<1>3. /\ Len(a) = k - 1 /\ \A i \in 1 .. k - 1 : a[i] = q[i]
      /\ Len(c) = Len(q) - k /\ \A i \in 1 .. Len(q) - k : c[i] = q[k + i]
  <2>1. 1 \in 1 .. Len(q) + 1 /\ k - 1 \in 1 - 1 .. Len(q)
    BY <1>0
  <2>2. Len(a) = (k - 1) - 1 + 1 /\ \A i \in 1 .. (k - 1) - 1 + 1 : a[i] = q[1 + i - 1]
    <3>1. PartIs(q, 1, k - 1)
      BY <2>1, PartOf
    <3> QED BY <3>1 DEF PartIs
  <2>3. k + 1 \in 1 .. Len(q) + 1 /\ Len(q) \in (k + 1) - 1 .. Len(q)
    BY <1>0
  <2>4. Len(c) = Len(q) - (k + 1) + 1 /\ \A i \in 1 .. Len(q) - (k + 1) + 1 : c[i] = q[(k + 1) + i - 1]
    <3>1. PartIs(q, k + 1, Len(q))
      BY <2>3, PartOf
    <3> QED BY <3>1 DEF PartIs
  <2>5. (k - 1) - 1 + 1 = k - 1 /\ Len(q) - (k + 1) + 1 = Len(q) - k
    BY <1>0
  <2>6. \A i \in 1 .. k - 1 : 1 + i - 1 = i
    BY <1>0
  <2>7. \A i \in 1 .. Len(q) - k : (k + 1) + i - 1 = k + i
    BY <1>0
  <2> HIDE DEF a, c
  <2> QED BY <2>2, <2>4, <2>5, <2>6, <2>7
<1> HIDE DEF a, c, d, e
<1>6. FlattenSeq(a) \in Seq(N) /\ FlattenSeq(c) \in Seq(N)
  BY <1>1, Joined
<1>7. Around(FlattenSeq(q), FlattenSeq(r), q[k], r[k], FlattenSeq(a), FlattenSeq(c))
  BY <1>1, <1>2, <1>4, <1>5 DEF Around
<1>8. (\A j \in DOMAIN q : j < k => q[j] = <<>>) => FlattenSeq(a) = <<>>
  <2>1. ASSUME NEW i \in DOMAIN a
        PROVE  i \in DOMAIN q /\ i < k /\ a[i] = q[i]
    <3>1. i \in 1 .. k - 1
      BY <1>1, <1>3
    <3> QED BY <1>0, <1>3, <3>1
  <2> QED BY <1>1, <2>1, NothingJoined
<1>9. (\A j \in DOMAIN q : j > k => q[j] = <<>>) => FlattenSeq(c) = <<>>
  <2>1. ASSUME NEW i \in DOMAIN c
        PROVE  k + i \in DOMAIN q /\ k + i > k /\ c[i] = q[k + i]
    <3>1. i \in 1 .. Len(q) - k
      BY <1>1, <1>3
    <3>2. k + i \in 1 .. Len(q) /\ k + i > k
      <4>1. ASSUME NEW l \in Nat, NEW a0 \in 1 .. l, NEW b0 \in 1 .. l - a0
            PROVE  a0 + b0 \in 1 .. l /\ a0 + b0 > a0
        OBVIOUS
      <4> QED BY <1>0, <3>1, <4>1
    <3> QED BY <1>0, <1>3, <3>1, <3>2
  <2> QED BY <1>1, <2>1, NothingJoined
<1> QED BY <1>6, <1>7, <1>8, <1>9 DEF Exchanged

\* Joining rows of one each.
LEMMA OnesJoined ==
  ASSUME NEW N, NEW s \in Seq(N), NEW q \in Seq(Seq(N)), Len(q) = Len(s), \A k \in DOMAIN s : q[k] = <<s[k]>>
  PROVE  FlattenSeq(q) = s
<1> DEFINE Fine(n) == FlattenSeq(SubSeq(q, 1, n)) = SubSeq(s, 1, n)
           Good == {n \in Nat : n <= Len(q) => Fine(n)}
<1>1. Len(q) \in Nat
  OBVIOUS
<1>2. 0 \in Good
  <2>1. SubSeq(q, 1, 0) = <<>> /\ SubSeq(s, 1, 0) = <<>>
    OBVIOUS
  <2> QED BY <2>1, Order!FlattenNone, FlattenSame
<1>3. ASSUME NEW n \in Good
      PROVE  n + 1 \in Good
  <2> SUFFICES ASSUME n + 1 <= Len(q)
               PROVE  Fine(n + 1)
    OBVIOUS
  <2>1. n \in Nat /\ Fine(n) /\ n + 1 \in 1 .. Len(q) /\ n + 1 \in DOMAIN s
    BY <1>1
  <2> DEFINE x == q[n + 1]
             u == SubSeq(q, 1, n)
             v == SubSeq(s, 1, n)
             y == s[n + 1]
  <2>2. u \in Seq(Seq(N)) /\ x \in Seq(N) /\ SubSeq(q, 1, n + 1) = Append(u, x)
    BY <2>1, Order!OneLonger
  <2>3. v \in Seq(N) /\ y \in N /\ SubSeq(s, 1, n + 1) = Append(v, y)
    BY <2>1, Order!OneLonger
  <2>4. x = <<y>> /\ FlattenSeq(u) = v
    BY <2>1
  <2> HIDE DEF u, x, v, y
  <2>5. FlattenSeq(Append(u, x)) = FlattenSeq(u) \o x
    BY <2>2, Order!FlattenAppend, FlattenSame
  <2>6. Append(v, y) = v \o <<y>>
    BY <2>3, AppendIsConcat
  <2> QED BY <2>2, <2>3, <2>4, <2>5, <2>6
<1>4. Good = Nat
  <2>1. Good \in SUBSET Nat
    OBVIOUS
  <2> HIDE DEF Good
  <2> QED BY <1>2, <1>3, <2>1, Order!AllNumbers
<1>5. Fine(Len(q))
  <2>1. Len(q) \in Good
    <3> HIDE DEF Good
    <3> QED BY <1>1, <1>4
  <2> HIDE DEF Fine
  <2> QED BY <1>1, <2>1
<1>6. SubSeq(q, 1, Len(q)) = q /\ SubSeq(s, 1, Len(s)) = s
  BY SubSeqFull
<1> QED BY <1>5, <1>6

\* A row followed by another: where everything is.
LEMMA JoinPlaces ==
  ASSUME NEW S, NEW u \in Seq(S), NEW v \in Seq(S)
  PROVE  /\ u \o v \in Seq(S) /\ Len(u \o v) = Len(u) + Len(v)
         /\ \A j \in 1 .. Len(u) : (u \o v)[j] = u[j]
         /\ \A j \in 1 .. Len(v) : (u \o v)[Len(u) + j] = v[j]
         /\ ToSet(u \o v) = ToSet(u) \cup ToSet(v)
<1> DEFINE w == u \o v
<1>1. w \in Seq(S) /\ Len(w) = Len(u) + Len(v) /\ Len(u) \in Nat /\ Len(v) \in Nat
  BY ConcatProperties
<1>2. \A j \in 1 .. Len(u) : w[j] = u[j]
  BY <1>1
<1>3. \A j \in 1 .. Len(v) : w[Len(u) + j] = v[j]
  BY <1>1
<1> HIDE DEF w
<1>4. ToSet(w) = ToSet(u) \cup ToSet(v)
  <2>1. DOMAIN w = 1 .. Len(u) + Len(v) /\ DOMAIN u = 1 .. Len(u) /\ DOMAIN v = 1 .. Len(v)
    BY <1>1
  <2>2. ASSUME NEW j \in DOMAIN w
        PROVE  w[j] \in ToSet(u) \cup ToSet(v)
    <3>1. CASE j <= Len(u)
      <4>1. j \in 1 .. Len(u)
        BY <1>1, <2>1, <3>1
      <4> QED BY <1>2, <2>1, <4>1 DEF ToSet
    <3>2. CASE j > Len(u)
      <4>1. j - Len(u) \in 1 .. Len(v) /\ Len(u) + (j - Len(u)) = j
        BY <1>1, <2>1, <3>2
      <4> QED BY <1>3, <2>1, <4>1 DEF ToSet
    <3> QED BY <1>1, <2>1, <3>1, <3>2
  <2>3. \A j \in DOMAIN u : u[j] \in ToSet(w)
    <3>1. \A j \in 1 .. Len(u) : j \in 1 .. Len(u) + Len(v)
      BY <1>1
    <3> QED BY <1>2, <2>1, <3>1 DEF ToSet
  <2>4. \A j \in DOMAIN v : v[j] \in ToSet(w)
    <3>1. \A j \in 1 .. Len(v) : Len(u) + j \in 1 .. Len(u) + Len(v)
      BY <1>1
    <3> QED BY <1>3, <2>1, <3>1 DEF ToSet
  <2> QED BY <2>2, <2>3, <2>4 DEF ToSet
<1> QED BY <1>1, <1>2, <1>3, <1>4 DEF w

\* In a row without repetitions, looking for what is at a place finds that place.
LEMMA PlaceFound ==
  ASSUME NEW S, NEW row \in Seq(S), NoRepeats(row), NEW k \in 1 .. Len(row)
  PROVE  /\ {j \in 1 .. Len(row) : row[j] = row[k]} # {}
         /\ Min({j \in 1 .. Len(row) : row[j] = row[k]}) = k
<1> DEFINE I == {j \in 1 .. Len(row) : row[j] = row[k]}
<1>1. I = {k}
  BY DEF NoRepeats
<1>2. k \in Nat
  OBVIOUS
<1> HIDE DEF I
<1>3. Min(I) \in I
  BY <1>1, <1>2, Order!MinIsLeast DEF Min, Order!Min
<1> QED BY <1>1, <1>3 DEF I

FirstOf(row) == IF row = <<>> THEN NoNode ELSE row[1]

\* Nodes that are put before the beginning of the second part of a row.
LEMMA SplicedAt ==
  ASSUME NEW S, NEW u \in Seq(S), NEW v \in Seq(S), NEW nodes \in Seq(S), NoRepeats(u \o v), NoNode \notin S
  PROVE  Spliced(u \o v, nodes, FirstOf(v)) = u \o (nodes \o v)
<1> DEFINE w == u \o v
           i == IF FirstOf(v) = NoNode THEN Len(w) + 1 ELSE SelectInSeq(w, LAMBDA m : m = FirstOf(v))
<1>1. /\ w \in Seq(S) /\ Len(w) = Len(u) + Len(v) /\ Len(u) \in Nat /\ Len(v) \in Nat
      /\ \A j \in 1 .. Len(u) : w[j] = u[j]
      /\ \A j \in 1 .. Len(v) : w[Len(u) + j] = v[j]
  BY JoinPlaces
<1>2. Spliced(w, nodes, FirstOf(v)) = (SubSeq(w, 1, i - 1) \o nodes) \o SubSeq(w, i, Len(w))
  BY DEF Spliced
<1>a. NoRepeats(w)
  OBVIOUS
<1> HIDE DEF w
<1>3. i = Len(u) + 1
  <2>1. CASE v = <<>>
    <3>1. FirstOf(v) = NoNode /\ Len(v) = 0
      BY <2>1 DEF FirstOf
    <3> QED BY <1>1, <3>1
  <2>2. CASE v # <<>>
    <3>1. Len(v) >= 1 /\ v[1] \in S /\ FirstOf(v) = v[1] /\ v[1] # NoNode
      BY <2>2 DEF FirstOf
    <3> DEFINE k == Len(u) + 1
    <3>2. k \in 1 .. Len(w) /\ w[k] = v[1]
      <4>1. 1 \in 1 .. Len(v) /\ Len(u) + 1 \in 1 .. Len(u) + Len(v)
        BY <1>1, <3>1
      <4> QED BY <1>1, <4>1
    <3> HIDE DEF k
    <3>3. {j \in 1 .. Len(w) : w[j] = w[k]} # {} /\ Min({j \in 1 .. Len(w) : w[j] = w[k]}) = k
      BY <1>1, <1>a, <3>2, PlaceFound
    <3>4. SelectInSeq(w, LAMBDA m : m = FirstOf(v)) = Min({j \in 1 .. Len(w) : w[j] = w[k]})
      BY <3>1, <3>2, <3>3 DEF SelectInSeq
    <3> QED BY <3>1, <3>3, <3>4 DEF k
  <2> QED BY <2>1, <2>2
<1> HIDE DEF i
<1>4. SubSeq(w, 1, i - 1) = u /\ SubSeq(w, i, Len(w)) = v
  <2>1. Len(u) + 1 - 1 = Len(u) /\ 1 \in 1 .. Len(w) + 1 /\ Len(u) \in 1 - 1 .. Len(w)
        /\ Len(u) + 1 \in 1 .. Len(w) + 1 /\ Len(w) \in (Len(u) + 1) - 1 .. Len(w)
    BY <1>1
  <2> DEFINE a == SubSeq(w, 1, Len(u))
             b == SubSeq(w, Len(u) + 1, Len(w))
  <2>2. a \in Seq(S) /\ Len(a) = Len(u) - 1 + 1 /\ \A l \in 1 .. Len(u) - 1 + 1 : a[l] = w[1 + l - 1]
    BY <1>1, <2>1, PartPlaces
  <2>3. b \in Seq(S) /\ Len(b) = Len(w) - (Len(u) + 1) + 1
        /\ \A l \in 1 .. Len(w) - (Len(u) + 1) + 1 : b[l] = w[(Len(u) + 1) + l - 1]
    BY <1>1, <2>1, PartPlaces
  <2> HIDE DEF a, b
  <2>4. Len(u) - 1 + 1 = Len(u) /\ Len(w) - (Len(u) + 1) + 1 = Len(v)
    BY <1>1
  <2>5. \A l \in 1 .. Len(u) : a[l] = u[l]
    <3>1. \A l \in 1 .. Len(u) : 1 + l - 1 = l
      OBVIOUS
    <3> QED BY <1>1, <2>2, <2>4, <3>1
  <2>6. \A l \in 1 .. Len(v) : b[l] = v[l]
    <3>1. \A l \in 1 .. Len(v) : (Len(u) + 1) + l - 1 = Len(u) + l
      BY <1>1
    <3> QED BY <1>1, <2>3, <2>4, <3>1
  <2>7. a = u /\ b = v
    BY <2>2, <2>3, <2>4, <2>5, <2>6, SeqEqual
  <2> QED BY <1>3, <2>1, <2>7 DEF a, b
<1>5. Spliced(w, nodes, FirstOf(v)) = (u \o nodes) \o v
  BY <1>2, <1>4
<1>6. (u \o nodes) \o v = u \o (nodes \o v)
  BY Regrouped
<1> QED BY <1>5, <1>6 DEF w

\* A row without nodes that it does not hold.
LEMMA WithoutNone ==
  ASSUME NEW S, NEW row \in Seq(S), NEW nodes, \A c \in ToSet(row) : ~ Contains(nodes, c)
  PROVE  Without(row, nodes) = row
<1>1. Len(row) \in Nat
  OBVIOUS
<1>2. PICK kept : KeptUpTo(row, nodes, kept, Len(row)) /\ Without(row, nodes) = kept[Len(row)]
  BY <1>1, WithoutRule
<1>3. \A k \in 0 .. Len(row) : kept[k] = KeptOf(row, nodes, kept, k)
  BY <1>2 DEF KeptUpTo
<1> DEFINE Good == {n \in Nat : n <= Len(row) => kept[n] = SubSeq(row, 1, n)}
<1>4. 0 \in Good
  <2>1. kept[0] = <<>> /\ SubSeq(row, 1, 0) = <<>>
    BY <1>1, <1>3 DEF KeptOf
  <2> QED BY <2>1
<1>5. ASSUME NEW n \in Good
      PROVE  n + 1 \in Good
  <2> SUFFICES ASSUME n + 1 <= Len(row)
               PROVE  kept[n + 1] = SubSeq(row, 1, n + 1)
    OBVIOUS
  <2>1. n \in Nat /\ kept[n] = SubSeq(row, 1, n) /\ n + 1 \in 0 .. Len(row) /\ n + 1 # 0 /\ (n + 1) - 1 = n
    BY <1>1
  <2>2. ~ Contains(nodes, row[n + 1])
    BY <1>1, <2>1 DEF ToSet
  <2>3. kept[n + 1] = KeptOf(row, nodes, kept, n + 1)
    BY <1>3, <2>1
  <2>4. kept[n + 1] = Append(SubSeq(row, 1, n), row[n + 1])
    BY <2>1, <2>2, <2>3 DEF KeptOf
  <2> QED BY <2>1, <2>4, Order!OneLonger
<1>6. Good = Nat
  <2>1. Good \in SUBSET Nat
    OBVIOUS
  <2> HIDE DEF Good
  <2> QED BY <1>4, <1>5, <2>1, Order!AllNumbers
<1>7. kept[Len(row)] = SubSeq(row, 1, Len(row))
  BY <1>1, <1>6
<1> QED BY <1>2, <1>7, SubSeqFull

\* A row without all that it holds.
LEMMA WithoutAll ==
  ASSUME NEW S, NEW row \in Seq(S)
  PROVE  Without(row, row) = <<>>
<1> DEFINE w == Without(row, row)
<1>1. w \in Seq(S) /\ ToSet(w) = {m \in ToSet(row) : ~ Contains(row, m)}
  BY WithoutKeeps
<1>2. \A m : m \in ToSet(row) => Contains(row, m)
  BY ContainsToSet
<1> HIDE DEF w
<1>3. w # <<>> => w[1] \in ToSet(w)
  BY <1>1 DEF ToSet
<1> QED BY <1>1, <1>2, <1>3 DEF w

\* Nothing is left out of an empty row.
LEMMA WithoutEmpty ==
  ASSUME NEW nodes
  PROVE  Without(<<>>, nodes) = <<>>
<1>1. <<>> \in Seq({1}) /\ ToSet(<<>>) = {}
  BY DEF ToSet
<1> QED BY <1>1, WithoutNone

\* A row with a node between its parts.
LEMMA MiddlePlaces ==
  ASSUME NEW S, NEW u \in Seq(S), NEW v \in Seq(S), NEW n \in S
  PROVE  /\ u \o (<<n>> \o v) \in Seq(S) /\ Len(u \o (<<n>> \o v)) = Len(u) + (1 + Len(v))
         /\ \A j \in 1 .. Len(u) : (u \o (<<n>> \o v))[j] = u[j]
         /\ (u \o (<<n>> \o v))[Len(u) + 1] = n
         /\ \A j \in 1 .. Len(v) : (u \o (<<n>> \o v))[Len(u) + (1 + j)] = v[j]
<1> DEFINE x == <<n>> \o v
<1>1. <<n>> \in Seq(S) /\ Len(<<n>>) = 1 /\ <<n>>[1] = n /\ 1 \in 1 .. 1
  OBVIOUS
<1>2. x \in Seq(S) /\ Len(x) = 1 + Len(v) /\ x[1] = n /\ \A j \in 1 .. Len(v) : x[1 + j] = v[j]
  BY <1>1, JoinPlaces
<1> HIDE DEF x
<1>3. x \in Seq(S)
  BY <1>2
<1>4. /\ u \o x \in Seq(S) /\ Len(u \o x) = Len(u) + Len(x)
      /\ \A j \in 1 .. Len(u) : (u \o x)[j] = u[j]
      /\ \A j \in 1 .. Len(x) : (u \o x)[Len(u) + j] = x[j]
  BY <1>3, JoinPlaces
<1>5. Len(v) \in Nat /\ 1 \in 1 .. 1 + Len(v) /\ \A j \in 1 .. Len(v) : 1 + j \in 1 .. 1 + Len(v)
  OBVIOUS
<1> QED BY <1>2, <1>4, <1>5 DEF x

\* A row without the node at one place.
LEMMA WithoutPlace ==
  ASSUME NEW S, NEW row \in Seq(S), NEW w \in Seq(S), NEW l \in Nat, NEW n, NoRepeats(row),
         Len(row) = Len(w) + 1, l + 1 <= Len(row), row[l + 1] = n,
         \A k \in 1 .. Len(w) : row[IF k <= l THEN k ELSE k + 1] = w[k]
  PROVE  Without(row, <<n>>) = w
<1>1. Len(row) \in Nat /\ Len(w) \in Nat /\ DOMAIN row = 1 .. Len(row)
  OBVIOUS
<1>2. PICK kept : KeptUpTo(row, <<n>>, kept, Len(row)) /\ Without(row, <<n>>) = kept[Len(row)]
  BY <1>1, WithoutRule
<1>3. \A k \in 0 .. Len(row) : kept[k] = KeptOf(row, <<n>>, kept, k)
  BY <1>2 DEF KeptUpTo
<1>4. \A k \in 1 .. Len(row) : Contains(<<n>>, row[k]) <=> k = l + 1
  <2>1. \A m : Contains(<<n>>, m) <=> m = n
    BY DEF Contains
  <2>2. l + 1 \in DOMAIN row
    BY <1>1
  <2>3. \A k \in DOMAIN row : row[k] = n <=> k = l + 1
    BY <2>2 DEF NoRepeats
  <2> QED BY <1>1, <2>1, <2>3
<1> DEFINE Good == {k \in Nat : k <= Len(row) => kept[k] = SubSeq(w, 1, IF k <= l THEN k ELSE k - 1)}
<1>5. 0 \in Good
  <2>1. kept[0] = <<>>
    BY <1>1, <1>3 DEF KeptOf
  <2>2. 0 <= l /\ SubSeq(w, 1, 0) = <<>>
    OBVIOUS
  <2> QED BY <2>1, <2>2
<1>6. ASSUME NEW k \in Good
      PROVE  k + 1 \in Good
  <2> SUFFICES ASSUME k + 1 <= Len(row)
               PROVE  kept[k + 1] = SubSeq(w, 1, IF k + 1 <= l THEN k + 1 ELSE (k + 1) - 1)
    OBVIOUS
  <2>1. /\ k \in Nat /\ kept[k] = SubSeq(w, 1, IF k <= l THEN k ELSE k - 1)
        /\ k + 1 \in 0 .. Len(row) /\ k + 1 \in 1 .. Len(row) /\ k + 1 # 0 /\ (k + 1) - 1 = k
    BY <1>1
  <2>2. kept[k + 1] = KeptOf(row, <<n>>, kept, k + 1)
    BY <1>3, <2>1
  <2>3. kept[k + 1] = IF Contains(<<n>>, row[k + 1]) THEN kept[k] ELSE Append(kept[k], row[k + 1])
    BY <2>1, <2>2 DEF KeptOf
  <2>4. CASE k = l
    <3>1. Contains(<<n>>, row[k + 1])
      BY <1>4, <2>1, <2>4
    <3> QED BY <2>1, <2>3, <2>4, <3>1
  <2>5. CASE k < l
    <3>0. k + 1 # l + 1
      BY <2>1, <2>5
    <3>1. ~ Contains(<<n>>, row[k + 1])
      BY <1>4, <2>1, <3>0
    <3>2. k + 1 <= l /\ k <= l /\ k + 1 \in 1 .. Len(w)
      BY <1>1, <2>1, <2>5
    <3>3. row[k + 1] = w[k + 1]
      BY <3>2
    <3>4. SubSeq(w, 1, k + 1) = Append(SubSeq(w, 1, k), w[k + 1])
      BY <2>1, <3>2, Order!OneLonger
    <3> QED BY <2>1, <2>3, <3>1, <3>2, <3>3, <3>4
  <2>6. CASE k > l
    <3>0. k + 1 # l + 1
      BY <2>1, <2>6
    <3>1. ~ Contains(<<n>>, row[k + 1])
      BY <1>4, <2>1, <3>0
    <3>2. ~ (k + 1 <= l) /\ ~ (k <= l) /\ k \in 1 .. Len(w) /\ k - 1 \in Nat /\ (k - 1) + 1 = k /\ (k - 1) + 1 <= Len(w)
      BY <1>1, <2>1, <2>6
    <3>3. row[k + 1] = w[k]
      BY <3>2
    <3>4. SubSeq(w, 1, (k - 1) + 1) = Append(SubSeq(w, 1, k - 1), w[(k - 1) + 1])
      BY <3>2, Order!OneLonger
    <3> QED BY <2>1, <2>3, <3>1, <3>2, <3>3, <3>4
  <2> QED BY <2>1, <2>4, <2>5, <2>6
<1>7. Good = Nat
  <2>1. Good \in SUBSET Nat
    OBVIOUS
  <2> HIDE DEF Good
  <2> QED BY <1>5, <1>6, <2>1, Order!AllNumbers
<1>8. kept[Len(row)] = SubSeq(w, 1, Len(w))
  <2>1. ~ (Len(row) <= l) /\ Len(row) - 1 = Len(w)
    BY <1>1
  <2>2. Len(row) \in Nat
    BY <1>1
  <2>3. kept[Len(row)] = SubSeq(w, 1, IF Len(row) <= l THEN Len(row) ELSE Len(row) - 1)
    <3>1. Len(row) \in Good
      <4> HIDE DEF Good
      <4> QED BY <1>7, <2>2
    <3> QED BY <2>2, <3>1
  <2> QED BY <2>1, <2>3
<1> QED BY <1>2, <1>8, SubSeqFull

\* A row without a node that stands between its parts.
LEMMA WithoutOne ==
  ASSUME NEW S, NEW u \in Seq(S), NEW v \in Seq(S), NEW n \in S, NoRepeats(u \o (<<n>> \o v))
  PROVE  Without(u \o (<<n>> \o v), <<n>>) = u \o v
<1> DEFINE row == u \o (<<n>> \o v)
           w == u \o v
<1>1. /\ row \in Seq(S) /\ Len(row) = Len(u) + (1 + Len(v))
      /\ \A j \in 1 .. Len(u) : row[j] = u[j]
      /\ row[Len(u) + 1] = n
      /\ \A j \in 1 .. Len(v) : row[Len(u) + (1 + j)] = v[j]
  BY MiddlePlaces
<1>2. /\ w \in Seq(S) /\ Len(w) = Len(u) + Len(v)
      /\ \A j \in 1 .. Len(u) : w[j] = u[j]
      /\ \A j \in 1 .. Len(v) : w[Len(u) + j] = v[j]
  BY JoinPlaces
<1>3. NoRepeats(row)
  OBVIOUS
<1> HIDE DEF row, w
<1>4. Len(u) \in Nat /\ Len(v) \in Nat
  OBVIOUS
<1>5. ASSUME NEW k \in 1 .. Len(w)
      PROVE  row[IF k <= Len(u) THEN k ELSE k + 1] = w[k]
  <2>1. CASE k <= Len(u)
    <3>1. k \in 1 .. Len(u)
      BY <1>2, <1>4, <2>1
    <3> QED BY <1>1, <1>2, <2>1, <3>1
  <2>2. CASE ~ (k <= Len(u))
    <3>1. k - Len(u) \in 1 .. Len(v) /\ Len(u) + (k - Len(u)) = k /\ Len(u) + (1 + (k - Len(u))) = k + 1
      BY <1>2, <1>4, <2>2
    <3>2. row[k + 1] = v[k - Len(u)] /\ w[k] = v[k - Len(u)]
      BY <1>1, <1>2, <3>1
    <3> QED BY <2>2, <3>2
  <2> QED BY <2>1, <2>2
<1>6. Len(row) = Len(w) + 1 /\ Len(u) + 1 <= Len(row)
  BY <1>1, <1>2, <1>4
<1>7. Without(row, <<n>>) = w
  <2>1. row \in Seq(S) /\ w \in Seq(S) /\ row[Len(u) + 1] = n /\ Len(u) \in Nat
    BY <1>1, <1>2, <1>4
  <2>2. \A k \in 1 .. Len(w) : row[IF k <= Len(u) THEN k ELSE k + 1] = w[k]
    BY <1>5
  <2> QED BY <1>3, <1>6, <2>1, <2>2, WithoutPlace
<1> QED BY <1>7 DEF row, w

\* What comes after a node that stands between the parts of its row.
LEMMA NextOf ==
  ASSUME NEW S, NEW t, NEW n \in S, NEW u \in Seq(S), NEW v \in Seq(S), t.kids[ParentOf(t, n)] = u \o (<<n>> \o v),
         NoRepeats(u \o (<<n>> \o v))
  PROVE  NextSibling(t, n) = FirstOf(v)
<1> DEFINE row == t.kids[ParentOf(t, n)]
           i == SelectInSeq(row, LAMBDA m : m = n)
           k == Len(u) + 1
<1>1. NextSibling(t, n) = IF i < Len(row) THEN row[i + 1] ELSE NoNode
  BY DEF NextSibling
<1>3. /\ row \in Seq(S) /\ Len(row) = Len(u) + (1 + Len(v))
      /\ row[Len(u) + 1] = n
      /\ \A j \in 1 .. Len(v) : row[Len(u) + (1 + j)] = v[j]
  BY MiddlePlaces
<1>4. NoRepeats(row) /\ Len(u) \in Nat /\ Len(v) \in Nat
  OBVIOUS
<1> HIDE DEF row
<1>5. k \in 1 .. Len(row) /\ row[k] = n
  BY <1>3, <1>4
<1> HIDE DEF k
<1>6. {j \in 1 .. Len(row) : row[j] = row[k]} # {} /\ Min({j \in 1 .. Len(row) : row[j] = row[k]}) = k
  BY <1>3, <1>4, <1>5, PlaceFound
<1>7. i = k
  BY <1>5, <1>6 DEF SelectInSeq
<1> HIDE DEF i
<1>8. CASE v = <<>>
  <2>1. Len(v) = 0 /\ FirstOf(v) = NoNode
    BY <1>8 DEF FirstOf
  <2> QED BY <1>1, <1>3, <1>4, <1>7, <2>1 DEF k
<1>9. CASE v # <<>>
  <2>1. Len(v) >= 1 /\ FirstOf(v) = v[1]
    BY <1>9 DEF FirstOf
  <2>2. k < Len(row) /\ 1 \in 1 .. Len(v) /\ k + 1 = Len(u) + (1 + 1)
    BY <1>3, <1>4, <2>1 DEF k
  <2>3. row[k + 1] = v[1]
    BY <1>3, <2>2
  <2> QED BY <1>1, <1>7, <2>1, <2>2, <2>3
<1> QED BY <1>8, <1>9

\* What may stand in a row.
RowNodes == Children \cup (NodeLabels \X Nat \X Nat)
\* Rows are rows of these, of which "no node" is none.
LEMMA RowsAreOfNodes == Rows = Seq(RowNodes) /\ NoNode \notin RowNodes
<1>1. NoNode \notin Children
  BY NoNodeIsNoPlace DEF Children
<1>2. NoNode \notin NodeLabels \X Nat \X Nat
  BY DEF NoNode, NodeLabels
<1> QED BY <1>1, <1>2 DEF Rows, RowNodes

\* The empty row is a row.
LEMMA EmptyIsRow == <<>> \in Rows /\ ToSet(<<>>) = {}
BY RowsAreOfNodes DEF ToSet

\* Two rows joined are a row of the nodes of both.
LEMMA JoinIsRow ==
  ASSUME NEW u \in Rows, NEW v \in Rows
  PROVE  u \o v \in Rows /\ ToSet(u \o v) = ToSet(u) \cup ToSet(v)
BY JoinPlaces, RowsAreOfNodes

\* One node is a row.
LEMMA OneIsRow ==
  ASSUME NEW n \in RowNodes
  PROVE  <<n>> \in Rows /\ ToSet(<<n>>) = {n}
<1>1. <<n>> \in Seq(RowNodes)
  OBVIOUS
<1> QED BY <1>1, RowsAreOfNodes DEF ToSet

\* The children of an element of the caller are a row without repetitions.
LEMMA ChildrenRow ==
  ASSUME NEW e \in ElementLike
  PROVE  Kids[e] \in Rows /\ Kids[e] \in Seq(Children) /\ NoRepeats(Kids[e])
<1>1. Kids[e] \in Seq(Children)
  BY CallersTree DEF Children
<1>2. Kids[e] \in Seq(RowNodes)
  BY <1>1 DEF RowNodes
<1>3. e \in Parents(InitialTree) /\ InitialTree.kids[e] = Kids[e]
  BY DEF InitialTree, Parents
<1>4. NoRepeats(Kids[e])
  BY <1>3, CallersTree DEF IsForest
<1> QED BY <1>1, <1>2, <1>4, RowsAreOfNodes

-----------------------------------------------------------------------------
(* What primitives bring. *)

\* What primitives bring are rows, one for every primitive of the list.
LEMMA BringsRows ==
  ASSUME NEW list \in Seq(Primitives), NEW places
  PROVE  /\ Brings(list, places) \in Seq(Rows) /\ Len(Brings(list, places)) = Len(list)
         /\ DOMAIN Brings(list, places) = DOMAIN list
<1>1. DOMAIN list = 1 .. Len(list) /\ Len(list) \in Nat
  OBVIOUS
<1>2. ASSUME NEW i \in DOMAIN list
      PROVE  (IF i \in places THEN Content(i, list[i].nodes) ELSE <<>>) \in Rows
  <2>1. i \in Nat /\ list[i] \in Primitives
    BY <1>1
  <2>2. list[i].nodes \in Nat
    BY <2>1 DEF Primitives
  <2> QED BY <2>1, <2>2, ContentIsNew, EmptyIsRow
<1>3. Brings(list, places) \in [1 .. Len(list) -> Rows]
  BY <1>1, <1>2 DEF Brings
<1> QED BY <1>1, <1>3

\* Where everything is in a reversed sequence.
LEMMA ReversePlaces ==
  ASSUME NEW S, NEW q \in Seq(S)
  PROVE  /\ Reverse(q) \in Seq(S) /\ Len(Reverse(q)) = Len(q)
         /\ \A k \in 1 .. Len(q) : Reverse(q)[k] = q[Len(q) - k + 1]
<1>1. Reverse(q) \in [1 .. Len(q) -> S]
  BY DEF Reverse
<1> QED BY <1>1 DEF Reverse

Brought1(c) == c[1] = "content" /\ c \notin Nodes /\ c \notin Places
\* What primitives bring, joined in either order, is a row of content nodes.
LEMMA ListedRows ==
  ASSUME NEW list \in Seq(Primitives), NEW places
  PROVE  /\ Listed(list, places) \in Rows /\ LatestFirst(list, places) \in Rows
         /\ \A c \in ToSet(Listed(list, places)) \cup ToSet(LatestFirst(list, places)) : Brought1(c)
<1> DEFINE q == Brings(list, places)
           r == Reverse(q)
<1>1. q \in Seq(Rows) /\ DOMAIN q = DOMAIN list
  BY BringsRows
<1>2. \A k \in DOMAIN q : \A c \in ToSet(q[k]) : Brought1(c)
  <2> SUFFICES ASSUME NEW k \in DOMAIN list, NEW c \in ToSet(q[k])
               PROVE  Brought1(c)
    BY <1>1
  <2>1. q[k] = IF k \in places THEN Content(k, list[k].nodes) ELSE <<>>
    BY DEF Brings
  <2>2. c \in ToSet(Content(k, list[k].nodes))
    BY <2>1, EmptyIsRow
  <2>3. k \in Nat /\ list[k] \in Primitives
    OBVIOUS
  <2>4. list[k].nodes \in Nat
    BY <2>3 DEF Primitives
  <2> QED BY <2>2, <2>3, <2>4, ContentIsNew DEF Brought1
<1> HIDE DEF q
<1>3. r \in Seq(Rows) /\ Len(r) = Len(q) /\ \A k \in 1 .. Len(q) : r[k] = q[Len(q) - k + 1]
  BY <1>1, ReversePlaces
<1> HIDE DEF r
<1>4. \A k \in DOMAIN r : \A c \in ToSet(r[k]) : Brought1(c)
  <2> SUFFICES ASSUME NEW k \in DOMAIN r
               PROVE  \E j \in DOMAIN q : r[k] = q[j]
    BY <1>2
  <2>1. k \in 1 .. Len(q) /\ Len(q) \in Nat
    BY <1>1, <1>3
  <2>2. Len(q) - k + 1 \in 1 .. Len(q)
    BY <2>1
  <2> QED BY <1>1, <1>3, <2>1, <2>2
<1>5. FlattenSeq(q) \in Rows /\ \A c \in ToSet(FlattenSeq(q)) : Brought1(c)
  BY <1>1, <1>2, Joined, RowsAreOfNodes
<1>6. FlattenSeq(r) \in Rows /\ \A c \in ToSet(FlattenSeq(r)) : Brought1(c)
  BY <1>3, <1>4, Joined, RowsAreOfNodes
<1> QED BY <1>5, <1>6 DEF q, r, Listed, LatestFirst

\* No primitives bring nothing.
LEMMA ListedNone ==
  ASSUME NEW list \in Seq(Primitives)
  PROVE  Listed(list, {}) = <<>> /\ LatestFirst(list, {}) = <<>>
<1> DEFINE q == Brings(list, {})
           r == Reverse(q)
<1>1. q \in Seq(Rows) /\ \A k \in DOMAIN q : q[k] = <<>>
  <2>1. q \in Seq(Rows)
    BY BringsRows
  <2>2. \A k \in DOMAIN q : q[k] = <<>>
    BY DEF Brings
  <2> QED BY <2>1, <2>2
<1> HIDE DEF q
<1>2. r \in Seq(Rows) /\ Len(r) = Len(q) /\ \A k \in 1 .. Len(q) : r[k] = q[Len(q) - k + 1]
  BY <1>1, ReversePlaces
<1> HIDE DEF r
<1>3. ASSUME NEW k \in DOMAIN r
      PROVE  r[k] = <<>>
  <2>1. k \in 1 .. Len(q) /\ Len(q) \in Nat
    BY <1>1, <1>2
  <2>2. Len(q) - k + 1 \in 1 .. Len(q)
    BY <2>1
  <2> QED BY <1>1, <1>2, <2>1, <2>2
<1> QED BY <1>1, <1>2, <1>3, NothingJoined, RowsAreOfNodes DEF q, r, Listed, LatestFirst

\* A primitive that comes later in the list than those before it of its kind.
LEMMA ListedMore ==
  ASSUME NEW list \in Seq(Primitives), NEW places \in SUBSET DOMAIN list, NEW i \in DOMAIN list, \A j \in places : j < i
  PROVE  /\ Listed(list, places \cup {i}) = Listed(list, places) \o Content(i, list[i].nodes)
         /\ LatestFirst(list, places \cup {i}) = Content(i, list[i].nodes) \o LatestFirst(list, places)
<1> DEFINE q == Brings(list, places)
           r == Brings(list, places \cup {i})
           C == Content(i, list[i].nodes)
           n == Len(list)
           N == RowNodes
<1>0. n \in Nat /\ DOMAIN list = 1 .. n /\ i \in 1 .. n /\ i \notin places
  OBVIOUS
<1>1. /\ q \in Seq(Seq(N)) /\ r \in Seq(Seq(N)) /\ Len(q) = n /\ Len(r) = n
      /\ DOMAIN q = 1 .. n /\ DOMAIN r = 1 .. n
  BY <1>0, BringsRows, RowsAreOfNodes
<1>2. /\ \A j \in 1 .. n : j # i => r[j] = q[j]
      /\ q[i] = <<>> /\ r[i] = C
      /\ \A j \in 1 .. n : j > i => q[j] = <<>>
  <2>1. \A j \in 1 .. n : q[j] = IF j \in places THEN Content(j, list[j].nodes) ELSE <<>>
    BY <1>0 DEF Brings
  <2>2. \A j \in 1 .. n : r[j] = IF j \in places \cup {i} THEN Content(j, list[j].nodes) ELSE <<>>
    BY <1>0 DEF Brings
  <2>3. \A j \in 1 .. n : j > i => j \notin places
    BY <1>0
  <2> QED BY <1>0, <2>1, <2>2, <2>3
<1>3. C \in Seq(N)
  <2>1. i \in Nat /\ list[i] \in Primitives
    BY <1>0
  <2>2. list[i].nodes \in Nat
    BY <2>1 DEF Primitives
  <2> QED BY <2>1, <2>2, ContentIsNew, RowsAreOfNodes
<1> HIDE DEF q, r, C, n, N
<1>4. FlattenSeq(r) = FlattenSeq(q) \o C
  <2>0. i \in DOMAIN q /\ Len(r) = Len(q) /\ \A j \in DOMAIN q \ {i} : r[j] = q[j]
    BY <1>0, <1>1, <1>2
  <2>a. Exchanged(N, q, r, i)
    BY <1>1, <2>0, OneExchanged
  <2>1. PICK pre, post \in Seq(N) :
           /\ Around(FlattenSeq(q), FlattenSeq(r), q[i], r[i], pre, post)
           /\ (\A j \in DOMAIN q : j < i => q[j] = <<>>) => pre = <<>>
           /\ (\A j \in DOMAIN q : j > i => q[j] = <<>>) => post = <<>>
    BY <2>a DEF Exchanged
  <2>2. post = <<>>
    BY <1>1, <1>2, <2>1
  <2>3. FlattenSeq(q) = pre \o (<<>> \o <<>>) /\ FlattenSeq(r) = pre \o (C \o <<>>)
    BY <1>2, <2>1, <2>2 DEF Around
  <2>4. <<>> \o <<>> = <<>> /\ C \o <<>> = C /\ pre \o <<>> = pre
    BY <1>3, ConcatEmptySeq
  <2> QED BY <2>3, <2>4
<1>5. FlattenSeq(Reverse(r)) = C \o FlattenSeq(Reverse(q))
  <2> DEFINE qq == Reverse(q)
             rr == Reverse(r)
             k == n - i + 1
  <2>1. /\ qq \in Seq(Seq(N)) /\ Len(qq) = n /\ \A j \in 1 .. n : qq[j] = q[n - j + 1]
        /\ rr \in Seq(Seq(N)) /\ Len(rr) = n /\ \A j \in 1 .. n : rr[j] = r[n - j + 1]
    <3>1. /\ qq \in Seq(Seq(N)) /\ Len(qq) = Len(q)
          /\ \A j \in 1 .. Len(q) : qq[j] = q[Len(q) - j + 1]
      BY <1>1, ReversePlaces
    <3>2. /\ rr \in Seq(Seq(N)) /\ Len(rr) = Len(r)
          /\ \A j \in 1 .. Len(r) : rr[j] = r[Len(r) - j + 1]
      BY <1>1, ReversePlaces
    <3> HIDE DEF qq, rr
    <3> QED BY <1>1, <3>1, <3>2
  <2> HIDE DEF qq, rr
  <2>2. DOMAIN qq = 1 .. n
    BY <1>0, <2>1
  <2>3. k \in 1 .. n /\ n - k + 1 = i
    BY <1>0
  <2>4. \A j \in 1 .. n : n - j + 1 \in 1 .. n /\ (n - j + 1 = i <=> j = k) /\ (n - j + 1 > i <=> j < k)
    BY <1>0
  <2> HIDE DEF k
  <2>5. \A j \in DOMAIN qq \ {k} : rr[j] = qq[j]
    <3> SUFFICES ASSUME NEW j \in 1 .. n, j # k
                 PROVE  rr[j] = qq[j]
      BY <2>2
    <3>1. n - j + 1 \in 1 .. n /\ n - j + 1 # i
      BY <2>4
    <3>2. r[n - j + 1] = q[n - j + 1]
      BY <1>2, <3>1
    <3> QED BY <2>1, <3>2
  <2>6. qq[k] = <<>> /\ rr[k] = C
    BY <1>2, <2>1, <2>3
  <2>7. \A j \in DOMAIN qq : j < k => qq[j] = <<>>
    <3> SUFFICES ASSUME NEW j \in 1 .. n, j < k
                 PROVE  qq[j] = <<>>
      BY <2>2
    <3>1. n - j + 1 \in 1 .. n /\ n - j + 1 > i
      BY <2>4
    <3>2. q[n - j + 1] = <<>>
      BY <1>2, <3>1
    <3> QED BY <2>1, <3>2
  <2>a. k \in DOMAIN qq /\ Len(rr) = Len(qq) /\ qq \in Seq(Seq(N)) /\ rr \in Seq(Seq(N))
    BY <2>1, <2>2, <2>3
  <2>b. Exchanged(N, qq, rr, k)
    BY <2>5, <2>a, OneExchanged
  <2>8. PICK pre, post \in Seq(N) :
           /\ Around(FlattenSeq(qq), FlattenSeq(rr), qq[k], rr[k], pre, post)
           /\ (\A j \in DOMAIN qq : j < k => qq[j] = <<>>) => pre = <<>>
           /\ (\A j \in DOMAIN qq : j > k => qq[j] = <<>>) => post = <<>>
    BY <2>b DEF Exchanged
  <2>9. pre = <<>>
    BY <2>7, <2>8
  <2>10. FlattenSeq(qq) = <<>> \o (<<>> \o post) /\ FlattenSeq(rr) = <<>> \o (C \o post)
    BY <2>6, <2>8, <2>9 DEF Around
  <2>11. C \o post \in Seq(N) /\ <<>> \o post = post
    BY <1>3, <2>8, ConcatProperties, ConcatEmptySeq
  <2>12. <<>> \o (C \o post) = C \o post
    BY <2>11, ConcatEmptySeq
  <2> QED BY <2>10, <2>11, <2>12 DEF qq, rr
<1> QED BY <1>4, <1>5 DEF q, r, C, Listed, LatestFirst

\* The primitives that act on the place of a child.
PlaceTypes == Beside \cup {"replaceNode", "delete", "rename"}
Standing(list, done, n) ==
  Of(list, done, "replaceNode", n) = {} /\ Of(list, done, "delete", n) = {} /\ Of(list, done, "rename", n) = {}

\* A primitive of another type or target adds nothing to those of this one.
LEMMA OfOther ==
  ASSUME NEW list, NEW done, NEW i, NEW type, NEW target, ~ (list[i].type = type /\ list[i].target = target)
  PROVE  Of(list, done \cup {i}, type, target) = Of(list, done, type, target)
BY DEF Of

ActsOn(list, i, type, target) == list[i].type = type /\ list[i].target = target
\* A primitive of this type and target is one more.
LEMMA OfOne ==
  ASSUME NEW list, NEW done, NEW i, NEW type, NEW target, ActsOn(list, i, type, target)
  PROVE  Of(list, done \cup {i}, type, target) = Of(list, done, type, target) \cup {i}
BY DEF Of, ActsOn

\* Who the primitives of one type and target are.
LEMMA OfMembers ==
  ASSUME NEW list, NEW done, NEW type, NEW target
  PROVE  /\ Of(list, done, type, target) \subseteq done
         /\ \A i \in Of(list, done, type, target) : i \in done /\ list[i].type = type /\ list[i].target = target
         /\ Of(list, done, type, target) # {} => The(Of(list, done, type, target)) \in Of(list, done, type, target)
BY DEF Of, The

\* The element of a set of one is that one.
LEMMA TheOnly ==
  ASSUME NEW i
  PROVE  The({i}) = i
BY DEF The

\* The element a rename makes may stand in a row.
LEMMA RenamedRow ==
  ASSUME NEW i \in Nat
  PROVE  Renamed(i) \in RowNodes
BY DEF Renamed, RowNodes, NodeLabels

\* What a rename puts in the place of a child: a new element, or a processing instruction that
\* counts as content.
LEMMA RenamedToRow ==
  ASSUME NEW i \in Nat, NEW n
  PROVE  /\ RenamedTo(i, n) \in Rows
         /\ \A c \in ToSet(RenamedTo(i, n)) : Brought1(c) \/ (n \in Elements /\ c = Renamed(i))
<1>1. CASE n \in Elements
  <2>1. RenamedTo(i, n) = <<Renamed(i)>>
    BY <1>1 DEF RenamedTo
  <2> QED BY <1>1, <2>1, RenamedRow, OneIsRow
<1>2. CASE n \notin Elements
  <2>1. RenamedTo(i, n) = Content(i, 1) /\ 1 \in Nat
    BY <1>2 DEF RenamedTo
  <2> QED BY <2>1, ContentIsNew DEF Brought1
<1> QED BY <1>1, <1>2

\* So may the text that replaceElementContent makes.
LEMMA TextRow ==
  ASSUME NEW i \in Nat
  PROVE  Text(i) \in RowNodes
BY DEF Text, RowNodes, NodeLabels

\* What stands for a child, and in its place.
LEMMA CoreRows ==
  ASSUME NEW list \in Seq(Primitives), NEW done \in SUBSET DOMAIN list, NEW n \in RowNodes
  PROVE  /\ Core(list, done, n) \in Rows
         /\ Standing(list, done, n) => Core(list, done, n) = <<n>>
         /\ \A c \in ToSet(Core(list, done, n)) :
              \/ Brought1(c)
              \/ c = n /\ Standing(list, done, n)
              \/ n \in Elements /\ Of(list, done, "rename", n) # {} /\ c = Renamed(The(Of(list, done, "rename", n)))
<1>1. CASE Of(list, done, "replaceNode", n) # {}
  <2>1. Core(list, done, n) = Listed(list, Of(list, done, "replaceNode", n))
    BY <1>1 DEF Core
  <2> QED BY <1>1, <2>1, ListedRows DEF Standing
<1>2. CASE Of(list, done, "replaceNode", n) = {} /\ Of(list, done, "delete", n) # {}
  <2>1. Core(list, done, n) = <<>>
    BY <1>2 DEF Core
  <2> QED BY <1>2, <2>1, EmptyIsRow DEF Standing
<1>3. CASE Of(list, done, "replaceNode", n) = {} /\ Of(list, done, "delete", n) = {} /\ Of(list, done, "rename", n) # {}
  <2> DEFINE i == The(Of(list, done, "rename", n))
  <2>1. Core(list, done, n) = RenamedTo(i, n)
    BY <1>3 DEF Core
  <2>2. i \in done
    BY <1>3, OfMembers
  <2> HIDE DEF i
  <2>3. i \in Nat
    BY <2>2
  <2>4. Core(list, done, n) \in Rows /\ \A c \in ToSet(Core(list, done, n)) :
        Brought1(c) \/ (n \in Elements /\ c = Renamed(i))
    BY <2>1, <2>3, RenamedToRow
  <2> QED BY <1>3, <2>4 DEF i, Standing
<1>4. CASE Standing(list, done, n)
  <2>1. Core(list, done, n) = <<n>>
    BY <1>4 DEF Core, Standing
  <2> QED BY <1>4, <2>1, OneIsRow
<1> QED BY <1>1, <1>2, <1>3, <1>4 DEF Standing

\* What stands in the place of a node is a row of content nodes and of the core.
LEMMA PlaceRows ==
  ASSUME NEW list \in Seq(Primitives), NEW done \in SUBSET DOMAIN list, NEW n \in RowNodes
  PROVE  /\ Place(list, done, n) \in Rows
         /\ ToSet(Core(list, done, n)) \subseteq ToSet(Place(list, done, n))
         /\ \A c \in ToSet(Place(list, done, n)) : Brought1(c) \/ c \in ToSet(Core(list, done, n))
<1> DEFINE a == Listed(list, Of(list, done, "insertBefore", n))
           b == Core(list, done, n)
           c == LatestFirst(list, Of(list, done, "insertAfter", n))
<1>1. a \in Rows /\ b \in Rows /\ c \in Rows /\ \A x \in ToSet(a) \cup ToSet(c) : Brought1(x)
  BY ListedRows, CoreRows
<1>2. Place(list, done, n) = (a \o b) \o c
  BY DEF Place
<1> HIDE DEF a, b, c
<1>3. a \o b \in Rows /\ ToSet(a \o b) = ToSet(a) \cup ToSet(b)
  BY <1>1, JoinIsRow
<1> DEFINE ab == a \o b
<1> HIDE DEF ab
<1>4. ab \o c \in Rows /\ ToSet(ab \o c) = ToSet(ab) \cup ToSet(c)
  BY <1>1, <1>3, JoinIsRow DEF ab
<1>5. /\ Place(list, done, n) \in Rows
      /\ ToSet(Place(list, done, n)) = (ToSet(a) \cup ToSet(b)) \cup ToSet(c)
  BY <1>2, <1>3, <1>4 DEF ab
<1> QED BY <1>1, <1>5 DEF b

\* The places of the children of an element.
PlacesOf(list, done, e) == [k \in DOMAIN Kids[e] |-> Place(list, done, Kids[e][k])]
\* The places of all children of an element, as a sequence of rows.
LEMMA PlacesRows ==
  ASSUME NEW list \in Seq(Primitives), NEW done \in SUBSET DOMAIN list, NEW e \in ElementLike
  PROVE  /\ PlacesOf(list, done, e) \in Seq(Seq(RowNodes)) /\ Len(PlacesOf(list, done, e)) = Len(Kids[e])
         /\ DOMAIN PlacesOf(list, done, e) = DOMAIN Kids[e]
<1>1. Kids[e] \in Seq(RowNodes)
  BY ChildrenRow, RowsAreOfNodes
<1>2. DOMAIN Kids[e] = 1 .. Len(Kids[e]) /\ Len(Kids[e]) \in Nat /\ \A k \in DOMAIN Kids[e] : Kids[e][k] \in RowNodes
  BY <1>1
<1>3. \A k \in DOMAIN Kids[e] : Place(list, done, Kids[e][k]) \in Seq(RowNodes)
  BY <1>2, PlaceRows, RowsAreOfNodes
<1>4. PlacesOf(list, done, e) \in [1 .. Len(Kids[e]) -> Seq(RowNodes)]
  BY <1>2, <1>3 DEF PlacesOf
<1> QED BY <1>2, <1>4

\* The parts of a declared row.
FrontOf(list, done, e) == LatestFirst(list, Of(list, done, "insertIntoAsFirst", e))
BackOf(list, done, e) == Listed(list, Of(list, done, "insertInto", e))
EndOf(list, done, e) == Listed(list, Of(list, done, "insertIntoAsLast", e))
MiddleOf(list, done, e) == FlattenSeq(PlacesOf(list, done, e))
\* The row that is declared is that of its four parts, or a text.
LEMMA DeclaredParts ==
  ASSUME NEW list, NEW done, NEW e
  PROVE  /\ Of(list, done, "replaceElementContent", e) = {} =>
              DeclaredKids(list, done, e) =
                ((FrontOf(list, done, e) \o MiddleOf(list, done, e)) \o BackOf(list, done, e)) \o EndOf(list, done, e)
         /\ Of(list, done, "replaceElementContent", e) # {} =>
              DeclaredKids(list, done, e) =
                IF list[The(Of(list, done, "replaceElementContent", e))].text
                THEN <<Text(The(Of(list, done, "replaceElementContent", e)))>> ELSE <<>>
BY DEF DeclaredKids, FrontOf, MiddleOf, BackOf, EndOf, PlacesOf

\* The four parts are rows; all but the middle have content nodes only.
LEMMA PartsRows ==
  ASSUME NEW list \in Seq(Primitives), NEW done \in SUBSET DOMAIN list, NEW e \in ElementLike
  PROVE  /\ FrontOf(list, done, e) \in Rows /\ MiddleOf(list, done, e) \in Rows
         /\ BackOf(list, done, e) \in Rows /\ EndOf(list, done, e) \in Rows
         /\ \A c \in ToSet(FrontOf(list, done, e)) \cup ToSet(BackOf(list, done, e)) \cup ToSet(EndOf(list, done, e)) :
              Brought1(c)
         /\ \A c : c \in ToSet(MiddleOf(list, done, e)) <=>
              \E k \in DOMAIN Kids[e] : c \in ToSet(Place(list, done, Kids[e][k]))
<1>1. /\ FrontOf(list, done, e) \in Rows /\ BackOf(list, done, e) \in Rows /\ EndOf(list, done, e) \in Rows
      /\ \A c \in ToSet(FrontOf(list, done, e)) : Brought1(c)
      /\ \A c \in ToSet(BackOf(list, done, e)) : Brought1(c)
      /\ \A c \in ToSet(EndOf(list, done, e)) : Brought1(c)
  BY ListedRows DEF FrontOf, BackOf, EndOf
<1> DEFINE q == PlacesOf(list, done, e)
<1>2. q \in Seq(Seq(RowNodes)) /\ DOMAIN q = DOMAIN Kids[e]
  BY PlacesRows
<1>3. \A k \in DOMAIN Kids[e] : q[k] = Place(list, done, Kids[e][k])
  BY DEF PlacesOf
<1> HIDE DEF q
<1>4. FlattenSeq(q) \in Seq(RowNodes) /\ \A x : x \in ToSet(FlattenSeq(q)) <=> \E k \in DOMAIN q : x \in ToSet(q[k])
  BY <1>2, Joined
<1>5. MiddleOf(list, done, e) = FlattenSeq(q)
  BY DEF MiddleOf, q
<1>6. ASSUME NEW c
      PROVE  c \in ToSet(MiddleOf(list, done, e)) <=> \E k \in DOMAIN Kids[e] : c \in ToSet(Place(list, done, Kids[e][k]))
  BY <1>2, <1>3, <1>4, <1>5
<1>7. MiddleOf(list, done, e) \in Rows
  BY <1>4, <1>5, RowsAreOfNodes
<1> QED BY <1>1, <1>6, <1>7

\* Whom a declared row holds.
MayBeDeclared(list, done, e, c) ==
  \/ Brought1(c)
  \/ c[1] = "text" /\ c \notin Nodes /\ c \notin Places
  \/ \E n \in ToSet(Kids[e]) :
       /\ Of(list, done, "replaceElementContent", e) = {}
       /\ \/ c = n /\ Standing(list, done, n)
          \/ n \in Elements /\ Of(list, done, "rename", n) # {} /\ c = Renamed(The(Of(list, done, "rename", n)))
\* The row declared holds nobody else, and every child of the caller that was not replaced, deleted
\* or renamed.
LEMMA WhoIsThere ==
  ASSUME NEW list \in Seq(Primitives), NEW done \in SUBSET DOMAIN list, NEW e \in ElementLike
  PROVE  /\ DeclaredKids(list, done, e) \in Rows
         /\ \A c \in ToSet(DeclaredKids(list, done, e)) : MayBeDeclared(list, done, e, c)
         /\ Of(list, done, "replaceElementContent", e) = {} =>
              \A n \in ToSet(Kids[e]) : Standing(list, done, n) => n \in ToSet(DeclaredKids(list, done, e))
<1>1. CASE Of(list, done, "replaceElementContent", e) # {}
  <2> DEFINE i == The(Of(list, done, "replaceElementContent", e))
  <2>1. i \in done
    BY <1>1, OfMembers
  <2>2. DeclaredKids(list, done, e) = IF list[i].text THEN <<Text(i)>> ELSE <<>>
    BY <1>1, DeclaredParts
  <2> HIDE DEF i
  <2>3. i \in Nat
    BY <2>1
  <2>4. <<Text(i)>> \in Rows /\ ToSet(<<Text(i)>>) = {Text(i)}
    BY <2>3, OneIsRow, TextRow
  <2>5. MayBeDeclared(list, done, e, Text(i))
    BY TextIsNew DEF MayBeDeclared
  <2> QED BY <1>1, <2>2, <2>4, <2>5, EmptyIsRow
<1>2. CASE Of(list, done, "replaceElementContent", e) = {}
  <2> DEFINE a == FrontOf(list, done, e)
             b == MiddleOf(list, done, e)
             c == BackOf(list, done, e)
             d == EndOf(list, done, e)
             ab == a \o b
             abc == ab \o c
  <2>1. DeclaredKids(list, done, e) = abc \o d
    BY <1>2, DeclaredParts
  <2>2. /\ a \in Rows /\ b \in Rows /\ c \in Rows /\ d \in Rows
        /\ \A x \in ToSet(a) \cup ToSet(c) \cup ToSet(d) : Brought1(x)
        /\ \A x : x \in ToSet(b) <=> \E k \in DOMAIN Kids[e] : x \in ToSet(Place(list, done, Kids[e][k]))
    BY PartsRows
  <2> HIDE DEF a, b, c, d
  <2>3. ab \in Rows /\ ToSet(ab) = ToSet(a) \cup ToSet(b)
    BY <2>2, JoinIsRow
  <2> HIDE DEF ab
  <2>4. abc \in Rows /\ ToSet(abc) = ToSet(ab) \cup ToSet(c)
    BY <2>2, <2>3, JoinIsRow
  <2> HIDE DEF abc
  <2>5. abc \o d \in Rows /\ ToSet(abc \o d) = ToSet(abc) \cup ToSet(d)
    BY <2>2, <2>4, JoinIsRow
  <2>6. \A k \in DOMAIN Kids[e] : Kids[e][k] \in RowNodes /\ Kids[e][k] \in ToSet(Kids[e])
    <3>1. Kids[e] \in Seq(RowNodes)
      BY ChildrenRow, RowsAreOfNodes
    <3> QED BY <3>1 DEF ToSet
  <2>7. ASSUME NEW x \in ToSet(b)
        PROVE  MayBeDeclared(list, done, e, x)
    <3>1. PICK k \in DOMAIN Kids[e] : x \in ToSet(Place(list, done, Kids[e][k]))
      BY <2>2
    <3> DEFINE n == Kids[e][k]
    <3>2. n \in RowNodes /\ n \in ToSet(Kids[e]) /\ x \in ToSet(Place(list, done, n))
      BY <2>6, <3>1
    <3> HIDE DEF n
    <3>3. Brought1(x) \/ x \in ToSet(Core(list, done, n))
      BY <3>2, PlaceRows
    <3>4. \/ Brought1(x)
          \/ x = n /\ Standing(list, done, n)
          \/ n \in Elements /\ Of(list, done, "rename", n) # {} /\ x = Renamed(The(Of(list, done, "rename", n)))
      BY <3>2, <3>3, CoreRows
    <3> QED BY <1>2, <3>2, <3>4 DEF MayBeDeclared
  <2>8. \A x \in ToSet(abc \o d) : MayBeDeclared(list, done, e, x)
    <3>1. \A x : Brought1(x) => MayBeDeclared(list, done, e, x)
      BY DEF MayBeDeclared
    <3> QED BY <2>2, <2>3, <2>4, <2>5, <2>7, <3>1
  <2>9. ASSUME NEW n \in ToSet(Kids[e]), Standing(list, done, n)
        PROVE  n \in ToSet(abc \o d)
    <3>1. PICK k \in DOMAIN Kids[e] : n = Kids[e][k]
      BY DEF ToSet
    <3>2. n \in RowNodes
      BY <2>6, <3>1
    <3>3. n \in ToSet(Core(list, done, n))
      BY <2>9, <3>2, CoreRows, OneIsRow
    <3>4. n \in ToSet(Place(list, done, Kids[e][k]))
      BY <3>1, <3>2, <3>3, PlaceRows
    <3> QED BY <2>2, <2>3, <2>4, <2>5, <3>4
  <2> QED BY <2>1, <2>5, <2>8, <2>9
<1> QED BY <1>1, <1>2

\* Rows of which one node was exchanged for others.
RowExchanged(old, new, n, x) == \E u, v \in Rows : old = u \o (<<n>> \o v) /\ new = u \o (x \o v)

\* So it is for rows of the tree.
LEMMA RowsAssociate ==
  ASSUME NEW a \in Rows, NEW b \in Rows, NEW c \in Rows
  PROVE  Associates(a, b, c)
BY SequencesAssociate, RowsAreOfNodes

\* The same as an equation.
LEMMA RowsRegrouped ==
  ASSUME NEW a \in Rows, NEW b \in Rows, NEW c \in Rows
  PROVE  (a \o b) \o c = a \o (b \o c)
BY RowsAssociate DEF Associates

\* The empty row adds nothing.
LEMMA NothingAdded ==
  ASSUME NEW a \in Rows
  PROVE  a \o <<>> = a /\ <<>> \o a = a
BY ConcatEmptySeq, RowsAreOfNodes

\* An exchange in a row is one behind another row.
LEMMA ExchangedAfter ==
  ASSUME NEW old, NEW new, NEW n \in RowNodes, NEW x \in Rows, RowExchanged(old, new, n, x), NEW a \in Rows
  PROVE  RowExchanged(a \o old, a \o new, n, x)
<1>1. PICK u, v \in Rows : old = u \o (<<n>> \o v) /\ new = u \o (x \o v)
  BY DEF RowExchanged
<1>2. <<n>> \in Rows /\ a \o u \in Rows
  BY OneIsRow, JoinIsRow
<1>3. <<n>> \o v \in Rows /\ x \o v \in Rows
  BY <1>2, JoinIsRow
<1>4. a \o old = (a \o u) \o (<<n>> \o v) /\ a \o new = (a \o u) \o (x \o v)
  <2>1. Associates(a, u, <<n>> \o v)
    BY <1>3, RowsAssociate
  <2>2. Associates(a, u, x \o v)
    BY <1>3, RowsAssociate
  <2> QED BY <2>1, <2>2, <1>1 DEF Associates
<1> QED BY <1>2, <1>4 DEF RowExchanged

\* It is one before another row.
LEMMA ExchangedBefore ==
  ASSUME NEW old, NEW new, NEW n \in RowNodes, NEW x \in Rows, RowExchanged(old, new, n, x), NEW a \in Rows
  PROVE  RowExchanged(old \o a, new \o a, n, x)
<1>1. PICK u, v \in Rows : old = u \o (<<n>> \o v) /\ new = u \o (x \o v)
  BY DEF RowExchanged
<1>2. <<n>> \in Rows /\ v \o a \in Rows
  BY OneIsRow, JoinIsRow
<1>3. ASSUME NEW y \in Rows
      PROVE  (u \o (y \o v)) \o a = u \o (y \o (v \o a))
  <2>1. y \o v \in Rows
    BY JoinIsRow
  <2>2. (u \o (y \o v)) \o a = u \o ((y \o v) \o a)
    <3>1. Associates(u, y \o v, a)
      BY <2>1, RowsAssociate
    <3> QED BY <3>1 DEF Associates
  <2>3. (y \o v) \o a = y \o (v \o a)
    <3>1. Associates(y, v, a)
      BY RowsAssociate
    <3> QED BY <3>1 DEF Associates
  <2> QED BY <2>2, <2>3
<1>4. old \o a = u \o (<<n>> \o (v \o a)) /\ new \o a = u \o (x \o (v \o a))
  BY <1>1, <1>2, <1>3
<1> QED BY <1>2, <1>4 DEF RowExchanged

-----------------------------------------------------------------------------
(* What one more primitive changes of the declared rows. *)

\* The type information of a primitive of a list.
LEMMA ContentRow ==
  ASSUME NEW list \in Seq(Primitives), NEW i \in DOMAIN list
  PROVE  i \in Nat /\ list[i] \in Primitives /\ list[i].nodes \in Nat /\ Content(i, list[i].nodes) \in Rows
<1>1. i \in Nat /\ list[i] \in Primitives
  OBVIOUS
<1>2. list[i].nodes \in Nat
  BY <1>1 DEF Primitives
<1> QED BY <1>1, <1>2, ContentIsNew

\* A primitive that does not act on the place of a node leaves what is declared there.
LEMMA PlaceSame ==
  ASSUME NEW list, NEW done, NEW i, NEW n, list[i].type \in PlaceTypes => list[i].target # n
  PROVE  Place(list, done \cup {i}, n) = Place(list, done, n)
<1>1. ASSUME NEW type \in PlaceTypes
      PROVE  Of(list, done \cup {i}, type, n) = Of(list, done, type, n)
  <2>1. ~ (list[i].type = type /\ list[i].target = n)
    OBVIOUS
  <2> QED BY <2>1, OfOther
<1>2. /\ Of(list, done \cup {i}, "insertBefore", n) = Of(list, done, "insertBefore", n)
      /\ Of(list, done \cup {i}, "insertAfter", n) = Of(list, done, "insertAfter", n)
      /\ Of(list, done \cup {i}, "replaceNode", n) = Of(list, done, "replaceNode", n)
      /\ Of(list, done \cup {i}, "delete", n) = Of(list, done, "delete", n)
      /\ Of(list, done \cup {i}, "rename", n) = Of(list, done, "rename", n)
  BY <1>1 DEF PlaceTypes, Beside
<1>3. Core(list, done \cup {i}, n) = Core(list, done, n)
  BY <1>2 DEF Core
<1> QED BY <1>2, <1>3 DEF Place

\* A primitive on no child of an element leaves the middle of its row.
LEMMA MiddleSame ==
  ASSUME NEW list, NEW done, NEW i, NEW e, list[i].type \in PlaceTypes => list[i].target \notin ToSet(Kids[e])
  PROVE  MiddleOf(list, done \cup {i}, e) = MiddleOf(list, done, e)
<1>1. \A k \in DOMAIN Kids[e] : Kids[e][k] \in ToSet(Kids[e])
  BY DEF ToSet
<1>2. \A k \in DOMAIN Kids[e] : Place(list, done \cup {i}, Kids[e][k]) = Place(list, done, Kids[e][k])
  BY <1>1, PlaceSame
<1>3. PlacesOf(list, done \cup {i}, e) = PlacesOf(list, done, e)
  BY <1>2 DEF PlacesOf
<1> QED BY <1>3 DEF MiddleOf

EndsStay(list, done, more, e) ==
  /\ FrontOf(list, more, e) = FrontOf(list, done, e)
  /\ BackOf(list, more, e) = BackOf(list, done, e)
  /\ EndOf(list, more, e) = EndOf(list, done, e)
  /\ Of(list, more, "replaceElementContent", e) = Of(list, done, "replaceElementContent", e)
ListTypes == Into \cup {"replaceElementContent"}
\* A primitive that does not act on the ends of a row leaves them.
LEMMA EndsStayed ==
  ASSUME NEW list, NEW done, NEW i, NEW e, list[i].type \in ListTypes => list[i].target # e
  PROVE  EndsStay(list, done, done \cup {i}, e)
<1>1. \A type \in ListTypes : Of(list, done \cup {i}, type, e) = Of(list, done, type, e)
  BY OfOther
<1> QED BY <1>1 DEF EndsStay, FrontOf, BackOf, EndOf, ListTypes, Into

\* The same as equations.
LEMMA EndsSame ==
  ASSUME NEW list, NEW done, NEW i, NEW e, list[i].type \in ListTypes => list[i].target # e
  PROVE  /\ FrontOf(list, done \cup {i}, e) = FrontOf(list, done, e)
         /\ BackOf(list, done \cup {i}, e) = BackOf(list, done, e)
         /\ EndOf(list, done \cup {i}, e) = EndOf(list, done, e)
         /\ Of(list, done \cup {i}, "replaceElementContent", e) = Of(list, done, "replaceElementContent", e)
BY EndsStayed DEF EndsStay

\* The rows of the others stay as they are.
LEMMA DeclaredSame ==
  ASSUME NEW list, NEW done, NEW i, NEW e,
         list[i].type \in ListTypes => list[i].target # e,
         list[i].type \in PlaceTypes => list[i].target \notin ToSet(Kids[e])
  PROVE  DeclaredKids(list, done \cup {i}, e) = DeclaredKids(list, done, e)
<1>1. MiddleOf(list, done \cup {i}, e) = MiddleOf(list, done, e)
  BY MiddleSame
<1>2. /\ FrontOf(list, done \cup {i}, e) = FrontOf(list, done, e)
      /\ BackOf(list, done \cup {i}, e) = BackOf(list, done, e)
      /\ EndOf(list, done \cup {i}, e) = EndOf(list, done, e)
      /\ Of(list, done \cup {i}, "replaceElementContent", e) = Of(list, done, "replaceElementContent", e)
  BY EndsSame
<1> DEFINE a == Of(list, done \cup {i}, "replaceElementContent", e)
           b == Of(list, done, "replaceElementContent", e)
<1>3. CASE b = {}
  BY <1>1, <1>2, <1>3, DeclaredParts
<1>4. CASE b # {}
  <2>0. a = b
    BY <1>2
  <2>1. a # {} => DeclaredKids(list, done \cup {i}, e) = IF list[The(a)].text THEN <<Text(The(a))>> ELSE <<>>
    BY DeclaredParts
  <2>2. DeclaredKids(list, done, e) = IF list[The(b)].text THEN <<Text(The(b))>> ELSE <<>>
    BY <1>4, DeclaredParts
  <2> HIDE DEF a, b
  <2> QED BY <1>4, <2>0, <2>1, <2>2
<1> QED BY <1>3, <1>4

\* An element whose content was replaced has it.
LEMMA DeclaredText ==
  ASSUME NEW list, NEW done, NEW i, NEW e, ActsOn(list, i, "replaceElementContent", e),
         Of(list, done, "replaceElementContent", e) = {}
  PROVE  DeclaredKids(list, done \cup {i}, e) = IF list[i].text THEN <<Text(i)>> ELSE <<>>
<1>1. Of(list, done \cup {i}, "replaceElementContent", e) = {i}
  <2>1. Of(list, done \cup {i}, "replaceElementContent", e) = Of(list, done, "replaceElementContent", e) \cup {i}
    BY OfOne
  <2> QED BY <2>1
<1>2. The({i}) = i
  BY TheOnly
<1> DEFINE more == Of(list, done \cup {i}, "replaceElementContent", e)
<1>3. more # {} => DeclaredKids(list, done \cup {i}, e) = IF list[The(more)].text THEN <<Text(The(more))>> ELSE <<>>
  BY DeclaredParts
<1>4. more = {i}
  BY <1>1
<1> HIDE DEF more
<1> QED BY <1>2, <1>3, <1>4

\* What one more insertion among the children brings.
Earlier(list, done, i) == \A j \in done : list[j].type = list[i].type /\ list[j].target = list[i].target => j < i
\* Those of its type and target that were applied come before it in the list.
LEMMA OfEarlier ==
  ASSUME NEW list, NEW done, NEW i, NEW type, NEW target, ActsOn(list, i, type, target),
         Earlier(list, done, i)
  PROVE  \A j \in Of(list, done, type, target) : j < i
BY DEF Of, Earlier, ActsOn

BringsMore(list, done, i, type, target) ==
  /\ Of(list, done \cup {i}, type, target) = Of(list, done, type, target) \cup {i}
  /\ Listed(list, Of(list, done \cup {i}, type, target)) =
       Listed(list, Of(list, done, type, target)) \o Content(i, list[i].nodes)
  /\ LatestFirst(list, Of(list, done \cup {i}, type, target)) =
       Content(i, list[i].nodes) \o LatestFirst(list, Of(list, done, type, target))
\* One more primitive brings what it brings, behind what the others bring or before it.
LEMMA OneMore ==
  ASSUME NEW list \in Seq(Primitives), NEW done \in SUBSET DOMAIN list, NEW i \in DOMAIN list, NEW type, NEW target,
         ActsOn(list, i, type, target), Earlier(list, done, i)
  PROVE  BringsMore(list, done, i, type, target)
<1> DEFINE places == Of(list, done, type, target)
           more == Of(list, done \cup {i}, type, target)
<1>1. more = places \cup {i}
  BY OfOne
<1>2. places \in SUBSET DOMAIN list
  <2>1. places \subseteq done
    BY OfMembers
  <2> QED BY <2>1
<1>3. \A j \in places : j < i
  BY OfEarlier
<1> HIDE DEF places, more
<1>4. /\ Listed(list, places \cup {i}) = Listed(list, places) \o Content(i, list[i].nodes)
      /\ LatestFirst(list, places \cup {i}) = Content(i, list[i].nodes) \o LatestFirst(list, places)
  BY <1>2, <1>3, ListedMore
<1>5. /\ more = places \cup {i}
      /\ Listed(list, more) = Listed(list, places) \o Content(i, list[i].nodes)
      /\ LatestFirst(list, more) = Content(i, list[i].nodes) \o LatestFirst(list, places)
  BY <1>1, <1>4
<1> QED BY <1>5 DEF places, more, BringsMore

WithMore(list, i, row) ==
  IF list[i].type = "insertIntoAsFirst" THEN Content(i, list[i].nodes) \o row ELSE row \o Content(i, list[i].nodes)
\* insertInto, insertIntoAsLast and insertIntoAsFirst add their content at an end of the row
\* declared.
LEMMA DeclaredInto ==
  ASSUME NEW list \in Seq(Primitives), NEW done \in SUBSET DOMAIN list, NEW i \in DOMAIN list, NEW e \in ElementLike,
         list[i].type \in Into, list[i].target = e, Earlier(list, done, i),
         Of(list, done, "replaceElementContent", e) = {},
         list[i].type = "insertInto" => Of(list, done, "insertIntoAsLast", e) = {}
  PROVE  DeclaredKids(list, done \cup {i}, e) = WithMore(list, i, DeclaredKids(list, done, e))
<1> DEFINE C == Content(i, list[i].nodes)
           F == FrontOf(list, done, e)
           M == MiddleOf(list, done, e)
           B == BackOf(list, done, e)
           E == EndOf(list, done, e)
           F1 == FrontOf(list, done \cup {i}, e)
           M1 == MiddleOf(list, done \cup {i}, e)
           B1 == BackOf(list, done \cup {i}, e)
           E1 == EndOf(list, done \cup {i}, e)
           t == list[i].type
<1>1. C \in Rows
  BY ContentRow
<1>2. F \in Rows /\ M \in Rows /\ B \in Rows /\ E \in Rows
  BY PartsRows
<1>3. M1 = M
  BY MiddleSame DEF Into, PlaceTypes, Beside
<1>4. Of(list, done \cup {i}, "replaceElementContent", e) = {}
  BY OfOther DEF Into
<1>5. /\ DeclaredKids(list, done, e) = ((F \o M) \o B) \o E
      /\ DeclaredKids(list, done \cup {i}, e) = ((F1 \o M1) \o B1) \o E1
  BY <1>4, DeclaredParts
<1>6. \A type : type # t => Of(list, done \cup {i}, type, e) = Of(list, done, type, e)
  BY OfOther
<1>7. /\ Listed(list, Of(list, done \cup {i}, t, e)) = Listed(list, Of(list, done, t, e)) \o C
      /\ LatestFirst(list, Of(list, done \cup {i}, t, e)) = C \o LatestFirst(list, Of(list, done, t, e))
  <2>1. ActsOn(list, i, t, e)
    BY DEF ActsOn
  <2> HIDE DEF t, C
  <2>2. BringsMore(list, done, i, t, e)
    BY <2>1, OneMore
  <2> QED BY <2>2 DEF BringsMore, C
<1>8. CASE t = "insertInto"
  <2>1. F1 = F /\ E1 = E
    BY <1>6, <1>8 DEF FrontOf, EndOf
  <2>2. B1 = B \o C
    BY <1>7, <1>8 DEF BackOf
  <2>3. E = <<>>
    BY <1>8, ListedNone DEF EndOf
  <2> HIDE DEF C, F, M, B, E, F1, M1, B1, E1
  <2>4. F \o M \in Rows /\ (F \o M) \o B \in Rows /\ B \o C \in Rows
    BY <1>1, <1>2, JoinIsRow
  <2>5. ((F \o M) \o B) \o C = (F \o M) \o (B \o C)
    <3> DEFINE G == F \o M
    <3>1. G \in Rows
      BY <2>4
    <3> HIDE DEF G
    <3>2. (G \o B) \o C = G \o (B \o C)
      <4>1. Associates(G, B, C)
        BY <1>1, <1>2, <3>1, RowsAssociate
      <4> QED BY <4>1 DEF Associates
    <3> QED BY <3>2 DEF G
  <2>6. (F \o M) \o (B \o C) \in Rows
    BY <2>4, JoinIsRow
  <2>7. ((F \o M) \o (B \o C)) \o <<>> = (F \o M) \o (B \o C) /\ ((F \o M) \o B) \o <<>> = (F \o M) \o B
    BY <2>4, <2>6, NothingAdded
  <2>8. DeclaredKids(list, done \cup {i}, e) = DeclaredKids(list, done, e) \o C
    BY <1>3, <1>5, <2>1, <2>2, <2>3, <2>5, <2>7
  <2> QED BY <1>8, <2>8 DEF C, WithMore
<1>9. CASE t = "insertIntoAsLast"
  <2>1. F1 = F /\ B1 = B
    BY <1>6, <1>9 DEF FrontOf, BackOf
  <2>2. E1 = E \o C
    BY <1>7, <1>9 DEF EndOf
  <2> HIDE DEF C, F, M, B, E, F1, M1, B1, E1
  <2>3. F \o M \in Rows /\ (F \o M) \o B \in Rows
    BY <1>1, <1>2, JoinIsRow
  <2>4. (((F \o M) \o B) \o E) \o C = ((F \o M) \o B) \o (E \o C)
    <3> DEFINE G == (F \o M) \o B
    <3>1. G \in Rows
      BY <2>3
    <3> HIDE DEF G
    <3>2. (G \o E) \o C = G \o (E \o C)
      <4>1. Associates(G, E, C)
        BY <1>1, <1>2, <3>1, RowsAssociate
      <4> QED BY <4>1 DEF Associates
    <3> QED BY <3>2 DEF G
  <2>5. DeclaredKids(list, done \cup {i}, e) = DeclaredKids(list, done, e) \o C
    BY <1>3, <1>5, <2>1, <2>2, <2>4
  <2> QED BY <1>9, <2>5 DEF C, WithMore
<1>10. CASE t = "insertIntoAsFirst"
  <2>1. B1 = B /\ E1 = E
    BY <1>6, <1>10 DEF BackOf, EndOf
  <2>2. F1 = C \o F
    BY <1>7, <1>10 DEF FrontOf
  <2> HIDE DEF C, F, M, B, E, F1, M1, B1, E1
  <2>3. F \o M \in Rows /\ (F \o M) \o B \in Rows
    BY <1>1, <1>2, JoinIsRow
  <2>4. (C \o F) \o M = C \o (F \o M)
    <3>1. Associates(C, F, M)
      BY <1>1, <1>2, RowsAssociate
    <3> QED BY <3>1 DEF Associates
  <2>5. (C \o (F \o M)) \o B = C \o ((F \o M) \o B)
    <3>1. Associates(C, F \o M, B)
      BY <1>1, <1>2, <2>3, RowsAssociate
    <3> QED BY <3>1 DEF Associates
  <2>6. (C \o ((F \o M) \o B)) \o E = C \o (((F \o M) \o B) \o E)
    <3>1. Associates(C, (F \o M) \o B, E)
      BY <1>1, <1>2, <2>3, RowsAssociate
    <3> QED BY <3>1 DEF Associates
  <2>7. DeclaredKids(list, done \cup {i}, e) = C \o DeclaredKids(list, done, e)
    BY <1>3, <1>5, <2>1, <2>2, <2>4, <2>5, <2>6
  <2> QED BY <1>10, <2>7 DEF C, WithMore
<1> QED BY <1>8, <1>9, <1>10 DEF Into

\* What comes in the place of the target of a primitive.
Instead(list, i) ==
  LET n == list[i].target
      content == Content(i, list[i].nodes)
  IN CASE list[i].type = "insertBefore" -> content \o <<n>>
       [] list[i].type = "insertAfter" -> <<n>> \o content
       [] list[i].type = "replaceNode" -> content
       [] list[i].type = "delete" -> <<>>
       [] list[i].type = "rename" -> RenamedTo(i, n)
\* In one expression.
LEMMA InsteadIs ==
  ASSUME NEW list, NEW i, list[i].type \in PlaceTypes
  PROVE  Instead(list, i) =
           IF list[i].type = "insertBefore" THEN Content(i, list[i].nodes) \o <<list[i].target>>
           ELSE IF list[i].type = "insertAfter" THEN <<list[i].target>> \o Content(i, list[i].nodes)
           ELSE IF list[i].type = "replaceNode" THEN Content(i, list[i].nodes)
           ELSE IF list[i].type = "delete" THEN <<>> ELSE RenamedTo(i, list[i].target)
BY DEF Instead, PlaceTypes, Beside

\* What takes the place of a node is a row.
LEMMA InsteadRow ==
  ASSUME NEW list \in Seq(Primitives), NEW i \in DOMAIN list, list[i].type \in PlaceTypes, list[i].target \in RowNodes
  PROVE  Instead(list, i) \in Rows
<1>1. Content(i, list[i].nodes) \in Rows /\ i \in Nat
  BY ContentRow
<1>2. <<list[i].target>> \in Rows /\ RenamedTo(i, list[i].target) \in Rows
  BY <1>1, OneIsRow, RenamedToRow
<1>3. Content(i, list[i].nodes) \o <<list[i].target>> \in Rows /\ <<list[i].target>> \o Content(i, list[i].nodes) \in Rows
  BY <1>1, <1>2, JoinIsRow
<1> QED BY <1>1, <1>2, <1>3, InsteadIs, EmptyIsRow

\* A primitive on a node that is there exchanges it for what takes its place.
LEMMA PlaceExchanged ==
  ASSUME NEW list \in Seq(Primitives), NEW done \in SUBSET DOMAIN list, NEW i \in DOMAIN list, NEW n \in RowNodes,
         list[i].type \in PlaceTypes, list[i].target = n, Earlier(list, done, i), Standing(list, done, n)
  PROVE  RowExchanged(Place(list, done, n), Place(list, done \cup {i}, n), n, Instead(list, i))
<1> DEFINE C == Content(i, list[i].nodes)
           t == list[i].type
           u == Listed(list, Of(list, done, "insertBefore", n))
           v == LatestFirst(list, Of(list, done, "insertAfter", n))
           u1 == Listed(list, Of(list, done \cup {i}, "insertBefore", n))
           v1 == LatestFirst(list, Of(list, done \cup {i}, "insertAfter", n))
           c1 == Core(list, done \cup {i}, n)
           one == <<n>>
           renamed == RenamedTo(i, n)
<1>1. u \in Rows /\ v \in Rows
  BY ListedRows
<1>2. C \in Rows /\ one \in Rows
  BY ContentRow, OneIsRow
<1>3. Place(list, done, n) = (u \o one) \o v
  BY CoreRows DEF Place
<1>4. Place(list, done \cup {i}, n) = (u1 \o c1) \o v1
  BY DEF Place
<1>5. \A type : type # t => Of(list, done \cup {i}, type, n) = Of(list, done, type, n)
  BY OfOther
<1>6. /\ Of(list, done \cup {i}, t, n) = Of(list, done, t, n) \cup {i}
      /\ Listed(list, Of(list, done \cup {i}, t, n)) = Listed(list, Of(list, done, t, n)) \o C
      /\ LatestFirst(list, Of(list, done \cup {i}, t, n)) = C \o LatestFirst(list, Of(list, done, t, n))
  <2>1. ActsOn(list, i, t, n)
    BY DEF ActsOn
  <2> HIDE DEF t, C
  <2>2. BringsMore(list, done, i, t, n)
    BY <2>1, OneMore
  <2> QED BY <2>2 DEF BringsMore, C
<1>7. u1 = IF t = "insertBefore" THEN u \o C ELSE u
  BY <1>5, <1>6
<1>8. v1 = IF t = "insertAfter" THEN C \o v ELSE v
  BY <1>5, <1>6
<1>9. c1 = CASE t \in Beside -> one [] t = "replaceNode" -> C [] t = "delete" -> <<>> [] t = "rename" -> renamed
  <2>1. CASE t \in Beside
    <3>1. Standing(list, done \cup {i}, n)
      BY <1>5, <2>1 DEF Standing, Beside
    <3>2. c1 = one
      BY <3>1 DEF Core, Standing
    <3> QED BY <2>1, <3>2 DEF Beside
  <2>2. CASE t = "replaceNode"
    <3>1. Of(list, done \cup {i}, "replaceNode", n) # {}
      BY <1>6, <2>2
    <3>2. c1 = Listed(list, {}) \o C
      BY <1>6, <2>2, <3>1 DEF Core, Standing
    <3>3. c1 = C
      BY <1>2, <3>2, ListedNone, NothingAdded
    <3> QED BY <2>2, <3>3 DEF Beside
  <2>3. CASE t = "delete"
    <3>1. Of(list, done \cup {i}, "delete", n) # {} /\ Of(list, done \cup {i}, "replaceNode", n) = {}
      BY <1>5, <1>6, <2>3 DEF Standing
    <3>2. c1 = <<>>
      BY <3>1 DEF Core
    <3> QED BY <2>3, <3>2 DEF Beside
  <2>4. CASE t = "rename"
    <3>1. /\ Of(list, done \cup {i}, "rename", n) = {i} /\ Of(list, done \cup {i}, "replaceNode", n) = {}
          /\ Of(list, done \cup {i}, "delete", n) = {}
      BY <1>5, <1>6, <2>4 DEF Standing
    <3>2. c1 = renamed
      BY <3>1, TheOnly DEF Core
    <3> QED BY <2>4, <3>2 DEF Beside
  <2> QED BY <2>1, <2>2, <2>3, <2>4 DEF PlaceTypes
<1>10. Instead(list, i) = IF t = "insertBefore" THEN C \o one ELSE IF t = "insertAfter" THEN one \o C
                         ELSE IF t = "replaceNode" THEN C ELSE IF t = "delete" THEN <<>> ELSE renamed
  BY InsteadIs
<1>a. renamed \in Rows
  BY ContentRow, RenamedToRow
<1>b. t \in PlaceTypes
  OBVIOUS
<1> HIDE DEF C, u, v, u1, v1, c1, one, t, renamed
<1>11. (u \o one) \o v = u \o (one \o v)
  <2>1. Associates(u, one, v)
    BY <1>1, <1>2, RowsAssociate
  <2> QED BY <2>1 DEF Associates
<1>12. (u1 \o c1) \o v1 = u \o (Instead(list, i) \o v)
  <2>1. CASE t = "insertBefore"
    <3>1. u1 = u \o C /\ v1 = v /\ c1 = one /\ Instead(list, i) = C \o one
      BY <1>7, <1>8, <1>9, <1>10, <2>1 DEF Beside
    <3>2. (u \o C) \o one = u \o (C \o one) /\ C \o one \in Rows
      <4>1. Associates(u, C, one) /\ C \o one \in Rows
        BY <1>1, <1>2, RowsAssociate, JoinIsRow
      <4> QED BY <4>1 DEF Associates
    <3>3. (u \o (C \o one)) \o v = u \o ((C \o one) \o v)
      <4>1. Associates(u, C \o one, v)
        BY <1>1, <3>2, RowsAssociate
      <4> QED BY <4>1 DEF Associates
    <3> QED BY <3>1, <3>2, <3>3
  <2>2. CASE t = "insertAfter"
    <3>1. u1 = u /\ v1 = C \o v /\ c1 = one /\ Instead(list, i) = one \o C
      BY <1>7, <1>8, <1>9, <1>10, <2>2 DEF Beside
    <3>2. (one \o C) \o v = one \o (C \o v) /\ C \o v \in Rows
      <4>1. Associates(one, C, v) /\ C \o v \in Rows
        BY <1>1, <1>2, RowsAssociate, JoinIsRow
      <4> QED BY <4>1 DEF Associates
    <3>3. (u \o one) \o (C \o v) = u \o (one \o (C \o v))
      <4>1. Associates(u, one, C \o v)
        BY <1>1, <1>2, <3>2, RowsAssociate
      <4> QED BY <4>1 DEF Associates
    <3> QED BY <3>1, <3>2, <3>3
  <2>3. CASE t \in {"replaceNode", "delete", "rename"}
    <3>1. u1 = u /\ v1 = v /\ c1 = Instead(list, i) /\ c1 \in Rows
      BY <1>2, <1>7, <1>8, <1>9, <1>10, <1>a, <2>3, EmptyIsRow DEF Beside
    <3> QED BY <1>1, <3>1, RowsRegrouped
  <2> QED BY <1>b, <2>1, <2>2, <2>3 DEF PlaceTypes, Beside
<1>13. Place(list, done, n) = u \o (<<n>> \o v) /\ Place(list, done \cup {i}, n) = u \o (Instead(list, i) \o v)
  BY <1>3, <1>4, <1>11, <1>12 DEF one
<1> QED BY <1>1, <1>13 DEF RowExchanged

\* The row of a child whose place changes.
LEMMA DeclaredExchanged ==
  ASSUME NEW list \in Seq(Primitives), NEW done \in SUBSET DOMAIN list, NEW i \in DOMAIN list, NEW e \in ElementLike,
         NEW n \in ToSet(Kids[e]), list[i].type \in PlaceTypes, list[i].target = n, Earlier(list, done, i),
         Standing(list, done, n), Of(list, done, "replaceElementContent", e) = {}
  PROVE  RowExchanged(DeclaredKids(list, done, e), DeclaredKids(list, done \cup {i}, e), n, Instead(list, i))
<1> DEFINE q == PlacesOf(list, done, e)
           r == PlacesOf(list, done \cup {i}, e)
           x == Instead(list, i)
           more == done \cup {i}
<1>0. more \in SUBSET DOMAIN list
  OBVIOUS
<1>1. /\ q \in Seq(Seq(RowNodes)) /\ r \in Seq(Seq(RowNodes)) /\ Len(r) = Len(q)
      /\ DOMAIN q = DOMAIN Kids[e] /\ DOMAIN r = DOMAIN Kids[e]
  BY <1>0, PlacesRows
<1>2. PICK k \in DOMAIN Kids[e] : n = Kids[e][k]
  BY DEF ToSet
<1>3. \A j \in DOMAIN Kids[e] \ {k} : r[j] = q[j]
  <2>1. \A j \in DOMAIN Kids[e] \ {k} : Kids[e][j] # n
    BY <1>2, ChildrenRow DEF NoRepeats
  <2> QED BY <2>1, PlaceSame DEF PlacesOf
<1>4. n \in RowNodes /\ x \in Rows
  <2>1. Kids[e] \in Seq(RowNodes)
    BY ChildrenRow, RowsAreOfNodes
  <2>2. n \in RowNodes
    BY <1>2, <2>1
  <2> QED BY <2>2, InsteadRow
<1>5. RowExchanged(q[k], r[k], n, x)
  <2>1. q[k] = Place(list, done, n) /\ r[k] = Place(list, done \cup {i}, n)
    BY <1>2 DEF PlacesOf
  <2> QED BY <1>4, <2>1, PlaceExchanged
<1>6. MiddleOf(list, done, e) = FlattenSeq(q) /\ MiddleOf(list, more, e) = FlattenSeq(r)
  BY DEF MiddleOf
<1> HIDE DEF q, r, x
<1>7. Exchanged(RowNodes, q, r, k)
  BY <1>1, <1>3, OneExchanged
<1>8. PICK pre, post \in Seq(RowNodes) : Around(FlattenSeq(q), FlattenSeq(r), q[k], r[k], pre, post)
  BY <1>7 DEF Exchanged
<1>9. pre \in Rows /\ post \in Rows
  BY <1>8, RowsAreOfNodes
<1>10. FlattenSeq(q) = pre \o (q[k] \o post) /\ FlattenSeq(r) = pre \o (r[k] \o post)
  BY <1>8 DEF Around
<1>11. RowExchanged(q[k] \o post, r[k] \o post, n, x)
  BY <1>4, <1>5, <1>9, ExchangedBefore
<1>12. RowExchanged(FlattenSeq(q), FlattenSeq(r), n, x)
  BY <1>4, <1>9, <1>10, <1>11, ExchangedAfter
<1> DEFINE F == FrontOf(list, done, e)
           M == MiddleOf(list, done, e)
           M1 == MiddleOf(list, more, e)
           B == BackOf(list, done, e)
           E == EndOf(list, done, e)
<1>13. FrontOf(list, more, e) = F /\ BackOf(list, more, e) = B /\ EndOf(list, more, e) = E
       /\ Of(list, more, "replaceElementContent", e) = {}
  <2>1. list[i].type \notin ListTypes
    BY DEF PlaceTypes, ListTypes, Into, Beside
  <2>2. EndsStay(list, done, more, e)
    BY <2>1, EndsStayed
  <2> QED BY <2>2 DEF EndsStay
<1>14. DeclaredKids(list, done, e) = ((F \o M) \o B) \o E /\ DeclaredKids(list, more, e) = ((F \o M1) \o B) \o E
  BY <1>13, DeclaredParts
<1>15. F \in Rows /\ B \in Rows /\ E \in Rows
  BY PartsRows
<1>16. RowExchanged(M, M1, n, x)
  BY <1>6, <1>12
<1> HIDE DEF F, M, M1, B, E, more
<1>17. RowExchanged(F \o M, F \o M1, n, x)
  BY <1>4, <1>15, <1>16, ExchangedAfter
<1>18. RowExchanged((F \o M) \o B, (F \o M1) \o B, n, x)
  BY <1>4, <1>15, <1>17, ExchangedBefore
<1>19. RowExchanged(((F \o M) \o B) \o E, ((F \o M1) \o B) \o E, n, x)
  BY <1>4, <1>15, <1>18, ExchangedBefore
<1> QED BY <1>14, <1>19 DEF x, more

\* A deletion of what does not stand any more, or of what is below replaced content, changes nothing.
LEMMA DeletedAlready ==
  ASSUME NEW list, NEW done, NEW i, NEW e \in ElementLike, list[i].type = "delete", NEW n, list[i].target = n,
         Of(list, done, "rename", n) = {},
         n \in ToSet(Kids[e]) => ~ Standing(list, done, n) \/ Of(list, done, "replaceElementContent", e) # {}
  PROVE  DeclaredKids(list, done \cup {i}, e) = DeclaredKids(list, done, e)
<1> DEFINE more == done \cup {i}
<1>1. /\ FrontOf(list, more, e) = FrontOf(list, done, e)
      /\ BackOf(list, more, e) = BackOf(list, done, e)
      /\ EndOf(list, more, e) = EndOf(list, done, e)
      /\ Of(list, more, "replaceElementContent", e) = Of(list, done, "replaceElementContent", e)
  BY EndsSame DEF ListTypes, Into
<1>2. CASE Of(list, done, "replaceElementContent", e) # {}
  BY <1>1, <1>2, DeclaredParts
<1>3. CASE n \notin ToSet(Kids[e])
  BY <1>3, DeclaredSame DEF ListTypes, Into
<1>4. CASE Of(list, done, "replaceElementContent", e) = {} /\ n \in ToSet(Kids[e])
  <2>1. ~ Standing(list, done, n)
    BY <1>4
  <2>2. /\ Of(list, more, "replaceNode", n) = Of(list, done, "replaceNode", n)
        /\ Of(list, more, "rename", n) = Of(list, done, "rename", n)
        /\ Of(list, more, "insertBefore", n) = Of(list, done, "insertBefore", n)
        /\ Of(list, more, "insertAfter", n) = Of(list, done, "insertAfter", n)
    BY OfOther
  <2>3. Of(list, done, "delete", n) # {} => Of(list, more, "delete", n) # {}
    BY DEF Of
  <2>4. Core(list, more, n) = Core(list, done, n)
    <3>1. CASE Of(list, done, "replaceNode", n) # {}
      BY <2>2, <3>1 DEF Core
    <3>2. CASE Of(list, done, "replaceNode", n) = {}
      <4>1. Of(list, done, "delete", n) # {}
        BY <2>1, <3>2 DEF Standing
      <4> QED BY <2>2, <2>3, <3>2, <4>1 DEF Core
    <3> QED BY <3>1, <3>2
  <2>5. Place(list, more, n) = Place(list, done, n)
    BY <2>2, <2>4 DEF Place
  <2>6. \A k \in DOMAIN Kids[e] : Place(list, more, Kids[e][k]) = Place(list, done, Kids[e][k])
    BY <2>5, PlaceSame
  <2>7. MiddleOf(list, more, e) = MiddleOf(list, done, e)
    BY <2>6 DEF MiddleOf, PlacesOf
  <2> HIDE DEF more
  <2> QED BY <1>1, <1>4, <2>7, DeclaredParts DEF more
<1> QED BY <1>2, <1>3, <1>4

\* One row changes.
OnlyRow(new, kids, p, row) == new = [kids EXCEPT ![p] = row]
\* A row around one of its nodes.
SplitAt(row, u, n, v) == row = u \o (<<n>> \o v)

\* Nodes that are nowhere in the tree are put into one row; the others stay as they are.
LEMMA NewAdded ==
  ASSUME NEW kids \in [Places -> Rows], NEW p \in Places, NEW nodes \in Rows, NEW reference,
         AllOf(kids) \cap ToSet(nodes) = {}
  PROVE  OnlyRow(Inserted(kids, p, nodes, reference), kids, p, Spliced(kids[p], nodes, reference))
<1>1. ASSUME NEW q \in Places
      PROVE  Without(kids[q], nodes) = kids[q]
  <2>1. kids[q] \in Seq(RowNodes)
    BY RowsAreOfNodes
  <2>2. \A c \in ToSet(kids[q]) : ~ Contains(nodes, c)
    BY RowHolds DEF AllOf
  <2> QED BY <2>1, <2>2, WithoutNone
<1> QED BY <1>1 DEF Inserted, OnlyRow

\* The same for the rows of a tree.
LEMMA NewAddedToTree ==
  ASSUME NEW t, NEW list, NEW done, TreeInv(t, list, done), NEW p \in Places, NEW nodes \in Rows, NEW reference,
         AllOf(t.kids) \cap ToSet(nodes) = {}
  PROVE  OnlyRow(InsertNodes(t, p, nodes, reference).kids, t.kids, p, Spliced(t.kids[p], nodes, reference))
<1> DEFINE kids == t.kids
<1>1. kids \in [Places -> Rows] /\ DOMAIN t.kids = Places
  BY DEF TreeInv, KidsInv
<1>2. InsertNodes(t, p, nodes, reference).kids = Inserted(kids, p, nodes, reference)
  BY <1>1, InsertNodesRows
<1> HIDE DEF kids
<1>3. AllOf(kids) \cap ToSet(nodes) = {}
  BY DEF kids
<1>4. OnlyRow(Inserted(kids, p, nodes, reference), kids, p, Spliced(kids[p], nodes, reference))
  BY <1>1, <1>3, NewAdded
<1> QED BY <1>2, <1>4 DEF kids

\* The row of a node without it; the others stay as they are.
LEMMA ChildTaken ==
  ASSUME NEW kids \in [Places -> Rows], OnePlaceEach(kids), NEW n \in RowNodes, NEW p \in Places,
         NEW u \in Rows, NEW v \in Rows, SplitAt(kids[p], u, n, v)
  PROVE  OnlyRow(RemovedFrom(kids, n), kids, p, u \o v)
<1>0. kids[p] = u \o (<<n>> \o v)
  BY DEF SplitAt
<1>1. NoRepeats(kids[p])
  BY DEF OnePlaceEach
<1>2. Without(kids[p], <<n>>) = u \o v
  <2>1. NoRepeats(u \o (<<n>> \o v))
    BY <1>0, <1>1
  <2> QED BY <1>0, <2>1, WithoutOne, RowsAreOfNodes
<1>3. n \in ToSet(kids[p])
  <2>1. <<n>> \in Rows /\ ToSet(<<n>>) = {n}
    BY OneIsRow
  <2>2. <<n>> \o v \in Rows /\ ToSet(<<n>> \o v) = {n} \cup ToSet(v)
    BY <2>1, JoinIsRow
  <2>3. ToSet(u \o (<<n>> \o v)) = ToSet(u) \cup ToSet(<<n>> \o v)
    BY <2>2, JoinIsRow
  <2> QED BY <1>0, <2>2, <2>3
<1>4. ASSUME NEW q \in Places, q # p
      PROVE  Without(kids[q], <<n>>) = kids[q]
  <2>1. kids[q] \in Seq(RowNodes)
    BY RowsAreOfNodes
  <2>2. n \notin ToSet(kids[q])
    BY <1>3, <1>4 DEF OnePlaceEach
  <2>3. \A c : Contains(<<n>>, c) <=> c = n
    BY DEF Contains
  <2> QED BY <2>1, <2>2, <2>3, WithoutNone
<1> QED BY <1>2, <1>4 DEF RemovedFrom, OnlyRow

AroundMiddle(u, n, v, x) ==
  /\ <<n>> \in Rows /\ <<n>> \o v \in Rows /\ u \o <<n>> \in Rows /\ x \o v \in Rows
  /\ u \o (<<n>> \o v) = (u \o <<n>>) \o v
  /\ x \o (<<n>> \o v) = (x \o <<n>>) \o v
  /\ (u \o <<n>>) \o (x \o v) = u \o ((<<n>> \o x) \o v)
\* Joining three rows around one node, in all the groupings that are needed.
LEMMA MiddleRegrouped ==
  ASSUME NEW u \in Rows, NEW n \in RowNodes, NEW v \in Rows, NEW x \in Rows
  PROVE  AroundMiddle(u, n, v, x)
<1> DEFINE one == <<n>>
<1>1. one \in Rows
  BY OneIsRow
<1> HIDE DEF one
<1>2. one \o v \in Rows /\ u \o one \in Rows /\ x \o v \in Rows
  BY <1>1, JoinIsRow
<1>3. u \o (one \o v) = (u \o one) \o v /\ x \o (one \o v) = (x \o one) \o v
  <2>1. Associates(u, one, v) /\ Associates(x, one, v)
    BY <1>1, RowsAssociate
  <2> QED BY <2>1 DEF Associates
<1>4. (u \o one) \o (x \o v) = u \o (one \o (x \o v))
  <2> DEFINE y == x \o v
  <2>1. y \in Rows
    BY <1>2
  <2> HIDE DEF y
  <2>2. (u \o one) \o y = u \o (one \o y)
    <3>1. Associates(u, one, y)
      BY <1>1, <2>1, RowsAssociate
    <3> QED BY <3>1 DEF Associates
  <2> QED BY <2>2 DEF y
<1>5. one \o (x \o v) = (one \o x) \o v
  <2>1. Associates(one, x, v)
    BY <1>1, RowsAssociate
  <2> QED BY <2>1 DEF Associates
<1> QED BY <1>1, <1>2, <1>3, <1>4, <1>5 DEF one, AroundMiddle

SplicesIn(u, v, nodes) == Spliced(u \o v, nodes, FirstOf(v)) = u \o (nodes \o v)
\* SplicedAt for rows of the tree, as an operator.
LEMMA RowSplices ==
  ASSUME NEW u \in Rows, NEW v \in Rows, NEW nodes \in Rows, NoRepeats(u \o v)
  PROVE  SplicesIn(u, v, nodes)
BY SplicedAt, RowsAreOfNodes DEF SplicesIn

\* The same as an equation.
LEMMA RowSpliced ==
  ASSUME NEW u \in Rows, NEW v \in Rows, NEW nodes \in Rows, NoRepeats(u \o v)
  PROVE  Spliced(u \o v, nodes, FirstOf(v)) = u \o (nodes \o v)
BY RowSplices DEF SplicesIn

\* The first of a node and a row is that node.
LEMMA FirstOfJoin ==
  ASSUME NEW n \in RowNodes, NEW v \in Rows
  PROVE  FirstOf(<<n>> \o v) = n
<1>1. v \in Seq(RowNodes) /\ <<n>> \in Seq(RowNodes) /\ Len(<<n>>) = 1 /\ <<n>>[1] = n
  BY RowsAreOfNodes
<1> DEFINE x == <<n>> \o v
<1>2. x \in Seq(RowNodes) /\ Len(x) = 1 + Len(v) /\ x[1] = n
  BY <1>1, JoinPlaces
<1> HIDE DEF x
<1>3. x # <<>>
  BY <1>1, <1>2
<1> QED BY <1>2, <1>3 DEF FirstOf, x

\* insertBefore and insertAfter in terms of rows.
LEMMA InsertedBesideRows ==
  ASSUME NEW t, NEW list, NEW done, TreeInv(t, list, done), NEW p \in Places, NEW n \in RowNodes,
         NEW u \in Rows, NEW v \in Rows, SplitAt(t.kids[p], u, n, v),
         NEW nodes \in Rows, AllOf(t.kids) \cap ToSet(nodes) = {}
  PROVE  /\ OnlyRow(InsertNodes(t, p, nodes, n).kids, t.kids, p, u \o ((nodes \o <<n>>) \o v))
         /\ OnlyRow(InsertNodes(t, p, nodes, FirstOf(v)).kids, t.kids, p, u \o ((<<n>> \o nodes) \o v))
<1>0. t.kids[p] = u \o (<<n>> \o v)
  BY DEF SplitAt
<1>1. t.kids \in [Places -> Rows] /\ OnePlaceEach(t.kids) /\ DOMAIN t.kids = Places
  BY DEF TreeInv, KidsInv
<1>2. \A reference : OnlyRow(InsertNodes(t, p, nodes, reference).kids, t.kids, p, Spliced(t.kids[p], nodes, reference))
  BY NewAddedToTree
<1>3. NoRepeats(u \o (<<n>> \o v))
  BY <1>0, <1>1 DEF OnePlaceEach
<1>4. /\ <<n>> \in Rows /\ <<n>> \o v \in Rows /\ u \o <<n>> \in Rows
      /\ u \o (<<n>> \o v) = (u \o <<n>>) \o v
      /\ nodes \o (<<n>> \o v) = (nodes \o <<n>>) \o v
      /\ (u \o <<n>>) \o (nodes \o v) = u \o ((<<n>> \o nodes) \o v)
  <2>1. AroundMiddle(u, n, v, nodes)
    BY MiddleRegrouped
  <2> QED BY <2>1 DEF AroundMiddle
<1>5. Spliced(t.kids[p], nodes, n) = u \o ((nodes \o <<n>>) \o v)
  <2> DEFINE w == <<n>> \o v
  <2>1. w \in Rows /\ NoRepeats(u \o w) /\ FirstOf(w) = n
    BY <1>3, <1>4, FirstOfJoin
  <2>2. t.kids[p] = u \o w /\ nodes \o w = (nodes \o <<n>>) \o v
    BY <1>0, <1>4
  <2> HIDE DEF w
  <2>3. Spliced(u \o w, nodes, FirstOf(w)) = u \o (nodes \o w)
    BY <2>1, RowSpliced
  <2> QED BY <2>1, <2>2, <2>3
<1>6. Spliced(t.kids[p], nodes, FirstOf(v)) = u \o ((<<n>> \o nodes) \o v)
  <2> DEFINE w == u \o <<n>>
  <2>1. w \in Rows /\ NoRepeats(w \o v) /\ t.kids[p] = w \o v /\ w \o (nodes \o v) = u \o ((<<n>> \o nodes) \o v)
    BY <1>0, <1>3, <1>4
  <2> HIDE DEF w
  <2>2. Spliced(w \o v, nodes, FirstOf(v)) = w \o (nodes \o v)
    BY <2>1, RowSpliced
  <2> QED BY <2>1, <2>2
<1> QED BY <1>2, <1>5, <1>6

IsParent(t, n, p) == ParentOf(t, n) = p
\* The next sibling of a node in its row.
LEMMA NextFound ==
  ASSUME NEW t, NEW list, NEW done, TreeInv(t, list, done), NEW n \in RowNodes, NEW p \in Places, IsParent(t, n, p),
         NEW u \in Rows, NEW v \in Rows, SplitAt(t.kids[p], u, n, v)
  PROVE  NextSibling(t, n) = FirstOf(v)
<1>1. t.kids[ParentOf(t, n)] = u \o (<<n>> \o v)
  BY DEF SplitAt, IsParent
<1>2. NoRepeats(t.kids[p])
  BY DEF TreeInv, KidsInv, OnePlaceEach
<1>3. NoRepeats(u \o (<<n>> \o v))
  BY <1>2 DEF SplitAt
<1>4. u \in Seq(RowNodes) /\ v \in Seq(RowNodes)
  BY RowsAreOfNodes
<1> QED BY <1>1, <1>3, <1>4, NextOf

\* replaceNode in terms of rows.
LEMMA ReplacedRows ==
  ASSUME NEW t, NEW list, NEW done, TreeInv(t, list, done), NEW n \in RowNodes, NEW p \in Places, IsParent(t, n, p),
         NEW u \in Rows, NEW v \in Rows, SplitAt(t.kids[p], u, n, v),
         NEW nodes \in Rows, AllOf(t.kids) \cap ToSet(nodes) = {}
  PROVE  OnlyRow(ReplaceChild(t, n, nodes).kids, t.kids, p, u \o (nodes \o v))
<1> DEFINE removed == RemoveChild(t, n)
           kids == [t.kids EXCEPT ![p] = u \o v]
<1>0. t.kids[p] = u \o (<<n>> \o v) /\ ParentOf(t, n) = p
  BY DEF SplitAt, IsParent
<1>1. t.kids \in [Places -> Rows] /\ OnePlaceEach(t.kids) /\ DOMAIN t.kids = Places
  BY DEF TreeInv, KidsInv
<1>2. NoRepeats(u \o (<<n>> \o v))
  BY <1>0, <1>1 DEF OnePlaceEach
<1>3. NextSibling(t, n) = FirstOf(v)
  BY NextFound
<1>4. removed.kids = kids
  <2> DEFINE rows == t.kids
  <2>1. removed.kids = RemovedFrom(rows, n)
    BY <1>1, RemoveChildRows
  <2>2. kids = [rows EXCEPT ![p] = u \o v] /\ SplitAt(rows[p], u, n, v) /\ rows \in [Places -> Rows] /\ OnePlaceEach(rows)
    BY <1>1
  <2> HIDE DEF rows, kids, removed
  <2>3. OnlyRow(RemovedFrom(rows, n), rows, p, u \o v)
    BY <2>2, ChildTaken
  <2> QED BY <2>1, <2>2, <2>3 DEF OnlyRow
<1>5. ReplaceChild(t, n, nodes) = InsertNodes(removed, p, nodes, FirstOf(v))
  BY <1>0, <1>3 DEF ReplaceChild
<1> HIDE DEF removed
<1>6. u \o v \in Rows /\ kids \in [Places -> Rows] /\ DOMAIN kids = Places /\ kids[p] = u \o v
  BY <1>1, JoinIsRow
<1>7. NoRepeats(u \o v)
  <2>1. Without(u \o (<<n>> \o v), <<n>>) = u \o v
    BY <1>2, WithoutOne, RowsAreOfNodes
  <2>2. u \o (<<n>> \o v) \in Seq(RowNodes)
    BY <1>0, <1>1, RowsAreOfNodes
  <2> DEFINE row == u \o (<<n>> \o v)
  <2>3. row \in Seq(RowNodes) /\ NoRepeats(row) /\ Without(row, <<n>>) = u \o v
    BY <1>2, <2>1, <2>2
  <2> HIDE DEF row
  <2>4. NoRepeats(Without(row, <<n>>))
    BY <2>3, WithoutKeeps
  <2> QED BY <2>3, <2>4
<1>8. AllOf(kids) \cap ToSet(nodes) = {}
  <2>1. ToSet(u \o v) \subseteq ToSet(t.kids[p])
    <3>1. <<n>> \o v \in Rows /\ ToSet(<<n>> \o v) = ToSet(<<n>>) \cup ToSet(v)
      BY OneIsRow, JoinIsRow
    <3>2. ToSet(u \o (<<n>> \o v)) = ToSet(u) \cup ToSet(<<n>> \o v) /\ ToSet(u \o v) = ToSet(u) \cup ToSet(v)
      BY <3>1, JoinIsRow
    <3> QED BY <1>0, <3>1, <3>2
  <2>2. \A q \in Places : ToSet(kids[q]) \subseteq ToSet(t.kids[q])
    BY <1>1, <1>6, <2>1
  <2> HIDE DEF kids
  <2> QED BY <2>2 DEF AllOf
<1>9. InsertNodes(removed, p, nodes, FirstOf(v)).kids = Inserted(kids, p, nodes, FirstOf(v))
  BY <1>4, <1>6, InsertNodesRows
<1>10. Spliced(kids[p], nodes, FirstOf(v)) = u \o (nodes \o v)
  BY <1>6, <1>7, RowSpliced
<1>11. Inserted(kids, p, nodes, FirstOf(v)) = [kids EXCEPT ![p] = u \o (nodes \o v)]
  <2> DEFINE reference == FirstOf(v)
  <2> HIDE DEF kids, reference
  <2>1. OnlyRow(Inserted(kids, p, nodes, reference), kids, p, Spliced(kids[p], nodes, reference))
    BY <1>6, <1>8, NewAdded
  <2>2. Spliced(kids[p], nodes, reference) = u \o (nodes \o v)
    BY <1>10 DEF reference
  <2> QED BY <2>1, <2>2 DEF reference, OnlyRow
<1>12. [kids EXCEPT ![p] = u \o (nodes \o v)] = [t.kids EXCEPT ![p] = u \o (nodes \o v)]
  BY <1>1
<1> QED BY <1>5, <1>9, <1>11, <1>12 DEF OnlyRow

\* Additions at the end and at the beginning of a row.
LEMMA AddedAtEnds ==
  ASSUME NEW t, NEW list, NEW done, TreeInv(t, list, done), NEW p \in Places,
         NEW nodes \in Rows, AllOf(t.kids) \cap ToSet(nodes) = {}
  PROVE  /\ OnlyRow(InsertNodes(t, p, nodes, NoNode).kids, t.kids, p, t.kids[p] \o nodes)
         /\ OnlyRow(InsertNodes(t, p, nodes, FirstChild(t, p)).kids, t.kids, p, nodes \o t.kids[p])
<1> DEFINE row == t.kids[p]
<1>1. t.kids \in [Places -> Rows] /\ OnePlaceEach(t.kids) /\ DOMAIN t.kids = Places
  BY DEF TreeInv, KidsInv
<1>2. \A reference : OnlyRow(InsertNodes(t, p, nodes, reference).kids, t.kids, p, Spliced(row, nodes, reference))
  BY NewAddedToTree
<1>3. row \in Rows /\ NoRepeats(row)
  BY <1>1 DEF OnePlaceEach
<1>4. FirstChild(t, p) = FirstOf(row)
  <2>1. row # <<>> => Head(row) = row[1]
    BY <1>3 DEF Rows
  <2> QED BY <2>1 DEF FirstChild, FirstOf
<1> HIDE DEF row
<1>5. row \o <<>> = row /\ <<>> \o row = row /\ nodes \o <<>> = nodes /\ <<>> \in Rows /\ nodes \o row \in Rows
  BY <1>3, NothingAdded, EmptyIsRow, JoinIsRow
<1>6. Spliced(row, nodes, NoNode) = row \o nodes
  <2>1. Spliced(row \o <<>>, nodes, FirstOf(<<>>)) = row \o (nodes \o <<>>)
    <3>1. NoRepeats(row \o <<>>)
      BY <1>3, <1>5
    <3>2. SplicesIn(row, <<>>, nodes)
      BY <1>3, <1>5, <3>1, RowSplices
    <3> QED BY <3>2 DEF SplicesIn
  <2>2. FirstOf(<<>>) = NoNode
    BY DEF FirstOf
  <2> QED BY <1>5, <2>1, <2>2
<1>7. Spliced(row, nodes, FirstOf(row)) = nodes \o row
  <2>1. Spliced(<<>> \o row, nodes, FirstOf(row)) = <<>> \o (nodes \o row)
    <3>1. NoRepeats(<<>> \o row)
      BY <1>3, <1>5
    <3>2. SplicesIn(<<>>, row, nodes)
      BY <1>3, <1>5, <3>1, RowSplices
    <3> QED BY <3>2 DEF SplicesIn
  <2>2. <<>> \o (nodes \o row) = nodes \o row
    BY <1>5, NothingAdded
  <2> QED BY <1>5, <2>1, <2>2
<1> QED BY <1>2, <1>4, <1>6, <1>7 DEF row

\* The content of a primitive that has not been applied is in no row.
LEMMA ContentNowhere ==
  ASSUME NEW t, NEW i \in Nat, NEW count \in Nat, Untouched(t, i)
  PROVE  AllOf(t.kids) \cap ToSet(Content(i, count)) = {}
BY ContentIsNew DEF Untouched

\* A primitive whose turn it is, and what may be said of those before it when no rename clashes.
Ready(t, list, done, i) ==
  /\ list \in Seq(Primitives) /\ Len(list) <= MaxUpdates
  /\ done \in SUBSET DOMAIN list /\ i \in DOMAIN list /\ i \notin done
  /\ \A j \in DOMAIN list : RightTarget(list[j])
  /\ OnceEach(list)
  /\ TreeInv(t, list, done)
  /\ \A j \in done : \/ Phase(list[j].type) < Phase(list[i].type)
                     \/ Phase(list[j].type) = Phase(list[i].type) /\ j < i
  /\ \A j \in done : list[j].type = "rename" =>
       /\ list[j].target # list[i].target
       /\ list[j].target \in Elements => list[i].target \notin Ids(Attrs[list[j].target])
  /\ RowsAsDeclared(t.kids, list, done)

\* What may be said of any list that has been applied so far.
Settled(t, list, done) ==
  /\ list \in Seq(Primitives) /\ done \in SUBSET DOMAIN list
  /\ OnceEach(list)
  /\ TreeInv(t, list, done)
  /\ RowsAsDeclared(t.kids, list, done)
\* Before a primitive it may be said as well.
LEMMA ReadyIsSettled ==
  ASSUME NEW t, NEW list, NEW done, NEW i, Ready(t, list, done, i)
  PROVE  Settled(t, list, done)
BY DEF Ready, Settled

\* What follows from readiness for types, and for the tree.
LEMMA ReadyTypes ==
  ASSUME NEW t, NEW list, NEW done, NEW i, Ready(t, list, done, i)
  PROVE  /\ list \in Seq(Primitives) /\ done \in SUBSET DOMAIN list /\ i \in DOMAIN list /\ i \notin done
         /\ done \cup {i} \in SUBSET DOMAIN list
         /\ i \in Nat /\ i \in Updates /\ list[i] \in Primitives /\ list[i].target \in Nodes /\ list[i].nodes \in Nat
         /\ \A j \in done : j \in Nat /\ j \in Updates /\ j # i
         /\ TreeInv(t, list, done) /\ TreeInv(t, list, done \cup {i}) /\ Untouched(t, i)
<1>1. list \in Seq(Primitives) /\ Len(list) <= MaxUpdates /\ Len(list) \in Nat /\ MaxUpdates \in Nat
      /\ DOMAIN list = 1 .. Len(list) /\ done \in SUBSET DOMAIN list /\ i \in DOMAIN list /\ i \notin done
  BY MaxUpdatesIsNat DEF Ready
<1>2. \A j \in DOMAIN list : j \in Nat /\ j \in Updates /\ list[j] \in Primitives
  BY <1>1 DEF Updates
<1>3. list[i].target \in Nodes /\ list[i].nodes \in Nat
  BY <1>1, <1>2 DEF Primitives
<1>4. TreeInv(t, list, done) /\ TreeInv(t, list, done \cup {i}) /\ Untouched(t, i)
  BY <1>1, Begun DEF Ready
<1> QED BY <1>1, <1>2, <1>3, <1>4

\* No primitive of a later phase has been applied.
LEMMA NotYet ==
  ASSUME NEW t, NEW list, NEW done, NEW i, Ready(t, list, done, i), NEW type, NEW target,
         Phase(list[i].type) < Phase(type)
  PROVE  Of(list, done, type, target) = {}
<1> SUFFICES ASSUME NEW j \in Of(list, done, type, target)
             PROVE  FALSE
  OBVIOUS
<1>1. j \in done /\ list[j].type = type
  BY DEF Of
<1>2. \A x : Phase(x) \in Nat
  BY DEF Phase
<1>3. Phase(list[j].type) < Phase(list[i].type) \/ Phase(list[j].type) = Phase(list[i].type)
  BY <1>1 DEF Ready
<1> DEFINE a == Phase(list[i].type)
           b == Phase(type)
<1>4. a \in Nat /\ b \in Nat /\ a < b /\ (b < a \/ b = a)
  BY <1>1, <1>2, <1>3
<1> HIDE DEF a, b
<1> QED BY <1>4

\* The primitives of one type are applied in the order of the list.
LEMMA ReadyEarlier ==
  ASSUME NEW t, NEW list, NEW done, NEW i, Ready(t, list, done, i)
  PROVE  Earlier(list, done, i)
<1> SUFFICES ASSUME NEW j \in done, list[j].type = list[i].type
             PROVE  j < i
  BY DEF Earlier
<1>1. \A x : Phase(x) \in Nat
  BY DEF Phase
<1>2. Phase(list[j].type) < Phase(list[i].type) \/ (Phase(list[j].type) = Phase(list[i].type) /\ j < i)
  BY DEF Ready
<1> DEFINE a == Phase(list[i].type)
<1>3. a \in Nat /\ (a < a \/ j < i)
  BY <1>1, <1>2
<1> HIDE DEF a
<1> QED BY <1>3

\* The target of a primitive whose turn it is has not been renamed.
LEMMA TargetNotRenamed ==
  ASSUME NEW t, NEW list, NEW done, NEW i, Ready(t, list, done, i)
  PROVE  Of(list, done, "rename", list[i].target) = {}
BY DEF Ready, Of

OnceTypes == {"rename", "replaceNode", "replaceValue", "replaceElementContent"}
\* Of the types that are compatible with no other of their type, none was applied to the same
\* target.
LEMMA TargetOnce ==
  ASSUME NEW t, NEW list, NEW done, NEW i, Ready(t, list, done, i), list[i].type \in OnceTypes
  PROVE  Of(list, done, list[i].type, list[i].target) = {}
<1> SUFFICES ASSUME NEW j \in Of(list, done, list[i].type, list[i].target)
             PROVE  FALSE
  OBVIOUS
<1>1. j \in done /\ j \in DOMAIN list /\ list[j].type = list[i].type /\ list[j].target = list[i].target
  BY ReadyTypes DEF Of
<1>2. j = i
  BY <1>1, ReadyTypes DEF Ready, OnceEach, OnceTypes
<1> QED BY <1>1, <1>2, ReadyTypes

\* So there is only one of such a type and target.
LEMMA OneOf ==
  ASSUME NEW t, NEW list, NEW done, Settled(t, list, done), NEW type \in OnceTypes, NEW j \in done,
         list[j].type = type
  PROVE  Of(list, done, type, list[j].target) = {j}
<1>1. ASSUME NEW k \in Of(list, done, type, list[j].target)
      PROVE  k = j
  <2>1. k \in DOMAIN list /\ j \in DOMAIN list /\ list[k].type = type /\ list[k].target = list[j].target
    BY DEF Of, Settled
  <2> QED BY <2>1 DEF Settled, OnceEach, OnceTypes
<1>2. j \in Of(list, done, type, list[j].target)
  BY DEF Of
<1> QED BY <1>1, <1>2

-----------------------------------------------------------------------------
(* Places. *)

\* The place of an element is its own, or that of the element that took it, and tells the element.
LEMMA PlaceIs ==
  ASSUME NEW t, NEW list, NEW done, NEW i, Ready(t, list, done, i), NEW e \in ElementLike
  PROVE  /\ PlaceOf(list, done, e) \in Places
         /\ OriginIn(list, PlaceOf(list, done, e)) = e
         /\ PlaceOf(list, done, e) \in ElementLike => PlaceOf(list, done, e) = e
         /\ PlaceOf(list, done, e) # Renamed(i)
         /\ PlaceOf(list, done, list[i].target) = list[i].target
<1> DEFINE j == The(Of(list, done, "rename", e))
           p == PlaceOf(list, done, e)
<1>1. p = IF Of(list, done, "rename", e) = {} THEN e ELSE Renamed(j)
  BY DEF PlaceOf
<1>2. Of(list, done, "rename", e) # {} => j \in done /\ list[j].type = "rename" /\ list[j].target = e
  BY OfMembers
<1> HIDE DEF j, p
<1>3. Renamed(i) \notin ElementLike
  BY RenamedIsNew DEF ElementLike
<1>4. CASE Of(list, done, "rename", e) = {}
  <2>1. p = e /\ p \in Places /\ OriginIn(list, p) = e /\ p # Renamed(i)
    BY <1>1, <1>3, <1>4, ElementOrigin DEF Places
  <2> QED BY <2>1, TargetNotRenamed DEF p, PlaceOf
<1>5. CASE Of(list, done, "rename", e) # {}
  <2>1. p = Renamed(j) /\ j \in done /\ list[j].target = e
    BY <1>1, <1>2, <1>5
  <2>2. j \in Updates /\ j # i
    BY <2>1, ReadyTypes
  <2>3. p \in Places /\ OriginIn(list, p) = e /\ p \notin ElementLike /\ p # Renamed(i)
    BY <2>1, <2>2, RenamedOrigin, RenamedIsNew DEF Places, ElementLike
  <2> QED BY <2>3, TargetNotRenamed DEF p, PlaceOf
<1> QED BY <1>4, <1>5

\* Two elements have two places.
LEMMA PlacesDiffer ==
  ASSUME NEW t, NEW list, NEW done, NEW i, Ready(t, list, done, i), NEW e \in ElementLike, NEW f \in ElementLike, e # f
  PROVE  PlaceOf(list, done, e) # PlaceOf(list, done, f) /\ PlaceOf(list, done, e) # f
<1>1. OriginIn(list, PlaceOf(list, done, e)) = e /\ OriginIn(list, PlaceOf(list, done, f)) = f
  BY PlaceIs
<1>2. OriginIn(list, f) = f
  BY ElementOrigin
<1> QED BY <1>1, <1>2

\* Who has children is the place of its origin.
LEMMA PlaceKnown ==
  ASSUME NEW t, NEW list, NEW done, Settled(t, list, done), NEW p \in Places, NEW c \in ToSet(t.kids[p])
  PROVE  \E e \in ElementLike : p = PlaceOf(list, done, e)
<1>1. p \in InUse(list, done)
  BY DEF Settled, TreeInv, KidsInv, UnderTheirOrigin
<1>2. CASE p \in ElementLike
  <2>1. PlaceOf(list, done, p) # p => t.kids[p] = <<>>
    BY <1>2 DEF Settled, RowsAsDeclared
  <2>2. t.kids[p] # <<>>
    BY EmptyIsRow
  <2> QED BY <1>2, <2>1, <2>2
<1>3. CASE p \notin ElementLike
  <2>1. PICK j \in done : list[j].type = "rename" /\ list[j].target \in Elements /\ p = Renamed(j)
    BY <1>1, <1>3 DEF InUse
  <2>2. Of(list, done, "rename", list[j].target) = {j}
    BY <2>1, OneOf DEF OnceTypes
  <2>3. PlaceOf(list, done, list[j].target) = p
    BY <2>1, <2>2, TheOnly DEF PlaceOf
  <2>4. list[j].target \in ElementLike
    BY <2>1 DEF Elements, ElementLike
  <2> QED BY <2>3, <2>4
<1> QED BY <1>2, <1>3

\* A node of the caller that is a child is one of the children of the element whose place its parent has.
ChildOf(t, list, done, n, e) ==
  /\ n \in ToSet(Kids[e]) /\ Standing(list, done, n) /\ Of(list, done, "replaceElementContent", e) = {}
  /\ n \in ToSet(t.kids[PlaceOf(list, done, e)])
\* Such a child is known with its parent.
LEMMA ChildKnown ==
  ASSUME NEW t, NEW list, NEW done, Settled(t, list, done), NEW n \in Children, NEW p \in Places,
         n \in ToSet(t.kids[p])
  PROVE  \E e \in ElementLike : p = PlaceOf(list, done, e) /\ ChildOf(t, list, done, n, e)
<1>1. PICK e \in ElementLike : p = PlaceOf(list, done, e)
  BY PlaceKnown
<1>2. t.kids[p] = DeclaredKids(list, done, e)
  BY <1>1 DEF Settled, RowsAsDeclared
<1>3. MayBeDeclared(list, done, e, n)
  BY <1>2, WhoIsThere DEF Settled
<1>4. n \in Nodes
  BY DEF Children
<1>5. \A j : n # Renamed(j)
  BY <1>4, RenamedIsNew
<1>6. n \in ToSet(Kids[e]) /\ Standing(list, done, n) /\ Of(list, done, "replaceElementContent", e) = {}
  BY <1>3, <1>4, <1>5 DEF MayBeDeclared, Brought1
<1> QED BY <1>1, <1>6 DEF ChildOf

\* A node is among the children of one element at most, and not among its own.
LEMMA OneParent ==
  ASSUME NEW e \in ElementLike, NEW n \in ToSet(Kids[e])
  PROVE  /\ n \in Children /\ n # e
         /\ \A f \in ElementLike \ {e} : n \notin ToSet(Kids[f])
         /\ ParentOf(InitialTree, n) # NoNode
<1>1. n \in Children /\ n \in Nodes
  <2>1. Kids[e] \in Seq(Children)
    BY ChildrenRow
  <2> QED BY <2>1 DEF ToSet, Children
<1>2. \A f \in ElementLike : f \in Parents(InitialTree) /\ InitialTree.kids[f] = Kids[f]
  BY DEF InitialTree, Parents
<1>3. IsForest(InitialTree)
  BY CallersTree
<1>4. n # e
  <2>1. {e} \in SUBSET Parents(InitialTree) /\ {e} # {}
    BY <1>2
  <2>2. ToSet(InitialTree.kids[e]) \cap {e} = {}
    BY <1>3, <2>1 DEF IsForest
  <2> QED BY <1>2, <2>2
<1>5. ASSUME NEW f \in ElementLike, f # e
      PROVE  n \notin ToSet(Kids[f])
  <2>1. ToSet(InitialTree.kids[e]) \cap ToSet(InitialTree.kids[f]) = {}
    BY <1>2, <1>3, <1>5 DEF IsForest
  <2> QED BY <1>2, <2>1
<1>6. Owned(InitialTree, n)
  BY <1>2 DEF Owned, Places
<1>7. ParentOf(InitialTree, n) # NoNode
  BY <1>1, <1>6, InitialTreeGood, ParentIsOwner
<1> QED BY <1>1, <1>4, <1>5, <1>7

\* The place of an element changes only with its rename.
LEMMA PlaceStays ==
  ASSUME NEW list, NEW done, NEW i, NEW e, list[i].type = "rename" => list[i].target # e
  PROVE  PlaceOf(list, done \cup {i}, e) = PlaceOf(list, done, e)
<1>1. Of(list, done \cup {i}, "rename", e) = Of(list, done, "rename", e)
  BY OfOther
<1> QED BY <1>1 DEF PlaceOf

\* No row changes, and no declared row.
LEMMA RowsLeft ==
  ASSUME NEW t, NEW list, NEW done, NEW i, Ready(t, list, done, i),
         list[i].type = "rename" => list[i].target \notin ElementLike,
         \A e \in ElementLike : DeclaredKids(list, done \cup {i}, e) = DeclaredKids(list, done, e)
  PROVE  RowsAsDeclared(t.kids, list, done \cup {i})
<1>1. \A e \in ElementLike : PlaceOf(list, done \cup {i}, e) = PlaceOf(list, done, e)
  BY PlaceStays
<1>2. RowsAsDeclared(t.kids, list, done)
  BY DEF Ready
<1> QED BY <1>1, <1>2 DEF RowsAsDeclared

\* The primitive says nothing of the rows of other elements than e.
Elsewhere(list, i, e) ==
  \A f \in ElementLike \ {e} :
    /\ list[i].type \in ListTypes => list[i].target # f
    /\ list[i].type \in PlaceTypes => list[i].target \notin ToSet(Kids[f])

\* One row changes, to what is declared.
LEMMA RowsStep ==
  ASSUME NEW t, NEW list, NEW done, NEW i, Ready(t, list, done, i), NEW new, NEW e \in ElementLike, NEW row,
         list[i].type = "rename" => list[i].target \notin ElementLike, Elsewhere(list, i, e),
         OnlyRow(new, t.kids, PlaceOf(list, done, e), row), row = DeclaredKids(list, done \cup {i}, e)
  PROVE  RowsAsDeclared(new, list, done \cup {i})
<1> DEFINE p == PlaceOf(list, done, e)
           more == done \cup {i}
<1>1. p \in Places /\ (p \in ElementLike => p = e)
  BY PlaceIs
<1>2. new = [t.kids EXCEPT ![p] = row] /\ DOMAIN t.kids = Places
  <2>1. TreeInv(t, list, done)
    BY ReadyTypes
  <2>2. DOMAIN t.kids = Places
    BY <2>1, TreePlaces
  <2>3. new = [t.kids EXCEPT ![p] = row]
    BY DEF OnlyRow
  <2> QED BY <2>2, <2>3
<1>3. new[p] = row /\ \A q \in Places : q # p => new[q] = t.kids[q]
  BY <1>1, <1>2
<1>4. \A f \in ElementLike : PlaceOf(list, more, f) = PlaceOf(list, done, f)
  BY PlaceStays
<1>5. RowsAsDeclared(t.kids, list, done)
  BY DEF Ready
<1>6. new[PlaceOf(list, more, e)] = DeclaredKids(list, more, e)
  BY <1>3, <1>4
<1>7. ASSUME NEW f \in ElementLike, f # e
      PROVE  new[PlaceOf(list, more, f)] = DeclaredKids(list, more, f)
  <2>1. PlaceOf(list, done, f) # p /\ PlaceOf(list, done, f) \in Places
    BY <1>7, PlacesDiffer, PlaceIs
  <2>2. new[PlaceOf(list, done, f)] = t.kids[PlaceOf(list, done, f)]
    BY <1>3, <2>1
  <2>3. DeclaredKids(list, more, f) = DeclaredKids(list, done, f)
    BY <1>7, DeclaredSame DEF Elsewhere
  <2> QED BY <1>4, <1>5, <2>2, <2>3 DEF RowsAsDeclared
<1>8. ASSUME NEW f \in ElementLike, PlaceOf(list, more, f) # f
      PROVE  new[f] = <<>> /\ ParentOf(InitialTree, f) # NoNode
  <2>1. PlaceOf(list, done, f) # f
    BY <1>4, <1>8
  <2>2. t.kids[f] = <<>> /\ ParentOf(InitialTree, f) # NoNode
    BY <1>5, <2>1 DEF RowsAsDeclared
  <2>3. f # p
    BY <1>1, <2>1
  <2>4. f \in Places
    BY DEF Places
  <2> QED BY <1>3, <2>2, <2>3, <2>4
<1> QED BY <1>6, <1>7, <1>8 DEF RowsAsDeclared

-----------------------------------------------------------------------------
(* The actions, for the rows. *)

\* insertInto, insertIntoAsLast, insertIntoAsFirst
LEMMA InsertIntoRows ==
  ASSUME NEW t, NEW list, NEW done, NEW i, Ready(t, list, done, i), list[i].type \in Into
  PROVE  LET nodes == Content(i, list[i].nodes)
             e == list[i].target
         IN RowsAsDeclared(InsertNodes(t, e, nodes,
             IF list[i].type = "insertIntoAsFirst" THEN FirstChild(t, e) ELSE NoNode).kids,
                           list, done \cup {i})
<1> DEFINE e == list[i].target
           nodes == Content(i, list[i].nodes)
           reference == IF list[i].type = "insertIntoAsFirst" THEN FirstChild(t, e) ELSE NoNode
           row == IF list[i].type = "insertIntoAsFirst" THEN nodes \o t.kids[e] ELSE t.kids[e] \o nodes
           new == InsertNodes(t, e, nodes, reference).kids
<1>1. e \in ElementLike /\ e \in Places
  BY DEF Ready, RightTarget, Places
<1>2. PlaceOf(list, done, e) = e
  BY <1>1, PlaceIs
<1>3. nodes \in Rows /\ AllOf(t.kids) \cap ToSet(nodes) = {}
  <2>1. i \in Nat /\ list[i].nodes \in Nat /\ Untouched(t, i)
    BY ReadyTypes
  <2> QED BY <2>1, ContentNowhere, ContentIsNew
<1>4. OnlyRow(new, t.kids, e, row)
  <2>1. TreeInv(t, list, done)
    BY ReadyTypes
  <2> HIDE DEF e, nodes
  <2> QED BY <1>1, <1>3, <2>1, AddedAtEnds
<1>5. Of(list, done, "replaceElementContent", e) = {}
  BY NotYet DEF Phase, Into
<1>6. list[i].type = "insertInto" => Of(list, done, "insertIntoAsLast", e) = {}
  BY NotYet DEF Phase
<1>7. t.kids[e] = DeclaredKids(list, done, e)
  BY <1>1, <1>2 DEF Ready, RowsAsDeclared
<1>8. DeclaredKids(list, done \cup {i}, e) = row
  <2>1. list \in Seq(Primitives) /\ done \in SUBSET DOMAIN list /\ i \in DOMAIN list /\ Earlier(list, done, i)
    BY ReadyTypes, ReadyEarlier
  <2>2. DeclaredKids(list, done \cup {i}, e) = WithMore(list, i, DeclaredKids(list, done, e))
    <3>1. list[i].target = e
      OBVIOUS
    <3> HIDE DEF e
    <3> QED BY <1>1, <1>5, <1>6, <2>1, <3>1, DeclaredInto
  <2> QED BY <1>7, <2>2 DEF WithMore
<1>9. Elsewhere(list, i, e)
  BY DEF Elsewhere, PlaceTypes, Into, Beside
<1>10. RowsAsDeclared(new, list, done \cup {i})
  <2>1. OnlyRow(new, t.kids, PlaceOf(list, done, e), row) /\ list[i].type # "rename"
    BY <1>2, <1>4 DEF Into
  <2> HIDE DEF new, row, e
  <2> QED BY <1>1, <1>8, <1>9, <2>1, RowsStep
<1> QED BY <1>10

\* What a primitive on the place of a child finds.
PlaceWork(t, list, done, i, e) ==
  LET n == list[i].target IN
  /\ e \in ElementLike /\ n \in ToSet(Kids[e]) /\ n \in RowNodes /\ n \in Children /\ n \in Nodes
  /\ IsParent(t, n, PlaceOf(list, done, e))
  /\ PlaceOf(list, done, e) \in Places
  /\ Elsewhere(list, i, e)
  /\ RowExchanged(t.kids[PlaceOf(list, done, e)], DeclaredKids(list, done \cup {i}, e), n, Instead(list, i))
\* A primitive on a child that is there finds all this.
LEMMA PlaceFoundAtWork ==
  ASSUME NEW t, NEW list, NEW done, NEW i, Ready(t, list, done, i), list[i].type \in PlaceTypes,
         list[i].target \in Children, ParentOf(t, list[i].target) # NoNode
  PROVE  \E e \in ElementLike : PlaceWork(t, list, done, i, e)
<1> DEFINE n == list[i].target
           p == ParentOf(t, n)
<1>1. n \in Nodes /\ n \in Children /\ n \in RowNodes
  BY ReadyTypes DEF RowNodes
<1>2. p \in Places /\ n \in ToSet(t.kids[p])
  BY <1>1, ReadyTypes, ParentIsOwner
<1> HIDE DEF p
<1>3. PICK e \in ElementLike : p = PlaceOf(list, done, e) /\ ChildOf(t, list, done, n, e)
  BY <1>1, <1>2, ReadyIsSettled, ChildKnown
<1>4. n \in ToSet(Kids[e]) /\ Standing(list, done, n) /\ Of(list, done, "replaceElementContent", e) = {}
  BY <1>3 DEF ChildOf
<1>5. RowExchanged(DeclaredKids(list, done, e), DeclaredKids(list, done \cup {i}, e), n, Instead(list, i))
  BY <1>4, ReadyTypes, ReadyEarlier, DeclaredExchanged
<1>6. t.kids[p] = DeclaredKids(list, done, e)
  BY <1>3 DEF Ready, RowsAsDeclared
<1>7. Elsewhere(list, i, e)
  BY <1>4, OneParent DEF Elsewhere, PlaceTypes, ListTypes, Into, Beside
<1>8. PlaceWork(t, list, done, i, e)
  BY <1>1, <1>2, <1>3, <1>4, <1>5, <1>6, <1>7 DEF PlaceWork, IsParent, p
<1> QED BY <1>8

\* insertBefore and insertAfter
LEMMA InsertBesideRow ==
  ASSUME NEW t, NEW list, NEW done, NEW i, Ready(t, list, done, i), list[i].type \in Beside,
         list[i].target \in Children, ParentOf(t, list[i].target) # NoNode
  PROVE  LET n == list[i].target
         IN RowsAsDeclared(InsertNodes(t, ParentOf(t, n), Content(i, list[i].nodes),
                                       IF list[i].type = "insertBefore" THEN n ELSE NextSibling(t, n)).kids,
                           list, done \cup {i})
<1> DEFINE n == list[i].target
           p == ParentOf(t, n)
           nodes == Content(i, list[i].nodes)
           reference == IF list[i].type = "insertBefore" THEN n ELSE NextSibling(t, n)
           new == InsertNodes(t, p, nodes, reference).kids
<1>1. list[i].type \in PlaceTypes
  BY DEF PlaceTypes
<1>2. PICK e \in ElementLike : PlaceWork(t, list, done, i, e)
  BY <1>1, PlaceFoundAtWork
<1>3. /\ n \in ToSet(Kids[e]) /\ n \in RowNodes /\ p = PlaceOf(list, done, e) /\ p \in Places /\ Elsewhere(list, i, e)
      /\ RowExchanged(t.kids[p], DeclaredKids(list, done \cup {i}, e), n, Instead(list, i))
  BY <1>2 DEF PlaceWork, IsParent
<1>4. PICK u, v \in Rows : /\ t.kids[p] = u \o (<<n>> \o v)
                          /\ DeclaredKids(list, done \cup {i}, e) = u \o (Instead(list, i) \o v)
  BY <1>3 DEF RowExchanged
<1>5. nodes \in Rows /\ AllOf(t.kids) \cap ToSet(nodes) = {}
  <2>1. i \in Nat /\ list[i].nodes \in Nat /\ Untouched(t, i)
    BY ReadyTypes
  <2> QED BY <2>1, ContentNowhere, ContentIsNew
<1>6. SplitAt(t.kids[p], u, n, v) /\ TreeInv(t, list, done) /\ IsParent(t, n, p)
  BY <1>4, ReadyTypes DEF SplitAt, IsParent
<1>7. NextSibling(t, n) = FirstOf(v)
  <2> HIDE DEF n, p
  <2> QED BY <1>3, <1>6, NextFound
<1>8. /\ OnlyRow(InsertNodes(t, p, nodes, n).kids, t.kids, p, u \o ((nodes \o <<n>>) \o v))
      /\ OnlyRow(InsertNodes(t, p, nodes, FirstOf(v)).kids, t.kids, p, u \o ((<<n>> \o nodes) \o v))
  <2> HIDE DEF n, p, nodes
  <2> QED BY <1>3, <1>5, <1>6, InsertedBesideRows
<1>9. Instead(list, i) = IF list[i].type = "insertBefore" THEN nodes \o <<n>> ELSE <<n>> \o nodes
  BY DEF Instead, Beside
<1> DEFINE row == u \o (Instead(list, i) \o v)
<1>10. OnlyRow(new, t.kids, p, row)
  <2>1. CASE list[i].type = "insertBefore"
    BY <1>8, <1>9, <2>1
  <2>2. CASE list[i].type # "insertBefore"
    BY <1>7, <1>8, <1>9, <2>2
  <2> QED BY <2>1, <2>2
<1>11. OnlyRow(new, t.kids, PlaceOf(list, done, e), row) /\ list[i].type # "rename"
  BY <1>3, <1>10 DEF Beside
<1>12. RowsAsDeclared(new, list, done \cup {i})
  <2>1. row = DeclaredKids(list, done \cup {i}, e)
    BY <1>4
  <2> HIDE DEF new, row, n, p
  <2> QED BY <1>3, <1>11, <2>1, RowsStep
<1> QED BY <1>12

\* A child that gives its place to content.
LEMMA ChildReplacedRow ==
  ASSUME NEW t, NEW list, NEW done, NEW i, Ready(t, list, done, i), list[i].type \in PlaceTypes,
         list[i].target \in Children, ParentOf(t, list[i].target) # NoNode,
         list[i].type = "rename" => list[i].target \notin ElementLike,
         NEW count \in Nat, Instead(list, i) = Content(i, count)
  PROVE  RowsAsDeclared(ReplaceChild(t, list[i].target, Content(i, count)).kids, list, done \cup {i})
<1> DEFINE n == list[i].target
           p == ParentOf(t, n)
           nodes == Content(i, count)
           new == ReplaceChild(t, n, nodes).kids
<1>2. PICK e \in ElementLike : PlaceWork(t, list, done, i, e)
  BY PlaceFoundAtWork
<1>3. /\ n \in RowNodes /\ IsParent(t, n, p) /\ p = PlaceOf(list, done, e) /\ p \in Places /\ Elsewhere(list, i, e)
      /\ RowExchanged(t.kids[p], DeclaredKids(list, done \cup {i}, e), n, Instead(list, i))
  BY <1>2 DEF PlaceWork, IsParent
<1>4. PICK u, v \in Rows : /\ t.kids[p] = u \o (<<n>> \o v)
                          /\ DeclaredKids(list, done \cup {i}, e) = u \o (Instead(list, i) \o v)
  BY <1>3 DEF RowExchanged
<1>5. nodes \in Rows /\ AllOf(t.kids) \cap ToSet(nodes) = {}
  <2>1. i \in Nat /\ Untouched(t, i)
    BY ReadyTypes
  <2> QED BY <2>1, ContentNowhere, ContentIsNew
<1>6. SplitAt(t.kids[p], u, n, v) /\ TreeInv(t, list, done)
  BY <1>4, ReadyTypes DEF SplitAt
<1> DEFINE row == u \o (nodes \o v)
<1>7. OnlyRow(new, t.kids, p, row)
  <2> HIDE DEF n, p, nodes
  <2> QED BY <1>3, <1>5, <1>6, ReplacedRows
<1>8. row = DeclaredKids(list, done \cup {i}, e)
  <2>1. Instead(list, i) = nodes
    OBVIOUS
  <2> QED BY <1>4, <2>1
<1>9. RowsAsDeclared(new, list, done \cup {i})
  <2>1. OnlyRow(new, t.kids, PlaceOf(list, done, e), row)
    BY <1>3, <1>7
  <2> HIDE DEF new, row, n, p
  <2> QED BY <1>3, <1>8, <2>1, RowsStep
<1> QED BY <1>9

\* replaceNode on a child
LEMMA ReplaceNodeRow ==
  ASSUME NEW t, NEW list, NEW done, NEW i, Ready(t, list, done, i), list[i].type = "replaceNode",
         list[i].target \in Children, ParentOf(t, list[i].target) # NoNode
  PROVE  RowsAsDeclared(ReplaceChild(t, list[i].target, Content(i, list[i].nodes)).kids, list, done \cup {i})
<1>1. list[i].type \in PlaceTypes
  BY DEF PlaceTypes
<1>2. Instead(list, i) = Content(i, list[i].nodes)
  BY DEF Instead
<1>3. list[i].nodes \in Nat
  BY ReadyTypes
<1> QED BY <1>1, <1>2, <1>3, ChildReplacedRow

\* rename on a processing instruction
LEMMA RenameInstructionRow ==
  ASSUME NEW t, NEW list, NEW done, NEW i, Ready(t, list, done, i), list[i].type = "rename",
         list[i].target \in Children, list[i].target \notin ElementLike, ParentOf(t, list[i].target) # NoNode
  PROVE  RowsAsDeclared(ReplaceChild(t, list[i].target, Content(i, 1)).kids, list, done \cup {i})
<1>1. list[i].type \in PlaceTypes
  BY DEF PlaceTypes
<1>2. list[i].target \notin Elements
  BY DEF Elements, ElementLike
<1>3. Instead(list, i) = Content(i, 1)
  BY <1>2 DEF Instead, RenamedTo
<1> QED BY <1>1, <1>3, ChildReplacedRow

\* delete of a child that is there
LEMMA DeleteRow ==
  ASSUME NEW t, NEW list, NEW done, NEW i, Ready(t, list, done, i), list[i].type = "delete",
         list[i].target \in Children, ParentOf(t, list[i].target) # NoNode
  PROVE  RowsAsDeclared(RemoveChild(t, list[i].target).kids, list, done \cup {i})
<1> DEFINE n == list[i].target
           p == ParentOf(t, n)
           new == RemoveChild(t, n).kids
           rows == t.kids
<1>1. list[i].type \in PlaceTypes
  BY DEF PlaceTypes
<1>2. PICK e \in ElementLike : PlaceWork(t, list, done, i, e)
  BY <1>1, PlaceFoundAtWork
<1>3. /\ n \in RowNodes /\ p = PlaceOf(list, done, e) /\ p \in Places /\ Elsewhere(list, i, e)
      /\ RowExchanged(t.kids[p], DeclaredKids(list, done \cup {i}, e), n, Instead(list, i))
  BY <1>2 DEF PlaceWork, IsParent
<1>4. PICK u, v \in Rows : /\ t.kids[p] = u \o (<<n>> \o v)
                          /\ DeclaredKids(list, done \cup {i}, e) = u \o (Instead(list, i) \o v)
  BY <1>3 DEF RowExchanged
<1>5. SplitAt(rows[p], u, n, v) /\ rows \in [Places -> Rows] /\ OnePlaceEach(rows) /\ DOMAIN t.kids = Places
  BY <1>4, ReadyTypes DEF SplitAt, TreeInv, KidsInv
<1> DEFINE row == u \o v
<1>6. new = RemovedFrom(rows, n)
  BY <1>5, RemoveChildRows
<1>7. OnlyRow(RemovedFrom(rows, n), rows, p, row)
  <2> HIDE DEF n, p, rows
  <2> QED BY <1>3, <1>5, ChildTaken
<1>8. row = DeclaredKids(list, done \cup {i}, e)
  <2>1. Instead(list, i) = <<>>
    BY DEF Instead
  <2>2. <<>> \o v = v
    BY NothingAdded
  <2> QED BY <1>4, <2>1, <2>2
<1>9. RowsAsDeclared(new, list, done \cup {i})
  <2>1. OnlyRow(new, t.kids, PlaceOf(list, done, e), row)
    BY <1>3, <1>6, <1>7
  <2> HIDE DEF new, row, n, p
  <2> QED BY <1>3, <1>8, <2>1, RowsStep
<1> QED BY <1>9

\* delete of a node that is not there
LEMMA DeleteNothing ==
  ASSUME NEW t, NEW list, NEW done, NEW i, Ready(t, list, done, i), list[i].type = "delete",
         list[i].target \in Children => ParentOf(t, list[i].target) = NoNode
  PROVE  RowsAsDeclared(t.kids, list, done \cup {i})
<1> DEFINE n == list[i].target
<1>1. ASSUME NEW e \in ElementLike, n \in ToSet(Kids[e]), Standing(list, done, n),
             Of(list, done, "replaceElementContent", e) = {}
      PROVE  FALSE
  <2>1. n \in Children /\ n \in Nodes
    BY <1>1, OneParent, ReadyTypes
  <2>2. n \in ToSet(DeclaredKids(list, done, e))
    BY <1>1, ReadyTypes, WhoIsThere
  <2>3. t.kids[PlaceOf(list, done, e)] = DeclaredKids(list, done, e) /\ PlaceOf(list, done, e) \in Places
    BY PlaceIs DEF Ready, RowsAsDeclared
  <2>4. Owned(t, n)
    BY <2>2, <2>3 DEF Owned
  <2>5. TreeInv(t, list, done) /\ ParentOf(t, n) = NoNode
    BY <2>1, ReadyTypes
  <2> HIDE DEF n
  <2> QED BY <2>1, <2>4, <2>5, ParentIsOwner
<1>2. Of(list, done, "rename", n) = {}
  BY TargetNotRenamed
<1>3. ASSUME NEW e \in ElementLike
      PROVE  DeclaredKids(list, done \cup {i}, e) = DeclaredKids(list, done, e)
  BY <1>1, <1>2, DeletedAlready
<1> QED BY <1>3, RowsLeft

\* replaceElementContent
LEMMA ReplaceContentRow ==
  ASSUME NEW t, NEW list, NEW done, NEW i, Ready(t, list, done, i), list[i].type = "replaceElementContent"
  PROVE  LET e == list[i].target
             emptied == [kids |-> [t.kids EXCEPT ![e] = <<>>], attrs |-> t.attrs]
         IN RowsAsDeclared(InsertNodes(emptied, e, IF list[i].text THEN <<Text(i)>> ELSE <<>>, NoNode).kids,
                           list, done \cup {i})
<1> DEFINE e == list[i].target
           rows == [t.kids EXCEPT ![e] = <<>>]
           emptied == [kids |-> rows, attrs |-> t.attrs]
           nodes == IF list[i].text THEN <<Text(i)>> ELSE <<>>
           new == InsertNodes(emptied, e, nodes, NoNode).kids
<1>1. e \in ElementLike /\ e \in Places
  BY DEF Ready, RightTarget, Places, Elements, ElementLike
<1>2. PlaceOf(list, done, e) = e
  BY <1>1, PlaceIs
<1>3. nodes \in Rows /\ \A c \in ToSet(nodes) : c = Text(i)
  <2>1. <<Text(i)>> \in Rows /\ ToSet(<<Text(i)>>) = {Text(i)}
    BY ReadyTypes, TextRow, OneIsRow
  <2> QED BY <2>1, EmptyIsRow
<1>4. t.kids \in [Places -> Rows]
  BY ReadyTypes DEF TreeInv, KidsInv
<1>5. rows \in [Places -> Rows] /\ DOMAIN rows = Places /\ rows[e] = <<>> /\ \A q \in Places : q # e => rows[q] = t.kids[q]
  BY <1>1, <1>4, EmptyIsRow
<1>6. AllOf(rows) \cap ToSet(nodes) = {}
  <2>1. Text(i) \notin AllOf(t.kids)
    <3>1. Untouched(t, i)
      BY ReadyTypes
    <3>2. Text(i) \notin Nodes /\ Text(i)[2] = i
      BY TextIsNew
    <3> QED BY <3>1, <3>2 DEF Untouched
  <2>2. \A q \in Places : Text(i) \notin ToSet(rows[q])
    BY <1>5, <2>1, EmptyIsRow DEF AllOf
  <2> HIDE DEF rows
  <2> QED BY <1>3, <2>2 DEF AllOf
<1>7. new = Inserted(rows, e, nodes, NoNode)
  <2>1. emptied.kids = rows
    OBVIOUS
  <2> HIDE DEF emptied
  <2> QED BY <1>5, <2>1, InsertNodesRows
<1>8. OnlyRow(Inserted(rows, e, nodes, NoNode), rows, e, Spliced(rows[e], nodes, NoNode))
  <2> HIDE DEF rows, e, nodes
  <2> QED BY <1>1, <1>3, <1>5, <1>6, NewAdded
<1>9. Spliced(rows[e], nodes, NoNode) = nodes
  <2>1. <<>> \in Rows /\ <<>> \o <<>> = <<>> /\ nodes \o <<>> = nodes /\ <<>> \o nodes = nodes /\ NoRepeats(<<>> \o <<>>)
    BY <1>3, EmptyIsRow, NothingAdded DEF NoRepeats
  <2> HIDE DEF nodes
  <2>2. Spliced(<<>> \o <<>>, nodes, FirstOf(<<>>)) = <<>> \o (nodes \o <<>>)
    BY <1>3, <2>1, RowSpliced
  <2>3. FirstOf(<<>>) = NoNode
    BY DEF FirstOf
  <2> QED BY <1>5, <2>1, <2>2, <2>3
<1>10. OnlyRow(new, t.kids, PlaceOf(list, done, e), nodes)
  <2>1. new = [rows EXCEPT ![e] = nodes]
    BY <1>7, <1>8, <1>9 DEF OnlyRow
  <2>2. [rows EXCEPT ![e] = nodes] = [t.kids EXCEPT ![e] = nodes]
    BY <1>1, <1>4
  <2> QED BY <1>2, <2>1, <2>2 DEF OnlyRow
<1>11. nodes = DeclaredKids(list, done \cup {i}, e)
  <2>1. Of(list, done, "replaceElementContent", e) = {}
    BY TargetOnce DEF OnceTypes
  <2>2. ActsOn(list, i, "replaceElementContent", e)
    BY DEF ActsOn
  <2> HIDE DEF e
  <2> QED BY <2>1, <2>2, DeclaredText
<1>12. Elsewhere(list, i, e)
  BY DEF Elsewhere, PlaceTypes, ListTypes, Into, Beside
<1>13. RowsAsDeclared(new, list, done \cup {i})
  <2> HIDE DEF new, nodes, e
  <2> QED BY <1>1, <1>10, <1>11, <1>12, RowsStep
<1> QED BY <1>13

\* What is done to attributes leaves the rows.
LEMMA AttributeWorkRows ==
  ASSUME NEW t, NEW list, NEW done, NEW i, Ready(t, list, done, i),
         list[i].type \in {"insertAttributes", "replaceValue"}
             \/ (list[i].type \in PlaceTypes /\ list[i].target \notin Children)
  PROVE  RowsAsDeclared(t.kids, list, done \cup {i})
<1>1. list[i].type \notin ListTypes
  BY DEF ListTypes, PlaceTypes, Into, Beside
<1>2. \A e \in ElementLike : list[i].type \in PlaceTypes => list[i].target \notin ToSet(Kids[e])
  BY OneParent DEF PlaceTypes, Beside
<1>3. \A e \in ElementLike : DeclaredKids(list, done \cup {i}, e) = DeclaredKids(list, done, e)
  BY <1>1, <1>2, DeclaredSame
<1>4. list[i].type = "rename" => list[i].target \notin ElementLike
  BY DEF PlaceTypes, Children, ElementLike
<1> QED BY <1>3, <1>4, RowsLeft

\* A row of nobody is empty.
LEMMA NoneInRow ==
  ASSUME NEW row \in Rows, ToSet(row) = {}
  PROVE  row = <<>>
<1>1. row \in Seq(RowNodes)
  BY RowsAreOfNodes
<1> HIDE DEF Rows
<1>2. row # <<>> => row[1] \in ToSet(row)
  BY <1>1 DEF ToSet
<1> QED BY <1>2

\* All children of a node become those of one that has none.
MovedTo(new, kids, n, r) ==
  /\ DOMAIN new = Places /\ new[r] = kids[n] /\ new[n] = <<>>
  /\ \A q \in Places \ {n, r} : new[q] = kids[q]
\* Appending all children of a node to an empty row moves them.
LEMMA AllMoved ==
  ASSUME NEW kids \in [Places -> Rows], OnePlaceEach(kids), NEW n \in Places, NEW r \in Places, n # r, kids[r] = <<>>
  PROVE  MovedTo(Inserted(kids, r, kids[n], NoNode), kids, n, r)
<1> DEFINE row == kids[n]
           new == Inserted(kids, r, row, NoNode)
<1>1. row \in Rows /\ row \in Seq(RowNodes)
  BY RowsAreOfNodes
<1>2. new = [q \in Places |-> IF q = r THEN Spliced(Without(kids[q], row), row, NoNode) ELSE Without(kids[q], row)]
  BY DEF Inserted
<1>3. DOMAIN new = Places /\ new[r] = Spliced(Without(kids[r], row), row, NoNode)
      /\ \A q \in Places : q # r => new[q] = Without(kids[q], row)
  BY <1>2
<1> HIDE DEF new
<1>4. new[r] = row
  <2>1. Without(kids[r], row) = <<>>
    BY WithoutEmpty
  <2> HIDE DEF row
  <2>2. <<>> \in Rows /\ <<>> \o <<>> = <<>> /\ row \o <<>> = row /\ <<>> \o row = row /\ NoRepeats(<<>> \o <<>>)
    BY <1>1, EmptyIsRow, NothingAdded DEF NoRepeats
  <2>3. Spliced(<<>> \o <<>>, row, FirstOf(<<>>)) = <<>> \o (row \o <<>>)
    BY <1>1, <2>2, RowSpliced
  <2>4. FirstOf(<<>>) = NoNode
    BY DEF FirstOf
  <2> QED BY <1>3, <2>1, <2>2, <2>3, <2>4
<1>5. new[n] = <<>>
  <2>1. Without(row, row) = <<>>
    <3> HIDE DEF row
    <3> QED BY <1>1, WithoutAll
  <2> QED BY <1>3, <2>1
<1>6. ASSUME NEW q \in Places \ {n, r}
      PROVE  new[q] = kids[q]
  <2>1. kids[q] \in Seq(RowNodes)
    BY RowsAreOfNodes
  <2>2. ToSet(kids[q]) \cap ToSet(row) = {}
    BY <1>6 DEF OnePlaceEach
  <2> HIDE DEF row
  <2>3. \A c \in ToSet(kids[q]) : ~ Contains(row, c)
    BY <1>1, <2>2, RowHolds
  <2>4. Without(kids[q], row) = kids[q]
    BY <2>1, <2>3, WithoutNone
  <2> QED BY <1>3, <1>6, <2>4
<1>7. MovedTo(new, kids, n, r)
  BY <1>3, <1>4, <1>5, <1>6 DEF MovedTo
<1> QED BY <1>7 DEF new

\* rename of an element, in terms of rows.
RowsRenamed(new, kids, n, r, p, row) ==
  /\ new[r] = kids[n] /\ new[n] = <<>> /\ new[p] = row
  /\ \A q \in Places \ {n, p, r} : new[q] = kids[q]
\* What rename on an element makes of the rows.
LEMMA RenamedKids ==
  ASSUME NEW t, NEW list, NEW done, NEW i, Ready(t, list, done, i),
         NEW n \in Elements, ActsOn(list, i, "rename", n), NEW e \in ElementLike, PlaceWork(t, list, done, i, e)
  PROVE  RowsRenamed(ReplaceChild(Moved(i, t, n), n, <<Renamed(i)>>).kids, t.kids, n, Renamed(i),
                     PlaceOf(list, done, e), DeclaredKids(list, done \cup {i}, e))
<1>0. list[i].type = "rename" /\ list[i].target = n
  BY DEF ActsOn
<1> DEFINE r == Renamed(i)
           p == PlaceOf(list, done, e)
           moved == Moved(i, t, n)
           more == done \cup {i}
           new == ReplaceChild(moved, n, <<r>>).kids
<1>1. /\ n \in ToSet(Kids[e]) /\ n \in RowNodes /\ n \in Children /\ n \in Nodes
      /\ IsParent(t, n, p) /\ p \in Places
      /\ RowExchanged(t.kids[p], DeclaredKids(list, more, e), n, Instead(list, i))
  BY <1>0 DEF PlaceWork
<1>2. TreeInv(t, list, more) /\ Untouched(t, i) /\ i \in more /\ i \in Updates /\ i \in Nat
  BY ReadyTypes
<1>3. n \in Places /\ r \in Places /\ n # r /\ n \in ElementLike
  BY <1>2, RenamedIsNew DEF Places, Elements, ElementLike
<1>4. TreeInv(moved, list, more) /\ \A c : c \in AllOf(moved.kids) <=> c \in AllOf(t.kids)
  BY <1>0, <1>2, ChildrenMoved DEF GoodStep
<1>5. MovedTo(moved.kids, t.kids, n, r)
  <2> DEFINE kids == t.kids
             copied == WithAttributes(t, r, Copies(i, t, n))
  <2>1. kids \in [Places -> Rows] /\ OnePlaceEach(kids) /\ DOMAIN kids = Places
    BY <1>2 DEF TreeInv, KidsInv
  <2>2. kids[r] = <<>>
    BY <1>2, <1>3, <2>1, NoneInRow DEF Untouched
  <2>3. copied.kids = kids
    BY DEF WithAttributes
  <2>4. moved = InsertNodes(copied, r, kids[n], NoNode)
    BY DEF Moved
  <2> HIDE DEF copied
  <2>5. moved.kids = Inserted(kids, r, kids[n], NoNode)
    BY <2>1, <2>3, <2>4, InsertNodesRows
  <2> HIDE DEF kids, moved
  <2>6. MovedTo(Inserted(kids, r, kids[n], NoNode), kids, n, r)
    BY <1>3, <2>1, <2>2, AllMoved
  <2> QED BY <2>5, <2>6 DEF kids
<1>6. p # n /\ p # r
  <2>1. n # e
    BY <1>1, OneParent
  <2>2. PlaceOf(list, done, e) # n /\ PlaceOf(list, done, e) # Renamed(i)
    BY <1>0, <1>3, <2>1, PlacesDiffer, PlaceIs
  <2> QED BY <2>2
<1>7. moved.kids[p] = t.kids[p]
  BY <1>1, <1>5, <1>6 DEF MovedTo
<1>8. PICK u, v \in Rows : /\ t.kids[p] = u \o (<<n>> \o v)
                          /\ DeclaredKids(list, more, e) = u \o (Instead(list, i) \o v)
  BY <1>1 DEF RowExchanged
<1>9. IsParent(moved, n, p)
  <2> DEFINE q == ParentOf(moved, n)
  <2>1. n \in ToSet(t.kids[p])
    <3>1. ParentOf(t, n) = p /\ p # NoNode
      BY <1>1, NoNodeIsNoPlace DEF IsParent
    <3> QED BY <1>1, <1>2, <3>1, ParentIsOwner
  <2>2. Owned(moved, n)
    BY <1>1, <1>7, <2>1 DEF Owned
  <2>3. q \in Places /\ n \in ToSet(moved.kids[q])
    BY <1>1, <1>4, <2>2, ParentIsOwner
  <2>4. \A x, y \in Places : x # y => ToSet(moved.kids[x]) \cap ToSet(moved.kids[y]) = {}
    BY <1>4 DEF TreeInv, KidsInv, OnePlaceEach
  <2> HIDE DEF q, moved, p
  <2>5. q = p
    BY <1>1, <1>7, <2>1, <2>3, <2>4
  <2> QED BY <2>5 DEF q, IsParent
<1>10. <<r>> \in Rows /\ ToSet(<<r>>) = {r} /\ AllOf(moved.kids) \cap ToSet(<<r>>) = {}
  <2>1. <<r>> \in Rows /\ ToSet(<<r>>) = {r}
    BY <1>2, RenamedRow, OneIsRow
  <2>2. r \notin Nodes /\ r[2] = i
    BY RenamedIsNew
  <2>3. r \notin AllOf(t.kids)
    BY <1>2, <2>2 DEF Untouched
  <2> QED BY <1>4, <2>1, <2>3
<1>11. OnlyRow(new, moved.kids, p, u \o (<<r>> \o v))
  <2>1. SplitAt(moved.kids[p], u, n, v)
    BY <1>7, <1>8 DEF SplitAt
  <2> HIDE DEF p, r, moved, more
  <2> QED BY <1>1, <1>4, <1>9, <1>10, <2>1, ReplacedRows
<1>12. Instead(list, i) = <<r>>
  BY <1>0 DEF Instead, RenamedTo
<1>13. new[p] = DeclaredKids(list, more, e) /\ \A q \in Places : q # p => new[q] = moved.kids[q]
  <2>1. DOMAIN moved.kids = Places
    BY <1>5 DEF MovedTo
  <2> HIDE DEF p, r, moved, more, new
  <2> QED BY <1>1, <1>8, <1>11, <1>12, <2>1 DEF OnlyRow
<1>14. /\ new[r] = t.kids[n] /\ new[n] = <<>>
       /\ \A q \in Places \ {n, p, r} : new[q] = t.kids[q]
  <2> HIDE DEF p, r, moved, more, new
  <2> QED BY <1>3, <1>5, <1>6, <1>13 DEF MovedTo
<1> QED BY <1>13, <1>14 DEF RowsRenamed

\* rename on an element
LEMMA RenameRow ==
  ASSUME NEW t, NEW list, NEW done, NEW i, Ready(t, list, done, i), list[i].type = "rename",
         NEW n \in Elements, list[i].target = n, ParentOf(t, n) # NoNode
  PROVE  RowsAsDeclared(ReplaceChild(Moved(i, t, n), n, <<Renamed(i)>>).kids, list, done \cup {i})
<1> DEFINE r == Renamed(i)
           more == done \cup {i}
           new == ReplaceChild(Moved(i, t, n), n, <<r>>).kids
<1>1. list[i].type \in PlaceTypes /\ list[i].target \in Children /\ n \in ElementLike /\ n \in Places
  BY DEF PlaceTypes, Elements, ElementLike, Children, Places
<1>2. PICK e \in ElementLike : PlaceWork(t, list, done, i, e)
  BY <1>1, PlaceFoundAtWork
<1> DEFINE p == PlaceOf(list, done, e)
<1>3. /\ new[r] = t.kids[n] /\ new[n] = <<>> /\ new[p] = DeclaredKids(list, more, e)
      /\ \A q \in Places \ {n, p, r} : new[q] = t.kids[q]
  <2>1. ActsOn(list, i, "rename", n)
    BY DEF ActsOn
  <2>2. RowsRenamed(new, t.kids, n, r, p, DeclaredKids(list, more, e))
    BY <1>2, <2>1, RenamedKids
  <2> QED BY <2>2 DEF RowsRenamed
<1>4. n \in ToSet(Kids[e]) /\ Elsewhere(list, i, e)
  BY <1>2 DEF PlaceWork
<1>5. n # e /\ ParentOf(InitialTree, n) # NoNode /\ n \notin ToSet(Kids[n])
  BY <1>1, <1>4, OneParent
<1>6. RowsAsDeclared(t.kids, list, done)
  BY DEF Ready
<1>7. PlaceOf(list, more, n) = r
  <2>1. Of(list, done, "rename", n) = {}
    BY TargetNotRenamed
  <2>2. Of(list, more, "rename", n) = Of(list, done, "rename", n) \cup {i}
    <3>1. ActsOn(list, i, "rename", n)
      BY DEF ActsOn
    <3> QED BY <3>1, OfOne
  <2>3. Of(list, more, "rename", n) = {i}
    BY <2>1, <2>2
  <2> QED BY <2>3, TheOnly DEF PlaceOf
<1>8. \A f \in ElementLike : f # n => PlaceOf(list, more, f) = PlaceOf(list, done, f)
  BY PlaceStays
<1>9. PlaceOf(list, done, n) = n
  BY <1>1, PlaceIs
<1> HIDE DEF r, new, p, more
<1>10. new[PlaceOf(list, more, n)] = DeclaredKids(list, more, n)
  <2>1. DeclaredKids(list, done \cup {i}, n) = DeclaredKids(list, done, n)
    BY <1>5, DeclaredSame DEF ListTypes, Into
  <2>2. t.kids[n] = DeclaredKids(list, done, n)
    BY <1>1, <1>6, <1>9 DEF RowsAsDeclared
  <2> QED BY <1>3, <1>7, <2>1, <2>2 DEF more
<1>11. ASSUME NEW f \in ElementLike, f # n
       PROVE  new[PlaceOf(list, more, f)] = DeclaredKids(list, more, f)
  <2>1. CASE f = e
    BY <1>3, <1>8, <1>11, <2>1 DEF p
  <2>2. CASE f # e
    <3>1. PlaceOf(list, done, f) \in Places \ {n, p, r}
      BY <1>1, <1>11, <2>2, PlaceIs, PlacesDiffer DEF p, r
    <3>2. DeclaredKids(list, done \cup {i}, f) = DeclaredKids(list, done, f)
      BY <1>4, <2>2, DeclaredSame DEF Elsewhere
    <3>3. t.kids[PlaceOf(list, done, f)] = DeclaredKids(list, done, f)
      BY <1>6 DEF RowsAsDeclared
    <3> QED BY <1>3, <1>8, <1>11, <3>1, <3>2, <3>3 DEF more
  <2> QED BY <2>1, <2>2
<1>12. ASSUME NEW f \in ElementLike, PlaceOf(list, more, f) # f
       PROVE  new[f] = <<>> /\ ParentOf(InitialTree, f) # NoNode
  <2>1. CASE f = n
    BY <1>3, <1>5, <2>1
  <2>2. CASE f # n
    <3>1. PlaceOf(list, done, f) # f
      BY <1>8, <1>12, <2>2
    <3>2. t.kids[f] = <<>> /\ ParentOf(InitialTree, f) # NoNode
      BY <1>6, <3>1 DEF RowsAsDeclared
    <3>3. f # p
      BY <3>1, PlaceIs DEF p
    <3>4. f # r /\ f \in Places
      BY RenamedIsNew DEF r, Places, ElementLike
    <3> QED BY <1>3, <2>2, <3>2, <3>3, <3>4
  <2> QED BY <2>1, <2>2
<1>13. RowsAsDeclared(new, list, more)
  BY <1>10, <1>11, <1>12 DEF RowsAsDeclared
<1> QED BY <1>13 DEF new, r, more

-----------------------------------------------------------------------------
(* The attributes that are declared. *)

\* The attributes of the caller's tree are nodes of one element each.
LEMMA CallersAttributes ==
  ASSUME NEW e \in ElementLike, NEW a \in Attrs[e]
  PROVE  /\ a.id \in Nodes /\ a.id \notin Children /\ a = Attribute(a.id, a.name, a.value)
         /\ \A b \in Attrs[e] : b.id = a.id => b = a
         /\ \A f \in ElementLike \ {e} : a.id \notin Ids(Attrs[f])
<1>1. a.id \in Nodes /\ a.id \notin Children /\ a = Attribute(a.id, a.name, a.value)
  BY CallersTree DEF Children
<1>2. \A f \in ElementLike : f \in Parents(InitialTree) /\ InitialTree.attrs[f] = Attrs[f]
  BY DEF InitialTree, Parents
<1>3. IsForest(InitialTree)
  BY CallersTree
<1>4. ASSUME NEW b \in Attrs[e], b.id = a.id
      PROVE  b = a
  BY <1>2, <1>3, <1>4 DEF IsForest
<1>5. ASSUME NEW f \in ElementLike \ {e}
      PROVE  a.id \notin Ids(Attrs[f])
  <2>1. {x.id : x \in InitialTree.attrs[e]} \cap {x.id : x \in InitialTree.attrs[f]} = {}
    BY <1>2, <1>3 DEF IsForest
  <2>2. a.id \in {x.id : x \in InitialTree.attrs[e]}
    BY <1>2
  <2>3. Ids(Attrs[f]) = {x.id : x \in InitialTree.attrs[f]}
    BY <1>2 DEF Ids
  <2> QED BY <2>1, <2>2, <2>3
<1> QED BY <1>1, <1>4, <1>5

\* The primitives that act on the place of an attribute.
AttributeTypes == {"replaceValue", "replaceNode", "delete", "rename"}
\* A primitive on another attribute, or of another type, leaves what is declared in the place of
\* this one.
LEMMA AttributePlaceSame ==
  ASSUME NEW list, NEW done, NEW i, NEW a, list[i].type \in AttributeTypes => list[i].target # a.id
  PROVE  AttributePlace(list, done \cup {i}, a) = AttributePlace(list, done, a)
<1>1. /\ Of(list, done \cup {i}, "replaceValue", a.id) = Of(list, done, "replaceValue", a.id)
      /\ Of(list, done \cup {i}, "replaceNode", a.id) = Of(list, done, "replaceNode", a.id)
      /\ Of(list, done \cup {i}, "delete", a.id) = Of(list, done, "delete", a.id)
      /\ Of(list, done \cup {i}, "rename", a.id) = Of(list, done, "rename", a.id)
  <2> DEFINE n == a.id
  <2> HIDE DEF n
  <2>1. ASSUME NEW type \in AttributeTypes
        PROVE  Of(list, done \cup {i}, type, n) = Of(list, done, type, n)
    <3>1. ~ (list[i].type = type /\ list[i].target = n)
      BY DEF n
    <3> QED BY <3>1, OfOther
  <2> QED BY <2>1 DEF n, AttributeTypes
<1> QED BY <1>1 DEF AttributePlace, ValueNow

\* The primitive says nothing of the attributes of e.
NoAttributesOf(list, i, e) ==
  /\ list[i].type = "insertAttributes" => list[i].target # e
  /\ list[i].type \in AttributeTypes => list[i].target \notin Ids(Attrs[e])
\* So it leaves what is declared for the element.
LEMMA AttributesSame ==
  ASSUME NEW list, NEW done, NEW i, NEW e, NoAttributesOf(list, i, e)
  PROVE  DeclaredAttributes(list, done \cup {i}, e) = DeclaredAttributes(list, done, e)
<1>1. Of(list, done \cup {i}, "insertAttributes", e) = Of(list, done, "insertAttributes", e)
  <2>1. ~ (list[i].type = "insertAttributes" /\ list[i].target = e)
    BY DEF NoAttributesOf
  <2> QED BY <2>1, OfOther
<1>2. \A a \in Attrs[e] : AttributePlace(list, done \cup {i}, a) = AttributePlace(list, done, a)
  BY AttributePlaceSame DEF NoAttributesOf, Ids
<1>3. {AttributePlace(list, done \cup {i}, a) : a \in Attrs[e]} = {AttributePlace(list, done, a) : a \in Attrs[e]}
  BY <1>2
<1> QED BY <1>1, <1>3 DEF DeclaredAttributes

\* Membership of what is declared.
LEMMA DeclaredMembers ==
  ASSUME NEW list, NEW done, NEW e, NEW x
  PROVE  x \in DeclaredAttributes(list, done, e) <=>
           \/ \E a \in Attrs[e] : x \in AttributePlace(list, done, a)
           \/ \E i \in Of(list, done, "insertAttributes", e) : x \in BringsAttributes(list, i)
BY DEF DeclaredAttributes

\* What primitives bring are not nodes of the caller.
LEMMA NewAttributeIsNew ==
  ASSUME NEW i, NEW k
  PROVE  NewAttribute(i, k) \notin Nodes /\ NewAttribute(i, k)[1] = "attribute"
BY NewNodesAreNew DEF NewAttribute

\* The attributes a primitive brings are none of the caller.
LEMMA BroughtAreNew ==
  ASSUME NEW list, NEW i, NEW x \in BringsAttributes(list, i)
  PROVE  x.id \notin Nodes
<1>1. PICK k : x = Attribute(NewAttribute(i, k), WithoutPrefix(list[i].attributes[k]), <<"content", i, k>>)
  BY DEF BringsAttributes
<1>2. x.id = NewAttribute(i, k)
  BY <1>1 DEF Attribute
<1> QED BY <1>2, NewAttributeIsNew

\* What is declared in the place of an attribute that is there.
AttributeStands(list, done, a) ==
  Of(list, done, "replaceNode", a.id) = {} /\ Of(list, done, "delete", a.id) = {} /\ Of(list, done, "rename", a.id) = {}
\* An attribute that is there is declared in its place, and no other attribute of the caller is.
LEMMA PlaceOfAttribute ==
  ASSUME NEW list, NEW done, NEW a
  PROVE  /\ AttributeStands(list, done, a) =>
              AttributePlace(list, done, a) = {Attribute(a.id, a.name, ValueNow(list, done, a))}
         /\ \A x \in AttributePlace(list, done, a) : x.id \in Nodes => AttributeStands(list, done, a) /\ x.id = a.id
<1>1. AttributeStands(list, done, a) =>
        AttributePlace(list, done, a) = {Attribute(a.id, a.name, ValueNow(list, done, a))}
  BY DEF AttributeStands, AttributePlace
<1>2. ASSUME NEW x \in AttributePlace(list, done, a), x.id \in Nodes
      PROVE  AttributeStands(list, done, a) /\ x.id = a.id
  <2>1. CASE AttributeStands(list, done, a)
    BY <1>1, <1>2, <2>1 DEF Attribute
  <2>2. CASE Of(list, done, "replaceNode", a.id) # {}
    <3>1. AttributePlace(list, done, a) = BringsAttributes(list, The(Of(list, done, "replaceNode", a.id)))
      BY <2>2 DEF AttributePlace
    <3> QED BY <1>2, <3>1, BroughtAreNew
  <2>3. CASE Of(list, done, "replaceNode", a.id) = {} /\ Of(list, done, "delete", a.id) # {}
    BY <1>2, <2>3 DEF AttributePlace
  <2>4. CASE Of(list, done, "replaceNode", a.id) = {} /\ Of(list, done, "delete", a.id) = {}
      /\ Of(list, done, "rename", a.id) # {}
    <3> DEFINE j == The(Of(list, done, "rename", a.id))
    <3>1. AttributePlace(list, done, a) =
            {Attribute(NewAttribute(j, 1), WithoutPrefix(list[j].name), ValueNow(list, done, a))}
      BY <2>4 DEF AttributePlace
    <3> HIDE DEF j
    <3>2. x.id = NewAttribute(j, 1)
      BY <1>2, <3>1 DEF Attribute
    <3> QED BY <1>2, <3>2, NewAttributeIsNew
  <2> QED BY <2>1, <2>2, <2>3, <2>4 DEF AttributeStands
<1> QED BY <1>1, <1>2

\* Who of the caller's attributes is declared.
LEMMA AttributeIsThere ==
  ASSUME NEW list, NEW done, NEW e \in ElementLike, NEW x \in DeclaredAttributes(list, done, e), x.id \in Nodes
  PROVE  \E a \in Attrs[e] : a.id = x.id /\ AttributeStands(list, done, a)
                              /\ x = Attribute(a.id, a.name, ValueNow(list, done, a))
<1>1. \A j : x \notin BringsAttributes(list, j)
  BY BroughtAreNew
<1>2. PICK a \in Attrs[e] : x \in AttributePlace(list, done, a)
  BY <1>1, DeclaredMembers
<1> QED BY <1>2, PlaceOfAttribute

\* The place of one attribute that is there changes.
ChangesOf(list, i, a) == list[i].type \in AttributeTypes /\ list[i].target = a.id
StandsAs(list, done, a, old) == AttributePlace(list, done, a) = {old} /\ old.id = a.id
\* The primitive exchanges it for what is declared in its place now.
LEMMA AttributeExchanged ==
  ASSUME NEW list, NEW done, NEW i, NEW e \in ElementLike, NEW a \in Attrs[e], NEW old,
         ChangesOf(list, i, a), StandsAs(list, done, a, old)
  PROVE  DeclaredAttributes(list, done \cup {i}, e) =
           (DeclaredAttributes(list, done, e) \ {old}) \cup AttributePlace(list, done \cup {i}, a)
<1> DEFINE more == done \cup {i}
<1> USE DEF ChangesOf, StandsAs
<1>1. Of(list, more, "insertAttributes", e) = Of(list, done, "insertAttributes", e)
  BY OfOther DEF AttributeTypes
<1>2. a.id \in Nodes /\ \A b \in Attrs[e] : b # a => b.id # a.id
  BY CallersAttributes
<1>3. \A b \in Attrs[e] : b # a => AttributePlace(list, more, b) = AttributePlace(list, done, b)
  BY <1>2, AttributePlaceSame
<1>4. \A b \in Attrs[e] : b # a => old \notin AttributePlace(list, done, b)
  BY <1>2, PlaceOfAttribute
<1>5. \A j : old \notin BringsAttributes(list, j)
  BY <1>2, BroughtAreNew
<1> HIDE DEF more
<1>6. ASSUME NEW x
      PROVE  x \in DeclaredAttributes(list, more, e) <=>
               x \in (DeclaredAttributes(list, done, e) \ {old}) \cup AttributePlace(list, more, a)
  <2>1. x \in DeclaredAttributes(list, more, e) <=>
          \/ \E b \in Attrs[e] : x \in AttributePlace(list, more, b)
          \/ \E j \in Of(list, done, "insertAttributes", e) : x \in BringsAttributes(list, j)
    BY <1>1, DeclaredMembers
  <2>2. x \in DeclaredAttributes(list, done, e) <=>
          \/ \E b \in Attrs[e] : x \in AttributePlace(list, done, b)
          \/ \E j \in Of(list, done, "insertAttributes", e) : x \in BringsAttributes(list, j)
    BY DeclaredMembers
  <2> QED BY <1>3, <1>4, <1>5, <2>1, <2>2
<1> QED BY <1>6 DEF more

\* The same for the attributes.
ReadyFor(t, list, done, i) == Ready(t, list, done, i) /\ AttributesAsDeclared(t.attrs, list, done)

\* A primitive that is no rename of an element leaves its renames.
LEMMA NoRenameMore ==
  ASSUME NEW list, NEW done, NEW i, NEW e, list[i].type = "rename" => list[i].target # e
  PROVE  Of(list, done \cup {i}, "rename", e) = Of(list, done, "rename", e)
<1>1. ~ (list[i].type = "rename" /\ list[i].target = e)
  OBVIOUS
<1> QED BY <1>1, OfOther

\* No attribute changes, and none that is declared.
LEMMA AttributesLeft ==
  ASSUME NEW t, NEW list, NEW done, NEW i, ReadyFor(t, list, done, i),
         list[i].type = "rename" => list[i].target \notin ElementLike,
         \A e \in ElementLike : DeclaredAttributes(list, done \cup {i}, e) = DeclaredAttributes(list, done, e)
  PROVE  AttributesAsDeclared(t.attrs, list, done \cup {i})
<1>1. AttributesAsDeclared(t.attrs, list, done)
  BY DEF ReadyFor
<1>2. \A e \in ElementLike : Of(list, done \cup {i}, "rename", e) = Of(list, done, "rename", e)
  BY NoRenameMore
<1> QED BY <1>1, <1>2 DEF AttributesAsDeclared

\* The attributes of one element change, to what is declared.
LEMMA AttributesStep ==
  ASSUME NEW t, NEW list, NEW done, NEW i, ReadyFor(t, list, done, i), NEW p \in ElementLike, NEW new, NEW set,
         Of(list, done, "rename", p) = {}, list[i].type = "rename" => list[i].target \notin ElementLike,
         \A f \in ElementLike \ {p} : NoAttributesOf(list, i, f),
         OnlyRow(new, t.attrs, p, set), set = DeclaredAttributes(list, done \cup {i}, p)
  PROVE  AttributesAsDeclared(new, list, done \cup {i})
<1> DEFINE more == done \cup {i}
<1>1. AttributesAsDeclared(t.attrs, list, done) /\ DOMAIN t.attrs = Places /\ p \in Places
  <2>1. TreeInv(t, list, done)
    BY ReadyTypes DEF ReadyFor
  <2>2. DOMAIN t.attrs = Places
    BY <2>1, TreePlaces
  <2> QED BY <2>2 DEF ReadyFor, Places
<1>2. new[p] = set /\ \A q \in Places : q # p => new[q] = t.attrs[q]
  BY <1>1 DEF OnlyRow
<1>3. \A e \in ElementLike : Of(list, more, "rename", e) = Of(list, done, "rename", e)
  BY NoRenameMore
<1>4. ASSUME NEW f \in ElementLike, f # p
      PROVE  /\ new[f] = DeclaredAttributes(list, more, f)
             /\ \A j \in Of(list, more, "rename", f) : new[Renamed(j)] = CopiesBy(j, DeclaredAttributes(list, more, f))
  <2>1. DeclaredAttributes(list, more, f) = DeclaredAttributes(list, done, f)
    BY <1>4, AttributesSame
  <2>2. f \in Places
    BY DEF Places
  <2>3. \A j \in Of(list, done, "rename", f) : Renamed(j) \in Places /\ Renamed(j) # p
    <3>1. \A j \in Of(list, done, "rename", f) : j \in Updates
      BY ReadyTypes DEF Of, ReadyFor
    <3> QED BY <3>1, RenamedIsNew DEF Places, ElementLike
  <2> HIDE DEF more
  <2> QED BY <1>1, <1>2, <1>3, <1>4, <2>1, <2>2, <2>3 DEF AttributesAsDeclared
<1>5. new[p] = DeclaredAttributes(list, more, p) /\ Of(list, more, "rename", p) = {}
  BY <1>2, <1>3
<1> HIDE DEF more
<1>6. AttributesAsDeclared(new, list, more)
  BY <1>4, <1>5 DEF AttributesAsDeclared
<1> QED BY <1>6 DEF more

\* What a primitive on an attribute that is there finds.
AttributeWork(t, list, done, i, p, a, old) ==
  /\ p \in ElementLike /\ a \in Attrs[p] /\ a.id = list[i].target /\ AttributeStands(list, done, a)
  /\ old = Attribute(a.id, a.name, ValueNow(list, done, a)) /\ old \in t.attrs[p]
  /\ \A b \in t.attrs[p] : SameName(b.name, old.name) => b = old
  /\ Of(list, done, "rename", p) = {}
  /\ \A f \in ElementLike \ {p} : NoAttributesOf(list, i, f)
  /\ DeclaredAttributes(list, done \cup {i}, p) = (t.attrs[p] \ {old}) \cup AttributePlace(list, done \cup {i}, a)
\* A primitive on an attribute with an owner finds all this.
LEMMA AttributeFoundAtWork ==
  ASSUME NEW t, NEW list, NEW done, NEW i, ReadyFor(t, list, done, i), list[i].type \in AttributeTypes,
         list[i].target \notin Children, ParentOf(t, list[i].target) # NoNode
  PROVE  LET p == ParentOf(t, list[i].target)
         IN \E a : AttributeWork(t, list, done, i, p, a, CHOOSE b \in t.attrs[p] : b.id = list[i].target)
<1> DEFINE n == list[i].target
           p == ParentOf(t, n)
           old == CHOOSE b \in t.attrs[p] : b.id = n
<1>1. Ready(t, list, done, i) /\ AttributesAsDeclared(t.attrs, list, done) /\ n \in Nodes
      /\ TreeInv(t, list, done)
  BY ReadyTypes DEF ReadyFor
<1>2. p \in Places /\ n \in Ids(t.attrs[p])
  <2> HIDE DEF n
  <2> QED BY <1>1, ParentIsOwner DEF n
<1>3. old \in t.attrs[p] /\ old.id = n
  <2> HIDE DEF n, p
  <2> QED BY <1>2, ChosenAttribute
<1>4. AttributesInv(t.attrs, done)
  BY <1>1 DEF TreeInv
<1> HIDE DEF old, p
<1>5. p \in ElementLike
  BY <1>1, <1>2, <1>3, <1>4 DEF AttributesInv
<1>6. t.attrs[p] = DeclaredAttributes(list, done, p)
  BY <1>1, <1>5 DEF AttributesAsDeclared
<1>7. PICK a \in Attrs[p] : /\ a.id = old.id /\ AttributeStands(list, done, a)
                           /\ old = Attribute(a.id, a.name, ValueNow(list, done, a))
  BY <1>1, <1>3, <1>5, <1>6, AttributeIsThere
<1>8. \A b \in t.attrs[p] : SameName(b.name, old.name) => b = old
  BY <1>2, <1>3, <1>4 DEF AttributesInv
<1>9. n \in Ids(Attrs[p]) /\ \A f \in ElementLike \ {p} : n \notin Ids(Attrs[f])
  BY <1>3, <1>5, <1>7, CallersAttributes DEF Ids
<1>10. Of(list, done, "rename", p) = {}
  <2> SUFFICES ASSUME NEW j \in Of(list, done, "rename", p)
               PROVE  FALSE
    OBVIOUS
  <2>1. j \in done /\ j \in DOMAIN list /\ list[j].type = "rename" /\ list[j].target = p
    BY <1>1, ReadyTypes DEF Of
  <2>2. p \in Children
    BY <1>5 DEF ElementLike, Children
  <2>3. p \in Elements
    BY <1>1, <1>5, <2>1 DEF Ready, RightTarget, Elements, ElementLike
  <2> QED BY <1>1, <1>9, <2>1, <2>3 DEF Ready
<1>11. \A f \in ElementLike \ {p} : NoAttributesOf(list, i, f)
  BY <1>9 DEF NoAttributesOf, AttributeTypes
<1>12. AttributePlace(list, done, a) = {old}
  BY <1>7, PlaceOfAttribute
<1>13. DeclaredAttributes(list, done \cup {i}, p) =
         (DeclaredAttributes(list, done, p) \ {old}) \cup AttributePlace(list, done \cup {i}, a)
  <2>1. ChangesOf(list, i, a) /\ StandsAs(list, done, a, old)
    BY <1>3, <1>7, <1>12 DEF ChangesOf, StandsAs
  <2> QED BY <1>5, <2>1, AttributeExchanged
<1>14. AttributeWork(t, list, done, i, p, a, old)
  BY <1>3, <1>5, <1>6, <1>7, <1>8, <1>10, <1>11, <1>13 DEF AttributeWork
<1> QED BY <1>14 DEF old, p

\* What is declared in the place of an attribute after one more primitive.
InItsPlace(list, i, id, name, value) ==
  IF list[i].type = "replaceValue" THEN {Attribute(id, name, <<"replaced", i, 0>>)}
  ELSE IF list[i].type = "replaceNode" THEN BringsAttributes(list, i)
  ELSE IF list[i].type = "delete" THEN {}
  ELSE {Attribute(NewAttribute(i, 1), WithoutPrefix(list[i].name), value)}
\* That is what is declared.
LEMMA PlaceAfter ==
  ASSUME NEW t, NEW list, NEW done, NEW i, Ready(t, list, done, i), NEW a, AttributeStands(list, done, a),
         ChangesOf(list, i, a)
  PROVE  AttributePlace(list, done \cup {i}, a) = InItsPlace(list, i, a.id, a.name, ValueNow(list, done, a))
<1> DEFINE n == a.id
           more == done \cup {i}
<1> USE DEF ChangesOf, InItsPlace
<1>1. \A type : type # list[i].type => Of(list, more, type, n) = Of(list, done, type, n)
  <2> SUFFICES ASSUME NEW type, type # list[i].type
               PROVE  Of(list, more, type, n) = Of(list, done, type, n)
    OBVIOUS
  <2>1. ~ (list[i].type = type /\ list[i].target = n)
    OBVIOUS
  <2> HIDE DEF n
  <2> QED BY <2>1, OfOther
<1>2. Of(list, more, list[i].type, n) = Of(list, done, list[i].type, n) \cup {i}
  <2>1. ActsOn(list, i, list[i].type, n)
    BY DEF ActsOn
  <2> HIDE DEF n
  <2> QED BY <2>1, OfOne
<1>3. list[i].type # "delete" => Of(list, more, list[i].type, n) = {i}
  <2>1. list[i].type # "delete" => Of(list, done, list[i].type, n) = {}
    BY TargetOnce DEF AttributeTypes, OnceTypes
  <2> QED BY <1>2, <2>1
<1>4. Of(list, done, "replaceNode", n) = {} /\ Of(list, done, "delete", n) = {} /\ Of(list, done, "rename", n) = {}
  BY DEF AttributeStands
<1> HIDE DEF more
<1>5. CASE list[i].type = "replaceValue"
  <2>1. /\ Of(list, more, "replaceNode", n) = {} /\ Of(list, more, "delete", n) = {}
        /\ Of(list, more, "rename", n) = {} /\ Of(list, more, "replaceValue", n) = {i}
    BY <1>1, <1>3, <1>4, <1>5
  <2>2. ValueNow(list, more, a) = <<"replaced", i, 0>>
    BY <2>1, TheOnly DEF ValueNow
  <2>3. AttributePlace(list, more, a) = {Attribute(a.id, a.name, <<"replaced", i, 0>>)}
    BY <2>1, <2>2 DEF AttributePlace
  <2> QED BY <1>5, <2>3 DEF more
<1>6. CASE list[i].type = "replaceNode"
  <2>1. Of(list, more, "replaceNode", n) = {i}
    BY <1>3, <1>6
  <2>2. AttributePlace(list, more, a) = BringsAttributes(list, i)
    BY <2>1, TheOnly DEF AttributePlace
  <2> QED BY <1>6, <2>2 DEF more
<1>7. CASE list[i].type = "delete"
  <2>1. Of(list, more, "replaceNode", n) = {} /\ Of(list, more, "delete", n) # {}
    BY <1>1, <1>2, <1>4, <1>7
  <2>2. AttributePlace(list, more, a) = {}
    BY <2>1 DEF AttributePlace
  <2> QED BY <1>7, <2>2 DEF more
<1>8. CASE list[i].type = "rename"
  <2>1. /\ Of(list, more, "replaceNode", n) = {} /\ Of(list, more, "delete", n) = {}
        /\ Of(list, more, "rename", n) = {i} /\ Of(list, more, "replaceValue", n) = Of(list, done, "replaceValue", n)
    BY <1>1, <1>3, <1>4, <1>8
  <2>2. ValueNow(list, more, a) = ValueNow(list, done, a)
    BY <2>1 DEF ValueNow
  <2>3. AttributePlace(list, more, a) =
          {Attribute(NewAttribute(i, 1), WithoutPrefix(list[i].name), ValueNow(list, done, a))}
    BY <2>1, <2>2, TheOnly DEF AttributePlace
  <2> QED BY <1>8, <2>3 DEF more
<1> QED BY <1>5, <1>6, <1>7, <1>8 DEF AttributeTypes

\* Primitives on children leave the attributes.
LEMMA ChildWorkAttributes ==
  ASSUME NEW t, NEW list, NEW done, NEW i, ReadyFor(t, list, done, i),
         list[i].type # "insertAttributes", list[i].type \in AttributeTypes => list[i].target \in Children,
         list[i].type = "rename" => list[i].target \notin ElementLike
  PROVE  AttributesAsDeclared(t.attrs, list, done \cup {i})
<1>1. \A e \in ElementLike : NoAttributesOf(list, i, e)
  BY CallersAttributes DEF NoAttributesOf, Ids
<1>2. \A e \in ElementLike : DeclaredAttributes(list, done \cup {i}, e) = DeclaredAttributes(list, done, e)
  BY <1>1, AttributesSame
<1> QED BY <1>2, AttributesLeft

\* The place of an attribute that is gone for good stays what it is.
GoneIn(list, done, more, n) ==
  /\ Of(list, more, "replaceNode", n) = Of(list, done, "replaceNode", n)
  /\ Of(list, done, "replaceNode", n) # {} \/ (Of(list, done, "delete", n) # {} /\ Of(list, more, "delete", n) # {})
\* It is the same whoever deletes the attribute again.
LEMMA GoneStaysGone ==
  ASSUME NEW list, NEW done, NEW more, NEW a, GoneIn(list, done, more, a.id)
  PROVE  AttributePlace(list, more, a) = AttributePlace(list, done, a)
<1>1. CASE Of(list, done, "replaceNode", a.id) # {}
  BY <1>1 DEF AttributePlace, GoneIn
<1>2. CASE Of(list, done, "replaceNode", a.id) = {}
  BY <1>2 DEF AttributePlace, GoneIn
<1> QED BY <1>1, <1>2

\* A primitive on an attribute that is not there changes nothing of what is declared.
LEMMA GoneForGood ==
  ASSUME NEW t, NEW list, NEW done, NEW i, ReadyFor(t, list, done, i), list[i].type \in {"replaceValue", "delete"},
         ParentOf(t, list[i].target) = NoNode, NEW e \in ElementLike, NEW a \in Attrs[e], ChangesOf(list, i, a)
  PROVE  AttributePlace(list, done \cup {i}, a) = AttributePlace(list, done, a)
<1> DEFINE n == a.id
           more == done \cup {i}
           now == Attribute(a.id, a.name, ValueNow(list, done, a))
<1> USE DEF ChangesOf
<1>1. Ready(t, list, done, i) /\ AttributesAsDeclared(t.attrs, list, done) /\ TreeInv(t, list, done) /\ n \in Nodes
  BY ReadyTypes DEF ReadyFor
<1>2. Of(list, done, "rename", n) = {}
  BY <1>1, TargetNotRenamed
<1>3. ~ AttributeStands(list, done, a)
  <2> SUFFICES ASSUME AttributeStands(list, done, a)
               PROVE  FALSE
    OBVIOUS
  <2>1. AttributePlace(list, done, a) = {now}
    BY PlaceOfAttribute
  <2>2. now \in t.attrs[e]
    BY <1>1, <2>1, DeclaredMembers DEF AttributesAsDeclared
  <2>3. e \in Places /\ n \in Ids(t.attrs[e])
    <3>1. now.id = n
      BY DEF Attribute
    <3> QED BY <2>2, <3>1 DEF Ids, Places
  <2>4. Owned(t, n)
    BY <2>3 DEF Owned
  <2>5. ParentOf(t, n) = NoNode
    OBVIOUS
  <2> HIDE DEF n
  <2> QED BY <1>1, <2>4, <2>5, ParentIsOwner
<1>4. CASE list[i].type = "replaceValue"
  <2>1. Phase(list[i].type) < Phase("replaceNode") /\ Phase(list[i].type) < Phase("delete")
    BY <1>4 DEF Phase
  <2>2. Of(list, done, "replaceNode", n) = {} /\ Of(list, done, "delete", n) = {}
    BY <1>1, <2>1, NotYet
  <2> QED BY <1>2, <1>3, <2>2 DEF AttributeStands
<1>5. CASE list[i].type = "delete"
  <2>1. Of(list, more, "replaceNode", n) = Of(list, done, "replaceNode", n)
    <3>1. ~ (list[i].type = "replaceNode" /\ list[i].target = n)
      BY <1>5
    <3> HIDE DEF n
    <3> QED BY <3>1, OfOther
  <2>2. Of(list, done, "delete", n) \subseteq Of(list, more, "delete", n)
    BY DEF Of
  <2>3. Of(list, done, "replaceNode", n) # {} \/ Of(list, done, "delete", n) # {}
    BY <1>2, <1>3 DEF AttributeStands
  <2>4. GoneIn(list, done, more, n)
    BY <2>1, <2>2, <2>3 DEF GoneIn
  <2> QED BY <2>4, GoneStaysGone
<1> QED BY <1>4, <1>5

\* So replaceValue and delete without an owner change nothing of what is declared.
LEMMA NothingThere ==
  ASSUME NEW t, NEW list, NEW done, NEW i, ReadyFor(t, list, done, i), list[i].type \in {"replaceValue", "delete"},
         ParentOf(t, list[i].target) = NoNode
  PROVE  AttributesAsDeclared(t.attrs, list, done \cup {i})
<1>1. ASSUME NEW e \in ElementLike
      PROVE  DeclaredAttributes(list, done \cup {i}, e) = DeclaredAttributes(list, done, e)
  <2>1. \A a \in Attrs[e] : AttributePlace(list, done \cup {i}, a) = AttributePlace(list, done, a)
    <3> TAKE a \in Attrs[e]
    <3>1. CASE list[i].target = a.id
      BY <3>1, GoneForGood DEF ChangesOf, AttributeTypes
    <3>2. CASE list[i].target # a.id
      BY <3>2, AttributePlaceSame
    <3> QED BY <3>1, <3>2
  <2>2. {AttributePlace(list, done \cup {i}, a) : a \in Attrs[e]} = {AttributePlace(list, done, a) : a \in Attrs[e]}
    BY <2>1
  <2>3. Of(list, done \cup {i}, "insertAttributes", e) = Of(list, done, "insertAttributes", e)
    BY OfOther
  <2> QED BY <2>2, <2>3 DEF DeclaredAttributes
<1> QED BY <1>1, AttributesLeft

\* What the writer does to the attributes of one element.
LEMMA OneAttributeRemoved ==
  ASSUME NEW t, NEW done, NEW e \in Places, AttributesInv(t.attrs, done), NEW a \in t.attrs[e]
  PROVE  OnlyRow(RemoveAttribute(t, e, a.name).attrs, t.attrs, e, t.attrs[e] \ {a})
<1> DEFINE left == {b \in t.attrs[e] : ~ (b.name.local = a.name.local /\ b.name.uri = a.name.uri)}
<1>1. left = t.attrs[e] \ {a}
  BY DEF AttributesInv, SameName
<1>2. RemoveAttribute(t, e, a.name).attrs = [t.attrs EXCEPT ![e] = left]
  BY DEF RemoveAttribute, WithAttributes
<1> HIDE DEF left
<1> QED BY <1>1, <1>2 DEF OnlyRow

\* setAttributeNS gives the attribute of that name its value and leaves the others.
LEMMA OneValueSet ==
  ASSUME NEW t, NEW done, NEW e \in Places, AttributesInv(t.attrs, done), NEW a \in t.attrs[e], NEW value
  PROVE  OnlyRow(SetValue(t, e, a.name, value).attrs, t.attrs, e,
                 (t.attrs[e] \ {a}) \cup {Attribute(a.id, a.name, value)})
<1> DEFINE set(b) == IF b.name.local = a.name.local /\ b.name.uri = a.name.uri THEN Attribute(b.id, b.name, value) ELSE b
           all == {set(b) : b \in t.attrs[e]}
<1>1. set(a) = Attribute(a.id, a.name, value) /\ \A b \in t.attrs[e] : b # a => set(b) = b
  BY DEF AttributesInv, SameName
<1>2. SetValue(t, e, a.name, value).attrs = [t.attrs EXCEPT ![e] = all]
  BY DEF SetValue, WithAttributes
<1> HIDE DEF set
<1>3. all = (t.attrs[e] \ {a}) \cup {Attribute(a.id, a.name, value)}
  BY <1>1
<1> HIDE DEF all
<1> QED BY <1>2, <1>3 DEF OnlyRow

\* Attributes set after the removal of one.
LEMMA RemovedThenSet ==
  ASSUME NEW t, NEW done, NEW e \in Places, AttributesInv(t.attrs, done), NEW a \in t.attrs[e], NEW new
  PROVE  LET left == RemoveAttribute(t, e, a.name)
         IN OnlyRow(WithAttributes(left, e, left.attrs[e] \cup new).attrs, t.attrs, e, (t.attrs[e] \ {a}) \cup new)
<1> DEFINE left == RemoveAttribute(t, e, a.name)
           rest == t.attrs[e] \ {a}
<1>1. OnlyRow(left.attrs, t.attrs, e, rest)
  BY OneAttributeRemoved
<1>2. DOMAIN t.attrs = Places
  BY DEF AttributesInv
<1> HIDE DEF left, rest
<1>3. left.attrs = [t.attrs EXCEPT ![e] = rest] /\ left.attrs[e] = rest
  BY <1>1, <1>2 DEF OnlyRow
<1>4. WithAttributes(left, e, left.attrs[e] \cup new).attrs = [t.attrs EXCEPT ![e] = rest \cup new]
  BY <1>2, <1>3 DEF WithAttributes
<1> QED BY <1>4 DEF OnlyRow, left, rest

\* insertAttributes
LEMMA InsertAttributesRow ==
  ASSUME NEW t, NEW list, NEW done, NEW i, ReadyFor(t, list, done, i), list[i].type = "insertAttributes", NEW new,
         OnlyRow(new, t.attrs, list[i].target, t.attrs[list[i].target] \cup BringsAttributes(list, i))
  PROVE  AttributesAsDeclared(new, list, done \cup {i})
<1> DEFINE e == list[i].target
           more == done \cup {i}
           set == t.attrs[e] \cup BringsAttributes(list, i)
<1>1. Ready(t, list, done, i) /\ AttributesAsDeclared(t.attrs, list, done)
  BY DEF ReadyFor
<1>2. e \in Elements
  BY <1>1 DEF Ready, RightTarget
<1>3. e \in ElementLike
  BY <1>2 DEF Elements, ElementLike
<1>4. Of(list, more, "insertAttributes", e) = Of(list, done, "insertAttributes", e) \cup {i}
  <2>1. ActsOn(list, i, "insertAttributes", e)
    BY DEF ActsOn
  <2> HIDE DEF e
  <2> QED BY <2>1, OfOne
<1>5. \A a : AttributePlace(list, more, a) = AttributePlace(list, done, a)
  BY AttributePlaceSame DEF AttributeTypes
<1>6. t.attrs[e] = DeclaredAttributes(list, done, e)
  BY <1>1, <1>3 DEF AttributesAsDeclared
<1>7. OnlyRow(new, t.attrs, e, set) /\ Of(list, done, "rename", e) = {}
  BY <1>1, TargetNotRenamed
<1>8. \A f \in ElementLike \ {e} : NoAttributesOf(list, i, f)
  BY DEF NoAttributesOf, AttributeTypes
<1> HIDE DEF e, more
<1>9. set = DeclaredAttributes(list, more, e)
  <2>1. {AttributePlace(list, more, a) : a \in Attrs[e]} = {AttributePlace(list, done, a) : a \in Attrs[e]}
    BY <1>5
  <2>2. UNION {BringsAttributes(list, j) : j \in Of(list, more, "insertAttributes", e)} =
        (UNION {BringsAttributes(list, j) : j \in Of(list, done, "insertAttributes", e)}) \cup BringsAttributes(list, i)
    BY <1>4
  <2> QED BY <1>6, <2>1, <2>2 DEF DeclaredAttributes
<1> HIDE DEF set
<1> QED BY <1>3, <1>7, <1>8, <1>9, AttributesStep DEF more

\* The attribute gives its place to what is declared there.
LEMMA AttributeRow ==
  ASSUME NEW t, NEW list, NEW done, NEW i, ReadyFor(t, list, done, i), list[i].target \notin Children,
         NEW p, NEW a, NEW old, AttributeWork(t, list, done, i, p, a, old), NEW new, NEW set,
         OnlyRow(new, t.attrs, p, set), set = (t.attrs[p] \ {old}) \cup AttributePlace(list, done \cup {i}, a)
  PROVE  AttributesAsDeclared(new, list, done \cup {i})
<1>1. /\ p \in ElementLike /\ Of(list, done, "rename", p) = {}
      /\ \A f \in ElementLike \ {p} : NoAttributesOf(list, i, f)
      /\ set = DeclaredAttributes(list, done \cup {i}, p)
  BY DEF AttributeWork
<1>2. list[i].target \in Nodes
  BY ReadyTypes DEF ReadyFor
<1>3. list[i].target \notin ElementLike
  BY <1>2 DEF ElementLike, Children
<1> QED BY <1>1, <1>3, AttributesStep

\* rename on an element copies the attributes.
LEMMA RenameAttributesRow ==
  ASSUME NEW t, NEW list, NEW done, NEW i, ReadyFor(t, list, done, i), NEW n \in Elements, ActsOn(list, i, "rename", n)
  PROVE  AttributesAsDeclared(ReplaceChild(Moved(i, t, n), n, <<Renamed(i)>>).attrs, list, done \cup {i})
<1> DEFINE r == Renamed(i)
           more == done \cup {i}
           new == ReplaceChild(Moved(i, t, n), n, <<r>>).attrs
<1>1. /\ Ready(t, list, done, i) /\ AttributesAsDeclared(t.attrs, list, done) /\ TreeInv(t, list, done)
      /\ i \in Updates /\ \A j \in done : j \in Updates /\ j # i
  BY ReadyTypes DEF ReadyFor
<1>2. DOMAIN t.attrs = Places /\ n \in ElementLike /\ n \in Children
  BY <1>1, TreePlaces DEF Elements, ElementLike, Children
<1>3. new = [t.attrs EXCEPT ![r] = Copies(i, t, n)]
  BY DEF ReplaceChild, InsertNodes, RemoveChild, Moved, WithAttributes
<1> HIDE DEF new
<1>4. r \in Places /\ r \notin ElementLike /\ \A j \in done : Renamed(j) \in Places /\ Renamed(j) # r
  <2>1. r \notin Nodes /\ r[2] = i /\ \A j \in done : Renamed(j)[2] = j
    BY RenamedIsNew
  <2> QED BY <1>1, <2>1 DEF Places, ElementLike
<1>5. new[r] = CopiesBy(i, t.attrs[n]) /\ \A p \in Places : p # r => new[p] = t.attrs[p]
  BY <1>2, <1>3, <1>4 DEF Copies, CopiesBy
<1>6. ASSUME NEW e \in ElementLike
      PROVE  DeclaredAttributes(list, more, e) = DeclaredAttributes(list, done, e)
  <2>1. list[i].target \notin Ids(Attrs[e]) /\ list[i].type # "insertAttributes"
    BY <1>2, CallersAttributes DEF Ids, ActsOn
  <2> QED BY <2>1, AttributesSame DEF NoAttributesOf
<1>7. ASSUME NEW e \in ElementLike
      PROVE  new[e] = DeclaredAttributes(list, more, e)
  BY <1>1, <1>4, <1>5, <1>6 DEF AttributesAsDeclared, Places
<1>8. ASSUME NEW e \in ElementLike, NEW j \in Of(list, more, "rename", e)
      PROVE  new[Renamed(j)] = CopiesBy(j, DeclaredAttributes(list, more, e))
  <2>1. CASE j = i
    <3>1. e = n
      BY <2>1 DEF Of, ActsOn
    <3>2. t.attrs[n] = DeclaredAttributes(list, done, n)
      BY <1>1, <1>2 DEF AttributesAsDeclared
    <3> QED BY <1>5, <1>6, <2>1, <3>1, <3>2
  <2>2. CASE j # i
    <3>1. j \in done /\ j \in Of(list, done, "rename", e)
      BY <2>2 DEF Of
    <3>2. t.attrs[Renamed(j)] = CopiesBy(j, DeclaredAttributes(list, done, e))
      BY <1>1, <3>1 DEF AttributesAsDeclared
    <3> QED BY <1>4, <1>5, <1>6, <3>1, <3>2
  <2> QED BY <2>1, <2>2
<1> HIDE DEF more
<1>9. AttributesAsDeclared(new, list, more)
  BY <1>7, <1>8 DEF AttributesAsDeclared
<1> QED BY <1>9 DEF new, more

\* What a primitive on an attribute that is there has to put into its place.
LEMMA AttributeGives ==
  ASSUME NEW t, NEW list, NEW done, NEW i, ReadyFor(t, list, done, i), list[i].type \in AttributeTypes,
         list[i].target \notin Children, ParentOf(t, list[i].target) # NoNode
  PROVE  LET p == ParentOf(t, list[i].target)
             old == CHOOSE b \in t.attrs[p] : b.id = list[i].target
             gives == InItsPlace(list, i, old.id, old.name, old.value)
         IN /\ p \in Places /\ old \in t.attrs[p] /\ AttributesInv(t.attrs, done)
            /\ \A new : OnlyRow(new, t.attrs, p, (t.attrs[p] \ {old}) \cup gives)
                          => AttributesAsDeclared(new, list, done \cup {i})
<1> DEFINE p == ParentOf(t, list[i].target)
           old == CHOOSE b \in t.attrs[p] : b.id = list[i].target
           gives == InItsPlace(list, i, old.id, old.name, old.value)
<1>1. PICK a : AttributeWork(t, list, done, i, p, a, old)
  BY AttributeFoundAtWork
<1> HIDE DEF p, old
<1>2. /\ p \in ElementLike /\ a.id = list[i].target /\ AttributeStands(list, done, a)
      /\ old = Attribute(a.id, a.name, ValueNow(list, done, a)) /\ old \in t.attrs[p]
  BY <1>1 DEF AttributeWork
<1>3. Ready(t, list, done, i) /\ AttributesInv(t.attrs, done)
  BY ReadyTypes DEF ReadyFor, TreeInv
<1>4. old.id = a.id /\ old.name = a.name /\ old.value = ValueNow(list, done, a)
  BY <1>2 DEF Attribute
<1>5. AttributePlace(list, done \cup {i}, a) = gives
  <2>1. ChangesOf(list, i, a)
    BY <1>2 DEF ChangesOf
  <2>2. AttributePlace(list, done \cup {i}, a) = InItsPlace(list, i, a.id, a.name, ValueNow(list, done, a))
    BY <1>2, <1>3, <2>1, PlaceAfter
  <2> QED BY <1>4, <2>2
<1> HIDE DEF gives
<1>6. ASSUME NEW new, OnlyRow(new, t.attrs, p, (t.attrs[p] \ {old}) \cup gives)
      PROVE  AttributesAsDeclared(new, list, done \cup {i})
  <2> DEFINE set == (t.attrs[p] \ {old}) \cup gives
  <2>1. set = (t.attrs[p] \ {old}) \cup AttributePlace(list, done \cup {i}, a)
    BY <1>5
  <2>2. OnlyRow(new, t.attrs, p, set)
    BY <1>6
  <2> HIDE DEF set
  <2> QED BY <1>1, <2>1, <2>2, AttributeRow
<1>7. p \in Places
  BY <1>2 DEF Places
<1> QED BY <1>2, <1>3, <1>6, <1>7 DEF p, old, gives

\* All attributes are set, or the primitive raises.
LEMMA AllSet ==
  ASSUME NEW i, NEW t, NEW e, NEW attributes, SetAttributes(i, t, e, attributes), status' # "raised"
  PROVE  tree' = WithAttributes(t, e, t.attrs[e] \cup
                   {Attribute(NewAttribute(i, k), WithoutPrefix(attributes[k].name), attributes[k].value) :
                      k \in DOMAIN attributes})
<1> DEFINE set == SetOnes(t, e, attributes)
           new == WithAttributes(t, e, t.attrs[e] \cup NewOnes(i, t, e, attributes))
<1>1. IF set = DOMAIN attributes THEN Applied(i, new) ELSE Broken(i, new, "XUDY0021")
  BY DEF SetAttributes, NewOnes, SetOnes, TakenName
<1> HIDE DEF new
<1>2. set = DOMAIN attributes /\ tree' = new
  BY <1>1 DEF Applied, Broken
<1> QED BY <1>2 DEF new, NewOnes

\* Those of a primitive with content are the attributes it brings.
LEMMA AllBrought ==
  ASSUME NEW i
  PROVE  {Attribute(NewAttribute(i, k), WithoutPrefix(Brought(i)[k].name), Brought(i)[k].value) : k \in DOMAIN Brought(i)}
           = BringsAttributes(pul, i)
BY DEF Brought, BringsAttributes

-----------------------------------------------------------------------------
(* The actions. *)

AsDeclared(t, list, done) == RowsAsDeclared(t.kids, list, done) /\ AttributesAsDeclared(t.attrs, list, done)
DoesAsDeclared(i) == status' # "raised" => AsDeclared(tree', pul, applied \cup {i})

\* Only rows are changed by the insertions and replacements of children.
LEMMA RowsDone ==
  ASSUME NEW i, ReadyFor(tree, pul, applied, i), pul[i].type # "insertAttributes",
         pul[i].type \in AttributeTypes => pul[i].target \in Children,
         pul[i].type = "rename" => pul[i].target \notin ElementLike,
         NEW new, new.attrs = tree.attrs, RowsAsDeclared(new.kids, pul, applied \cup {i}), Applied(i, new)
  PROVE  DoesAsDeclared(i)
<1>1. AttributesAsDeclared(tree.attrs, pul, applied \cup {i})
  BY ChildWorkAttributes
<1> QED BY <1>1 DEF Applied, DoesAsDeclared, AsDeclared

\* insertInto, insertIntoAsLast and insertIntoAsFirst do as declared.
LEMMA InsertIntoDeclared ==
  ASSUME NEW i, ReadyFor(tree, pul, applied, i), ApplyInsertInto(i) \/ ApplyInsertIntoAsFirst(i)
  PROVE  DoesAsDeclared(i)
<1> DEFINE e == pul[i].target
           reference == IF pul[i].type = "insertIntoAsFirst" THEN FirstChild(tree, e) ELSE NoNode
           new == InsertNodes(tree, e, Content(i, pul[i].nodes), reference)
<1>1. pul[i].type \in Into /\ Applied(i, new)
  BY DEF ApplyInsertInto, ApplyInsertIntoAsFirst, Into
<1>2. RowsAsDeclared(new.kids, pul, applied \cup {i})
  BY <1>1, InsertIntoRows DEF ReadyFor
<1>3. new.attrs = tree.attrs
  BY DEF InsertNodes
<1> HIDE DEF new
<1> QED BY <1>1, <1>2, <1>3, RowsDone DEF Into, AttributeTypes

\* insertBefore and insertAfter do as declared, or raise.
LEMMA InsertBesideDeclared ==
  ASSUME NEW i, ReadyFor(tree, pul, applied, i), ApplyInsertBefore(i) \/ ApplyInsertAfter(i)
  PROVE  DoesAsDeclared(i)
<1> DEFINE n == pul[i].target
           reference == IF pul[i].type = "insertBefore" THEN n ELSE NextSibling(tree, n)
           new == InsertNodes(tree, ParentOf(tree, n), Content(i, pul[i].nodes), reference)
<1>1. pul[i].type \in Beside
  BY DEF ApplyInsertBefore, ApplyInsertAfter, Beside
<1>2. n \in Children
  BY <1>1, ReadyTypes DEF ReadyFor, Ready, RightTarget
<1>3. CASE ParentOf(tree, n) = NoNode
  BY <1>3 DEF ApplyInsertBefore, ApplyInsertAfter, Broken, DoesAsDeclared
<1>4. CASE ParentOf(tree, n) # NoNode
  <2>1. Applied(i, new)
    BY <1>4 DEF ApplyInsertBefore, ApplyInsertAfter
  <2>2. RowsAsDeclared(new.kids, pul, applied \cup {i})
    BY <1>1, <1>2, <1>4, InsertBesideRow DEF ReadyFor
  <2>3. new.attrs = tree.attrs
    BY DEF InsertNodes
  <2> HIDE DEF new
  <2> QED BY <1>1, <2>1, <2>2, <2>3, RowsDone DEF Beside, AttributeTypes
<1> QED BY <1>3, <1>4

\* replaceElementContent does as declared.
LEMMA ReplaceContentDeclared ==
  ASSUME NEW i, ReadyFor(tree, pul, applied, i), ApplyReplaceElementContent(i)
  PROVE  DoesAsDeclared(i)
<1> DEFINE e == pul[i].target
           emptied == [kids |-> [tree.kids EXCEPT ![e] = <<>>], attrs |-> tree.attrs]
           new == InsertNodes(emptied, e, IF pul[i].text THEN <<Text(i)>> ELSE <<>>, NoNode)
<1>1. pul[i].type = "replaceElementContent" /\ Applied(i, new)
  BY DEF ApplyReplaceElementContent
<1>2. RowsAsDeclared(new.kids, pul, applied \cup {i})
  BY <1>1, ReplaceContentRow DEF ReadyFor
<1>3. new.attrs = tree.attrs
  BY DEF InsertNodes
<1> HIDE DEF new
<1> QED BY <1>1, <1>2, <1>3, RowsDone DEF AttributeTypes

\* Only attributes are changed.
LEMMA AttributesDone ==
  ASSUME NEW i, ReadyFor(tree, pul, applied, i),
         pul[i].type \in {"insertAttributes", "replaceValue"}
             \/ (pul[i].type \in PlaceTypes /\ pul[i].target \notin Children),
         NEW new, new.kids = tree.kids, AttributesAsDeclared(new.attrs, pul, applied \cup {i}), tree' = new
  PROVE  DoesAsDeclared(i)
<1>1. RowsAsDeclared(tree.kids, pul, applied \cup {i})
  BY AttributeWorkRows DEF ReadyFor
<1> QED BY <1>1 DEF DoesAsDeclared, AsDeclared

\* insertAttributes does as declared, or raises.
LEMMA InsertAttributesDeclared ==
  ASSUME NEW i, ReadyFor(tree, pul, applied, i), ApplyInsertAttributes(i)
  PROVE  DoesAsDeclared(i)
<1> SUFFICES ASSUME status' # "raised"
             PROVE  DoesAsDeclared(i)
  BY DEF DoesAsDeclared
<1> DEFINE e == pul[i].target
           set == tree.attrs[e] \cup BringsAttributes(pul, i)
           new == WithAttributes(tree, e, set)
<1>1. pul[i].type = "insertAttributes" /\ SetAttributes(i, tree, e, Brought(i))
  BY DEF ApplyInsertAttributes
<1>2. tree' = new
  <2> HIDE DEF e
  <2> QED BY <1>1, AllSet, AllBrought
<1>3. new.kids = tree.kids /\ OnlyRow(new.attrs, tree.attrs, e, set)
  BY DEF WithAttributes, OnlyRow
<1> HIDE DEF new
<1>4. AttributesAsDeclared(new.attrs, pul, applied \cup {i})
  BY <1>1, <1>3, InsertAttributesRow
<1> QED BY <1>1, <1>2, <1>3, <1>4, AttributesDone

\* replaceValue does as declared, on attributes with and without an owner and on other nodes.
LEMMA ReplaceValueDeclared ==
  ASSUME NEW i, ReadyFor(tree, pul, applied, i), ApplyReplaceValue(i)
  PROVE  DoesAsDeclared(i)
<1> DEFINE n == pul[i].target
           p == ParentOf(tree, n)
           old == CHOOSE a \in tree.attrs[p] : a.id = n
           new == SetValue(tree, p, old.name, <<"replaced", i, 0>>)
<1>1. pul[i].type = "replaceValue" /\ n \in Nodes
  BY ReadyTypes DEF ApplyReplaceValue, ReadyFor
<1>2. CASE n \in Children
  <2>1. Applied(i, tree)
    BY <1>2 DEF ApplyReplaceValue, Children
  <2>2. AttributesAsDeclared(tree.attrs, pul, applied \cup {i})
    BY <1>1, <1>2, ChildWorkAttributes
  <2> QED BY <1>1, <2>1, <2>2, AttributesDone DEF Applied
<1>3. CASE p = NoNode
  <2>1. Applied(i, tree)
    BY <1>3 DEF ApplyReplaceValue
  <2>2. AttributesAsDeclared(tree.attrs, pul, applied \cup {i})
    BY <1>1, <1>3, NothingThere
  <2> QED BY <1>1, <2>1, <2>2, AttributesDone DEF Applied
<1>4. CASE n \notin Children /\ p # NoNode
  <2>1. Applied(i, new)
    BY <1>1, <1>4 DEF ApplyReplaceValue, Children
  <2> DEFINE gives == InItsPlace(pul, i, old.id, old.name, old.value)
  <2>2. gives = {Attribute(old.id, old.name, <<"replaced", i, 0>>)}
    BY <1>1 DEF InItsPlace
  <2>3. /\ p \in Places /\ old \in tree.attrs[p] /\ AttributesInv(tree.attrs, applied)
        /\ \A other : OnlyRow(other, tree.attrs, p, (tree.attrs[p] \ {old}) \cup gives)
                        => AttributesAsDeclared(other, pul, applied \cup {i})
    BY <1>1, <1>4, AttributeGives DEF AttributeTypes
  <2> HIDE DEF p, old, gives
  <2>4. OnlyRow(new.attrs, tree.attrs, p, (tree.attrs[p] \ {old}) \cup gives)
    BY <2>2, <2>3, OneValueSet
  <2>5. new.kids = tree.kids
    BY DEF SetValue, WithAttributes
  <2> HIDE DEF new
  <2> QED BY <1>1, <2>1, <2>3, <2>4, <2>5, AttributesDone DEF Applied
<1> QED BY <1>2, <1>3, <1>4

\* replaceNode does as declared, on children and attributes, or raises.
LEMMA ReplaceNodeDeclared ==
  ASSUME NEW i, ReadyFor(tree, pul, applied, i), ApplyReplaceNode(i)
  PROVE  DoesAsDeclared(i)
<1> SUFFICES ASSUME status' # "raised"
             PROVE  DoesAsDeclared(i)
  BY DEF DoesAsDeclared
<1> DEFINE n == pul[i].target
           p == ParentOf(tree, n)
           old == CHOOSE a \in tree.attrs[p] : a.id = n
           left == RemoveAttribute(tree, p, old.name)
           replaced == ReplaceChild(tree, n, Content(i, pul[i].nodes))
<1>1. pul[i].type = "replaceNode" /\ n \in Nodes
  BY ReadyTypes DEF ApplyReplaceNode, ReadyFor
<1>2. p # NoNode
  BY DEF ApplyReplaceNode, Broken
<1>3. CASE n \in Children
  <2>1. Applied(i, replaced)
    BY <1>2, <1>3 DEF ApplyReplaceNode, Children
  <2>2. RowsAsDeclared(replaced.kids, pul, applied \cup {i})
    BY <1>1, <1>2, <1>3, ReplaceNodeRow DEF ReadyFor
  <2>3. replaced.attrs = tree.attrs
    BY DEF ReplaceChild, InsertNodes, RemoveChild
  <2> HIDE DEF replaced
  <2> QED BY <1>1, <1>3, <2>1, <2>2, <2>3, RowsDone
<1>4. CASE n \notin Children
  <2>1. SetAttributes(i, left, p, Brought(i))
    BY <1>1, <1>2, <1>4 DEF ApplyReplaceNode, Children
  <2> DEFINE gives == InItsPlace(pul, i, old.id, old.name, old.value)
             new == WithAttributes(left, p, left.attrs[p] \cup gives)
  <2>2. gives = BringsAttributes(pul, i)
    BY <1>1 DEF InItsPlace
  <2>3. /\ p \in Places /\ old \in tree.attrs[p] /\ AttributesInv(tree.attrs, applied)
        /\ \A other : OnlyRow(other, tree.attrs, p, (tree.attrs[p] \ {old}) \cup gives)
                        => AttributesAsDeclared(other, pul, applied \cup {i})
    BY <1>1, <1>2, <1>4, AttributeGives DEF AttributeTypes
  <2> HIDE DEF p, old, gives
  <2>4. OnlyRow(new.attrs, tree.attrs, p, (tree.attrs[p] \ {old}) \cup gives)
    BY <2>3, RemovedThenSet
  <2>5. new.kids = tree.kids
    BY DEF RemoveAttribute, WithAttributes
  <2>6. tree' = new
    <3> HIDE DEF left
    <3> QED BY <2>1, <2>2, AllSet, AllBrought
  <2> HIDE DEF new
  <2> QED BY <1>1, <1>4, <2>3, <2>4, <2>5, <2>6, AttributesDone DEF PlaceTypes
<1> QED BY <1>3, <1>4

\* delete does as declared, on children, attributes and nodes that are gone.
LEMMA DeleteDeclared ==
  ASSUME NEW i, ReadyFor(tree, pul, applied, i), ApplyDelete(i)
  PROVE  DoesAsDeclared(i)
<1> DEFINE n == pul[i].target
           p == ParentOf(tree, n)
           old == CHOOSE a \in tree.attrs[p] : a.id = n
           new == RemoveAttribute(tree, p, old.name)
           removed == RemoveChild(tree, n)
<1>1. pul[i].type = "delete" /\ n \in Nodes
  BY ReadyTypes DEF ApplyDelete, ReadyFor
<1>2. CASE p = NoNode
  <2>1. Applied(i, tree)
    BY <1>2 DEF ApplyDelete
  <2>2. RowsAsDeclared(tree.kids, pul, applied \cup {i})
    BY <1>1, <1>2, DeleteNothing DEF ReadyFor
  <2>3. AttributesAsDeclared(tree.attrs, pul, applied \cup {i})
    BY <1>1, <1>2, NothingThere
  <2> QED BY <2>1, <2>2, <2>3 DEF Applied, DoesAsDeclared, AsDeclared
<1>3. CASE p # NoNode /\ n \in Children
  <2>1. Applied(i, removed)
    BY <1>3 DEF ApplyDelete, Children
  <2>2. RowsAsDeclared(removed.kids, pul, applied \cup {i})
    BY <1>1, <1>3, DeleteRow DEF ReadyFor
  <2>3. removed.attrs = tree.attrs
    BY DEF RemoveChild
  <2> HIDE DEF removed
  <2> QED BY <1>1, <1>3, <2>1, <2>2, <2>3, RowsDone
<1>4. CASE p # NoNode /\ n \notin Children
  <2>1. Applied(i, new)
    BY <1>1, <1>4 DEF ApplyDelete, Children
  <2> DEFINE gives == InItsPlace(pul, i, old.id, old.name, old.value)
  <2>2. gives = {}
    BY <1>1 DEF InItsPlace
  <2>3. /\ p \in Places /\ old \in tree.attrs[p] /\ AttributesInv(tree.attrs, applied)
        /\ \A other : OnlyRow(other, tree.attrs, p, (tree.attrs[p] \ {old}) \cup gives)
                        => AttributesAsDeclared(other, pul, applied \cup {i})
    BY <1>1, <1>4, AttributeGives DEF AttributeTypes
  <2> HIDE DEF p, old, gives
  <2>4. OnlyRow(new.attrs, tree.attrs, p, (tree.attrs[p] \ {old}) \cup gives)
    <3>1. (tree.attrs[p] \ {old}) \cup gives = tree.attrs[p] \ {old}
      BY <2>2
    <3>2. OnlyRow(new.attrs, tree.attrs, p, tree.attrs[p] \ {old})
      BY <2>3, OneAttributeRemoved
    <3> QED BY <3>1, <3>2
  <2>5. new.kids = tree.kids
    BY DEF RemoveAttribute, WithAttributes
  <2> HIDE DEF new
  <2> QED BY <1>1, <1>4, <2>1, <2>3, <2>4, <2>5, AttributesDone DEF Applied, PlaceTypes
<1> QED BY <1>2, <1>3, <1>4

\* rename on an attribute does as declared, or raises.
LEMMA RenameAttributeDeclared ==
  ASSUME NEW i, ReadyFor(tree, pul, applied, i), pul[i].type = "rename", pul[i].target \notin Children,
         RenameAttribute(i, pul[i].target)
  PROVE  DoesAsDeclared(i)
<1> SUFFICES ASSUME status' # "raised"
             PROVE  DoesAsDeclared(i)
  BY DEF DoesAsDeclared
<1> DEFINE n == pul[i].target
           p == ParentOf(tree, n)
           old == CHOOSE a \in tree.attrs[p] : a.id = n
           left == RemoveAttribute(tree, p, old.name)
           attributes == <<[name |-> pul[i].name, value |-> old.value]>>
           gives == InItsPlace(pul, i, old.id, old.name, old.value)
           new == WithAttributes(left, p, left.attrs[p] \cup gives)
<1>1. p # NoNode /\ SetAttributes(i, left, p, attributes)
  BY DEF RenameAttribute, Broken
<1>2. gives = {Attribute(NewAttribute(i, k), WithoutPrefix(attributes[k].name), attributes[k].value) :
                 k \in DOMAIN attributes}
  <2>1. gives = {Attribute(NewAttribute(i, 1), WithoutPrefix(pul[i].name), old.value)}
    BY DEF InItsPlace
  <2>2. DOMAIN attributes = {1} /\ attributes[1].name = pul[i].name /\ attributes[1].value = old.value
    OBVIOUS
  <2> HIDE DEF attributes
  <2> QED BY <2>1, <2>2
<1>3. /\ p \in Places /\ old \in tree.attrs[p] /\ AttributesInv(tree.attrs, applied)
      /\ \A other : OnlyRow(other, tree.attrs, p, (tree.attrs[p] \ {old}) \cup gives)
                      => AttributesAsDeclared(other, pul, applied \cup {i})
  BY <1>1, AttributeGives DEF AttributeTypes
<1> HIDE DEF p, old, gives, attributes
<1>4. OnlyRow(new.attrs, tree.attrs, p, (tree.attrs[p] \ {old}) \cup gives)
  BY <1>3, RemovedThenSet
<1>5. new.kids = tree.kids
  BY DEF RemoveAttribute, WithAttributes
<1>6. tree' = new
  <2> HIDE DEF left
  <2> QED BY <1>1, <1>2, AllSet
<1> HIDE DEF new
<1> QED BY <1>3, <1>4, <1>5, <1>6, AttributesDone DEF PlaceTypes

\* rename on an element does as declared, or raises.
LEMMA RenameElementDeclared ==
  ASSUME NEW i, ReadyFor(tree, pul, applied, i), NEW n \in Elements, ActsOn(pul, i, "rename", n), RenameElement(i, n)
  PROVE  DoesAsDeclared(i)
<1> DEFINE new == ReplaceChild(Moved(i, tree, n), n, <<Renamed(i)>>)
<1>1. CASE ParentOf(tree, n) = NoNode
  BY <1>1 DEF RenameElement, Broken, DoesAsDeclared
<1>2. CASE ParentOf(tree, n) # NoNode
  <2>1. tree' = new
    BY <1>2 DEF RenameElement, Moved, Copies, MovedChildren, Applied
  <2>2. AttributesAsDeclared(new.attrs, pul, applied \cup {i})
    BY RenameAttributesRow
  <2>3. RowsAsDeclared(new.kids, pul, applied \cup {i})
    <3>1. Ready(tree, pul, applied, i) /\ pul[i].type = "rename" /\ pul[i].target = n
      BY DEF ReadyFor, ActsOn
    <3> QED BY <1>2, <3>1, RenameRow
  <2> HIDE DEF new
  <2> QED BY <2>1, <2>2, <2>3 DEF DoesAsDeclared, AsDeclared
<1> QED BY <1>1, <1>2

\* rename on a processing instruction does as declared, or raises.
LEMMA RenameInstructionDeclared ==
  ASSUME NEW i, ReadyFor(tree, pul, applied, i), pul[i].type = "rename", NEW n \in Children, pul[i].target = n,
         n \notin ElementLike, RenameInstruction(i, n)
  PROVE  DoesAsDeclared(i)
<1> DEFINE new == ReplaceChild(tree, n, Content(i, 1))
<1>1. CASE ParentOf(tree, n) = NoNode
  BY <1>1 DEF RenameInstruction, Broken, DoesAsDeclared
<1>2. CASE ParentOf(tree, n) # NoNode
  <2>1. Applied(i, new)
    BY <1>2 DEF RenameInstruction
  <2>2. RowsAsDeclared(new.kids, pul, applied \cup {i})
    BY <1>2, RenameInstructionRow DEF ReadyFor
  <2>3. new.attrs = tree.attrs
    BY DEF ReplaceChild, InsertNodes, RemoveChild
  <2> HIDE DEF new
  <2> QED BY <2>1, <2>2, <2>3, RowsDone
<1> QED BY <1>1, <1>2

\* Whatever the primitive, it does as declared.
LEMMA ApplyDeclared ==
  ASSUME NEW i, ReadyFor(tree, pul, applied, i), Apply(i)
  PROVE  DoesAsDeclared(i)
<1>1. CASE ApplyRename(i)
  <2>1. pul[i].type = "rename" /\ pul[i].target \in Nodes
    BY <1>1, ReadyTypes DEF ApplyRename, ReadyFor
  <2>2. CASE pul[i].target \in Elements /\ RenameElement(i, pul[i].target)
    <3>1. ActsOn(pul, i, "rename", pul[i].target)
      BY <2>1 DEF ActsOn
    <3> QED BY <2>2, <3>1, RenameElementDeclared
  <2>3. CASE KindOf[pul[i].target] = "attribute" /\ RenameAttribute(i, pul[i].target)
    BY <2>1, <2>3, RenameAttributeDeclared DEF Children
  <2>4. CASE KindOf[pul[i].target] = "processing-instruction" /\ RenameInstruction(i, pul[i].target)
    <3>1. pul[i].target \in Children /\ pul[i].target \notin ElementLike
      BY <2>1, <2>4 DEF Children, ElementLike
    <3> QED BY <2>1, <2>4, <3>1, RenameInstructionDeclared
  <2> QED BY <1>1, <2>2, <2>3, <2>4 DEF ApplyRename
<1>2. CASE ~ ApplyRename(i)
  BY <1>2, InsertIntoDeclared, InsertBesideDeclared, InsertAttributesDeclared, ReplaceValueDeclared, ReplaceNodeDeclared,
     ReplaceContentDeclared, DeleteDeclared DEF Apply
<1> QED BY <1>1, <1>2

-----------------------------------------------------------------------------
(* The invariant of the result. *)

\* When no rename clashes, the primitive whose turn it is finds what it needs.
LEMMA TurnIsReady ==
  ASSUME PendingInv, AppliedInv, ~ RenameClash, NEW i \in DOMAIN pul, Turn(i)
  PROVE  ReadyFor(tree, pul, applied, i)
<1>1. status = "applying" /\ i \notin applied
  BY DEF Turn
<1>2. /\ pul \in Seq(Primitives) /\ Len(pul) <= MaxUpdates /\ applied \in SUBSET DOMAIN pul
      /\ \A j \in DOMAIN pul : RightTarget(pul[j])
      /\ TreeInv(tree, pul, applied)
  BY DEF PendingInv, TypeOK
<1>3. OnceEach(pul) /\ RowsAsDeclared(tree.kids, pul, applied) /\ AttributesAsDeclared(tree.attrs, pul, applied)
  BY <1>1 DEF AppliedInv
<1>4. \A j \in applied : Precedes(j, i)
  BY <1>1 DEF PendingInv
<1>5. \A j \in applied : pul[j].type = "rename" =>
        /\ pul[j].target # pul[i].target
        /\ pul[j].target \in Elements => pul[i].target \notin Ids(Attrs[pul[j].target])
  <2> SUFFICES ASSUME NEW j \in applied, pul[j].type = "rename",
                      \/ pul[j].target = pul[i].target
                      \/ pul[j].target \in Elements /\ pul[i].target \in Ids(Attrs[pul[j].target])
               PROVE  RenameClash
    OBVIOUS
  <2>1. j \in OfType({"rename"}) /\ i \in DOMAIN pul \ {j} /\ Precedes(j, i)
    BY <1>1, <1>2, <1>4 DEF OfType
  <2> QED BY <2>1 DEF RenameClash, Ids
<1>6. \A j \in applied : \/ Phase(pul[j].type) < Phase(pul[i].type)
                         \/ Phase(pul[j].type) = Phase(pul[i].type) /\ j < i
  BY <1>4 DEF Precedes
<1> QED BY <1>1, <1>2, <1>3, <1>5, <1>6 DEF ReadyFor, Ready

\* The invariant survives every primitive.
LEMMA ApplyAppliedInv ==
  ASSUME PendingInv, AppliedInv, NEW i \in DOMAIN pul, Apply(i)
  PROVE  AppliedInv'
<1>1. Worked(i, OwnErrors) /\ Turn(i)
  BY ApplyWorks
<1>2. status = "applying" /\ pul' = pul /\ applied' = applied \cup {i} /\ status' \in {"applying", "raised"}
  BY <1>1 DEF Worked, Turn
<1>3. CASE status' = "raised"
  BY <1>3 DEF AppliedInv
<1>4. CASE status' = "applying"
  <2>1. OnceEach(pul')
    BY <1>2 DEF AppliedInv
  <2>2. ASSUME ~ RenameClash'
        PROVE  RowsAsDeclared(tree'.kids, pul', applied') /\ AttributesAsDeclared(tree'.attrs, pul', applied')
    <3>1. ~ RenameClash
      BY <1>2, <2>2, SameList
    <3>2. ReadyFor(tree, pul, applied, i)
      BY <1>1, <3>1, TurnIsReady
    <3>3. DoesAsDeclared(i)
      BY <3>2, ApplyDeclared
    <3> QED BY <1>2, <1>4, <3>3 DEF DoesAsDeclared, AsDeclared
  <2> QED BY <1>4, <2>1, <2>2 DEF AppliedInv
<1> QED BY <1>2, <1>3, <1>4

\* Before any primitive the tree of the caller is declared.
LEMMA NothingDone ==
  ASSUME NEW list, NEW type, NEW target
  PROVE  Of(list, {}, type, target) = {}
BY DEF Of

\* Before any primitive, the children and attributes of the caller are declared.
LEMMA DeclaredFirst ==
  ASSUME NEW list \in Seq(Primitives), NEW e \in ElementLike
  PROVE  DeclaredKids(list, {}, e) = Kids[e] /\ DeclaredAttributes(list, {}, e) = Attrs[e]
<1> DEFINE q == [k \in DOMAIN Kids[e] |-> Place(list, {}, Kids[e][k])]
<1>1. \A type : \A target : Of(list, {}, type, target) = {}
  BY NothingDone
<1>2. Listed(list, {}) = <<>> /\ LatestFirst(list, {}) = <<>>
  BY ListedNone
<1>3. Kids[e] \in Rows /\ Kids[e] \in Seq(RowNodes)
  BY ChildrenRow, RowsAreOfNodes
<1>4. \A n \in RowNodes : Place(list, {}, n) = <<n>>
  <2> TAKE n \in RowNodes
  <2>1. Core(list, {}, n) = <<n>>
    BY <1>1 DEF Core
  <2>2. Place(list, {}, n) = <<>> \o <<n>> \o <<>>
    BY <1>1, <1>2, <2>1 DEF Place
  <2>3. <<n>> \in Rows
    BY OneIsRow
  <2>4. <<>> \o <<n>> = <<n>> /\ <<n>> \o <<>> = <<n>>
    BY <2>3, NothingAdded
  <2> QED BY <2>2, <2>4
<1>5. \A k \in DOMAIN Kids[e] : Kids[e][k] \in RowNodes /\ q[k] = <<Kids[e][k]>>
  BY <1>3, <1>4
<1>6. q \in Seq(Seq(RowNodes)) /\ Len(q) = Len(Kids[e])
  <2> DEFINE N == Seq(RowNodes)
             n == Len(Kids[e])
  <2>1. DOMAIN Kids[e] = 1 .. n /\ n \in Nat /\ q = [k \in 1 .. n |-> q[k]]
    BY <1>3
  <2>2. \A m \in RowNodes : <<m>> \in N
    OBVIOUS
  <2> HIDE DEF N
  <2>3. \A k \in DOMAIN Kids[e] : q[k] \in N
    BY <1>5, <2>2
  <2> HIDE DEF n, q
  <2>4. q \in [1 .. n -> N]
    BY <2>1, <2>3
  <2>5. q \in Seq(N) /\ Len(q) = n
    BY <2>1, <2>4
  <2> QED BY <2>5 DEF N, n
<1>7. FlattenSeq(q) = Kids[e]
  <2> HIDE DEF q
  <2> QED BY <1>3, <1>5, <1>6, OnesJoined
<1>8. DeclaredKids(list, {}, e) = Kids[e]
  <2>1. DeclaredKids(list, {}, e) = <<>> \o FlattenSeq(q) \o <<>> \o <<>>
    BY <1>1, <1>2 DEF DeclaredKids
  <2>2. <<>> \o Kids[e] = Kids[e] /\ Kids[e] \o <<>> = Kids[e]
    BY <1>3, NothingAdded
  <2> HIDE DEF q
  <2> QED BY <1>7, <2>1, <2>2
<1>9. \A a \in Attrs[e] : AttributePlace(list, {}, a) = {a}
  <2> TAKE a \in Attrs[e]
  <2>1. a = Attribute(a.id, a.name, a.value)
    BY CallersAttributes
  <2>2. AttributePlace(list, {}, a) = {Attribute(a.id, a.name, ValueNow(list, {}, a))} /\ ValueNow(list, {}, a) = a.value
    BY <1>1 DEF AttributePlace, ValueNow
  <2> QED BY <2>1, <2>2
<1>10. DeclaredAttributes(list, {}, e) = Attrs[e]
  <2>1. {AttributePlace(list, {}, a) : a \in Attrs[e]} = {{a} : a \in Attrs[e]}
    BY <1>9
  <2>2. {BringsAttributes(list, j) : j \in Of(list, {}, "insertAttributes", e)} = {}
    BY <1>1
  <2> QED BY <2>1, <2>2 DEF DeclaredAttributes
<1> QED BY <1>8, <1>10

\* The invariant holds when the compatibility check has found nothing.
LEMMA CheckAppliedInv ==
  ASSUME PendingInv, AppliedInv, CheckCompatibility
  PROVE  AppliedInv'
<1>1. CASE Incompatibility # "none"
  BY <1>1 DEF CheckCompatibility, Raise, AppliedInv
<1>2. CASE Incompatibility = "none"
  <2>1. /\ status = "collecting" /\ status' = "applying"
        /\ pul' = pul /\ tree' = InitialTree /\ applied' = {}
    BY <1>2 DEF CheckCompatibility, PendingInv
  <2>2. OnceEach(pul)
    <3>1. ~ SameTarget("rename") /\ ~ SameTarget("replaceNode")
        /\ ~ SameTarget("replaceValue") /\ ~ SameTarget("replaceElementContent")
      BY <1>2 DEF Incompatibility
    <3> QED BY <3>1 DEF OnceEach, SameTarget, OfType
  <2>3. pul \in Seq(Primitives)
    BY DEF PendingInv, TypeOK
  <2>4. \A e \in ElementLike : PlaceOf(pul, {}, e) = e /\ Of(pul, {}, "rename", e) = {}
    BY NothingDone DEF PlaceOf
  <2>5. \A e \in ElementLike : InitialTree.kids[e] = Kids[e] /\ InitialTree.attrs[e] = Attrs[e]
    BY DEF InitialTree
  <2>6. RowsAsDeclared(InitialTree.kids, pul, {}) /\ AttributesAsDeclared(InitialTree.attrs, pul, {})
    BY <2>3, <2>4, <2>5, DeclaredFirst DEF RowsAsDeclared, AttributesAsDeclared
  <2> QED BY <2>1, <2>2, <2>6 DEF AppliedInv
<1> QED BY <1>1, <1>2

\* After every step.
LEMMA StepAppliedInv ==
  ASSUME PendingInv, AppliedInv, [Next]_vars
  PROVE  AppliedInv'
<1>1. CASE Evaluate
  <2>1. status' \in {"collecting", "raised"}
    BY <1>1 DEF Evaluate, EvaluateInsert, EvaluateDelete, EvaluateReplaceNode, EvaluateReplaceValue, EvaluateRename,
                MergeUpdates, Raise
  <2> QED BY <2>1 DEF AppliedInv
<1>2. CASE CheckCompatibility
  BY <1>2, CheckAppliedInv
<1>3. CASE \E i \in DOMAIN pul : Apply(i)
  BY <1>3, ApplyAppliedInv
<1>4. CASE Finish
  <2>1. /\ status = "applying" /\ status' = "done" /\ applied = DOMAIN pul
        /\ pul' = pul /\ tree' = tree /\ applied' = applied
    BY <1>4 DEF Finish
  <2>2. RenameClash' <=> RenameClash
    BY <2>1, SameList
  <2> QED BY <2>1, <2>2 DEF AppliedInv
<1>5. CASE UNCHANGED vars
  <2>1. pul' = pul /\ tree' = tree /\ applied' = applied /\ status' = status
    BY <1>5 DEF vars
  <2>2. RenameClash' <=> RenameClash
    BY <2>1, SameList
  <2> QED BY <2>1, <2>2 DEF AppliedInv
<1> QED BY <1>1, <1>2, <1>3, <1>4, <1>5 DEF Next

\* The place of every element of the caller's tree has, whatever the list, the children and attributes declared.
THEOREM AppliedInvariant == Spec => []AppliedInv
<1>1. Init => AppliedInv
  BY DEF Init, AppliedInv
<1>2. PendingInv /\ AppliedInv /\ [Next]_vars => AppliedInv'
  BY StepAppliedInv
<1> QED BY <1>1, <1>2, PendingInvariant, PTL DEF Spec

-----------------------------------------------------------------------------

\* An element of the caller that is in the tree has its own place.
LEMMA OwnPlace ==
  ASSUME NEW t, NEW list, NEW done, Settled(t, list, done), NEW p \in ElementLike, p \in Present(t)
  PROVE  PlaceOf(list, done, p) = p
<1> SUFFICES ASSUME PlaceOf(list, done, p) # p
             PROVE  FALSE
  OBVIOUS
<1>1. ParentOf(InitialTree, p) # NoNode
  BY DEF Settled, RowsAsDeclared
<1>2. ParentOf(t, p) # NoNode
  BY <1>1 DEF Present
<1>3. p \in Children /\ p \in Nodes /\ TreeInv(t, list, done)
  BY DEF ElementLike, Children, Settled
<1>4. ParentOf(t, p) \in Places /\ p \in ToSet(t.kids[ParentOf(t, p)])
  BY <1>2, <1>3, ParentIsOwner
<1>5. Standing(list, done, p)
  BY <1>3, <1>4, ChildKnown DEF ChildOf
<1> QED BY <1>5 DEF Standing, PlaceOf

\* An element that took the place of another one and is in the tree is the place of that one.
LEMMA TakenPlace ==
  ASSUME NEW t, NEW list, NEW done, Settled(t, list, done), \A j \in DOMAIN list : RightTarget(list[j]),
         NEW p \in Places, p \notin ElementLike, p \in Present(t)
  PROVE  \E e \in ElementLike : \E j \in Of(list, done, "rename", e) : PlaceOf(list, done, e) = p /\ p = Renamed(j)
<1>1. TreeInv(t, list, done) /\ list \in Seq(Primitives) /\ done \in SUBSET DOMAIN list
  BY DEF Settled
<1>2. DOMAIN t.kids = Places /\ \A q \in Places : t.kids[q] \in Rows
  BY <1>1, TreePlaces
<1>3. p[1] = "renamed" /\ p \notin Nodes
  BY RenamedIsNew DEF Places
<1>4. PICK q \in Places : Contains(t.kids[q], p) \/ \E a \in t.attrs[q] : a.id = p
  BY <1>2 DEF Present, ParentOf, Parents
<1>5. \A a \in t.attrs[q] : a.id # p
  BY <1>1, <1>3 DEF TreeInv, AttributesInv, KnownAttribute, MadeBy
<1>6. p \in ToSet(t.kids[q])
  BY <1>2, <1>4, <1>5, RowHolds
<1>7. PICK f \in ElementLike : q = PlaceOf(list, done, f)
  BY <1>6, PlaceKnown
<1>8. MayBeDeclared(list, done, f, p)
  <2>1. t.kids[q] = DeclaredKids(list, done, f)
    BY <1>7 DEF Settled, RowsAsDeclared
  <2> QED BY <1>1, <1>6, <2>1, WhoIsThere
<1>9. PICK n \in ToSet(Kids[f]) : p = n
    \/ (n \in Elements /\ Of(list, done, "rename", n) # {} /\ p = Renamed(The(Of(list, done, "rename", n))))
  BY <1>3, <1>8 DEF MayBeDeclared, Brought1
<1>10. n \in Children /\ n \in Nodes
  BY OneParent DEF Children
<1> DEFINE j == The(Of(list, done, "rename", n))
<1>11. Of(list, done, "rename", n) # {} /\ p = Renamed(j)
  BY <1>3, <1>9, <1>10
<1>12. j \in Of(list, done, "rename", n) /\ j \in done /\ list[j].type = "rename" /\ list[j].target = n
  BY <1>11, OfMembers
<1>13. PlaceOf(list, done, n) = p
  BY <1>11 DEF PlaceOf
<1> HIDE DEF j
<1>14. n \in ElementLike
  BY <1>3, <1>9, <1>10 DEF Elements, ElementLike
<1> QED BY <1>11, <1>12, <1>13, <1>14

\* Copies have the names and values of what they are copies of.
LEMMA CopiesAlike ==
  ASSUME NEW i, NEW attributes
  PROVE  NamesAndValues(CopiesBy(i, attributes)) = NamesAndValues(attributes)
<1>1. \A a : Attribute(CopiedAttribute(i, a.id), a.name, a.value).name = a.name
             /\ Attribute(CopiedAttribute(i, a.id), a.name, a.value).value = a.value
  BY DEF Attribute
<1> QED BY <1>1 DEF NamesAndValues, CopiesBy

\* The result of a list, and of every beginning of it, is what is declared (applyUpdates, all
\* primitives): for any tree and any list.
THEOREM ListsDoAsDeclared == Spec => []AppliedAsDeclared
<1>1. PendingInv /\ AppliedInv => AppliedAsDeclared
  <2> SUFFICES ASSUME PendingInv, AppliedInv, status \in {"applying", "done"}, ~ RenameClash, NEW p \in Present(tree)
               PROVE  /\ tree.kids[p] = DeclaredKids(pul, applied, OriginIn(pul, p))
                      /\ NamesAndValues(tree.attrs[p]) = NamesAndValues(DeclaredAttributes(pul, applied, OriginIn(pul, p)))
    BY DEF AppliedAsDeclared, AppliedInv
  <2>1. /\ Settled(tree, pul, applied) /\ AttributesAsDeclared(tree.attrs, pul, applied)
        /\ \A j \in DOMAIN pul : RightTarget(pul[j])
    BY DEF PendingInv, TypeOK, AppliedInv, Settled
  <2>2. p \in Places
    <3>1. DOMAIN tree.kids = Places
      BY <2>1, TreePlaces DEF Settled
    <3> QED BY <3>1 DEF Present, Parents
  <2>3. CASE p \in ElementLike
    <3>1. PlaceOf(pul, applied, p) = p /\ OriginIn(pul, p) = p
      BY <2>1, <2>3, OwnPlace, ElementOrigin
    <3> QED BY <2>1, <2>3, <3>1 DEF Settled, RowsAsDeclared, AttributesAsDeclared
  <2>4. CASE p \notin ElementLike
    <3>1. PICK e \in ElementLike : \E j \in Of(pul, applied, "rename", e) : PlaceOf(pul, applied, e) = p /\ p = Renamed(j)
      BY <2>1, <2>2, <2>4, TakenPlace
    <3>2. PICK j \in Of(pul, applied, "rename", e) : PlaceOf(pul, applied, e) = p /\ p = Renamed(j)
      BY <3>1
    <3>3. OriginIn(pul, p) = e
      BY <3>2, RenamedOrigin DEF Of
    <3>4. tree.kids[p] = DeclaredKids(pul, applied, e)
      BY <2>1, <3>2 DEF Settled, RowsAsDeclared
    <3>5. tree.attrs[p] = CopiesBy(j, DeclaredAttributes(pul, applied, e))
      BY <2>1, <3>2 DEF AttributesAsDeclared
    <3> QED BY <3>3, <3>4, <3>5, CopiesAlike
  <2> QED BY <2>3, <2>4
<1> QED BY <1>1, PendingInvariant, AppliedInvariant, PTL
=============================================================================
