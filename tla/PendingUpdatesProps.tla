------------------------ MODULE PendingUpdatesProps ------------------------
(***************************************************************************)
(* What applying a pending update list must amount to.  The result is      *)
(* declared here from the initial tree and the primitives that have been   *)
(* applied, without phases, steps or intermediate trees, and compared with *)
(* what the steps of PendingUpdates lead to.  list is the pending update   *)
(* list, done the places in it of the primitives that have been applied.   *)
(***************************************************************************)
EXTENDS PendingUpdates

\* The primitives of one type on one target.
Of(list, done, type, target) == {i \in done : list[i].type = type /\ list[i].target = target}
The(S) == CHOOSE i \in S : TRUE

\* What primitives bring for children, in the order of the list, or the latest first.
Brings(list, places) == [i \in DOMAIN list |-> IF i \in places THEN Content(i, list[i].nodes) ELSE <<>>]
Listed(list, places) == FlattenSeq(Brings(list, places))
LatestFirst(list, places) == FlattenSeq(Reverse(Brings(list, places)))

\* What the renaming of child n puts in its place: a new element takes the children over, a new
\* processing instruction has none.
RenamedTo(i, n) == IF n \in Elements THEN <<Renamed(i)>> ELSE Content(i, 1)

\* What stands in the place of child n: insertions before it, the node or what replaces it, and
\* insertions after it; every insertion after n comes directly after n, so the last one is first.
Core(list, done, n) ==
  IF Of(list, done, "replaceNode", n) # {} THEN Listed(list, Of(list, done, "replaceNode", n))
  ELSE IF Of(list, done, "delete", n) # {} THEN <<>>
  ELSE IF Of(list, done, "rename", n) # {} THEN RenamedTo(The(Of(list, done, "rename", n)), n)
  ELSE <<n>>
Place(list, done, n) ==
  Listed(list, Of(list, done, "insertBefore", n)) \o Core(list, done, n)
    \o LatestFirst(list, Of(list, done, "insertAfter", n))

DeclaredKids(list, done, e) ==
  LET texts == Of(list, done, "replaceElementContent", e)
  IN IF texts # {}
     THEN IF list[The(texts)].text THEN <<Text(The(texts))>> ELSE <<>>
     ELSE LatestFirst(list, Of(list, done, "insertIntoAsFirst", e))
            \o FlattenSeq([k \in DOMAIN Kids[e] |-> Place(list, done, Kids[e][k])])
            \o Listed(list, Of(list, done, "insertInto", e))
            \o Listed(list, Of(list, done, "insertIntoAsLast", e))

\* The attributes that primitive i brings, by local name and namespace: they lose their prefix.
BringsAttributes(list, i) ==
  {Attribute(NewAttribute(i, k), WithoutPrefix(list[i].attributes[k]), <<"content", i, k>>) :
     k \in DOMAIN list[i].attributes}

\* What stands in the place of attribute a.
ValueNow(list, done, a) ==
  IF Of(list, done, "replaceValue", a.id) # {}
  THEN <<"replaced", The(Of(list, done, "replaceValue", a.id)), 0>> ELSE a.value
AttributePlace(list, done, a) ==
  IF Of(list, done, "replaceNode", a.id) # {} THEN BringsAttributes(list, The(Of(list, done, "replaceNode", a.id)))
  ELSE IF Of(list, done, "delete", a.id) # {} THEN {}
  ELSE IF Of(list, done, "rename", a.id) # {}
  THEN LET i == The(Of(list, done, "rename", a.id))
       IN {Attribute(NewAttribute(i, 1), WithoutPrefix(list[i].name), ValueNow(list, done, a))}
  ELSE {Attribute(a.id, a.name, ValueNow(list, done, a))}

DeclaredAttributes(list, done, e) ==
  (UNION {AttributePlace(list, done, a) : a \in Attrs[e]})
    \cup (UNION {BringsAttributes(list, i) : i \in Of(list, done, "insertAttributes", e)})

NamesAndValues(attributes) == {[name |-> a.name, value |-> a.value] : a \in attributes}

\* The element of the initial tree that p is, or that p took the place of.
OriginIn(list, p) == IF p \in ElementLike THEN p ELSE list[p[2]].target

\* The elements and documents that are in the tree, those that were taken out of it with others
\* below them included.
Present(t) == {p \in Parents(t) : ParentOf(t, p) # NoNode \/ (p \in ElementLike /\ ParentOf(InitialTree, p) = NoNode)}

\* A rename gives its target's place to another node, so a primitive that comes later in the
\* order of application and has the same target, or one of its attributes, works on a node that
\* is no longer in the tree.
RenameClash ==
  \E i \in OfType({"rename"}) : \E j \in DOMAIN pul \ {i} :
    /\ \/ pul[j].target = pul[i].target
       \/ pul[i].target \in Elements /\ pul[j].target \in {a.id : a \in Attrs[pul[i].target]}
    /\ Precedes(i, j)

-----------------------------------------------------------------------------

Primitives ==
  [type : Into \cup Beside \cup {"insertAttributes", "delete", "replaceNode", "replaceValue",
                                "replaceElementContent", "rename"},
   target : Nodes,
   nodes : Nat,
   attributes : Seq(ToSet(Names)),
   name : ToSet(Names) \cup {NoName},
   text : BOOLEAN]
TypeOK ==
  /\ pul \in Seq(Primitives) /\ Len(pul) <= MaxUpdates
  /\ DOMAIN tree.kids = DOMAIN InitialTree.kids /\ DOMAIN tree.attrs = DOMAIN InitialTree.attrs
  /\ applied \subseteq DOMAIN pul
  /\ status \in {"collecting", "applying", "done", "raised"}

\* Whatever the list, also when it raises half-way, the tree stays a tree: no node in two
\* places, no node below itself, no element with two attributes of one name
\* (insertAttributes and replaceNode check names, the document writer moves nodes).
StaysForest == TypeOK /\ IsForest(tree)

\* While the list is applied, and when it has been, every node of the tree has the children and
\* attributes that the primitives applied so far declare, whatever their order and whatever the
\* targets have to do with each other (applyUpdates and all primitives), unless a rename takes a
\* target away.  New attributes are written by local name and namespace only.
AppliedAsDeclared ==
  /\ status = "done" => applied = DOMAIN pul
  /\ status \in {"applying", "done"} /\ ~ RenameClash =>
       \A p \in Present(tree) :
         /\ tree.kids[p] = DeclaredKids(pul, applied, OriginIn(pul, p))
         /\ NamesAndValues(tree.attrs[p]) = NamesAndValues(DeclaredAttributes(pul, applied, OriginIn(pul, p)))

\* A target whose parent is gone (a TypeError in insertBefore, insertAfter and replaceNode) is
\* the doing of a rename, never of another combination of primitives.
BreaksOnlyAfterRename == error = "TypeError" => RenameClash

\* A step never swaps two nodes that were children of one node and still are, be it of another
\* one: applying a primitive, a rename included, keeps the document order of what it leaves.
Before(row, m, n) == \E i, j \in DOMAIN row : i < j /\ row[i] = m /\ row[j] = n
KeepsOrder ==
  [][\A p, q \in Parents(tree) : \A m, n \in ToSet(tree.kids[p]) :
       Before(tree.kids[p], m, n) => ~ Before(tree'.kids[q], n, m)]_vars

-----------------------------------------------------------------------------
(* The inductive invariant behind all of these. *)

Children == {n \in Nodes : KindOf[n] # "attribute"}
Places == ElementLike \cup {Renamed(i) : i \in Updates}

\* A node in the tree is one that was there, or was brought or made by a primitive that has been
\* applied: what the others bring is not there yet.
MadeBy(n, labels, done) == n[1] \in labels /\ n[2] \in done
NodeLabels == {"content", "renamed", "text"}
Rows == Seq(Children \cup (NodeLabels \X Nat \X Nat))
KnownChild(c, done) == c \in Children \/ MadeBy(c, NodeLabels, done)
KnownAttribute(id, done) == id \in Nodes \ Children \/ MadeBy(id, {"attribute", "copied attribute"}, done)

OnePlaceEach(kids) ==
  /\ \A p \in Places : NoRepeats(kids[p])
  /\ \A p, q \in Places : p # q => ToSet(kids[p]) \cap ToSet(kids[q]) = {}

\* Children are found under the element that was, in the caller's tree, the parent of the element
\* that they are or took the place of; only renamed elements have their places taken.  This is why
\* nobody gets below itself.
InUse(list, done) ==
  ElementLike \cup {Renamed(i) : i \in {j \in done : list[j].type = "rename" /\ list[j].target \in Elements}}
UnderTheirOrigin(kids, list, done) ==
  \A p \in Places : \A c \in ToSet(kids[p]) :
    p \in InUse(list, done) /\ (c \in Places => OriginIn(list, c) \in ToSet(Kids[OriginIn(list, p)]))

KidsInv(kids, list, done) ==
  /\ kids \in [Places -> Rows]
  /\ OnePlaceEach(kids)
  /\ \A p \in Places : \A c \in ToSet(kids[p]) : KnownChild(c, done)
  /\ UnderTheirOrigin(kids, list, done)

Ids(attributes) == {a.id : a \in attributes}
SameName(a, b) == a.local = b.local /\ a.uri = b.uri
AttributesInv(attrs, done) ==
  /\ DOMAIN attrs = Places
  /\ \A p \in Places : \A a \in attrs[p] :
       /\ a = Attribute(a.id, a.name, a.value)
       /\ KnownAttribute(a.id, done)
       /\ a.id \in Nodes => p \in ElementLike
  /\ \A p, q \in Places : p # q => Ids(attrs[p]) \cap Ids(attrs[q]) = {}
  /\ \A p \in Places : \A a, b \in attrs[p] : a # b => a.id # b.id /\ ~ SameName(a.name, b.name)

\* A node that had a parent has one until a primitive takes it away.
Owned(t, n) == \E p \in Places : n \in ToSet(t.kids[p]) \/ n \in Ids(t.attrs[p])
TakesAway(u, n) ==
  \/ u.type \in {"delete", "replaceElementContent"}
  \/ u.type \in {"replaceNode", "rename"} /\ u.target = n
  \/ u.type = "rename" /\ u.target \in Elements /\ n \in Ids(Attrs[u.target])
OwnedUntilTaken(t, list, done) ==
  \A n \in Nodes : Owned(InitialTree, n) => Owned(t, n) \/ \E i \in done : TakesAway(list[i], n)

TreeInv(t, list, done) ==
  /\ KidsInv(t.kids, list, done)
  /\ AttributesInv(t.attrs, done)
  /\ OwnedUntilTaken(t, list, done)

\* What the expressions checked of the targets.
RightTarget(u) ==
  /\ u.type \in Into => u.target \in ElementLike
  /\ u.type \in Beside \cup {"replaceNode"} => Owned(InitialTree, u.target)
  /\ u.type \in Beside => u.target \in Children
  /\ u.type \in {"insertAttributes", "replaceElementContent"} => u.target \in Elements
  /\ u.type = "rename" => KindOf[u.target] \in {"element", "attribute", "processing-instruction"}

PendingInv ==
  /\ TypeOK
  /\ \A i \in DOMAIN pul : RightTarget(pul[i])
  /\ status = "collecting" => tree = InitialTree /\ applied = {}
  /\ status \in {"applying", "done"} => ~ SameTarget("replaceNode")
  /\ \A j \in applied, i \in DOMAIN pul \ applied : Precedes(j, i)
  /\ TreeInv(tree, pul, applied)
  /\ status # "raised" => error = "none"
  /\ BreaksOnlyAfterRename

\* For the result as well: no target is replaced or renamed twice, the place of every element of
\* the initial tree has the children that are declared, and so it has the attributes, of which an
\* element that was renamed has copies.
OnceEach(list) ==
  \A type \in {"rename", "replaceNode", "replaceValue", "replaceElementContent"} : \A i, j \in DOMAIN list :
    list[i].type = type /\ list[j].type = type /\ list[i].target = list[j].target => i = j

PlaceOf(list, done, e) ==
  IF Of(list, done, "rename", e) = {} THEN e ELSE Renamed(The(Of(list, done, "rename", e)))
RowsAsDeclared(kids, list, done) ==
  \A e \in ElementLike :
    /\ kids[PlaceOf(list, done, e)] = DeclaredKids(list, done, e)
    /\ PlaceOf(list, done, e) # e => kids[e] = <<>> /\ ParentOf(InitialTree, e) # NoNode

CopiesBy(i, attributes) == {Attribute(CopiedAttribute(i, a.id), a.name, a.value) : a \in attributes}
AttributesAsDeclared(attrs, list, done) ==
  \A e \in ElementLike :
    /\ attrs[e] = DeclaredAttributes(list, done, e)
    /\ \A i \in Of(list, done, "rename", e) : attrs[Renamed(i)] = CopiesBy(i, DeclaredAttributes(list, done, e))

AppliedInv ==
  /\ status = "done" => applied = DOMAIN pul
  /\ status \in {"applying", "done"} => OnceEach(pul)
  /\ status \in {"applying", "done"} /\ ~ RenameClash =>
       RowsAsDeclared(tree.kids, pul, applied) /\ AttributesAsDeclared(tree.attrs, pul, applied)
=============================================================================
