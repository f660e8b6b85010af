----------------------------- MODULE UpdateTree -----------------------------
(***************************************************************************)
(* The tree the update primitives work on: what the document writer does   *)
(* to it and what the DOM facade reads from it.                            *)
(*                                                                         *)
(* A tree t is a record: t.kids gives the children of every node that may  *)
(* have any, in order, and t.attrs the attribute nodes of every such node. *)
(* A node is a triple <<label, number, number>>: an attribute node keeps   *)
(* its identity while its value changes, and a node made by an update is   *)
(* told apart from every other.                                            *)
(***************************************************************************)
EXTENDS Integers, FiniteSets, Sequences, SequencesExt

NoNode == <<"none", 0, 0>>

\* The attribute nodes of a tree: identity, qualified name, value.
Attribute(id, name, value) == [id |-> id, name |-> name, value |-> value]

Parents(t) == DOMAIN t.kids

\* domFacade.getParentNodePointer: the parent of a child or of an attribute node
ParentOf(t, n) ==
  LET above == {p \in Parents(t) : Contains(t.kids[p], n) \/ \E a \in t.attrs[p] : a.id = n}
  IN IF above = {} THEN NoNode ELSE CHOOSE p \in above : TRUE

\* domFacade.getNextSiblingPointer
NextSibling(t, n) ==
  LET row == t.kids[ParentOf(t, n)]
      i == SelectInSeq(row, LAMBDA m : m = n)
  IN IF i < Len(row) THEN row[i + 1] ELSE NoNode

FirstChild(t, p) == IF t.kids[p] = <<>> THEN NoNode ELSE Head(t.kids[p])

\* Mutant: it finds no attribute.
HasNoAttribute(t, e, name) == FALSE
\* domFacade.getAllAttributes with a name filter: an attribute of that expanded name
HasAttribute(t, e, name) ==
  \E a \in t.attrs[e] : a.name.local = name.local /\ a.name.uri = name.uri

\* A row without some of its nodes.
Without(row, nodes) ==
  LET kept[k \in 0 .. Len(row)] ==
        IF k = 0 THEN <<>>
        ELSE IF Contains(nodes, row[k]) THEN kept[k - 1] ELSE Append(kept[k - 1], row[k])
  IN kept[Len(row)]

\* documentWriter.removeChild
RemoveChild(t, n) == [kids |-> [p \in Parents(t) |-> Without(t.kids[p], <<n>>)], attrs |-> t.attrs]

\* documentWriter.insertBefore for each of nodes in turn, all before the same reference node,
\* or at the end when there is none: a block that keeps its order.  A node that was elsewhere
\* in the tree moves.
Spliced(row, nodes, reference) ==
  LET i == IF reference = NoNode THEN Len(row) + 1 ELSE SelectInSeq(row, LAMBDA m : m = reference)
  IN SubSeq(row, 1, i - 1) \o nodes \o SubSeq(row, i, Len(row))
InsertNodes(t, p, nodes, reference) ==
  [kids  |-> [q \in Parents(t) |->
                IF q = p THEN Spliced(Without(t.kids[q], nodes), nodes, reference) ELSE Without(t.kids[q], nodes)],
   attrs |-> t.attrs]

WithAttributes(t, e, attributes) == [kids |-> t.kids, attrs |-> [t.attrs EXCEPT ![e] = attributes]]

\* documentWriter.removeAttributeNS
RemoveAttribute(t, e, name) ==
  WithAttributes(t, e, {a \in t.attrs[e] : ~ (a.name.local = name.local /\ a.name.uri = name.uri)})

\* documentWriter.setAttributeNS is given the namespace and, by every caller but the renaming of
\* an element, the local name alone: the prefix is lost.
WithoutPrefix(name) == [prefix |-> "", uri |-> name.uri, local |-> name.local]

\* documentWriter.setAttributeNS for an attribute that is there: it gets the value
SetValue(t, e, name, value) ==
  WithAttributes(t, e, {IF a.name.local = name.local /\ a.name.uri = name.uri
                        THEN Attribute(a.id, a.name, value) ELSE a : a \in t.attrs[e]})

\* A forest: nobody is a child twice, and nobody is below itself, which is to say that
\* among any parents there is one that has none of them for a child.
NoRepeats(row) == \A i, j \in DOMAIN row : i # j => row[i] # row[j]
IsForest(t) ==
  /\ \A p \in Parents(t) : NoRepeats(t.kids[p])
  /\ \A p, q \in Parents(t) : p # q =>
       /\ ToSet(t.kids[p]) \cap ToSet(t.kids[q]) = {}
       /\ {a.id : a \in t.attrs[p]} \cap {a.id : a \in t.attrs[q]} = {}
  /\ \A S \in SUBSET Parents(t) : S # {} => \E p \in S : ToSet(t.kids[p]) \cap S = {}
  /\ \A p \in Parents(t) : \A a, b \in t.attrs[p] :
       a # b => a.id # b.id /\ <<a.name.local, a.name.uri>> # <<b.name.local, b.name.uri>>
=============================================================================
