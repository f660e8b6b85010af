--------------------------- MODULE PendingUpdates ---------------------------
(***************************************************************************)
(* The XQuery Update Facility: updating expressions are evaluated against  *)
(* an unchanged tree and only leave primitives on a pending update list;   *)
(* applyUpdates then checks that the primitives are compatible and applies *)
(* them, phase by phase, to the tree.  One primitive is one step, because  *)
(* every primitive reads the tree as the primitives before it left it: its *)
(* target may have moved, been replaced, or have lost its parent.          *)
(***************************************************************************)
EXTENDS UpdateTree

CONSTANTS
  KindOf,       \* the nodes of the tree, each with the kind of node it is
  Kids,         \* the children of its documents and elements
  Attrs,        \* the attributes of its elements
  Bindings,     \* what lookupNamespaceURI finds from each node, for every prefix: "" when nothing
  Names,        \* names of attributes and new names: [prefix, uri, local]
  Contents,     \* what content expressions may give: [attributes, nodes]
  MaxUpdates    \* bound on the primitives of one pending update list

VARIABLES
  pul,          \* the pending update list
  tree,         \* the tree
  applied,      \* the primitives, by place in the list, that have been applied
  status,       \* "collecting", "applying", "done", "raised"
  error         \* what was raised

vars == <<pul, tree, applied, status, error>>

Nodes == DOMAIN KindOf
Elements == {n \in Nodes : KindOf[n] = "element"}
ElementLike == {n \in Nodes : KindOf[n] \in {"element", "document"}}
Updates == 1 .. MaxUpdates

\* Nodes that primitive number i brings along: its content (a copy, made when the list was
\* made), and the element that rename puts in the place of its target (for a processing
\* instruction, content that rename makes itself).
Content(i, count) == [j \in 1 .. count |-> <<"content", i, j>>]
NewAttribute(i, j) == <<"attribute", i, j>>
Renamed(i) == <<"renamed", i, 0>>
CopiedAttribute(i, original) == <<"copied attribute", i, original>>
Text(i) == <<"text", i, 0>>

InitialTree ==
  [kids  |-> [p \in ElementLike \cup {Renamed(i) : i \in Updates} |->
                IF p \in ElementLike THEN Kids[p] ELSE <<>>],
   attrs |-> [p \in ElementLike \cup {Renamed(i) : i \in Updates} |->
                IF p \in ElementLike THEN Attrs[p] ELSE {}]]

\* Nodes are told apart by their identity, whatever made them.
ASSUME NewNodesAreNew ==
  \A n \in Nodes : n[1] \notin {"none", "content", "attribute", "renamed", "copied attribute", "text"}

\* The tree of the caller is one: its rows hold nodes that are not attributes, its sets of
\* attributes nodes that are, and it is a forest.
ASSUME CallersTree ==
  /\ \A p \in ElementLike :
       /\ Kids[p] \in Seq({n \in Nodes : KindOf[n] # "attribute"})
       /\ \A a \in Attrs[p] : a = Attribute(a.id, a.name, a.value) /\ a.id \in Nodes /\ KindOf[a.id] = "attribute"
  /\ IsForest(InitialTree)

\* Content is a number of nodes after a list of attributes.
ASSUME ContentsAreContents == \A c \in Contents : c.nodes \in Nat /\ c.attributes \in Seq(ToSet(Names))
ASSUME MaxUpdatesIsNat == MaxUpdates \in Nat

Init ==
  /\ pul = <<>>
  /\ tree = InitialTree
  /\ applied = {}
  /\ status = "collecting"
  /\ error = "none"

-----------------------------------------------------------------------------
(* Evaluating an updating expression: the checks on its target, then its    *)
(* primitives.  A primitive is                                              *)
(*   [type, target, nodes, attributes, name, text]                          *)
(* where nodes counts the content nodes, attributes lists the names of the  *)
(* content attributes, name is the new name and text says whether there is  *)
(* a text.                                                                  *)

NoName == [prefix |-> "", uri |-> "", local |-> ""]
Primitive(type, target, nodes, attributes, name, text) ==
  [type |-> type, target |-> target, nodes |-> nodes, attributes |-> attributes, name |-> name, text |-> text]

\* mergeUpdates, in the order in which the expressions were evaluated
MergeUpdates(updates) ==
  /\ Len(pul) + Len(updates) <= MaxUpdates
  /\ pul' = pul \o updates
  /\ UNCHANGED <<tree, applied, status, error>>

Raise(code) ==
  /\ status' = "raised"
  /\ error' = code
  /\ UNCHANGED <<pul, tree, applied>>

\* Two attributes of one list bind one prefix to two namespaces.  An attribute without a prefix
\* has no namespace, so the empty string stands for a binding that is not recorded.
Conflicting(names) ==
  \E i, j \in DOMAIN names :
    /\ i < j
    /\ names[i].prefix = names[j].prefix
    /\ names[i].uri # "" /\ names[i].uri # names[j].uri

Into == {"insertInto", "insertIntoAsFirst", "insertIntoAsLast"}
Beside == {"insertBefore", "insertAfter"}

\* What the check of a list of attributes throws at the first that conflicts with a binding in
\* scope (when it is "", nothing is bound) or with an attribute before it.
BindingError(names, bindings) ==
  LET elsewhere(k) == bindings[names[k].prefix] \notin {"", names[k].uri}
      wrong == {k \in DOMAIN names : elsewhere(k) \/ Conflicting(SubSeq(names, 1, k))}
  IN IF wrong = {} THEN "none" ELSE IF elsewhere(Min(wrong)) THEN "XUDY0023" ELSE "XUDY0024"

\* The bindings are those of the target, also beside it; without a prefix they are not asked.
InsertError(choice, target, content) ==
  LET parent == ParentOf(tree, target)
      owner == IF choice \in Into THEN target ELSE parent
  IN IF choice \in Into /\ target \notin ElementLike THEN "XUTY0005"
     ELSE IF choice \in Beside /\ KindOf[target] \in {"document", "attribute"} THEN "XUTY0006"
     ELSE IF choice \in Beside /\ parent = NoNode THEN "XUDY0029"
     ELSE IF content.attributes # <<>> /\ owner \notin Elements
          THEN IF choice \in Into THEN "XUTY0022" ELSE "XUDY0030"
     ELSE BindingError(content.attributes, [Bindings[target] EXCEPT ![""] = ""])

\* buildPendingUpdates: the attributes go to the target or, beside it, to its parent
InsertUpdates(choice, target, content) ==
  LET owner == IF choice \in Into THEN target ELSE ParentOf(tree, target)
  IN (IF content.attributes = <<>> THEN <<>>
      ELSE <<Primitive("insertAttributes", owner, 0, content.attributes, NoName, FALSE)>>)
     \o (IF content.nodes = 0 THEN <<>>
         ELSE <<Primitive(choice, target, content.nodes, <<>>, NoName, FALSE)>>)

EvaluateInsert(choice, target, content) ==
  /\ status = "collecting"
  /\ LET code == InsertError(choice, target, content)
     IN IF code # "none" THEN Raise(code) ELSE MergeUpdates(InsertUpdates(choice, target, content))

\* Nodes without a parent are dropped from the targets of a delete expression.
EvaluateDelete(target) ==
  /\ status = "collecting"
  /\ ParentOf(tree, target) # NoNode
  /\ MergeUpdates(<<Primitive("delete", target, 0, <<>>, NoName, FALSE)>>)

\* An attribute without a prefix is held against the default namespace.
ReplaceError(target, content) ==
  IF KindOf[target] = "document" THEN "XUTY0008"
  ELSE IF ParentOf(tree, target) = NoNode THEN "XUDY0009"
  ELSE IF KindOf[target] # "attribute" /\ content.attributes # <<>> THEN "XUTY0010"
  ELSE IF KindOf[target] = "attribute" /\ content.nodes # 0 THEN "XUTY0011"
  ELSE IF KindOf[target] = "attribute"
  THEN BindingError(content.attributes, Bindings[ParentOf(tree, target)])
  ELSE "none"

EvaluateReplaceNode(target, content) ==
  /\ status = "collecting"
  /\ LET code == ReplaceError(target, content)
     IN IF code # "none" THEN Raise(code)
        ELSE MergeUpdates(<<Primitive("replaceNode", target, content.nodes, content.attributes, NoName, FALSE)>>)

EvaluateReplaceValue(target, hasText) ==
  /\ status = "collecting"
  /\ IF KindOf[target] = "document" THEN Raise("XUTY0008")
     ELSE MergeUpdates(<<Primitive(IF target \in Elements THEN "replaceElementContent" ELSE "replaceValue",
                                   target, 0, <<>>, NoName, hasText)>>)

\* A processing instruction gets a target of its own kind, which nothing here reads.
RenameError(target, name) ==
  IF KindOf[target] \notin {"element", "attribute", "processing-instruction"} THEN "XUTY0012"
  ELSE IF \/ target \in Elements
          \/ KindOf[target] = "attribute" /\ name.uri # ""
  THEN IF Bindings[target][name.prefix] \notin {"", name.uri} THEN "XUDY0023" ELSE "none"
  ELSE "none"

EvaluateRename(target, name) ==
  /\ status = "collecting"
  /\ LET code == RenameError(target, name)
         newName == IF KindOf[target] = "processing-instruction" THEN NoName ELSE name
     IN IF code # "none" THEN Raise(code)
        ELSE MergeUpdates(<<Primitive("rename", target, 0, <<>>, newName, FALSE)>>)

-----------------------------------------------------------------------------
(* compatibilityCheck *)

OfType(types) == {i \in DOMAIN pul : pul[i].type \in types}

SameTarget(type) == \E i, j \in OfType({type}) : i # j /\ pul[i].target = pul[j].target

\* The names for which replaceNode and rename of attributes of element e bind a prefix: the
\* replacements in the order of the list, then the new names.
BoundNames(e) ==
  LET attribute(u) == KindOf[u.target] = "attribute" /\ ParentOf(tree, u.target) = e
      replacements == SelectSeq(pul, LAMBDA u : u.type = "replaceNode" /\ attribute(u))
      renames == SelectSeq(pul, LAMBDA u : u.type = "rename" /\ attribute(u))
  IN FlattenSeq([k \in DOMAIN replacements |-> replacements[k].attributes])
       \o [k \in DOMAIN renames |-> renames[k].name]

Incompatibility ==
  IF SameTarget("rename") THEN "XUDY0015"
  ELSE IF SameTarget("replaceNode") THEN "XUDY0016"
  ELSE IF SameTarget("replaceValue") \/ SameTarget("replaceElementContent") THEN "XUDY0017"
  ELSE IF \E e \in Elements : Conflicting(BoundNames(e)) THEN "XUDY0024"
  ELSE "none"

CheckCompatibility ==
  /\ status = "collecting"
  /\ pul # <<>>
  /\ IF Incompatibility # "none" THEN Raise(Incompatibility)
     ELSE status' = "applying" /\ UNCHANGED <<pul, tree, applied, error>>

-----------------------------------------------------------------------------
(* Applying: five phases, and the order of the list within a phase. *)

\* Mutant: deletions are applied together with the insertions beside a node.
PhaseDeletesEarly(type) ==
  IF type \in {"insertInto", "insertAttributes", "replaceValue", "rename"} THEN 1
  ELSE IF type = "replaceElementContent" THEN 4
  ELSE IF type = "replaceNode" THEN 3 ELSE 2
Phase(type) ==
  IF type \in {"insertInto", "insertAttributes", "replaceValue", "rename"} THEN 1
  ELSE IF type \in {"insertBefore", "insertAfter", "insertIntoAsFirst", "insertIntoAsLast"} THEN 2
  ELSE IF type = "replaceNode" THEN 3
  ELSE IF type = "replaceElementContent" THEN 4
  ELSE 5

Precedes(i, j) ==
  \/ Phase(pul[i].type) < Phase(pul[j].type)
  \/ Phase(pul[i].type) = Phase(pul[j].type) /\ i < j

\* Primitive i is the next one to apply.
Turn(i) ==
  /\ status = "applying"
  /\ i \notin applied
  /\ \A j \in DOMAIN pul \ (applied \cup {i}) : Precedes(i, j)

Applied(i, newTree) ==
  /\ tree' = newTree
  /\ applied' = applied \cup {i}
  /\ UNCHANGED <<pul, status, error>>

\* A primitive that raises leaves behind what it and those before it did.
Broken(i, newTree, code) ==
  /\ tree' = newTree
  /\ applied' = applied \cup {i}
  /\ status' = "raised"
  /\ error' = code
  /\ UNCHANGED pul

\* The content attributes of primitive i, each with a name and a value.
Brought(i) == [k \in DOMAIN pul[i].attributes |-> [name |-> pul[i].attributes[k], value |-> <<"content", i, k>>]]

\* Setting attributes one after the other, up to the first whose name is there already: each
\* that is set is a new one, without the prefix of its name.
SetAttributes(i, t, e, attributes) ==
  LET name(k) == attributes[k].name
      taken(k) == \/ HasAttribute(t, e, name(k))
                  \/ \E j \in 1 .. k - 1 : name(j).local = name(k).local /\ name(j).uri = name(k).uri
      set == {k \in DOMAIN attributes : \A j \in 1 .. k : ~ taken(j)}
      newTree == WithAttributes(t, e, t.attrs[e] \cup
                   {Attribute(NewAttribute(i, k), WithoutPrefix(name(k)), attributes[k].value) : k \in set})
  IN IF set = DOMAIN attributes THEN Applied(i, newTree) ELSE Broken(i, newTree, "XUDY0021")

ApplyInsertInto(i) ==
  /\ Turn(i) /\ pul[i].type \in {"insertInto", "insertIntoAsLast"}
  /\ Applied(i, InsertNodes(tree, pul[i].target, Content(i, pul[i].nodes), NoNode))

ApplyInsertIntoAsFirst(i) ==
  /\ Turn(i) /\ pul[i].type = "insertIntoAsFirst"
  /\ Applied(i, InsertNodes(tree, pul[i].target, Content(i, pul[i].nodes), FirstChild(tree, pul[i].target)))

ApplyInsertAttributes(i) ==
  /\ Turn(i) /\ pul[i].type = "insertAttributes"
  /\ SetAttributes(i, tree, pul[i].target, Brought(i))

\* Reading .node of the parent pointer that is not there is a TypeError.
ApplyInsertBefore(i) ==
  /\ Turn(i) /\ pul[i].type = "insertBefore"
  /\ LET target == pul[i].target
         parent == ParentOf(tree, target)
     IN IF parent = NoNode THEN Broken(i, tree, "TypeError")
        ELSE Applied(i, InsertNodes(tree, parent, Content(i, pul[i].nodes), target))

ApplyInsertAfter(i) ==
  /\ Turn(i) /\ pul[i].type = "insertAfter"
  /\ LET target == pul[i].target
         parent == ParentOf(tree, target)
     IN IF parent = NoNode THEN Broken(i, tree, "TypeError")
        ELSE Applied(i, InsertNodes(tree, parent, Content(i, pul[i].nodes), NextSibling(tree, target)))

\* An attribute of the tree: its owner gets the value by name, so a detached one is changed alone.
ApplyReplaceValue(i) ==
  /\ Turn(i) /\ pul[i].type = "replaceValue"
  /\ LET target == pul[i].target
         owner == ParentOf(tree, target)
     IN IF KindOf[target] = "attribute" /\ owner # NoNode
        THEN LET a == CHOOSE a \in tree.attrs[owner] : a.id = target
             IN Applied(i, SetValue(tree, owner, a.name, <<"replaced", i, 0>>))
        ELSE Applied(i, tree)

\* replaceNode on a child: what comes after it is found before it is removed
\* Mutant: the replacement goes to the end.
ReplaceAtEnd(t, target, nodes) == InsertNodes(RemoveChild(t, target), ParentOf(t, target), nodes, NoNode)
ReplaceChild(t, target, nodes) ==
  LET parent == ParentOf(t, target)
      following == NextSibling(t, target)
  IN InsertNodes(RemoveChild(t, target), parent, nodes, following)

ApplyReplaceNode(i) ==
  /\ Turn(i) /\ pul[i].type = "replaceNode"
  /\ LET target == pul[i].target
         parent == ParentOf(tree, target)
     IN IF parent = NoNode THEN Broken(i, tree, "TypeError")
        ELSE IF KindOf[target] # "attribute"
        THEN Applied(i, ReplaceChild(tree, target, Content(i, pul[i].nodes)))
        ELSE LET old == CHOOSE a \in tree.attrs[parent] : a.id = target
             IN SetAttributes(i, RemoveAttribute(tree, parent, old.name), parent, Brought(i))

\* rename on an element: a new element gets copies of the attributes and the children
\* themselves, and then the place of the old one, which stays behind empty
\* Mutant: the last child is moved first.
ReversedChildren(target) == Reverse(tree.kids[target])
MovedChildren(target) == tree.kids[target]

RenameElement(i, target) ==
  LET copies == {Attribute(CopiedAttribute(i, a.id), a.name, a.value) : a \in tree.attrs[target]}
      moved == InsertNodes(WithAttributes(tree, Renamed(i), copies), Renamed(i), MovedChildren(target), NoNode)
  IN IF ParentOf(tree, target) = NoNode
     THEN Broken(i, moved, "Not supported: renaming detached nodes.")
     ELSE Applied(i, ReplaceChild(moved, target, <<Renamed(i)>>))

\* rename on an attribute: the old one is removed, and one of the new name gets its value
RenameAttribute(i, target) ==
  LET owner == ParentOf(tree, target)
      old == CHOOSE a \in tree.attrs[owner] : a.id = target
  IN IF owner = NoNode THEN Broken(i, tree, "Not supported: renaming detached nodes.")
     ELSE SetAttributes(i, RemoveAttribute(tree, owner, old.name), owner,
                        <<[name |-> pul[i].name, value |-> old.value]>>)

\* rename on a processing instruction: a new one gets its place
RenameInstruction(i, target) ==
  IF ParentOf(tree, target) = NoNode THEN Broken(i, tree, "Not supported: renaming detached nodes.")
  ELSE Applied(i, ReplaceChild(tree, target, Content(i, 1)))

ApplyRename(i) ==
  /\ Turn(i) /\ pul[i].type = "rename"
  /\ \/ pul[i].target \in Elements /\ RenameElement(i, pul[i].target)
     \/ KindOf[pul[i].target] = "attribute" /\ RenameAttribute(i, pul[i].target)
     \/ KindOf[pul[i].target] = "processing-instruction" /\ RenameInstruction(i, pul[i].target)

ApplyReplaceElementContent(i) ==
  /\ Turn(i) /\ pul[i].type = "replaceElementContent"
  /\ Applied(i, InsertNodes([kids |-> [tree.kids EXCEPT ![pul[i].target] = <<>>], attrs |-> tree.attrs], pul[i].target,
                            IF pul[i].text THEN <<Text(i)>> ELSE <<>>, NoNode))

\* A node that lost its parent to an earlier primitive is left alone.
ApplyDelete(i) ==
  /\ Turn(i) /\ pul[i].type = "delete"
  /\ LET target == pul[i].target
         parent == ParentOf(tree, target)
     IN IF parent = NoNode THEN Applied(i, tree)
        ELSE IF KindOf[target] = "attribute"
        THEN LET old == CHOOSE a \in tree.attrs[parent] : a.id = target
             IN Applied(i, RemoveAttribute(tree, parent, old.name))
        ELSE Applied(i, RemoveChild(tree, target))

Finish ==
  /\ status = "applying"
  /\ applied = DOMAIN pul
  /\ status' = "done"
  /\ UNCHANGED <<pul, tree, applied, error>>

Evaluate ==
  \/ \E choice \in Into \cup Beside, target \in Nodes, content \in Contents :
       EvaluateInsert(choice, target, content)
  \/ \E target \in Nodes : EvaluateDelete(target)
  \/ \E target \in Nodes, content \in Contents : EvaluateReplaceNode(target, content)
  \/ \E target \in Nodes, hasText \in BOOLEAN : EvaluateReplaceValue(target, hasText)
  \/ \E target \in Nodes, k \in DOMAIN Names : EvaluateRename(target, Names[k])

Apply(i) ==
  \/ ApplyInsertInto(i) \/ ApplyInsertIntoAsFirst(i) \/ ApplyInsertAttributes(i)
  \/ ApplyInsertBefore(i) \/ ApplyInsertAfter(i)
  \/ ApplyReplaceValue(i) \/ ApplyReplaceNode(i) \/ ApplyReplaceElementContent(i)
  \/ ApplyRename(i) \/ ApplyDelete(i)

Next ==
  \/ Evaluate
  \/ CheckCompatibility
  \/ \E i \in DOMAIN pul : Apply(i)
  \/ Finish

Spec == Init /\ [][Next]_vars
=============================================================================
