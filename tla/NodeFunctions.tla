---------------------------- MODULE NodeFunctions ----------------------------
(***************************************************************************)
(* The functions on nodes, those of them that look for nodes in the whole  *)
(* document, and the functions that take the context item when they are    *)
(* called without an argument.                                             *)
(*                                                                         *)
(* The path of a node is written as its steps, from the root down: the     *)
(* type and the name of a node, and its number among the siblings that     *)
(* share both.                                                             *)
(***************************************************************************)
EXTENDS StringFunctions

ChildrenOf(node) == Range(Dom[node].children)
AttributesOf(node) == Range(Dom[node].attributes)
Nodes(seq) == [i \in DOMAIN seq |-> Node(seq[i])]

\* The parent of a node, if it has one, and the node with all its ancestors,
\* from the top down.
Parents == [node \in DOMAIN Dom |-> {p \in DOMAIN Dom : node \in ChildrenOf(p) \cup AttributesOf(p)}]
ParentOf(node) == CHOOSE p \in Parents[node] : TRUE
Lineage[node \in DOMAIN Dom] == (IF Parents[node] = {} THEN <<>> ELSE Lineage[ParentOf(node)]) \o <<node>>

InDocumentOrder(nodes) == SelectSeq(NodePositions, LAMBDA node : node \in nodes)

(***************************************************************************)
(* Names.  A processing instruction is named by its target.                *)
(***************************************************************************)
QNameOf(prefix, uri, local) == Value("xs:QName", [prefix |-> prefix, uri |-> uri, local |-> local])
HasName(node) == Dom[node].type \in {"element()", "attribute()", "processing-instruction()"}

fnNodeName(seq) ==
  IF seq = <<>> THEN Ok(<<>>)
  ELSE LET node == Dom[seq[1].value]
       IN Ok(IF ~HasName(seq[1].value) THEN <<>>
             ELSE <<IF node.type = "processing-instruction()" THEN QNameOf("", "none", node.name)
                    ELSE QNameOf(node.prefix, node.namespace, node.name)>>)

\* A name is written with its prefix, and characters are not told apart in it.
PrefixedName(name) == String(IF name.prefix = "" THEN <<name.local>> ELSE <<name.prefix, ":", name.local>>)
fnName(seq) ==
  Then(fnNodeName(seq), LAMBDA names :
    IF names = <<>> THEN OkString(<<>>) ELSE Ok(<<PrefixedName(names[1].value)>>))

UriValue(uri) == Value("xs:anyURI", Chars(IF uri = "none" THEN <<>> ELSE <<uri>>))
fnNamespaceURI(seq) == Ok([i \in DOMAIN seq |-> UriValue(Dom[seq[i].value].namespace)])
fnLocalName(seq) ==
  OkString(IF seq = <<>> \/ ~HasName(seq[1].value) THEN <<>> ELSE <<Dom[seq[1].value].name>>)

NCNames(names) == Ok([i \in DOMAIN names |-> Value("xs:NCName", Chars(<<names[i]>>))])
fnPrefixFromQName(seq) ==
  NCNames(IF seq = <<>> \/ seq[1].value.prefix = "" THEN <<>> ELSE <<seq[1].value.prefix>>)
fnNamespaceURIFromQName(seq) == Ok([i \in DOMAIN seq |-> UriValue(seq[i].value.uri)])
fnLocalNameFromQName(seq) == NCNames([i \in DOMAIN seq |-> seq[i].value.local])

(***************************************************************************)
(* Where a node is.                                                        *)
(***************************************************************************)
fnHasChildren(seq) == OkBoolean(seq # <<>> /\ Dom[seq[1].value].children # <<>>)
fnRoot(seq) == Ok([i \in DOMAIN seq |-> Node(Lineage[seq[i].value][1])])

areSameNode(a, b) ==
  /\ Dom[a].type = Dom[b].type
  /\ Dom[a].type = "element()" => Dom[a].name = Dom[b].name /\ Dom[a].namespace = Dom[b].namespace
  /\ Dom[a].type = "processing-instruction()" => Dom[a].name = Dom[b].name

\* Mutant: every sibling counts.
IndexAmongAll(child) ==
  IF Dom[child].type = "attribute()" THEN 1
  ELSE IndexIn(Dom[ParentOf(child)].children, child)

\* An attribute has no siblings.
getChildIndex(child) ==
  LET siblings == Dom[ParentOf(child)].children
  IN IF Dom[child].type = "attribute()" THEN 1
     ELSE Cardinality({i \in 1 .. IndexIn(siblings, child) : areSameNode(child, siblings[i])})

PathStep(node) ==
  LET dom == Dom[node]
      named == HasName(node)
  IN [type |-> dom.type, name |-> IF named THEN dom.name ELSE "",
      namespace |-> IF dom.type \in {"element()", "attribute()"} THEN dom.namespace ELSE "none",
      index |-> getChildIndex(node)]

\* Whether the path starts at a document or at another root, and its steps.
PathOf(node) ==
  LET line == Lineage[node]
  IN [document |-> Dom[line[1]].type = "document-node()",
      steps |-> [i \in 1 .. Len(line) - 1 |-> PathStep(line[i + 1])]]
fnPath(seq) == Ok(IF seq = <<>> THEN <<>> ELSE <<Value("xs:string", Text("path", 0, PathOf(seq[1].value), "none"))>>)

\* An attribute contains nothing but itself.
contains(ancestor, node) ==
  IF Dom[ancestor].type = "attribute()" THEN ancestor = node ELSE ancestor \in Range(Lineage[node])

\* In document order the node kept last is the only one that can be an ancestor
\* of the next, and from behind the one kept first the only descendant.
fnOutermost(seq) ==
  Ok(Nodes(FoldLeft(LAMBDA kept, node :
                      IF kept # <<>> /\ contains(Last(kept), node) THEN kept ELSE Append(kept, node),
                    <<>>, InDocumentOrder({seq[i].value : i \in DOMAIN seq}))))
fnInnermost(seq) ==
  Ok(Nodes(FoldLeft(LAMBDA kept, node :
                      IF kept # <<>> /\ contains(node, kept[1]) THEN kept ELSE <<node>> \o kept,
                    <<>>, Reverse(InDocumentOrder({seq[i].value : i \in DOMAIN seq})))))

(***************************************************************************)
(* Attributes of elements: languages and identifiers.                      *)
(***************************************************************************)
AttributesNamed(node, name) == {a \in AttributesOf(node) : Dom[a].name = name}
Attribute(node, name) == Dom[CHOOSE a \in AttributesNamed(node, name) : TRUE].data.at

\* The least specific part is removed until the languages are the same.  When
\* there is no part to remove this never ends.
RECURSIVE langMatchString(_, _)
langMatchString(truth, test) ==
  LET dashes == {i \in 1 .. Len(truth) - 1 : truth[i] = "-"}
  IN CASE truth = test                                -> Ok(TRUE)
       [] Len(truth) < 5 \/ ~IsPrefix(test, truth)    -> Ok(FALSE)
       [] dashes = {} \/ Last(truth) = "-"            -> Throws("too much recursion")
       [] OTHER -> langMatchString(SubSeq(truth, 1, Max(dashes) - 1), test)

\* The nearest element that has a language, which is not empty.
fnLang(test, node) ==
  LET InLowerCase(s) == Mapped(s, LAMBDA c : Characters[c].lower)
      elements == SelectSeq(Lineage[node], LAMBDA n : AttributesNamed(n, "xml:lang") # {}
                                                      /\ Attribute(n, "xml:lang") # <<>>)
  IN IF elements = <<>> THEN OkBoolean(FALSE)
     ELSE Then(langMatchString(InLowerCase(Attribute(Last(elements), "xml:lang")), InLowerCase(StringIn(test))),
               LAMBDA same : OkBoolean(same))

Words(s) == Range(Tokens(s, <<" ">>))

\* The elements below a node whose identifier is still wanted.  The elements in
\* an element are looked at before it is.
RECURSIVE FindIds(_, _)
FindIds(node, wanted) ==
  LET below == FoldLeft(LAMBDA s, child : LET found == FindIds(child, s.wanted)
                                          IN [found |-> s.found \o found.found, wanted |-> found.wanted],
                        [found |-> <<>>, wanted |-> wanted], Dom[node].children)
      matches == AttributesNamed(node, "id") # {} /\ Attribute(node, "id") \in below.wanted
  IN IF ~matches THEN below
     ELSE [found |-> <<node>> \o below.found, wanted |-> below.wanted \ {Attribute(node, "id")}]

InDocumentOf(node, F(_)) ==
  LET root == Lineage[node][1]
  IN IF Dom[root].type # "document-node()" THEN Err("FODC0001") ELSE F(root)

fnId(strings, node) ==
  InDocumentOf(node, LAMBDA root :
    Ok(Nodes(FindIds(root, UNION {Words(CharsOf(strings[i])) : i \in DOMAIN strings}).found)))

RefersTo(node, ids) ==
  \E a \in AttributesNamed(node, "idref") : Words(Dom[a].data.at) \cap ids # {}
fnIdref(strings, node) ==
  InDocumentOf(node, LAMBDA root :
    LET ids == {CharsOf(strings[i]) : i \in DOMAIN strings}
    IN Ok(Nodes(InDocumentOrder({n \in DOMAIN Dom : contains(root, n) /\ RefersTo(n, ids)}))))

(***************************************************************************)
(* What is declared, and what each declaration does.                       *)
(***************************************************************************)
MaybeNode == ZeroOrOne("node()")
SomeNodes == ZeroOrMore("node()")
MaybeName == ZeroOrOne("xs:QName")
Strings == ZeroOrMore("xs:string")

NameDeclarations ==
  <<Declaration("name", <<MaybeNode>>, OneString),
    Declaration("namespace-uri", <<ExactlyOne("node()")>>, ExactlyOne("xs:anyURI")),
    Declaration("node-name", <<MaybeNode>>, MaybeName),
    Declaration("local-name", <<MaybeNode>>, OneString),
    Declaration("prefix-from-QName", <<MaybeName>>, ZeroOrOne("xs:NCName")),
    Declaration("local-name-from-QName", <<MaybeName>>, ZeroOrOne("xs:NCName")),
    Declaration("namespace-uri-from-QName", <<MaybeName>>, ZeroOrOne("xs:anyURI"))>>

PlaceDeclarations ==
  <<Declaration("innermost", <<SomeNodes>>, SomeNodes), Declaration("outermost", <<SomeNodes>>, SomeNodes),
    Declaration("has-children", <<MaybeNode>>, OneBoolean),
    Declaration("path", <<MaybeNode>>, MaybeString), Declaration("root", <<MaybeNode>>, MaybeNode),
    Declaration("data", <<Items>>, Atoms),
    Declaration("lang", <<MaybeString, ExactlyOne("node()")>>, OneBoolean),
    Declaration("id", <<Strings, ExactlyOne("node()")>>, ZeroOrMore("element()")),
    Declaration("idref", <<Strings, ExactlyOne("node()")>>, SomeNodes)>>

\* Without an argument: the type the context item is converted to.
ContextDeclarations ==
  <<Declaration("name", <<>>, OneString), Declaration("namespace-uri", <<>>, ExactlyOne("xs:anyURI")),
    Declaration("has-children", <<>>, OneBoolean), Declaration("path", <<>>, MaybeString),
    Declaration("node-name", <<>>, MaybeName), Declaration("local-name", <<>>, OneString),
    Declaration("root", <<>>, MaybeNode), Declaration("data", <<>>, Atoms),
    Declaration("string", <<>>, OneString), Declaration("string-length", <<>>, ExactlyOne("xs:integer")),
    Declaration("normalize-space", <<>>, OneString)>>
ContextType(name) ==
  CASE name \in {"data", "string"}  -> "item()"
    [] name = "string-length"       -> "xs:anyAtomicType"
    [] name = "normalize-space"     -> "xs:string"
    [] OTHER                        -> "node()"

NodeFunctionDeclarations == NameDeclarations \o PlaceDeclarations \o ContextDeclarations

NameFunction(name, a) ==
  CASE name = "name"                     -> fnName(a[1])
    [] name = "namespace-uri"            -> fnNamespaceURI(a[1])
    [] name = "node-name"                -> fnNodeName(a[1])
    [] name = "local-name"               -> fnLocalName(a[1])
    [] name = "prefix-from-QName"        -> fnPrefixFromQName(a[1])
    [] name = "local-name-from-QName"    -> fnLocalNameFromQName(a[1])
    [] name = "namespace-uri-from-QName" -> fnNamespaceURIFromQName(a[1])

PlaceFunction(name, a) ==
  CASE name = "innermost"    -> fnInnermost(a[1])
    [] name = "outermost"    -> fnOutermost(a[1])
    [] name = "has-children" -> fnHasChildren(a[1])
    [] name = "path"         -> fnPath(a[1])
    [] name = "root"         -> fnRoot(a[1])
    [] name = "data"         -> atomize(a[1])
    [] name = "lang"         -> fnLang(a[1], a[2][1].value)
    [] name = "id"           -> fnId(a[1], a[2][1].value)
    [] name = "idref"        -> fnIdref(a[1], a[2][1].value)

OnString(name, string) ==
  CASE ~IsOk(string)             -> string
    [] name = "string"           -> string
    [] name = "string-length"    -> fnStringLength(string.value)
    [] name = "normalize-space"  -> fnNormalizeSpace(string.value)
OnItem(name, item) ==
  CASE ~IsOk(item) -> item
    [] name \in {"string", "string-length", "normalize-space"} -> OnString(name, fnString(item.value))
    [] name \in {"has-children", "path", "root", "data"} -> PlaceFunction(name, <<item.value>>)
    [] OTHER       -> NameFunction(name, <<item.value>>)
contextItemAsFirstArgument(name, contextItem) ==
  IF contextItem = <<>> THEN Err("XPDY0002")
  ELSE OnItem(name, performFunctionConversion(ExactlyOne(ContextType(name)), contextItem))
=============================================================================
