# Formal models of fontoxpath

fontoxpath evaluates XPath 3.1, parts of XPath 4.0 and XQuery 3.1, and the XQuery Update Facility over a
DOM that the caller supplies. It is a single-threaded JavaScript library: nothing runs in
parallel. What makes it hard to get right is *interleaving of another kind*. Everything is lazy, so one
sequence is read by several consumers in turn; iterators are re-entered by the iterators they
feed; global tables (compiled expressions, registered modules, known prefixes, the order of
detached trees) outlive the call that filled them; and an update changes a tree in several
phases after it was decided on, each seeing what the earlier ones left.

The models below are translations of the TypeScript under `src/src/`; `PROJECT.json` gives the
lines each definition stands for. Paths in this document are relative to `src/src/`.

## 1. Inventory

| Component | State it keeps | Operations | Talks to | What is hard | What makes it correct |
|---|---|---|---|---|---|
| Lazy sequences (`expressions/dataTypes/Sequences`) | cursor, remembered items, length, "remember all" flag | `next`, `first`, `isEmpty`, `isSingleton`, `getLength`, `getAllValues`, `getEffectiveBooleanValue`, `switchCases` | every expression | one cursor, many consumers; questions that rewind | no item lost, repeated or skipped; answers independent of earlier questions |
| Shared iterables (`createDoublyIterableSequence.ts`) | saved items, backing iterator | make a view, `next` on a view | let, prolog variables, constant expressions | views read by turns | views independent; each sees all items |
| Pending updates (`expressions/xquery-update/pul*`, `applyPulPrimitives.ts`) | the list, the tree | merge, check, apply by phase | document writer, DOM | a primitive finds what earlier ones left; errors half-way | tree stays a tree; result is what the list declares |
| Updating expressions (`expressions/xquery-update/*Expression.ts`) | list under construction | insert, delete, replace, rename, copy-modify | pending updates, cloned nodes | nested updating expressions; isolation of copies | only the declared targets change |
| Compiled expression cache (`parsing/compiledExpressionCache.ts`, `staticallyCompileXPath.ts`) | entries for ever | look up, compile, store | static context, resolvers of the caller | an entry must fit only calls that would compile alike | cached = compiled afresh |
| Module registry (`parsing/globalModuleCache.ts`, `processProlog.ts`) | registered texts, pending analyses | register, compile, import | static context, cache | circular imports, late registration, failing analysis | analysed once, importers agree, private stays private |
| Path expressions and axes (`expressions/path`, `expressions/axes`) | peer flag, result so far | evaluate a step for every node, combine | document order, DOM facade | choosing concatenation over merging on claims | result complete, in order, without doubles |
| Document order (`documentOrderUtils.ts`, `DomFacade.ts`) | roots of detached trees, in order of discovery | compare, sort, merge | DOM facade | comparison with a side effect inside a sort | total, stable order |
| Node set operators (`Union.ts`, `IntersectExcept.ts`) | two iterators, a held node of each | pull | document order | lockstep, ends, equal nodes | result is the set operation, in order, at every prefix |
| Static analysis (`StaticContext.ts`, `compileAstToExpression.ts`) | scopes, registered names | introduce and remove scope, register, resolve | parser, module registry | nesting; one static context per module | a name means its innermost declaration |
| Dynamic context (`DynamicContext.ts`) | focus, bindings; shared date memo and random state | scope | everything | shared mutable parts of copied contexts | one `current-dateTime()` per evaluation |
| FLWOR (`For`, `Let`, `Where`, `OrderBy`, `Quantified`) | iterator position, tuple buffer | `next` on the tuple stream | shared iterables | nested lazy streams; own insertion sort | the tuples of the nested loops, in order |
| Operators, comparisons | none | evaluate | casting | type promotion | value tables |
| Data types and casting | none | cast, subtype | - | 50 types | subtype is an order, casts agree with it |
| Dates and durations | none | arithmetic, compare, parse | - | carries, time zones | agrees with day counting |
| Function library | pattern cache | about 200 functions | all | errors, laziness of arguments | per function |
| Node constructors | content being built | evaluate | cloned nodes | content of mixed items | well-formed content |
| Specificity, buckets | none | compare, intersect | caller | hints must not exclude matches | bucket of an expression contains every node it matches |
| Cloned and created nodes (`domClone`) | created tree per root | realise, clone | nodes factory | a path in one tree used in its copy | one real node per created node |
| Parser, type inference, code generation | memo tables per parse | - | - | volume | generated code = interpreted expression |
| Entry points, diagnostics | - | evaluate..., register... | all | conversion of values | - |

### Interaction

A call of `evaluateXPath*` asks the *expression cache* for a compiled expression; if none fits it
parses, asks the *module registry* to compile what is registered when the call has imports, and
stores the result. Evaluation pulls *lazy sequences* from each other; a variable reference is a view
of a *shared iterable*, and a lazy sequence may be backed by one. Paths and set operators combine
sequences of nodes through *document order*, which remembers detached trees in the *DOM facade*
object of the call. Updating evaluation collects *pending updates*, which the caller (or
copy-modify) applies.

## 2. Modules

| Module | Models | Proofs |
|---|---|---|
| `SequenceReader` | what an `ISequence` promises: a list, a cursor, answers that depend on the list only | |
| `IteratorSequence` | `IteratorBackedSequence` | `LazySequencesProofs` |
| `SharedIterable` | `createDoublyIterableSequence` | `LazySequencesProofs` |
| `UpdateTree` | the tree and the document writer: insert, remove, set, well-formedness | |
| `PendingUpdates` | updating expressions, `mergeUpdates`, `compatibilityCheck`, `applyUpdates`, every primitive | |
| `PendingUpdatesProps` | what a list declares, without phases; the properties and the inductive invariant | `PendingUpdatesProofs` |
| `ExpressionCache` | static resolution, `getStaticCompilationResultFromCache`, storing, the memo of prolog variables | `ExpressionCacheProofs` |
| `ModuleRegistry` | `registerXQueryModule`, `loadModuleFile`, `performStaticCompilationOnModules`, imports | `ModuleRegistryProofs` |
| `DocumentOrder` | comparison, merge sort, concatenation and merge of sorted sequences, and the order they should give | `DocumentOrderProofs` |
| `PathExpression` | `PathExpression.evaluate` over all axes | `PathExpressionProofs` |
| `NodeSetOperators` | union, intersect, except | `NodeSetOperatorsProofs` |
| `DetachedOrder` | `DomFacade.orderOfDetachedNodes` under comparisons in any order | `DetachedOrderProofs` |
| `Flwor` | for, let, where, order by and quantified expressions as a chain of iterators | |
| `XdmTypes`, `Calendar`, `Casting`, `Comparisons`, `Arithmetic`, `ValueOperations` | types and facets; dates and durations; the table of casts; value, general and node comparisons; operators with their inferred types; one value on its way through all of these | |
| `FunctionCalls`, `SequenceFunctions`, `CollectionFunctions`, `NumericFunctions`, `StringFunctions`, `NodeFunctions`, `ComponentFunctions`, `HigherOrderFunctions`, `FunctionLibrary` | argument conversion and partial application; the functions by group; any call followed by any other | |

The value modules extend each other in the order in which they are listed, `XdmTypes` and
`Calendar` first; the function modules continue from `Arithmetic`. `MC...` modules give the
constants of the runs (`SharedIterable` needs none; its names begin with `Shared` where
`IteratorSequence` has the same, so that one module can hold the proofs of both). A definition marked "Mutant" is a plausible mistake in the definition after
it; each property names one that it catches. Mutants are not part of any specification.

### IteratorSequence and SequenceReader

`seq` holds the private fields (`_cachedValues`, `_currentPosition`, `_length`,
`_cacheAllValues`) and how far the source iterator has been read. Each public method is an
action; `getAllValues`, and `getLength` through it, read one item per step (`Read`), because
they are loops over an iterator that may be re-entered. The small questions (`first`, `isEmpty`,
`isSingleton`, effective boolean value) rewind, pull up to two items and put the cursor back, in
one step as in the code. The two errors (progressed too far, no effective boolean value) leave
the object "failed"; a `switchCases` that hands the sequence over leaves it "retired".
`SequenceReader` is the abstract promise, refined with the cursor held at its old place while a
loop is on the stack.

### SharedIterable

`saved` is `savedValues`, `at[v]` the index `i` of view `v`. Views are made at any time and read
in any interleaving. A view has the interface of an iterator, so it can be the source of an
`IteratorSequence`: `ViewsAreIndependent` and `DoneMeansAll` say that it delivers a fixed list
and ends after it, which is what `IteratorSequence` takes its source to do.

### PendingUpdates

The phases are those of the code: evaluate any legal updating expressions on the unchanged tree,
check the list, apply primitive by primitive in the code's order. A primitive is a record made by
`Primitive`, like the objects of `pulPrimitives.ts`. Nodes that an application makes have names of
their own: content nodes, attributes, the element a rename makes, the text of
`replaceElementContent`. What `lookupNamespaceURI` answers at evaluation is the constant `Bindings`, by node and
prefix. Attributes are set by namespace and local name, as `setAttributeNS` is called: those that
are inserted, that replace another or get a new name lose their prefix (`WithoutPrefix`), and
those that go along with a renamed element keep it. What a text or a processing instruction
says is not in the tree, so replacing its value or its target shows only where it
makes a node. A primitive that dereferences a parent that is gone ends in "raised" with
what was applied staying applied. `PendingUpdatesProps` declares the outcome from the *initial* tree
and the primitives applied so far, without phases or trees in between: a node is replaced by what
its own primitives leave in its place (`Place`), and an element has for children the places of its
old ones with what is inserted at either end (`DeclaredKids`; `DeclaredAttributes` likewise).
`AppliedAsDeclared` compares that with the tree after every primitive, for each element that is in a tree
(`Present`), those taken out together with what is below them included.

### ExpressionCache and ModuleRegistry

`ExpressionCache` keeps what the code keeps with an entry (the answers the first call's resolvers
gave) and compares it to a later call as the code does; `Compiled` is what compiling anew
would give. `EvaluateCached` and `EvaluateCompiled` include the memo of a prolog variable, as it
lives in the compiled expression. `ModuleRegistry` has texts of several namespaces with
functions, calls and imports; `Finalize` is `performStaticCompilationOnModules` with its loop
over namespaces and its throw in the middle; a query is evaluated before or after it.

### DocumentOrder, PathExpression, NodeSetOperators, DetachedOrder

Nodes are places: a tree, a path of child indices, and for attributes a local name and a
namespace. `Compare` and the sort are the code's algorithms, including the list of detached
roots as an argument that grows (`SeenAfter`); `Precedes` is the reference order. Where
`Array.sort` may leave two iterators either way round, `Orders` gives both.
`PathExpression` takes one step per action, for the set of nodes its test accepts, with or
without the predicate `[1]` (which sees the axis order, `Filter.ts`). `sound` is a history
variable: no step so far was one of those after which the code takes nodes for peers wrongly.
`NodeSetOperators` pulls from its operands exactly when the iterators in the code do.

### Flwor

`clauses` is what the iterator of each clause keeps (the items of a for clause and its position, the
contexts an order by has collected and the order it gave them), `turn` the frame on top of the
JavaScript stack. A step is what one clause does when it is asked for a context, is given one, or
is told there are none left, so that the clauses interleave as the nested `next` calls do.
Bindings are the closures of the code: the position of a for clause is read when the variable
is, not when it is bound. `insertionSort` is the code's sort with its comparison; `Tuples`
evaluates the clauses one after the other on whole lists of tuples.

### Values and functions

These modules are mostly operators, translated function by function; `ValueOperations` and
`FunctionLibrary` put a small state machine around them so that results feed later calls. A number
is a count of halves (or NaN, or an infinity), a text is a kind with the number or the parts it
spells, dates and times count ticks, and the widths of the integer types are constants. What a
function does to *characters* is modelled only for the string functions, over an alphabet that
has a character of two upper case letters and one of two UTF-16 units.

## 3. Runs

| Run | Instance | Shows |
|---|---|---|
| `sequence` | 4 kinds of item, length up to 4 | `IteratorSequence` keeps its cache, cursor and length right, implements `SequenceReader`, its loops end |
| `shared_iterable` | 3 views, length up to 4, 2 values | views are independent, nothing read ahead |
| `updates_of_two` | a document of 3 elements, a text, a processing instruction and an attribute with a prefix, a detached element; every list of up to two primitives | tree stays a tree; after every primitive and at the end the outcome is as declared unless a rename takes a target away; a missing parent only after a rename; sibling order kept |
| `expression_cache` | 4 texts, 25 or so calls, 2 entries, 1 prefix registered during the run | a cached expression is what compiling would give, up to four named exceptions; a call finds what it stored, always the same |
| `module_registry` | 6 texts of 2 namespaces, up to 4 registered, 4 queries | analysed once, importers agree, private functions, what a failure costs |
| `path_expression` | 3 documents of 5 to 7 elements, 12 axes and a union step, 3 steps | every step keeps order when its peers are peers; nothing lost; peers are peers except after the kinds of step listed under findings |
| `node_set_operators` | 4 nodes, operands up to 3 items out of order with repetitions | union, intersect and except return the right nodes in order, at every prefix; never stuck |
| `detached_order` | 5 trees | total, stable order across trees; an answer is never taken back |
| `value_operations` | 27 values at the bounds of the integer types and of the calendar, cast and calculated with without end | types tell the truth, a value and its text are one, months added to any day give the month and the day they should, the comparisons agree |
| `function_library` | 52 starting values, two calls in a row of any function | whole integers, function calls and partial application, positions, equality, taking apart and joining |
| `flwor` | 2406 expressions of up to three clauses | the tuples of the nested loops, in order, but for four named kinds of expression |
| `path_over_nested_peers` | child, following, preceding | violated: the precondition of concatenation |

### Bounds and why they are enough

* Length 4 for sequences: the code treats items 1 and 2 (always remembered), the first item that
  is not remembered, and the end differently; four items give one of each kind.
* Three views: one ahead, one behind, one not yet made or at the end.
* Two primitives: the phases and the compatibility check relate pairs of primitives on one target,
  or on a target and its parent, child or attribute; the tree has all of these. The proofs below
  remove this bound and that on the tree.
* Two cache entries: a lookup chooses between two entries that both fit. No bound in the proofs.
* Four module texts: two texts of one namespace before and after a compilation, and a circle of
  imports with another namespace. No bound in the proofs.
* Three steps: one to spread over the document, one to set the flag, one that trusts it. The
  documents have an ancestor and a descendant in one result, cousins at different depths and
  attributes on two levels. No bound in the proofs, on the documents either.
* Operands of three nodes: a repetition next to its original and one apart from it. No bound in the
  proofs.
* Five trees, some never compared before: both new, one new, none new.
* Integer types of 3, 4, 5 and 6 bits (`ByteBits` ... `LongBits`), two or one ticks to the millisecond and
  two milliseconds to the second (`TicksPerMs`, `MsPerSecond`): the code only compares with
  the bounds of a type and only divides by the units, so that a narrow type has the
  same edges as a wide one; the values include both ends. `MaxSafe`, `MaxSafeInteger` and
  `Exponential` cap the numbers a run calculates with.
* Sequences of up to `MaxItems` = 4 items and `MaxCalls` = 2 calls in `function_library`: the hazard
  is what one function leaves for the next.
* Three clauses in `flwor`: an order by between the clause that binds and the one that reads, two
  loops and what stands between them.

`CHECK_DEADLOCK FALSE` is set where a client may stop (a sequence retired or failed, all views at their
end, a list applied, `MaxSteps` reached, an expression evaluated).

### Fairness and liveness

`IteratorSequence` has weak fairness on `Read`: a loop on the JavaScript stack runs until it
returns, and its source, being finite, gives it an item or its end at each turn. No client is obliged
to make a call, so nothing else is fair. `ReadingEnds` is checked by TLC under that fairness.
`NodeSetOperators` has no liveness property of its own: each step takes a node from an operand or
returns one, the operands are finite, and the run checks that no state before the end is stuck.

## 4. Proofs

Proved by TLAPS for all values of the constants, under the named assumptions of each module. TLC
checked each inductive invariant on the instance of its run before it was proved.

### Lazy sequences (`LazySequencesProofs`)

`SequenceInvariant`: `Spec => []SequenceInv`, from which `TypeOK`, `CacheIsPrefix`,
`PullsInStep` and `LengthIsTrue`. `PullsInStep` is not inductive: a
question rewinds the cursor, so one has to know that everything between the start and the
source is remembered. That is `CursorInv`. `Base` is what holds even in the middle of a
question, `Good` adds that the cursor is at the source or everything read is remembered; one lemma
for each method shows that it takes Good to Good with the same cursor and answers from the
items alone. `SequenceRefines`: `Spec => ReaderSpec`, step by step from these lemmas.
Assumptions: `MaxLen` is a natural number, `NoValue` is no item, the classes of items are
disjoint.

### Shared iterables (`LazySequencesProofs`)

`SharedInvariant`, and from it type correctness, `ViewsAreIndependent`, `DoneMeansAll` and
`ReadsOnDemand`. The invariant links three things: what is saved is
what was pulled, no view is ahead of it, and each view has a prefix of the source; without the
second the code's write at index `i` could leave a hole. `OnDemand` adds that some view is at the
last item pulled.

### Pending updates (`PendingUpdatesProofs`)

For any tree, any content and any list of any length:

* `TreeStaysForest`: `Spec => []StaysForest`. "No node below itself" is not inductive, since
  inserting a node under a place says nothing of what is below the node. The invariant `PendingInv`
  instead says where a node can be at all: a child that can have children is found only under the
  element that is, or took the place of, the parent that it (or the element it took the place of)
  had *in the caller's tree* (`UnderTheirOrigin`). What is below a node then stays below it as in
  the caller's forest, and content is copied and has no children that the list could name. Each
  node has one place (`OnePlaceEach`), and nodes that a primitive makes are not in the tree
  before it is applied (`KnownChild`, `KnownAttribute`), which is why an application may insert them
  without a check; the names of an element's attributes differ (`AttributesInv`) because both
  primitives that set one remove or refuse a second of the name.
* `OnlyRenamesBreak`: `Spec => []BreaksOnlyAfterRename`. Who had a parent has one until a
  primitive takes the node away (`OwnedUntilTaken`); what has been applied precedes what has not
  in the order of the phases (conjunct of `PendingInv`); a `delete` or a
  `replaceElementContent` comes in a later phase than every insertion, and two `replaceNode`
  of one target were refused by the check. A rename is what is left.
* `OrderOfTheRest`: `Spec => KeepsOrder`. A lemma for each way of changing a row (`Without`,
  `Spliced`, a replaced element) shows that it keeps the order of what it keeps; it needs
  `OnePlaceEach`, as a node that stood twice in a row would be before and after another.
* `AppliedInvariant` and `ListsDoAsDeclared`: `Spec => []AppliedAsDeclared`, the result itself.
  The property speaks of the nodes that are in a tree, and a primitive may bring one of them
  out of another; so `AppliedInv` says it of *every* element of the caller's tree and of every element a
  rename made: the row at the place of the element (`PlaceOf`) is the declared one
  (`RowsAsDeclared`), and so is its set of attributes, of which a rename has made copies
  (`AttributesAsDeclared`). The argument of a step: declaring one more primitive exchanges the place of
  one node in one declared row (or adds at one of its ends, or exchanges the place of one attribute),
  and the work of the primitive does the same to the tree. For the first, joined rows are
  split at the place in question, and no other row holds the node; for the second, the node is
  where `PendingInv` says (`OnePlaceEach`). Three facts of a list make the two agree, each
  checked by the code: no target is replaced or renamed twice (`OnceEach`, from the compatibility check);
  what was applied does not come later in the order of phases, so that when an insertion is applied its
  target still stands and when a rename is, nothing has replaced it; and no rename takes away a target
  (`RenameClash`, the exception). At the end all primitives have been applied.

Assumptions: the caller's tree is a forest of the caller's nodes (`CallersTree`), nodes made later are new
(`NewNodesAreNew`), content is a number of nodes and a list of attributes, and the
bound on the list is a number. Nothing is assumed of `Bindings`: a name that is in conflict with
a binding only keeps a primitive off the list. `Without` is a recursive *function*, so what
it computes was proved by induction over the numbers up to the length of the row
(`KeptExists` and the lemmas after it).

### Expression cache (`ExpressionCacheProofs`)

`CacheInvariant`: each entry *tells* what its text was compiled to. `EntryTells` reconstructs the
compiled expression from what the entry recorded, so that a call that agrees with the
record compiles to the same. `CachedAsCompiled` alone is not inductive: the known prefixes grow,
and it does not say that what the entry did not record was known when it was compiled and still is.
`CachedIsCompiled` (with its four named exceptions), `FoundAgain` and `FoundTheSame` follow;
for the last, entries are only added at the end and none changes what it is compared by, and the
first that fits is the least of a set that loses no member below it.

### Module registry (`ModuleRegistryProofs`)

`RegistryInvariant` joins to the properties: a text with an analysed function is not pending
any more (`AnalysedIsDone`, which makes `AnalysedOnce` inductive); what a call was resolved
to is still declared and public (`StillDeclared`, which lets `ImportersAgree` compare an analysis
of now with one of long ago: a namespace declares a name once); no function is forgotten but
those of a namespace whose analysis has thrown (`NoneForgotten`), and a query is evaluated when
nothing is pending (`EvaluatesWhenDone`), of which `EvaluatesAnalysed` is a consequence: the set
closed under calls is that of all functions, or the empty one for a query that calls nothing. `OneNamespaceLost` proves the action property.
Assumptions: a text declares its functions in an order, and the bound is a number.

### Document order (`DocumentOrderProofs`, `DetachedOrderProofs`)

`TypeCorrect` (no root twice in the list), `AnswersStand`,
`StableOrder` and `TotalOrder`. The list only grows at its end, so a found index never changes; a
pushed root is given the length instead of the index, which is larger than every index found and
larger than the length given to the root pushed before it; so the sign of the difference is the same
now and later. `TotalOrder` adds the order within a tree: `DocumentOrderProofs` shows that the
comparison of two paths at the first place where they part is that of a total order
(`FirstOneWay` and the lemmas on transitivity). It holds under the hypothesis `NamesDiffer`, that
no two attributes of an element have the same local name: for such a pair the comparison says
"before" both ways, which is in the code (see findings). Assumption: `Nodes` are nodes.

`DocumentOrderProofs` is also the library of lemmas on the operators of `DocumentOrder`. They are
stated for any set of nodes that `Precedes` puts in one order (`Ordered`) and that the comparison
answers for (`Decides`); `TreeOrdered` and `TreeDecides` give both for the nodes of one tree.

* Recursion: `MergeHalves`, `MergeSort` and the binary search are recursive functions of a pair.
  `RecursionExists` shows that such a function exists when each value depends on pairs of a
  smaller measure only (`WellDefined`), `ByMeasure` is the induction that goes with it. Each
  operator has an `...Exists` lemma that cites the first and a lemma that cites the second.
* Sorting: `MergeHalvesOrder`, `MergeSortOrder`, `DropRepeatsOrder`, and from them
  `SortNodeValuesOrder`: the same nodes, once each, in order. An attribute compares as less than
  itself (`documentOrderUtils.ts:233`), so the lemmas keep "not after" (`Weakly`) until repetitions are dropped.
* Merging: a queue of iterators is `Queued` when none is empty, each is in order and so are
  their first nodes. `InsertionPointSplits` shows where the binary search ends, also when it stops early at an
  equal node; `PutBackQueued` that the queue stays one; `Merging` says of the loop that the nodes out and the
  nodes still queued are those of the start, and that none of those out comes after one queued.
  `OrdersQueued` starts it for every order the first sort may leave, and `MergeSortedOrder` is the
  result.
* Concatenation: `FlattenOrder` and `ConcatSortedOrder`, for a row of sequences of which none comes
  after the next (`RowInOrder`), which is what the comment on `concatSortedSequences` demands.
* The reference: `PrecedesInTree` shows that document order as defined by ancestors and siblings is the
  order of paths that the comparison uses; `InOrderOf` and `InOrderSet` that the sequence in
  document order of a finite set is one.

### Node set operators (`NodeSetOperatorsProofs`)

For any operands, of any length and in any order they claim to be in: `SetsInvariant`, and from it
`SetsDenote` (`ReturnsWhatItDenotes`) and `SetsPrefix` (`EveryPrefixIsRight`). Neither is inductive: what has
been returned says nothing of what will be. `SetsInv` adds that what is left of each operand (with the value held)
is in order (`OperandsInOrder`), that what was passed in one operand comes before all that is left in
both (`PassedBefore`), and that of the nodes decided on exactly those denoted were returned
(`DecidedRightly`). Each action then decides on one node: `NoneOfSecond` shows that a node before all
that is left of the second operand is not in it. Hypothesis: `NamesDiffer(Nodes)`.
Assumptions: the nodes are finitely many and of one tree, `Null` is no node, the bound is a number.

### Path expressions (`PathExpressionProofs`)

For documents of any shape, any tests, and paths of any length: `PathInvariant`, and from it
`PathInDocumentOrder`, `PathReachesExactly`, `PathPeersAreDisjoint` and `PathStepKeepsOrder`. The invariant
joins to the properties that nodes taken for peers are of one kind (`OneKind`): a step from elements and
attributes of one depth could concatenate nodes out of order, and only the axes that clear the flag
mix the two. The argument of a step:

* `EvaluateOrder`: for each node the step finds nodes on its axis, in order once they are turned
  around; `CombinedSet`: together they are those the path denotes.
* `CombineOrder`: no way of combining them loses or adds a node, by the lemmas above. A sort or a
  merge always gives document order. A concatenation does if the row is in order, and that is
  the point where the claims of the axes are needed: `ConcatAxes` (only `self`, `child`, `descendant`,
  `descendant-or-self` and `parent` are concatenated, and only from peers) and `AxisKeepsOrder`: from two nodes of
  one kind at one depth, one before the other, what is found below or above them is in
  their order. `BelowKeepsOrder` is the reason: two paths part inside what they share with the places
  they lead through.
* `StepPeers`: the axes after which the flag stays set and which are sound (`Level`) find nodes of one kind
  at one depth (`KindOnAxis`, `DepthOnAxis`), and such nodes are peers (`OneDepthPeers`).

`PathStepKeepsOrder` does without the history variable `sound`. Hypothesis: `LocalNamesDiffer`, as above for each document.
Assumptions: documents are finite sets of places, the axes are the thirteen modelled, the bound is
a number. That a document is closed under parents is not needed.

### Induction

The library's induction theorems take an operator as a parameter and cannot be
instantiated here. `DocumentOrderProofs` begins with a proof from `WellFoundedInduction` that a set of numbers that is
not empty has a least element (`LeastExists`, `MinIsLeast`), and from it shows that a *set* with zero and
the successors of its members is the set of all numbers (`AllNumbers`). That is the induction used
everywhere above: a step is an element of a set defined for the purpose. The modules that are not
about document order take these lemmas as `Order!LeastExists` and so on, from an instance.

### Only model-checked

* `value_operations`, `function_library` and `flwor`: definitions with many cases and recursion over
  data (conversion, casts, insertion sort); TLC evaluates them on the edges listed above.
* Liveness (`ReadingEnds`): the prover has no support for reasoning under fairness here.
* `CacheIsPrefix`, `NoHoles` and the like are not runs' properties of their own; they are
  conjuncts of proved invariants.

## 5. Findings

One has a run.

**Nested peers.** The `following` and `preceding` axes claim that their results are peers;
`preceding::*/child::*` concatenates what it has to merge. (`path_over_nested_peers`,
`ConcatIsGloballySorted`: the comment at `sortedSequenceUtils.ts:26` states the precondition.)

Noticed on the way, each confirmed in the models but without a run of its own; where a property
has an exception for it, the exception is named:

* **A primitive without a parent.** `applyPulPrimitives.ts:75` (and :99, :306) says "The parent
  must exist or an error has been raised." A `rename` of the same target replaces it in an earlier
  phase, and the later primitive dereferences null. `BreaksOnlyAfterRename` shows that nothing
  else has this effect; `RenameClash` is also the exception of `AppliedAsDeclared`.
* **Bindings of inserted attributes.** The compatibility check quotes the rule that `insertAttributes`
  creates namespace bindings and then only looks at `replaceNode` and `rename` (`pulRoutines.ts:193`).
* **Prefixes of attributes.** `setAttributeNS` is given the local name alone, so an attribute that is
  inserted, replaces another or is renamed has no prefix afterwards (`applyPulPrimitives.ts:184`, `:342`); the
  comment at `:194` says that rename "Changes the node-name of $target to $newName".
  `AppliedAsDeclared` declares the name without its prefix.
* **Bindings that are asked for.** Before an insertion beside a node the code asks the node for
  its bindings and not its parent (`InsertExpression.ts:53`). A replaced attribute without a
  prefix is held against the default namespace, which it is not in (`ReplaceExpression.ts:135`), and
  raises XUDY0023.
* **General comparisons.** `filter(...).switchCases` asks whether there is none and then whether there is
  one, so items after the first that matches are compared too, and may raise: `(3, "true", 3) = (3, 3.0)` is an
  error (`GeneralCompare.ts:68`, `IteratorBackedSequence.ts:244`). An untyped item stays what it was cast
  to for the first item of the other operand, so that where the types of that operand differ the answer
  depends on their order (`GeneralIsSome` asks for one type there).
* **Lengths after `switchCases`.** The length of the result is written into the sequence that was
  asked (`IteratorBackedSequence.ts:226`); nobody reads that sequence again, and `LengthIsTrue` leaves a retired
  one out.
* **Months.** January 30 plus one month is March 1 (`DateTime.ts:469`: JavaScript carries
  the days that February lacks), where XPath has the last day of February. `MonthsLater`
  states what the code does.
* **Prolog variables of cached queries.** A value that the prolog computes from the context item
  stays in the cached expression (`processProlog.ts:501`).
* **Positions read late.** A positional variable is read from the clause's counter when it is used
  (`ForExpression.ts:100`). An order by collects all tuples first, after which every one of them reads
  the last position (`ReadsPositionLate`).
* **In-clauses of quantified expressions.** Each is evaluated in the outer context with only the variable
  of the one before it, bound to all its items at once (`QuantifiedExpression.ts:53`;
  `ReadsEarlierInClause`).
* **Keys of order by.** The rule on NaN asks JavaScript's `isNaN` of any value
  (`OrderByExpression.ts:180`), which is true of most strings: where strings that look like numbers are mixed
  with others, the order is not that of strings (`MixesNumerals`). When the first key is
  empty, keys that are dates are not compared (`EmptyBeforeDates`).
* After an unsorted step, as in `(. | child::a)/child::b`, `PathExpression.ts:147` returns
  before the peer flag is updated. `path_expression` treats such a step as not sound.
* The parent axis claims to stay in the subtree (`ParentAxis.ts:19`). That is harmless only while
  peers are at one depth; after `following` they are not.
* A delete of a node that the same list renames deletes nothing (`applyPulPrimitives.ts:35`,
  "Deletes $target.").
* An entry compiled without an import is found for a call with one (`compiledExpressionCache.ts:86`;
  `types/Options.ts:176` says imported modules "are always statically known"), and one whose
  resolver had no answer is found for a call whose resolver has one
  (`ExecutionSpecificStaticContext.ts:137`). Both are exceptions in `CachedAsCompiled`.
* After a compilation that throws, a second one succeeds without having analysed what the first
  left (`globalModuleCache.ts:75` says "on all registered modules"); and a first query without
  imports does not compile the modules (`globalModuleCache.ts:77` says it does).
* Two attributes of an element that differ only in namespace compare as -1 both ways
  (`documentOrderUtils.ts:233`): their union may hold one of them twice, and `except` may return one that the
  second operand holds. The runs use distinct local names, `TotalOrder` assumes them.

## 6. What is not modelled

Paths whose last step gives values that are not nodes (errors XPTY0018 and XPTY0019), the case that
results need not be sorted, steps that are conditionals, bucket hints; grafted and created
nodes (`domClone`) and the caller's own DOM; predicted lengths of mapped sequences; errors
raised by the source of a lazy sequence; of updating expressions the targets that
are no single node (XUDY0027 and its like) and the mixed content of XUTY0004, the deletion of nodes
by an expression that finds several, names that are computed, and the data of texts, comments and
processing instructions; the laziness of let clauses (`LetExpression.ts:65`: a let
is evaluated when it is bound here, when it is read there); annotations, external functions and variables of modules;
copy-modify; FLWOR clauses with updates; the math functions, formatting, serialization and JSON,
`fontoxpath:evaluate`; regular expressions beyond literal patterns; QNames as values of casts.
Parsing, type inference, code generation and diagnostics have no state of their own and are left to
tests, or to the plan below. `PROJECT.json` says for each component what is left out.

## 7. Plan

Done: the modules above, in the order lazy sequences, shared iterables, pending updates, caches and
modules, order and paths, values and functions, FLWOR; and the proofs of section 4.

To model next:

1. `Transform`: copy-modify on top of `PendingUpdates`: only copies change, lists of the copy and
   return clauses are merged.
2. `StaticScopes`: `StaticContext` scopes, variables and functions, and registrations that throw
   half-way.
3. `CreatedNodes`: created trees, `realizeDom` and its cache; one real node per created node.
4. `Buckets`, and `Codegen`: that a generated loop finds what `PathExpression` finds.

To prove next: `TuplesOfTheLoops`, for expressions without order by; then the parts of the value
properties that need no recursion (`ComparisonsAgree`, `MonthsLater`).
