--------------------------- MODULE ExpressionCache ---------------------------
(***************************************************************************)
(* Compiling an expression, and the cache of compiled expressions.  What a *)
(* text compiles to depends on the call: its namespace resolver, function  *)
(* resolver, variables and module imports, and on the prefixes that have   *)
(* become known globally.  A compiled expression is kept with what its     *)
(* compilation asked of the call, and used again for another call that     *)
(* would have given the same answers.  The cache is global and never       *)
(* emptied.                                                                *)
(***************************************************************************)
EXTENDS Integers, Sequences, SequencesExt, Functions

CONSTANTS
  Source,       \* expression texts: [prefixes, functions, variables, newSyntax, prolog]
  Call,         \* the options of a call
  None,         \* null and undefined
  Registered,   \* the functions there are: [uri, local]
  Registrable,  \* prefixes that registerCustomXPathFunction may make known
  GeneratedURI, \* the namespace it makes for them
  MaxEntries    \* bound on the number of cached expressions

ASSUME MaxEntriesIsNat == MaxEntries \in Nat

VARIABLES
  known,        \* staticallyKnownNamespaceByPrefix
  cache         \* compiledExpressionCache, in the order in which entries were added

vars == <<known, cache>>

Init ==
  /\ known = [p \in {} |-> None]
  /\ cache = <<>>

-----------------------------------------------------------------------------
(* The static context of a call: the prefixes of its module imports come    *)
(* first, then what is known globally, then the namespace resolver.         *)

Imported(call, prefix) == prefix \in DOMAIN call.imports

\* ExecutionSpecificStaticContext.resolveNamespace
ResolveExternally(call, prefix) == IF prefix \in DOMAIN known THEN known[prefix] ELSE call.namespaces[prefix]

\* StaticContext.resolveNamespace
ResolveNamespace(call, prefix) ==
  IF Imported(call, prefix) THEN call.imports[prefix] ELSE ResolveExternally(call, prefix)

\* What the function resolver of the call makes of f; the default resolver knows unprefixed names.
Answer(call, f) == call.functions[f]

QName(uri, f) == [uri |-> uri, local |-> f.local]

\* resolveFunctionName: imports, then the resolver, then the default namespace or the prefix
ResolveFunction(call, f) ==
  IF Imported(call, f.prefix) THEN QName(call.imports[f.prefix], f)
  ELSE IF Answer(call, f) # None THEN Answer(call, f)
  ELSE IF f.prefix = "" THEN QName(call.functionNamespace, f)
  ELSE QName(ResolveExternally(call, f.prefix), f)

\* createExpressionFromSource, buildExpressionFromAst and performStaticEvaluation
Compiles(source, call) ==
  /\ source.newSyntax => call.version = 4
  /\ source.prolog => call.language = "XQuery"
  /\ \A p \in source.prefixes : ResolveNamespace(call, p) # None
  /\ \A f \in source.functions : ResolveFunction(call, f) \in Registered
  /\ source.variables \subseteq call.variables

Compiled(source, call) ==
  [namespaces |-> [p \in source.prefixes |-> ResolveNamespace(call, p)],
   functions  |-> [f \in source.functions |-> ResolveFunction(call, f)]]

\* What the execution specific context was asked while compiling
ResolvedFunctions(source, call) ==
  {f \in source.functions : ~ Imported(call, f.prefix) /\ Answer(call, f) # None}
ReferredNamespaces(source, call) ==
  LET asked == source.prefixes
                 \cup {f.prefix : f \in {g \in source.functions \ ResolvedFunctions(source, call) : g.prefix # ""}}
  IN {p \in asked : ~ Imported(call, p) /\ p \notin DOMAIN known}

CacheEntry(source, call, memo) ==
  [source            |-> source,
   key               |-> <<call.language, call.debug>>,
   functionNamespace |-> call.functionNamespace,
   imports           |-> call.imports,
   namespaces        |-> [p \in ReferredNamespaces(source, call) |-> call.namespaces[p]],
   variables         |-> source.variables,
   functions         |-> [f \in ResolvedFunctions(source, call) |-> Answer(call, f)],
   expression        |-> Compiled(source, call),
   memo              |-> memo]

\* getStaticCompilationResultFromCache: the answers the call would give now
\* Mutant: the namespaces are not compared.
MatchesAnyNamespace(entry, call) ==
  /\ entry.functionNamespace = call.functionNamespace
  /\ entry.variables \subseteq call.variables
  /\ \A p \in DOMAIN entry.imports : Imported(call, p) /\ call.imports[p] = entry.imports[p]
  /\ \A f \in DOMAIN entry.functions : Answer(call, f) = entry.functions[f]
\* Mutant: an entry with imports is never used again.
MatchesWithoutImports(entry, call) == MatchesAnyNamespace(entry, call) /\ DOMAIN entry.imports = {}
Matches(entry, call) ==
  /\ entry.functionNamespace = call.functionNamespace
  /\ \A p \in DOMAIN entry.namespaces : call.namespaces[p] = entry.namespaces[p]
  /\ entry.variables \subseteq call.variables
  /\ \A p \in DOMAIN entry.imports : Imported(call, p) /\ call.imports[p] = entry.imports[p]
  /\ \A f \in DOMAIN entry.functions : Answer(call, f) = entry.functions[f]

Fits(entry, source, call) ==
  /\ entry.source = source
  /\ entry.key = <<call.language, call.debug>>
  /\ Matches(entry, call)

\* The place in the cache of the first entry that fits; a call may say that it wants none.
\* Mutant: the last one.
FoundLast(source, call) ==
  IF call.disableCache THEN 0 ELSE SelectLastInSeq(cache, LAMBDA entry : Fits(entry, source, call))
Found(source, call) ==
  IF call.disableCache THEN 0 ELSE SelectInSeq(cache, LAMBDA entry : Fits(entry, source, call))

-----------------------------------------------------------------------------

\* The value of the variable that a prolog initialises from the context item.  The function that
\* gives it remembers its first answer, and belongs to the compiled expression.
Value(memo, call) == IF memo # None THEN memo ELSE call.item

\* An evaluation with an expression from the cache, that may or may not get to the variable.
EvaluateCached(source, call, reads) ==
  LET i == Found(source, call)
  IN /\ i # 0
     /\ cache' = [cache EXCEPT ![i].memo = IF reads THEN Value(@, call) ELSE @]
     /\ UNCHANGED known

\* An evaluation that compiles; a compilation that fails leaves nothing behind.
EvaluateCompiled(source, call, reads) ==
  /\ Found(source, call) = 0
  /\ Compiles(source, call)
  /\ ~ call.disableCache
  /\ Len(cache) < MaxEntries
  /\ cache' = Append(cache, CacheEntry(source, call, IF reads THEN call.item ELSE None))
  /\ UNCHANGED known

\* registerCustomXPathFunction with a prefix that is not known yet makes it known, for good.
RegisterStaticallyKnownNamespace(prefix) ==
  /\ prefix \notin DOMAIN known
  /\ known' = [p \in DOMAIN known \cup {prefix} |-> IF p = prefix THEN GeneratedURI ELSE known[p]]
  /\ UNCHANGED cache

Next ==
  \/ \E source \in Source, call \in Call, reads \in BOOLEAN :
       /\ reads => source.prolog
       /\ \/ EvaluateCached(source, call, reads)
          \/ EvaluateCompiled(source, call, reads)
  \/ \E prefix \in Registrable : RegisterStaticallyKnownNamespace(prefix)

Spec == Init /\ [][Next]_vars

-----------------------------------------------------------------------------

SameBesidesMemo(entry, other) == \A field \in DOMAIN entry \ {"memo"} : entry[field] = other[field]

NoEntryTwice == \A i, j \in DOMAIN cache : SameBesidesMemo(cache[i], cache[j]) => i = j

\* The type of the state: what is cached did compile, and no entry is there twice.
TypeOK ==
  /\ DOMAIN known \subseteq Registrable
  /\ Len(cache) <= MaxEntries
  /\ \A i \in DOMAIN cache :
       /\ cache[i].source \in Source
       /\ DOMAIN cache[i].expression.namespaces = cache[i].source.prefixes
       /\ None \notin Range(cache[i].expression.namespaces)
       /\ \A f \in cache[i].source.functions : cache[i].expression.functions[f] \in Registered
  /\ NoEntryTwice

\* The ways in which an entry fits a call that would compile to something else, or not at all:
\* a prefix that the call imports and the entry's call did not,
ImportsSince(entry, call) == DOMAIN call.imports # DOMAIN entry.imports
\* a prefix that has become known,
KnownSince(entry) == DOMAIN entry.namespaces \cap DOMAIN known # {}
\* a function that the call's resolver has an answer for and that of the entry's call had not,
AnsweredSince(entry, call) ==
  \E f \in entry.source.functions \ DOMAIN entry.functions : Answer(call, f) # None
\* and the version of the language, which is not part of the key.
OlderVersion(entry, call) == entry.source.newSyntax /\ call.version # 4

\* An expression from the cache is what compiling for this call would give, whatever was compiled
\* before for other calls, except in the four cases above: there is no fifth.
CachedAsCompiled ==
  TypeOK /\
  \A source \in Source, call \in Call :
    Found(source, call) # 0 =>
      LET entry == cache[Found(source, call)]
      IN \/ Compiles(source, call) /\ entry.expression = Compiled(source, call)
         \/ ImportsSince(entry, call)
         \/ KnownSince(entry)
         \/ AnsweredSince(entry, call)
         \/ OlderVersion(entry, call)

\* What a call compiled and cached it finds again: no call compiles twice, so that evaluating the
\* same expressions over and over does not fill the cache.
SameCallIsFound ==
  [][\A source \in Source, call \in Call, reads \in BOOLEAN :
       EvaluateCompiled(source, call, reads) => Found(source, call)' # 0]_vars

\* Which expression a call gets does not depend on the calls after the first one that it fits:
\* an entry that a call finds stays the one it finds.
SameEntryForSameCall ==
  [][\A source \in Source, call \in Call :
       Found(source, call) # 0 => Found(source, call)' = Found(source, call)]_vars

-----------------------------------------------------------------------------
\* The inductive invariant behind all of these: an entry tells what its text was compiled to.

\* What a prefix and a function were resolved to, from what the entry keeps and the known prefixes ns.
RecordedNamespace(entry, prefix, ns) ==
  IF prefix \in DOMAIN entry.imports THEN entry.imports[prefix]
  ELSE IF prefix \in DOMAIN entry.namespaces THEN entry.namespaces[prefix]
  ELSE ns[prefix]
RecordedFunction(entry, f, ns) ==
  IF f.prefix \in DOMAIN entry.imports THEN QName(entry.imports[f.prefix], f)
  ELSE IF f \in DOMAIN entry.functions THEN entry.functions[f]
  ELSE IF f.prefix = "" THEN QName(entry.functionNamespace, f)
  ELSE QName(RecordedNamespace(entry, f.prefix, ns), f)

RecordedExpression(entry, ns) ==
  [namespaces |-> [p \in entry.source.prefixes |-> RecordedNamespace(entry, p, ns)],
   functions  |-> [f \in entry.source.functions |-> RecordedFunction(entry, f, ns)]]

\* A prefix that the entry keeps nothing of was known when it was compiled, and still is.
Recorded(entry, prefix, ns) ==
  \/ prefix \in DOMAIN entry.imports \cup DOMAIN entry.namespaces
  \/ prefix \in DOMAIN ns

EntryTells(entry, ns) ==
  /\ DOMAIN entry = {"source", "key", "functionNamespace", "imports", "namespaces", "variables",
                     "functions", "expression", "memo"}
  /\ entry.source \in Source
  /\ entry.source.prolog => entry.key[1] = "XQuery"
  /\ entry.variables = entry.source.variables
  /\ \A f \in DOMAIN entry.functions : entry.functions[f] # None
  /\ \A p \in entry.source.prefixes : Recorded(entry, p, ns) /\ RecordedNamespace(entry, p, ns) # None
  /\ \A f \in entry.source.functions :
       /\ RecordedFunction(entry, f, ns) \in Registered
       /\ f \in DOMAIN entry.functions \/ f.prefix = "" \/ Recorded(entry, f.prefix, ns)
  /\ entry.expression = RecordedExpression(entry, ns)

CacheInv ==
  /\ DOMAIN known \subseteq Registrable
  /\ cache \in Seq(Range(cache)) /\ Len(cache) <= MaxEntries
  /\ \A i \in DOMAIN cache : EntryTells(cache[i], known)
  /\ NoEntryTwice
=============================================================================
