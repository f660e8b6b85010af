------------------------ MODULE ExpressionCacheProofs ------------------------
(***************************************************************************)
(* The cache of compiled expressions, for any texts, any calls and any     *)
(* prefixes.  The argument: what an entry keeps of the call it was         *)
(* compiled for, with the prefixes known then, which stay known, tells     *)
(* what each name in it was resolved to.  A call that the entry fits gives *)
(* the same answers to all that the entry asked, so it can differ in what  *)
(* the entry did not ask only: those are the four cases.                   *)
(***************************************************************************)
EXTENDS ExpressionCache, TLAPS

\* For the least elements of sets of numbers.
Order == INSTANCE DocumentOrderProofs

-----------------------------------------------------------------------------
(* Finding an entry.                                                       *)

FirstFit(entries, source, call) ==
  LET I == {i \in 1 .. Len(entries) : Fits(entries[i], source, call)}
  IN IF I # {} THEN Min(I) ELSE 0

\* What is found is the first entry that fits.
LEMMA FoundIsFirstFit ==
  ASSUME NEW source, NEW call
  PROVE  /\ Found(source, call) = IF call.disableCache THEN 0 ELSE FirstFit(cache, source, call)
         /\ Found(source, call)' = IF call.disableCache THEN 0 ELSE FirstFit(cache', source, call)
  BY DEF Found, FirstFit, SelectInSeq

LEMMA FirstFitIs ==
  ASSUME NEW E, NEW entries \in Seq(E), NEW source, NEW call
  PROVE  LET i == FirstFit(entries, source, call)
         IN /\ i = 0 => \A j \in DOMAIN entries : ~ Fits(entries[j], source, call)
            /\ i # 0 => /\ i \in DOMAIN entries /\ Fits(entries[i], source, call)
                        /\ \A j \in DOMAIN entries : Fits(entries[j], source, call) => i <= j
<1> DEFINE I == {i \in 1 .. Len(entries) : Fits(entries[i], source, call)}
<1>1. I \in SUBSET Nat /\ DOMAIN entries = 1 .. Len(entries)
  OBVIOUS
<1>2. I # {} => Min(I) \in I /\ \A j \in I : Min(I) <= j
  <2> HIDE DEF I
  <2> QED BY <1>1, Order!MinIsLeast DEF Min, Order!Min
<1>3. FirstFit(entries, source, call) = IF I # {} THEN Min(I) ELSE 0
  BY DEF FirstFit
<1>4. 0 \notin I
  OBVIOUS
<1> QED BY <1>1, <1>2, <1>3, <1>4

\* Where the entries fit alike up to the first that fits, the same place is found.
LEMMA SameFirstFit ==
  ASSUME NEW E, NEW F, NEW entries \in Seq(E), NEW others \in Seq(F), NEW source, NEW call,
         FirstFit(entries, source, call) # 0,
         DOMAIN entries \subseteq DOMAIN others,
         \A i \in DOMAIN entries : Fits(others[i], source, call) <=> Fits(entries[i], source, call)
  PROVE  FirstFit(others, source, call) = FirstFit(entries, source, call)
<1> DEFINE i == FirstFit(entries, source, call)
           j == FirstFit(others, source, call)
<1>1. /\ i \in DOMAIN entries /\ Fits(entries[i], source, call)
      /\ \A k \in DOMAIN entries : Fits(entries[k], source, call) => i <= k
  BY FirstFitIs
<1>2. i \in DOMAIN others /\ Fits(others[i], source, call)
  BY <1>1
<1>3. /\ j # 0 /\ j \in DOMAIN others /\ Fits(others[j], source, call)
      /\ \A k \in DOMAIN others : Fits(others[k], source, call) => j <= k
  BY <1>2, FirstFitIs
<1> HIDE DEF i, j
<1>4. i \in 1 .. Len(entries) /\ j \in 1 .. Len(others) /\ DOMAIN entries = 1 .. Len(entries)
  BY <1>1, <1>3
<1>5. j <= i /\ j \in DOMAIN entries
  BY <1>2, <1>3, <1>4
<1>6. i <= j
  BY <1>1, <1>3, <1>5
<1> QED BY <1>4, <1>5, <1>6 DEF i, j

\* The memo of an entry says nothing about the calls that the entry fits.
LEMMA MemoDoesNotMatter ==
  ASSUME NEW entry, NEW other, NEW source, NEW call,
         DOMAIN entry = {"source", "key", "functionNamespace", "imports", "namespaces", "variables",
                         "functions", "expression", "memo"},
         SameBesidesMemo(entry, other)
  PROVE  /\ Fits(entry, source, call) <=> Fits(other, source, call)
         /\ entry.source = other.source /\ entry.expression = other.expression
<1>1. /\ entry.source = other.source /\ entry.key = other.key
      /\ entry.functionNamespace = other.functionNamespace /\ entry.imports = other.imports
      /\ entry.namespaces = other.namespaces /\ entry.variables = other.variables
      /\ entry.functions = other.functions /\ entry.expression = other.expression
  BY DEF SameBesidesMemo
<1> QED BY <1>1 DEF Fits, Matches

\* A new entry fits the call it was compiled for.
LEMMA NewEntryFits ==
  ASSUME NEW source, NEW call, NEW memo, Compiles(source, call)
  PROVE  Fits(CacheEntry(source, call, memo), source, call)
<1> DEFINE entry == CacheEntry(source, call, memo)
<1>1. /\ entry.source = source /\ entry.key = <<call.language, call.debug>>
      /\ entry.functionNamespace = call.functionNamespace
      /\ entry.imports = call.imports
      /\ entry.namespaces = [p \in ReferredNamespaces(source, call) |-> call.namespaces[p]]
      /\ entry.variables = source.variables
      /\ entry.functions = [f \in ResolvedFunctions(source, call) |-> Answer(call, f)]
  BY DEF CacheEntry
<1> HIDE DEF entry
<1>2. Matches(entry, call)
  BY <1>1 DEF Matches, Compiles, Imported
<1>3. Fits(entry, source, call)
  BY <1>1, <1>2 DEF Fits
<1> QED BY <1>3 DEF entry

-----------------------------------------------------------------------------
(* What an entry tells.                                                    *)

\* A new entry tells what its text was compiled to.
LEMMA NewEntryTells ==
  ASSUME NEW source \in Source, NEW call, NEW memo, Compiles(source, call)
  PROVE  EntryTells(CacheEntry(source, call, memo), known)
<1> DEFINE entry == CacheEntry(source, call, memo)
<1>1. /\ entry.source = source /\ entry.key = <<call.language, call.debug>>
      /\ entry.functionNamespace = call.functionNamespace
      /\ entry.imports = call.imports
      /\ entry.namespaces = [p \in ReferredNamespaces(source, call) |-> call.namespaces[p]]
      /\ entry.variables = source.variables
      /\ entry.functions = [f \in ResolvedFunctions(source, call) |-> Answer(call, f)]
      /\ entry.expression = Compiled(source, call)
      /\ DOMAIN entry = {"source", "key", "functionNamespace", "imports", "namespaces", "variables",
                         "functions", "expression", "memo"}
  BY DEF CacheEntry
<1> HIDE DEF entry
<1>2. ASSUME NEW p, p \in source.prefixes \/ \E f \in source.functions \ ResolvedFunctions(source, call) :
                                               f.prefix # "" /\ p = f.prefix
      PROVE  Recorded(entry, p, known) /\ RecordedNamespace(entry, p, known) = ResolveNamespace(call, p)
  <2>1. p \in DOMAIN call.imports \/ p \in DOMAIN known \/ p \in ReferredNamespaces(source, call)
    BY <1>2 DEF ReferredNamespaces, Imported
  <2>2. p \in ReferredNamespaces(source, call) => p \notin DOMAIN known
    BY DEF ReferredNamespaces
  <2> QED BY <1>1, <2>1, <2>2 DEF Recorded, RecordedNamespace, ResolveNamespace, ResolveExternally, Imported
<1>3. ASSUME NEW f \in source.functions
      PROVE  /\ RecordedFunction(entry, f, known) = ResolveFunction(call, f)
             /\ f \in DOMAIN entry.functions \/ f.prefix = "" \/ Recorded(entry, f.prefix, known)
  <2>1. CASE Imported(call, f.prefix)
    BY <1>1, <2>1 DEF RecordedFunction, ResolveFunction, Imported, Recorded
  <2>2. CASE ~ Imported(call, f.prefix) /\ Answer(call, f) # None
    <3>1. f \in DOMAIN entry.functions /\ entry.functions[f] = Answer(call, f)
      BY <1>1, <2>2 DEF ResolvedFunctions
    <3> QED BY <1>1, <2>2, <3>1 DEF RecordedFunction, ResolveFunction, Imported
  <2>3. CASE ~ Imported(call, f.prefix) /\ Answer(call, f) = None
    <3>1. f \in source.functions \ ResolvedFunctions(source, call) /\ f \notin DOMAIN entry.functions
      BY <1>1, <2>3 DEF ResolvedFunctions
    <3>2. CASE f.prefix = ""
      BY <1>1, <2>3, <3>1, <3>2 DEF RecordedFunction, ResolveFunction, Imported
    <3>3. CASE f.prefix # ""
      <4>1. /\ Recorded(entry, f.prefix, known)
            /\ RecordedNamespace(entry, f.prefix, known) = ResolveNamespace(call, f.prefix)
        BY <1>2, <3>1, <3>3
      <4>2. RecordedFunction(entry, f, known) = QName(RecordedNamespace(entry, f.prefix, known), f)
        BY <1>1, <2>3, <3>1, <3>3 DEF RecordedFunction, Imported
      <4>3. ResolveFunction(call, f) = QName(ResolveNamespace(call, f.prefix), f)
        BY <2>3, <3>3 DEF ResolveFunction, ResolveNamespace
      <4> QED BY <4>1, <4>2, <4>3
    <3> QED BY <3>2, <3>3
  <2> QED BY <2>1, <2>2, <2>3
<1>4. entry.expression = RecordedExpression(entry, known)
  <2>1. [p \in source.prefixes |-> RecordedNamespace(entry, p, known)]
          = [p \in source.prefixes |-> ResolveNamespace(call, p)]
    BY <1>2
  <2>2. [f \in source.functions |-> RecordedFunction(entry, f, known)]
          = [f \in source.functions |-> ResolveFunction(call, f)]
    BY <1>3
  <2> QED BY <1>1, <2>1, <2>2 DEF Compiled, RecordedExpression
<1>5. \A f \in DOMAIN entry.functions : entry.functions[f] # None
  BY <1>1 DEF ResolvedFunctions
<1>6. \A p \in source.prefixes : Recorded(entry, p, known) /\ RecordedNamespace(entry, p, known) # None
  BY <1>2 DEF Compiles
<1>7. \A f \in source.functions : RecordedFunction(entry, f, known) \in Registered
  BY <1>3 DEF Compiles
<1>8. source.prolog => entry.key[1] = "XQuery"
  BY <1>1 DEF Compiles
<1>9. EntryTells(entry, known)
  BY <1>1, <1>3, <1>4, <1>5, <1>6, <1>7, <1>8 DEF EntryTells
<1> QED BY <1>9 DEF entry

\* Remembering another value does not change what an entry tells.
LEMMA TellsWithoutMemo ==
  ASSUME NEW entry, NEW other, NEW ns, EntryTells(entry, ns), DOMAIN other = DOMAIN entry,
         SameBesidesMemo(entry, other)
  PROVE  EntryTells(other, ns)
<1>1. /\ entry.source = other.source /\ entry.key = other.key
      /\ entry.functionNamespace = other.functionNamespace /\ entry.imports = other.imports
      /\ entry.namespaces = other.namespaces /\ entry.variables = other.variables
      /\ entry.functions = other.functions /\ entry.expression = other.expression
  BY DEF SameBesidesMemo, EntryTells
<1>2. /\ \A p : RecordedNamespace(other, p, ns) = RecordedNamespace(entry, p, ns)
      /\ \A p : Recorded(other, p, ns) <=> Recorded(entry, p, ns)
  BY <1>1 DEF RecordedNamespace, Recorded
<1>3. \A f : RecordedFunction(other, f, ns) = RecordedFunction(entry, f, ns)
  BY <1>1, <1>2 DEF RecordedFunction
<1>4. other.expression = RecordedExpression(other, ns)
  <2>1. [p \in other.source.prefixes |-> RecordedNamespace(other, p, ns)]
          = [p \in entry.source.prefixes |-> RecordedNamespace(entry, p, ns)]
    BY <1>1, <1>2
  <2>2. [f \in other.source.functions |-> RecordedFunction(other, f, ns)]
          = [f \in entry.source.functions |-> RecordedFunction(entry, f, ns)]
    BY <1>1, <1>3
  <2> QED BY <1>1, <2>1, <2>2 DEF EntryTells, RecordedExpression
<1>5. \A p \in other.source.prefixes : Recorded(other, p, ns) /\ RecordedNamespace(other, p, ns) # None
  <2>1. \A p \in entry.source.prefixes : Recorded(entry, p, ns) /\ RecordedNamespace(entry, p, ns) # None
    BY DEF EntryTells
  <2> QED BY <1>1, <1>2, <2>1
<1>6. \A f \in other.source.functions :
        /\ RecordedFunction(other, f, ns) \in Registered
        /\ f \in DOMAIN other.functions \/ f.prefix = "" \/ Recorded(other, f.prefix, ns)
  BY <1>1, <1>2, <1>3 DEF EntryTells
<1>7. /\ DOMAIN other = DOMAIN entry /\ other.source \in Source
      /\ other.source.prolog => other.key[1] = "XQuery"
      /\ other.variables = other.source.variables
      /\ \A f \in DOMAIN other.functions : other.functions[f] # None
  BY <1>1 DEF EntryTells
<1> QED BY <1>4, <1>5, <1>6, <1>7 DEF EntryTells

\* An entry goes on telling it when more prefixes become known.
LEMMA TellsWithMoreKnown ==
  ASSUME NEW entry, NEW ns, NEW more, EntryTells(entry, ns), DOMAIN ns \subseteq DOMAIN more,
         \A p \in DOMAIN ns : more[p] = ns[p]
  PROVE  EntryTells(entry, more)
<1>1. \A p : Recorded(entry, p, ns) =>
                /\ Recorded(entry, p, more)
                /\ RecordedNamespace(entry, p, more) = RecordedNamespace(entry, p, ns)
  BY DEF Recorded, RecordedNamespace
<1>2. \A f \in entry.source.functions : RecordedFunction(entry, f, more) = RecordedFunction(entry, f, ns)
  BY <1>1 DEF EntryTells, RecordedFunction
<1>3. [p \in entry.source.prefixes |-> RecordedNamespace(entry, p, more)]
        = [p \in entry.source.prefixes |-> RecordedNamespace(entry, p, ns)]
  BY <1>1 DEF EntryTells
<1>4. [f \in entry.source.functions |-> RecordedFunction(entry, f, more)]
        = [f \in entry.source.functions |-> RecordedFunction(entry, f, ns)]
  BY <1>2
<1>5. RecordedExpression(entry, more) = RecordedExpression(entry, ns)
  BY <1>3, <1>4 DEF RecordedExpression
<1> QED BY <1>1, <1>2, <1>5 DEF EntryTells

-----------------------------------------------------------------------------
(* The steps.                                                              *)

\* An evaluation with an expression from the cache changes a memo at most.
LEMMA CachedStep ==
  ASSUME CacheInv, NEW source, NEW call, NEW reads, EvaluateCached(source, call, reads)
  PROVE  /\ known' = known /\ cache' \in Seq(Range(cache')) /\ Len(cache') = Len(cache)
         /\ DOMAIN cache' = DOMAIN cache
         /\ \A i \in DOMAIN cache : DOMAIN cache'[i] = DOMAIN cache[i] /\ SameBesidesMemo(cache[i], cache'[i])
<1> DEFINE found == Found(source, call)
<1> HIDE DEF found
<1>1. PICK memo : cache' = [cache EXCEPT ![found] = [@ EXCEPT !.memo = memo]]
  BY DEF EvaluateCached, found
<1>2. cache \in Seq(Range(cache)) /\ DOMAIN cache = 1 .. Len(cache) /\ Len(cache) \in Nat
  BY DEF CacheInv
<1>3. DOMAIN cache' = DOMAIN cache
  BY <1>1
<1>4. cache' \in Seq(Range(cache')) /\ Len(cache') = Len(cache)
  <2>1. cache' \in [1 .. Len(cache) -> Range(cache')]
    BY <1>1, <1>2, <1>3 DEF Range
  <2> QED BY <1>2, <2>1
<1>5. ASSUME NEW i \in DOMAIN cache
      PROVE  DOMAIN cache'[i] = DOMAIN cache[i] /\ SameBesidesMemo(cache[i], cache'[i])
  <2>1. CASE i = found
    <3> DEFINE entry == cache[i]
    <3> HIDE DEF entry
    <3>1. cache'[i] = [entry EXCEPT !.memo = memo]
      BY <1>1, <2>1 DEF entry
    <3>2. DOMAIN cache'[i] = DOMAIN entry /\ SameBesidesMemo(entry, cache'[i])
      BY <3>1 DEF SameBesidesMemo
    <3> QED BY <3>2 DEF entry
  <2>2. CASE i # found
    <3>1. cache'[i] = cache[i]
      BY <1>1, <2>2
    <3> QED BY <3>1 DEF SameBesidesMemo
  <2> QED BY <2>1, <2>2
<1>6. known' = known
  BY DEF EvaluateCached
<1> QED BY <1>3, <1>4, <1>5, <1>6

\* An evaluation that compiles adds an entry, that fits its call, and that none of the others is.
LEMMA CompiledStep ==
  ASSUME CacheInv, NEW source \in Source, NEW call, NEW reads, EvaluateCompiled(source, call, reads)
  PROVE  LET last == Len(cache) + 1
         IN /\ known' = known /\ cache' \in Seq(Range(cache'))
            /\ DOMAIN cache' = DOMAIN cache \cup {last} /\ last \notin DOMAIN cache
            /\ Len(cache') <= MaxEntries
            /\ \A i \in DOMAIN cache : cache'[i] = cache[i]
            /\ EntryTells(cache'[last], known) /\ Fits(cache'[last], source, call)
            /\ \A i \in DOMAIN cache : ~ Fits(cache[i], source, call)
<1>1. PICK memo : cache' = Append(cache, CacheEntry(source, call, memo))
  BY DEF EvaluateCompiled
<1> DEFINE entry == CacheEntry(source, call, memo)
           last == Len(cache) + 1
<1>2. EntryTells(entry, known) /\ Fits(entry, source, call)
  BY NewEntryTells, NewEntryFits DEF EvaluateCompiled
<1> HIDE DEF entry
<1>3. cache \in Seq(Range(cache)) /\ DOMAIN cache = 1 .. Len(cache) /\ Len(cache) \in Nat
  BY DEF CacheInv
<1>4. cache' = Append(cache, entry)
  BY <1>1 DEF entry
<1>5. /\ DOMAIN cache' = DOMAIN cache \cup {last} /\ last \notin DOMAIN cache
      /\ Len(cache') = last /\ DOMAIN cache' = 1 .. Len(cache')
      /\ \A i \in DOMAIN cache : cache'[i] = cache[i]
      /\ cache'[last] = entry
  <2>1. cache \in Seq(Range(cache) \cup {entry}) /\ entry \in Range(cache) \cup {entry}
    BY <1>3
  <2> QED BY <1>3, <1>4, <2>1
<1>6. cache' \in Seq(Range(cache'))
  <2>1. cache \in Seq(Range(cache) \cup {entry}) /\ entry \in Range(cache) \cup {entry}
    BY <1>3
  <2>2. cache' \in Seq(Range(cache) \cup {entry})
    BY <1>4, <2>1
  <2>3. cache' \in [1 .. Len(cache') -> Range(cache')]
    BY <1>5, <2>2 DEF Range
  <2> QED BY <2>2, <2>3
<1>7. \A i \in DOMAIN cache : ~ Fits(cache[i], source, call)
  <2>1. FirstFit(cache, source, call) = 0
    BY FoundIsFirstFit DEF EvaluateCompiled
  <2> QED BY <1>3, <2>1, FirstFitIs
<1>8. known' = known /\ Len(cache') <= MaxEntries
  <2>1. Len(cache) < MaxEntries /\ known' = known
    BY DEF EvaluateCompiled
  <2> QED BY <1>3, <1>5, <2>1, MaxEntriesIsNat
<1> QED BY <1>2, <1>5, <1>6, <1>7, <1>8

\* A prefix that becomes known is a new one.
LEMMA RegisterStep ==
  ASSUME CacheInv, NEW prefix \in Registrable, RegisterStaticallyKnownNamespace(prefix)
  PROVE  /\ cache' = cache /\ DOMAIN known' = DOMAIN known \cup {prefix}
         /\ \A p \in DOMAIN known : known'[p] = known[p]
  BY DEF RegisterStaticallyKnownNamespace

\* Each step keeps the invariant.
LEMMA CachedKeeps ==
  ASSUME CacheInv, NEW source, NEW call, NEW reads, EvaluateCached(source, call, reads)
  PROVE  CacheInv'
<1>1. /\ known' = known /\ cache' \in Seq(Range(cache')) /\ Len(cache') = Len(cache)
      /\ DOMAIN cache' = DOMAIN cache
      /\ \A i \in DOMAIN cache : DOMAIN cache'[i] = DOMAIN cache[i] /\ SameBesidesMemo(cache[i], cache'[i])
  BY CachedStep
<1>2. \A i \in DOMAIN cache : EntryTells(cache'[i], known')
  BY <1>1, TellsWithoutMemo DEF CacheInv
<1>4. NoEntryTwice'
  <2> SUFFICES ASSUME NEW i \in DOMAIN cache, NEW j \in DOMAIN cache,
                      SameBesidesMemo(cache'[i], cache'[j])
               PROVE  SameBesidesMemo(cache[i], cache[j])
    BY <1>1 DEF CacheInv, NoEntryTwice
  <2>1. DOMAIN cache[i] = DOMAIN cache'[i] /\ DOMAIN cache[i] = DOMAIN cache[j]
    BY <1>1 DEF CacheInv, EntryTells
  <2>2. SameBesidesMemo(cache[i], cache'[i]) /\ SameBesidesMemo(cache[j], cache'[j])
    BY <1>1
  <2> QED BY <2>1, <2>2 DEF SameBesidesMemo
<1> QED BY <1>1, <1>2, <1>4 DEF CacheInv

LEMMA CompiledKeeps ==
  ASSUME CacheInv, NEW source \in Source, NEW call, NEW reads, EvaluateCompiled(source, call, reads)
  PROVE  CacheInv'
<1> DEFINE last == Len(cache) + 1
<1>1. /\ known' = known /\ cache' \in Seq(Range(cache'))
      /\ DOMAIN cache' = DOMAIN cache \cup {last} /\ last \notin DOMAIN cache
      /\ Len(cache') <= MaxEntries
      /\ \A i \in DOMAIN cache : cache'[i] = cache[i]
      /\ EntryTells(cache'[last], known) /\ Fits(cache'[last], source, call)
      /\ \A i \in DOMAIN cache : ~ Fits(cache[i], source, call)
  BY CompiledStep
<1> HIDE DEF last
<1>2. \A i \in DOMAIN cache' : EntryTells(cache'[i], known')
  BY <1>1 DEF CacheInv
<1>4. ASSUME NEW i \in DOMAIN cache', NEW j \in DOMAIN cache', SameBesidesMemo(cache'[i], cache'[j])
      PROVE  i = j
  <2>1. Fits(cache'[i], source, call) <=> Fits(cache'[j], source, call)
    <3>1. DOMAIN cache'[i] = {"source", "key", "functionNamespace", "imports", "namespaces", "variables",
                              "functions", "expression", "memo"}
      BY <1>2 DEF EntryTells
    <3> QED BY <1>4, <3>1, MemoDoesNotMatter
  <2> QED BY <1>1, <1>4, <2>1 DEF CacheInv, NoEntryTwice
<1>5. NoEntryTwice'
  BY <1>4 DEF NoEntryTwice
<1> QED BY <1>1, <1>2, <1>5 DEF CacheInv

LEMMA RegisterKeeps ==
  ASSUME CacheInv, NEW prefix \in Registrable, RegisterStaticallyKnownNamespace(prefix)
  PROVE  CacheInv'
<1>1. /\ cache' = cache /\ DOMAIN known' = DOMAIN known \cup {prefix}
      /\ \A p \in DOMAIN known : known'[p] = known[p]
  BY RegisterStep
<1>2. \A i \in DOMAIN cache : EntryTells(cache[i], known')
  BY <1>1, TellsWithMoreKnown DEF CacheInv
<1> QED BY <1>1, <1>2 DEF CacheInv, NoEntryTwice

-----------------------------------------------------------------------------
(* The theorems.                                                           *)

\* The inductive invariant holds: every entry tells what its text was compiled to, and no entry is
\* there twice.
THEOREM CacheInvariant == Spec => []CacheInv
<1>1. Init => CacheInv
  BY MaxEntriesIsNat DEF Init, CacheInv, NoEntryTwice, Range
<1>2. ASSUME CacheInv, [Next]_vars
      PROVE  CacheInv'
  <2>1. ASSUME NEW source \in Source, NEW call \in Call, NEW reads \in BOOLEAN,
               EvaluateCached(source, call, reads)
        PROVE  CacheInv'
    BY <1>2, <2>1, CachedKeeps
  <2>2. ASSUME NEW source \in Source, NEW call \in Call, NEW reads \in BOOLEAN,
               EvaluateCompiled(source, call, reads)
        PROVE  CacheInv'
    BY <1>2, <2>2, CompiledKeeps
  <2>3. ASSUME NEW prefix \in Registrable, RegisterStaticallyKnownNamespace(prefix)
        PROVE  CacheInv'
    BY <1>2, <2>3, RegisterKeeps
  <2>4. CASE UNCHANGED vars
    <3>1. cache' = cache /\ known' = known
      BY <2>4 DEF vars
    <3> QED BY <1>2, <3>1 DEF CacheInv, NoEntryTwice
  <2> QED BY <1>2, <2>1, <2>2, <2>3, <2>4 DEF Next
<1> QED BY <1>1, <1>2, PTL DEF Spec

\* An entry is what compiling for a call that it fits would give, unless the call imports other
\* prefixes, a prefix it kept has become known, the resolver of the call answers for a function for
\* which there was no answer, or the version of the language is older.  The invariant says what each
\* name in the entry was resolved to; outside of these cases the call resolves it to the same.
THEOREM CachedIsCompiled == Spec => []CachedAsCompiled
<1>1. ASSUME CacheInv
      PROVE  TypeOK
  <2>1. ASSUME NEW i \in DOMAIN cache
        PROVE  /\ cache[i].source \in Source
               /\ DOMAIN cache[i].expression.namespaces = cache[i].source.prefixes
               /\ None \notin Range(cache[i].expression.namespaces)
               /\ \A f \in cache[i].source.functions : cache[i].expression.functions[f] \in Registered
    <3> DEFINE entry == cache[i]
    <3>1. EntryTells(entry, known)
      BY <1>1 DEF CacheInv
    <3> HIDE DEF entry
    <3>2. /\ entry.source \in Source /\ entry.expression = RecordedExpression(entry, known)
          /\ \A p \in entry.source.prefixes : RecordedNamespace(entry, p, known) # None
          /\ \A f \in entry.source.functions : RecordedFunction(entry, f, known) \in Registered
      BY <3>1 DEF EntryTells
    <3>3. /\ entry.expression.namespaces = [p \in entry.source.prefixes |-> RecordedNamespace(entry, p, known)]
          /\ entry.expression.functions = [f \in entry.source.functions |-> RecordedFunction(entry, f, known)]
      BY <3>2 DEF RecordedExpression
    <3>4. None \notin Range(entry.expression.namespaces)
      BY <3>2, <3>3 DEF Range
    <3>5. \A f \in entry.source.functions : entry.expression.functions[f] \in Registered
      BY <3>2, <3>3
    <3> QED BY <3>2, <3>3, <3>4, <3>5 DEF entry
  <2> QED BY <1>1, <2>1 DEF TypeOK, CacheInv
<1>2. ASSUME CacheInv, NEW source, NEW call, NEW entry, EntryTells(entry, known), Fits(entry, source, call),
             ~ ImportsSince(entry, call), ~ KnownSince(entry), ~ AnsweredSince(entry, call),
             ~ OlderVersion(entry, call)
      PROVE  Compiles(source, call) /\ entry.expression = Compiled(source, call)
  <2>1. /\ entry.source = source /\ entry.key[1] = call.language
        /\ entry.functionNamespace = call.functionNamespace
        /\ entry.variables \subseteq call.variables
        /\ DOMAIN call.imports = DOMAIN entry.imports
        /\ \A p \in DOMAIN entry.imports : call.imports[p] = entry.imports[p]
        /\ \A p \in DOMAIN entry.namespaces : call.namespaces[p] = entry.namespaces[p] /\ p \notin DOMAIN known
        /\ \A f \in DOMAIN entry.functions : Answer(call, f) = entry.functions[f]
        /\ \A f \in source.functions : f \notin DOMAIN entry.functions => Answer(call, f) = None
    BY <1>2 DEF Fits, Matches, ImportsSince, KnownSince, AnsweredSince
  <2>2. ASSUME NEW p, Recorded(entry, p, known)
        PROVE  RecordedNamespace(entry, p, known) = ResolveNamespace(call, p)
    BY <2>1, <2>2 DEF Recorded, RecordedNamespace, ResolveNamespace, ResolveExternally, Imported
  <2>3. ASSUME NEW f \in source.functions
        PROVE  RecordedFunction(entry, f, known) = ResolveFunction(call, f)
    <3>1. CASE f.prefix \in DOMAIN entry.imports
      BY <2>1, <3>1 DEF RecordedFunction, ResolveFunction, Imported
    <3>2. CASE f.prefix \notin DOMAIN entry.imports /\ f \in DOMAIN entry.functions
      <4>1. Answer(call, f) = entry.functions[f] /\ entry.functions[f] # None
        BY <1>2, <2>1, <3>2 DEF EntryTells
      <4> QED BY <2>1, <3>2, <4>1 DEF RecordedFunction, ResolveFunction, Imported
    <3>3. CASE f.prefix \notin DOMAIN entry.imports /\ f \notin DOMAIN entry.functions
      <4>1. Answer(call, f) = None
        BY <2>1, <3>3
      <4>2. CASE f.prefix = ""
        BY <2>1, <3>3, <4>1, <4>2 DEF RecordedFunction, ResolveFunction, Imported
      <4>3. CASE f.prefix # ""
        <5>1. RecordedNamespace(entry, f.prefix, known) = ResolveNamespace(call, f.prefix)
          BY <1>2, <2>1, <2>2, <3>3, <4>3 DEF EntryTells
        <5>2. RecordedFunction(entry, f, known) = QName(RecordedNamespace(entry, f.prefix, known), f)
          BY <3>3, <4>3 DEF RecordedFunction
        <5>3. ResolveFunction(call, f) = QName(ResolveNamespace(call, f.prefix), f)
          BY <2>1, <3>3, <4>1, <4>3 DEF ResolveFunction, ResolveNamespace, Imported
        <5> QED BY <5>1, <5>2, <5>3
      <4> QED BY <4>2, <4>3
    <3> QED BY <3>1, <3>2, <3>3
  <2>4. \A p \in source.prefixes : /\ RecordedNamespace(entry, p, known) = ResolveNamespace(call, p)
                                  /\ ResolveNamespace(call, p) # None
    BY <1>2, <2>1, <2>2 DEF EntryTells
  <2>5. \A f \in source.functions : ResolveFunction(call, f) \in Registered
    BY <1>2, <2>1, <2>3 DEF EntryTells
  <2>6. Compiles(source, call)
    <3>1. source.newSyntax => call.version = 4
      BY <1>2, <2>1 DEF OlderVersion
    <3>2. source.prolog => call.language = "XQuery"
      BY <1>2, <2>1 DEF EntryTells
    <3>3. source.variables \subseteq call.variables
      BY <1>2, <2>1 DEF EntryTells
    <3> QED BY <2>4, <2>5, <3>1, <3>2, <3>3 DEF Compiles
  <2>7. entry.expression = Compiled(source, call)
    <3>1. [p \in source.prefixes |-> RecordedNamespace(entry, p, known)]
            = [p \in source.prefixes |-> ResolveNamespace(call, p)]
      BY <2>4
    <3>2. [f \in source.functions |-> RecordedFunction(entry, f, known)]
            = [f \in source.functions |-> ResolveFunction(call, f)]
      BY <2>3
    <3>3. entry.expression = RecordedExpression(entry, known)
      BY <1>2, <2>1 DEF EntryTells
    <3> QED BY <2>1, <3>1, <3>2, <3>3 DEF Compiled, RecordedExpression
  <2> QED BY <2>6, <2>7
<1>3. ASSUME CacheInv, NEW source, NEW call, Found(source, call) # 0
      PROVE  EntryTells(cache[Found(source, call)], known) /\ Fits(cache[Found(source, call)], source, call)
  <2>1. Found(source, call) = FirstFit(cache, source, call)
    BY <1>3, FoundIsFirstFit
  <2> QED BY <1>3, <2>1, FirstFitIs DEF CacheInv
<1>4. CacheInv => CachedAsCompiled
  <2> SUFFICES ASSUME CacheInv, NEW source \in Source, NEW call \in Call, Found(source, call) # 0,
                      NEW entry, entry = cache[Found(source, call)]
               PROVE  \/ Compiles(source, call) /\ entry.expression = Compiled(source, call)
                      \/ ImportsSince(entry, call) \/ KnownSince(entry)
                      \/ AnsweredSince(entry, call) \/ OlderVersion(entry, call)
    BY <1>1 DEF CachedAsCompiled
  <2> QED BY <1>2, <1>3
<1> QED BY <1>4, CacheInvariant, PTL

\* A call finds what it compiled: the new entry fits it, so some entry does.
THEOREM FoundAgain == Spec => SameCallIsFound
<1>1. ASSUME CacheInv, NEW source \in Source, NEW call \in Call, NEW reads \in BOOLEAN,
             EvaluateCompiled(source, call, reads)
      PROVE  Found(source, call)' # 0
  <2>1. /\ cache' \in Seq(Range(cache')) /\ Len(cache) + 1 \in DOMAIN cache'
        /\ Fits(cache'[Len(cache) + 1], source, call)
    BY <1>1, CompiledStep
  <2>2. FirstFit(cache', source, call) # 0
    BY <2>1, FirstFitIs
  <2>3. ~ call.disableCache
    BY <1>1 DEF EvaluateCompiled
  <2> QED BY <2>2, <2>3, FoundIsFirstFit
<1>2. CacheInv => [\A source \in Source, call \in Call, reads \in BOOLEAN :
                     EvaluateCompiled(source, call, reads) => Found(source, call)' # 0]_vars
  BY <1>1
<1> QED BY <1>2, CacheInvariant, PTL DEF SameCallIsFound, Spec

\* A call goes on finding the entry it found: entries keep their place, and what they fit.
THEOREM FoundTheSame == Spec => SameEntryForSameCall
<1>1. ASSUME CacheInv, Next, NEW source \in Source, NEW call \in Call, Found(source, call) # 0
      PROVE  Found(source, call)' = Found(source, call)
  <2>1. /\ DOMAIN cache \subseteq DOMAIN cache' /\ cache' \in Seq(Range(cache'))
        /\ \A i \in DOMAIN cache : Fits(cache'[i], source, call) <=> Fits(cache[i], source, call)
    <3>1. ASSUME NEW text, NEW other, NEW reads, EvaluateCached(text, other, reads)
          PROVE  <2>1
      <4>1. \A i \in DOMAIN cache : SameBesidesMemo(cache[i], cache'[i])
        BY <1>1, <3>1, CachedStep
      <4>2. \A i \in DOMAIN cache : Fits(cache'[i], source, call) <=> Fits(cache[i], source, call)
        <5>1. \A i \in DOMAIN cache :
                DOMAIN cache[i] = {"source", "key", "functionNamespace", "imports", "namespaces",
                                   "variables", "functions", "expression", "memo"}
          BY <1>1 DEF CacheInv, EntryTells
        <5> QED BY <4>1, <5>1, MemoDoesNotMatter
      <4> QED BY <1>1, <3>1, <4>2, CachedStep
    <3>2. ASSUME NEW text \in Source, NEW other, NEW reads, EvaluateCompiled(text, other, reads)
          PROVE  <2>1
      BY <1>1, <3>2, CompiledStep
    <3>3. ASSUME NEW prefix \in Registrable, RegisterStaticallyKnownNamespace(prefix)
          PROVE  <2>1
      BY <1>1, <3>3, RegisterStep DEF CacheInv
    <3> QED BY <1>1, <3>1, <3>2, <3>3 DEF Next
  <2>2. Found(source, call) = FirstFit(cache, source, call) /\ ~ call.disableCache
    BY <1>1, FoundIsFirstFit
  <2>3. FirstFit(cache', source, call) = FirstFit(cache, source, call)
    BY <1>1, <2>1, <2>2, SameFirstFit DEF CacheInv
  <2> QED BY <2>2, <2>3, FoundIsFirstFit
<1>2. CacheInv /\ [Next]_vars => [\A source \in Source, call \in Call :
                     Found(source, call) # 0 => Found(source, call)' = Found(source, call)]_vars
  BY <1>1
<1> QED BY <1>2, CacheInvariant, PTL DEF SameEntryForSameCall, Spec
=============================================================================
