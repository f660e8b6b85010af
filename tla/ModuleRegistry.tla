---------------------------- MODULE ModuleRegistry ----------------------------
(***************************************************************************)
(* Library modules: registerXQueryModule, the global module cache and the  *)
(* analysis of what is registered.  Several module texts may be registered *)
(* for one namespace.  A text is analysed, which resolves the calls in its *)
(* functions, when modules are compiled: on request and before a query     *)
(* that imports.  An analysis that fails throws out of the loop over the   *)
(* namespaces.  Texts that registerXQueryModule refuses leave nothing      *)
(* behind and are not modelled, nor are external functions and variables.  *)
(***************************************************************************)
EXTENDS Integers, Sequences, FiniteSets, FiniteSetsExt

CONSTANTS
  Module,      \* module texts: [uri, imports, functions], a function is [name, public, calls]
  Query,       \* queries: [imports, calls]; a call is [uri, name]
  MaxModules   \* bound on the number of registrations

\* A text declares its functions in an order.
ASSUME TextsDeclareFunctions ==
  \A m \in Module : Len(m.functions) \in Nat /\ DOMAIN m.functions = 1 .. Len(m.functions)
ASSUME MaxModulesIsNat == MaxModules \in Nat

VARIABLES
  modules,     \* the registered texts, in order; a namespace declares the functions of its texts
  pending,     \* the texts that are still to be analysed: those in a performStaticAnalysis
  analysed,    \* how often each function was analysed
  resolved,    \* what the calls in each analysed function were resolved to
  outcome,     \* of the last call: what it was, and how it ended
  failures     \* history: the namespaces whose analysis has thrown

vars == <<modules, pending, analysed, resolved, outcome, failures>>

Unresolved == <<0, 0>>

Init ==
  /\ modules = <<>>
  /\ pending = {}
  /\ analysed = [f \in {} |-> 0]
  /\ resolved = [f \in {} |-> Unresolved]
  /\ outcome = [op |-> "none"]
  /\ failures = {}

-----------------------------------------------------------------------------

\* A function is named by the place of its text and its place in the text.
FunctionsOf(i) == {<<i, k>> : k \in DOMAIN modules[i].functions}
Functions == UNION {FunctionsOf(i) : i \in DOMAIN modules}
Definition(f) == modules[f[1]].functions[f[2]]
Uri(f) == modules[f[1]].uri

TextsOf(uri) == {i \in DOMAIN modules : modules[i].uri = uri}

\* The public functions with the name of a call.
\* Mutant: private functions are not skipped.
Declared(call) == {f \in Functions : Uri(f) = call.uri /\ Definition(f).name = call.name}
Public(call) == {f \in Declared(call) : Definition(f).public}

Earliest(S) == CHOOSE f \in S : \A g \in S : f[1] <= g[1]

\* What registering the functions fs, that have one name, in a static context leaves there; a
\* second registration throws XQST0049.
\* Mutant: the last one is kept.
Duplicate == <<0, 1>>
RegisterOver(fs) == CHOOSE f \in fs : \A g \in fs : f[1] >= g[1]
RegisterFunctionDefinitions(fs) == IF \A f, g \in fs : f = g THEN CHOOSE f \in fs : TRUE ELSE Duplicate

\* enhanceStaticContextWithModule throws when there is no such module, and when it declares a
\* public function twice.
PublicCalls(uri) ==
  {[uri |-> uri, name |-> Definition(f).name] :
    f \in {g \in Functions : Uri(g) = uri /\ Definition(g).public}}
CanImport(uri) ==
  /\ TextsOf(uri) # {}
  /\ \A call \in PublicCalls(uri) : RegisterFunctionDefinitions(Public(call)) # Duplicate

\* A text that imports its own namespace meets the names of its own functions there.
CanImportAll(i) ==
  \A uri \in modules[i].imports :
    /\ CanImport(uri)
    /\ uri = modules[i].uri =>
         \A f \in FunctionsOf(i) : [uri |-> uri, name |-> Definition(f).name] \notin PublicCalls(uri)

\* The static context of a function: the functions of its own text come first, then the imports,
\* then the public functions of its namespace, of which the first declaration is kept.
Resolve(i, call) ==
  LET own == {f \in FunctionsOf(i) : Uri(f) = call.uri /\ Definition(f).name = call.name}
  IN IF own # {} THEN CHOOSE f \in own : TRUE
     ELSE IF Public(call) = {} THEN Unresolved
     ELSE IF call.uri \in modules[i].imports THEN RegisterFunctionDefinitions(Public(call))
     ELSE IF call.uri = modules[i].uri THEN Earliest(Public(call))
     ELSE Unresolved

Resolvable(f) == \A call \in Definition(f).calls : Resolve(f[1], call) # Unresolved

\* The functions of a text are analysed in order until one has a call that does not resolve.
Analysable(i) ==
  IF ~ CanImportAll(i) THEN {}
  ELSE {f \in FunctionsOf(i) : \A k \in 1..f[2] : Resolvable(<<i, k>>)}

Fails(i) == Analysable(i) # FunctionsOf(i) \/ ~ CanImportAll(i)

\* Namespaces are analysed in the order in which they were first registered, and the texts of a
\* namespace in order.
FirstText(uri) == Min(TextsOf(uri))
Before(i, j) ==
  \/ FirstText(modules[i].uri) < FirstText(modules[j].uri)
  \/ modules[i].uri = modules[j].uri /\ i < j

\* The text in which the analysis throws, if there is one.
Thrower == {i \in pending : Fails(i) /\ \A j \in pending : Fails(j) => ~ Before(j, i)}

Analyse(fs) ==
  /\ analysed' = [f \in DOMAIN analysed \cup fs |->
                    (IF f \in DOMAIN analysed THEN analysed[f] ELSE 0) + (IF f \in fs THEN 1 ELSE 0)]
  /\ resolved' = [f \in DOMAIN resolved \cup fs |->
                    IF f \in fs THEN [call \in Definition(f).calls |-> Resolve(f[1], call)]
                    ELSE resolved[f]]

\* performStaticCompilationOnModules.  The namespace that throws loses its analysis, and those
\* after it keep theirs.
\* Mutant: the analyses are kept.
CompileAgain(ended) ==
  /\ Thrower = {}
  /\ Analyse(UNION {FunctionsOf(i) : i \in pending})
  /\ outcome' = ended
  /\ UNCHANGED <<modules, pending, failures>>
CompileSucceeds(ended) ==
  /\ Thrower = {}
  /\ Analyse(UNION {FunctionsOf(i) : i \in pending})
  /\ pending' = {}
  /\ outcome' = ended
  /\ UNCHANGED <<modules, failures>>

\* Mutant: every namespace loses its analysis.
LaterNone(i) == {}
Later(i) == {j \in pending : FirstText(modules[i].uri) < FirstText(modules[j].uri)}
CompileThrows(ended) ==
  \E i \in Thrower :
    /\ Analyse(UNION {Analysable(j) : j \in {h \in pending : h = i \/ Before(h, i)}})
    /\ pending' = Later(i)
    /\ outcome' = ended
    /\ failures' = failures \cup {modules[i].uri}
    /\ UNCHANGED modules

-----------------------------------------------------------------------------

\* registerXQueryModule and loadModuleFile: the analysis of the text is put behind those of the
\* namespace that were not done yet.
\* Mutant: it takes their place.
RegisterLast(module) ==
  /\ Len(modules) < MaxModules
  /\ modules' = Append(modules, module)
  /\ pending' = (pending \ TextsOf(module.uri)) \cup {Len(modules) + 1}
  /\ outcome' = [op |-> "register"]
  /\ UNCHANGED <<analysed, resolved, failures>>
Register(module) ==
  /\ Len(modules) < MaxModules
  /\ modules' = Append(modules, module)
  /\ pending' = pending \cup {Len(modules) + 1}
  /\ outcome' = [op |-> "register"]
  /\ UNCHANGED <<analysed, resolved, failures>>

Finalize ==
  \/ CompileSucceeds([op |-> "finalize", ended |-> "compiled"])
  \/ CompileThrows([op |-> "finalize", ended |-> "threw"])

\* The function that a call of the query is resolved to, in the static context of its imports.
Target(query, call) ==
  IF call.uri \in query.imports /\ Public(call) # {}
  THEN RegisterFunctionDefinitions(Public(call))
  ELSE Unresolved

Targets(query) == {Target(query, call) : call \in query.calls}

StaticallyCorrect(query) ==
  (\A uri \in query.imports : CanImport(uri)) /\ Unresolved \notin Targets(query)

\* An evaluation compiles the modules only when it imports any.  (A query that is found in the
\* cache of expressions is not looked at here.)
Evaluate(query) ==
  LET ended(how) == [op |-> "query", query |-> query, ended |-> how]
  IN IF query.imports = {}
     THEN /\ outcome' = ended(IF query.calls = {} THEN "evaluated" ELSE "static error")
          /\ UNCHANGED <<modules, pending, analysed, resolved, failures>>
     ELSE \/ CompileThrows(ended("threw"))
          \/ CompileSucceeds(ended(IF StaticallyCorrect(query) THEN "evaluated" ELSE "static error"))

Next ==
  \/ \E module \in Module : Register(module)
  \/ Finalize
  \/ \E query \in Query : Evaluate(query)

Spec == Init /\ [][Next]_vars

-----------------------------------------------------------------------------

\* The type of the state: what is analysed was registered, and all its calls were resolved.
TypeOK ==
  /\ modules \in Seq(Module) /\ Len(modules) <= MaxModules
  /\ pending \subseteq DOMAIN modules
  /\ DOMAIN analysed \subseteq Functions
  /\ DOMAIN resolved = DOMAIN analysed
  /\ \A f \in DOMAIN resolved : resolved[f] \in [Definition(f).calls -> Functions]
  /\ failures \subseteq {modules[i].uri : i \in DOMAIN modules}

\* No function is analysed twice, also when texts of a namespace are registered between
\* compilations: a second analysis would meet what the first put in the static context of the
\* module, and throw XQST0049.
AnalysedOnce == TypeOK /\ \A f \in DOMAIN analysed : analysed[f] = 1

\* Modules that import a namespace agree on what its functions are, whenever they were analysed and
\* whatever was registered in between.
ImportersAgree ==
  \A f, g \in DOMAIN resolved :
    \A call \in DOMAIN resolved[f] \cap DOMAIN resolved[g] :
      /\ call.uri \in modules[f[1]].imports \cap modules[g[1]].imports
      /\ call.uri \notin {Uri(f), Uri(g)}
      => resolved[f][call] = resolved[g][call]

\* A private function is called from its own text only.
PrivateStaysPrivate ==
  \A f \in DOMAIN resolved : \A call \in DOMAIN resolved[f] :
    resolved[f][call][1] # f[1] => Definition(resolved[f][call]).public

\* The functions that the functions fs call.
Called(fs) == UNION {{resolved[f][call] : call \in DOMAIN resolved[f]} : f \in fs \cap DOMAIN resolved}

\* A query that evaluates gets to analysed functions only, unless the analysis of the namespace of
\* the function has thrown before: among those there is a set that holds what the query calls and
\* is closed under calls.
EvaluatesAnalysed ==
  outcome.op = "query" /\ outcome.ended = "evaluated" =>
    \E S \in SUBSET {f \in Functions : f \in DOMAIN analysed \/ Uri(f) \in failures} :
      Targets(outcome.query) \cup Called(S) \subseteq S

\* The texts that a step gives up on: they leave the pending ones without being analysed.
GivenUp == {i \in pending \ pending' : ~ FunctionsOf(i) \subseteq DOMAIN analysed'}

\* A compilation that throws gives up on one namespace only: the analyses of the others are done
\* or still to be done.
GivesUpOneNamespace == [][\A i, j \in GivenUp : modules[i].uri = modules[j].uri]_vars

-----------------------------------------------------------------------------
\* The inductive invariant behind all of these.

\* An analysis is run once because a text that has one is not to be analysed any more.
AnalysedIsDone == \A f \in DOMAIN analysed : f[1] \notin pending

\* What a call to an imported namespace was resolved to is still declared there, and public.
StillDeclared ==
  \A f \in DOMAIN resolved : \A call \in DOMAIN resolved[f] :
    call.uri \in modules[f[1]].imports \ {Uri(f)} => resolved[f][call] \in Public(call)

\* No function is forgotten but those of a namespace whose analysis has thrown.
NoneForgotten ==
  \A f \in Functions : f \in DOMAIN analysed \/ f[1] \in pending \/ Uri(f) \in failures

\* A query evaluates when everything has been analysed, or when it calls nothing.
EvaluatesWhenDone ==
  outcome.op = "query" /\ outcome.ended = "evaluated" =>
    /\ Targets(outcome.query) \subseteq Functions
    /\ pending = {} \/ Targets(outcome.query) = {}

RegistryInv ==
  /\ AnalysedOnce /\ AnalysedIsDone
  /\ PrivateStaysPrivate /\ StillDeclared /\ ImportersAgree
  /\ NoneForgotten /\ EvaluatesWhenDone
=============================================================================
