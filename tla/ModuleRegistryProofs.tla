------------------------ MODULE ModuleRegistryProofs ------------------------
(***************************************************************************)
(* The module registry, for any module texts and any order of              *)
(* registrations, compilations and queries.  The argument: a text is       *)
(* analysed when it leaves the pending texts, which happens once; when its *)
(* analysis does not happen then, an analysis of its namespace has thrown. *)
(* A call is resolved to the only public function with its name at that    *)
(* time, or to one of its own namespace, and no function ever disappears.  *)
(***************************************************************************)
EXTENDS ModuleRegistry, TLAPS

\* For the least elements of sets of numbers.
Order == INSTANCE DocumentOrderProofs

-----------------------------------------------------------------------------
(* Texts and their functions.                                              *)

\* A function is in the text that its name says.
LEMMA FunctionIsOfText ==
  ASSUME NEW i, NEW f \in FunctionsOf(i)
  PROVE  /\ f = <<f[1], f[2]>> /\ f[1] = i /\ f[2] \in DOMAIN modules[i].functions
         /\ Uri(f) = modules[i].uri
  BY DEF FunctionsOf, Uri

\* A registered text is one of Module, and its functions are numbered from one.
LEMMA TextType ==
  ASSUME TypeOK, NEW i \in DOMAIN modules
  PROVE  /\ i \in Nat /\ i \in 1 .. Len(modules) /\ modules[i] \in Module
         /\ \A f \in FunctionsOf(i) : f \in Functions /\ f[2] \in Nat \ {0}
<1>1. modules \in Seq(Module)
  BY DEF TypeOK
<1>2. i \in 1 .. Len(modules) /\ modules[i] \in Module
  BY <1>1
<1>3. Len(modules[i].functions) \in Nat /\ DOMAIN modules[i].functions = 1 .. Len(modules[i].functions)
  BY <1>2, TextsDeclareFunctions
<1>4. ASSUME NEW f \in FunctionsOf(i)
      PROVE  f \in Functions /\ f[2] \in Nat \ {0}
  <2>1. f \in Functions
    BY DEF Functions
  <2>2. f[2] \in 1 .. Len(modules[i].functions)
    BY <1>3, FunctionIsOfText
  <2> QED BY <1>3, <2>1, <2>2
<1> QED BY <1>1, <1>2, <1>4

\* Each function is in a registered text.
LEMMA FunctionHasText ==
  ASSUME NEW f \in Functions
  PROVE  f[1] \in DOMAIN modules /\ f \in FunctionsOf(f[1])
<1>1. PICK i \in DOMAIN modules : f \in FunctionsOf(i)
  BY DEF Functions
<1> QED BY <1>1, FunctionIsOfText

\* The first text of a namespace is a text of it.
LEMMA FirstTextIsText ==
  ASSUME TypeOK, NEW i \in DOMAIN modules
  PROVE  /\ FirstText(modules[i].uri) \in Nat
         /\ FirstText(modules[i].uri) \in DOMAIN modules
         /\ modules[FirstText(modules[i].uri)].uri = modules[i].uri
<1> DEFINE S == TextsOf(modules[i].uri)
<1>1. i \in S /\ S \in SUBSET Nat
  BY TextType DEF TextsOf
<1>2. Min(S) \in S
  <2> HIDE DEF S
  <2> QED BY <1>1, Order!MinIsLeast DEF Min, Order!Min
<1> QED BY <1>1, <1>2 DEF FirstText, TextsOf

-----------------------------------------------------------------------------
(* What a call is resolved to.                                             *)

\* When a namespace can be imported, a call that finds public functions there finds one.
LEMMA ImportFindsOne ==
  ASSUME NEW call, CanImport(call.uri), Public(call) # {}
  PROVE  Public(call) = {RegisterFunctionDefinitions(Public(call))}
<1>1. PICK f \in Public(call) : TRUE
  OBVIOUS
<1> DEFINE same == [uri |-> call.uri, name |-> Definition(f).name]
<1>2. f \in Functions /\ Uri(f) = call.uri /\ Definition(f).name = call.name /\ Definition(f).public
  BY <1>1 DEF Public, Declared
<1>3. same \in PublicCalls(call.uri)
  BY <1>2 DEF PublicCalls
<1>4. Public(same) = Public(call)
  BY <1>2 DEF Public, Declared
<1>5. RegisterFunctionDefinitions(Public(call)) # Duplicate
  BY <1>3, <1>4 DEF CanImport
<1>6. \A g, h \in Public(call) : g = h
  BY <1>5 DEF RegisterFunctionDefinitions
<1>7. RegisterFunctionDefinitions(Public(call)) = CHOOSE g \in Public(call) : TRUE
  BY <1>6 DEF RegisterFunctionDefinitions
<1> QED BY <1>1, <1>6, <1>7

\* The earliest of some functions is one of them.
LEMMA EarliestIsOne ==
  ASSUME TypeOK, NEW S \in SUBSET Functions, S # {}
  PROVE  Earliest(S) \in S
<1> DEFINE Texts == {f[1] : f \in S}
<1>1. Texts # {} /\ Texts \in SUBSET Nat
  BY FunctionHasText, TextType
<1>2. \E i \in Texts : \A j \in Texts : i <= j
  <2> HIDE DEF Texts
  <2> QED BY <1>1, Order!LeastExists
<1>3. \E f \in S : \A g \in S : f[1] <= g[1]
  BY <1>2
<1> QED BY <1>3 DEF Earliest

\* A call of a text that can import what it imports, and that is resolved: to a function of the
\* text or to a public one, and to the only public one if it is imported from elsewhere.
LEMMA ResolvesTo ==
  ASSUME TypeOK, NEW i \in DOMAIN modules, CanImportAll(i), NEW call, Resolve(i, call) # Unresolved
  PROVE  /\ Resolve(i, call) \in Functions
         /\ Resolve(i, call)[1] # i => Definition(Resolve(i, call)).public
         /\ call.uri \in modules[i].imports \ {modules[i].uri} => Public(call) = {Resolve(i, call)}
<1> DEFINE own == {f \in FunctionsOf(i) : Uri(f) = call.uri /\ Definition(f).name = call.name}
<1>1. CASE own # {}
  <2>1. Resolve(i, call) = CHOOSE f \in own : TRUE
    BY <1>1 DEF Resolve
  <2>2. Resolve(i, call) \in own
    <3> HIDE DEF own
    <3> QED BY <1>1, <2>1
  <2>3. Resolve(i, call) \in FunctionsOf(i) /\ Uri(Resolve(i, call)) = call.uri
    BY <2>2
  <2> HIDE DEF own
  <2>4. Resolve(i, call)[1] = i /\ modules[i].uri = call.uri
    BY <2>3, FunctionIsOfText
  <2> QED BY <2>3, <2>4 DEF Functions
<1>2. CASE own = {}
  <2>1. Resolve(i, call) = IF Public(call) = {} THEN Unresolved
                           ELSE IF call.uri \in modules[i].imports
                             THEN RegisterFunctionDefinitions(Public(call))
                           ELSE IF call.uri = modules[i].uri THEN Earliest(Public(call))
                           ELSE Unresolved
    BY <1>2 DEF Resolve
  <2>2. Public(call) # {}
    BY <2>1
  <2>3. Public(call) \in SUBSET Functions /\ \A f \in Public(call) : Definition(f).public
    BY DEF Public, Declared
  <2>4. CASE call.uri \in modules[i].imports
    <3>1. CanImport(call.uri)
      BY <2>4 DEF CanImportAll
    <3>2. Public(call) = {Resolve(i, call)}
      BY <2>1, <2>2, <2>4, <3>1, ImportFindsOne
    <3> QED BY <2>3, <3>2
  <2>5. CASE call.uri \notin modules[i].imports
    <3>1. Resolve(i, call) = Earliest(Public(call))
      BY <2>1, <2>2, <2>5
    <3>2. Resolve(i, call) \in Public(call)
      BY <2>2, <2>3, <3>1, EarliestIsOne
    <3> QED BY <2>3, <2>5, <3>2
  <2> QED BY <2>4, <2>5
<1> QED BY <1>1, <1>2

-----------------------------------------------------------------------------
(* What a compilation analyses.                                            *)

\* A function that is analysed is one of its text, its text can import what it imports, and its
\* calls are resolved.
LEMMA AnalysableIs ==
  ASSUME TypeOK, NEW i \in DOMAIN modules, NEW f \in Analysable(i)
  PROVE  f[1] = i /\ f \in Functions /\ CanImportAll(f[1]) /\ Resolvable(f)
<1>1. CanImportAll(i) /\ f \in FunctionsOf(i) /\ \A k \in 1 .. f[2] : Resolvable(<<i, k>>)
  BY DEF Analysable
<1>2. f[1] = i /\ f = <<i, f[2]>>
  BY <1>1, FunctionIsOfText
<1>3. f \in Functions /\ f[2] \in 1 .. f[2]
  BY <1>1, TextType
<1> QED BY <1>1, <1>2, <1>3

\* Analysing functions of pending texts, whose calls are resolved, counts each once, and keeps
\* what is known of what calls were resolved to.
LEMMA AnalyseKeeps ==
  ASSUME RegistryInv, UNCHANGED modules, NEW fs, Analyse(fs),
         \A f \in fs : f[1] \in pending /\ f \in Functions /\ CanImportAll(f[1]) /\ Resolvable(f)
  PROVE  /\ DOMAIN analysed' = DOMAIN analysed \cup fs /\ DOMAIN resolved' = DOMAIN analysed'
         /\ \A f \in DOMAIN analysed' : analysed'[f] = 1
         /\ \A f \in DOMAIN resolved' : resolved'[f] \in [Definition(f).calls -> Functions]
         /\ PrivateStaysPrivate' /\ StillDeclared' /\ ImportersAgree'
<1>1. TypeOK /\ AnalysedOnce /\ AnalysedIsDone
  BY DEF RegistryInv, AnalysedOnce
<1>2. /\ DOMAIN analysed' = DOMAIN analysed \cup fs
      /\ \A f \in fs : f \notin DOMAIN analysed /\ f \notin DOMAIN resolved
      /\ DOMAIN resolved' = DOMAIN analysed'
  BY <1>1 DEF Analyse, AnalysedIsDone, TypeOK
<1>3. ASSUME NEW f \in DOMAIN analysed'
      PROVE  analysed'[f] = 1
  <2>1. CASE f \in fs
    BY <1>2, <2>1 DEF Analyse
  <2>2. CASE f \notin fs
    BY <1>1, <1>2, <2>2 DEF Analyse, AnalysedOnce
  <2> QED BY <2>1, <2>2
<1>4. ASSUME NEW f \in fs
      PROVE  resolved'[f] = [call \in Definition(f).calls |-> Resolve(f[1], call)]
  BY <1>2 DEF Analyse
<1>5. ASSUME NEW f \in DOMAIN resolved' \ fs
      PROVE  f \in DOMAIN resolved /\ resolved'[f] = resolved[f]
  BY <1>1, <1>2 DEF Analyse, TypeOK
<1>6. ASSUME NEW f \in fs, NEW call \in DOMAIN resolved'[f]
      PROVE  /\ resolved'[f][call] = Resolve(f[1], call)
             /\ resolved'[f][call] \in Functions
             /\ resolved'[f][call][1] # f[1] => Definition(resolved'[f][call]).public
             /\ call.uri \in modules[f[1]].imports \ {Uri(f)} => Public(call) = {resolved'[f][call]}
  <2>1. call \in Definition(f).calls /\ resolved'[f][call] = Resolve(f[1], call)
    BY <1>4
  <2>2. f[1] \in DOMAIN modules /\ CanImportAll(f[1]) /\ Resolve(f[1], call) # Unresolved
    BY <2>1, FunctionHasText DEF Resolvable
  <2> QED BY <1>1, <2>1, <2>2, ResolvesTo DEF Uri
<1>7. ASSUME NEW f \in DOMAIN resolved'
      PROVE  resolved'[f] \in [Definition(f).calls -> Functions]
  <2>1. CASE f \in fs
    <3>1. resolved'[f] = [call \in Definition(f).calls |-> Resolve(f[1], call)]
      BY <1>4, <2>1
    <3>2. \A call \in Definition(f).calls : Resolve(f[1], call) \in Functions
      BY <1>6, <2>1, <3>1
    <3> QED BY <3>1, <3>2
  <2>2. CASE f \notin fs
    BY <1>1, <1>5, <2>2 DEF TypeOK
  <2> QED BY <2>1, <2>2
<1>8. PrivateStaysPrivate'
  <2> SUFFICES ASSUME NEW f \in DOMAIN resolved', NEW call \in DOMAIN resolved'[f],
                      resolved'[f][call][1] # f[1]
               PROVE  Definition(resolved'[f][call]).public
    BY DEF PrivateStaysPrivate, Definition
  <2>1. CASE f \in fs
    BY <1>6, <2>1
  <2>2. CASE f \notin fs
    BY <1>5, <2>2 DEF RegistryInv, PrivateStaysPrivate
  <2> QED BY <2>1, <2>2
<1>9. ASSUME NEW f \in DOMAIN resolved', NEW call \in DOMAIN resolved'[f],
             call.uri \in modules[f[1]].imports \ {Uri(f)}
      PROVE  resolved'[f][call] \in Public(call)
  <2>1. CASE f \in fs
    BY <1>6, <1>9, <2>1
  <2>2. CASE f \notin fs
    BY <1>5, <1>9, <2>2 DEF RegistryInv, StillDeclared
  <2> QED BY <2>1, <2>2
<1>10. StillDeclared'
  <2>1. \A call : Public(call)' = Public(call)
    BY DEF Public, Declared, Functions, FunctionsOf, Uri, Definition
  <2> QED BY <1>9, <2>1 DEF StillDeclared, Uri
<1>11. ImportersAgree'
  <2> SUFFICES ASSUME NEW f \in DOMAIN resolved', NEW g \in DOMAIN resolved',
                      NEW call \in DOMAIN resolved'[f] \cap DOMAIN resolved'[g],
                      call.uri \in modules[f[1]].imports \cap modules[g[1]].imports,
                      call.uri \notin {Uri(f), Uri(g)}
               PROVE  resolved'[f][call] = resolved'[g][call]
    BY DEF ImportersAgree, Uri
  <2>1. resolved'[f][call] \in Public(call) /\ resolved'[g][call] \in Public(call)
    BY <1>9
  <2>2. CASE f \in fs
    <3>1. Public(call) = {resolved'[f][call]}
      BY <1>6, <2>2
    <3> QED BY <2>1, <3>1
  <2>3. CASE g \in fs
    <3>1. Public(call) = {resolved'[g][call]}
      BY <1>6, <2>3
    <3> QED BY <2>1, <3>1
  <2>4. CASE f \notin fs /\ g \notin fs
    BY <1>5, <2>4 DEF RegistryInv, ImportersAgree
  <2> QED BY <2>2, <2>3, <2>4
<1> QED BY <1>2, <1>3, <1>7, <1>8, <1>10, <1>11

\* When no text throws, no pending text fails: of those that fail one comes first.
LEMMA NobodyFails ==
  ASSUME TypeOK, Thrower = {}
  PROVE  \A i \in pending : ~ Fails(i)
<1> DEFINE Failing == {i \in pending : Fails(i)}
           Firsts == {FirstText(modules[i].uri) : i \in Failing}
<1> SUFFICES ASSUME Failing # {}
             PROVE  FALSE
  OBVIOUS
<1>1. pending \in SUBSET DOMAIN modules /\ DOMAIN modules \in SUBSET Nat
  BY TextType DEF TypeOK
<1>2. Firsts # {} /\ Firsts \in SUBSET Nat
  BY <1>1, FirstTextIsText
<1>3. PICK t \in Firsts : \A u \in Firsts : t <= u
  <2> HIDE DEF Firsts
  <2> QED BY <1>2, Order!LeastExists
<1> DEFINE Here == {i \in Failing : FirstText(modules[i].uri) = t}
<1>4. Here # {} /\ Here \in SUBSET Nat
  BY <1>1
<1>5. PICK i \in Here : \A j \in Here : i <= j
  <2> HIDE DEF Here
  <2> QED BY <1>4, Order!LeastExists
<1>6. ASSUME NEW j \in Failing, Before(j, i)
      PROVE  FALSE
  <2>1. FirstText(modules[j].uri) \in Nat /\ t \in Nat /\ t <= FirstText(modules[j].uri)
    BY <1>1, <1>2, <1>3
  <2>2. modules[j].uri = modules[i].uri /\ j < i
    BY <1>6, <2>1 DEF Before
  <2>3. j \in Here
    BY <2>2
  <2> QED BY <1>1, <1>5, <2>2, <2>3
<1>7. i \in Thrower
  BY <1>6 DEF Thrower
<1> QED BY <1>7

\* What a compilation that throws does not leave for later is of the namespace that threw, or it
\* came before and did not fail.
LEMMA NotLater ==
  ASSUME TypeOK, NEW i \in Thrower, NEW j \in pending \ Later(i)
  PROVE  modules[j].uri = modules[i].uri \/ (Before(j, i) /\ ~ Fails(j))
<1>1. i \in DOMAIN modules /\ j \in DOMAIN modules
  BY DEF Thrower, TypeOK
<1> DEFINE a == FirstText(modules[i].uri)
           b == FirstText(modules[j].uri)
<1>2. a \in Nat /\ b \in Nat /\ modules[a].uri = modules[i].uri /\ modules[b].uri = modules[j].uri
  BY <1>1, FirstTextIsText
<1>3. ~ (a < b)
  BY DEF Later
<1>4. CASE a = b
  BY <1>2, <1>4
<1>5. CASE b < a
  <2>1. Before(j, i)
    BY <1>5 DEF Before
  <2> QED BY <2>1 DEF Thrower
<1> QED BY <1>2, <1>3, <1>4, <1>5

\* A text that does not fail is analysed completely.
LEMMA AnalysedCompletely ==
  ASSUME NEW i, ~ Fails(i)
  PROVE  Analysable(i) = FunctionsOf(i)
  BY DEF Fails

-----------------------------------------------------------------------------
(* The steps.                                                              *)

\* Registering a text changes no function that is there, and adds to the public ones.
LEMMA RegisterAdds ==
  ASSUME TypeOK, NEW module \in Module, Register(module)
  PROVE  /\ Len(modules) + 1 \notin DOMAIN modules
         /\ DOMAIN modules' = DOMAIN modules \cup {Len(modules) + 1}
         /\ \A i \in DOMAIN modules : modules'[i] = modules[i]
         /\ \A f \in Functions :
              f \in Functions' /\ Definition(f)' = Definition(f) /\ Uri(f)' = Uri(f)
         /\ \A f \in Functions' : f \in Functions \/ f[1] = Len(modules) + 1
         /\ \A call : Public(call) \subseteq Public(call)'
<1>1. /\ modules' = Append(modules, module) /\ modules \in Seq(Module)
      /\ DOMAIN modules = 1 .. Len(modules) /\ Len(modules) \in Nat
  BY DEF TypeOK, Register
<1>2. /\ Len(modules) + 1 \notin DOMAIN modules
      /\ DOMAIN modules' = DOMAIN modules \cup {Len(modules) + 1}
      /\ \A i \in DOMAIN modules : modules'[i] = modules[i]
  BY <1>1
<1>3. ASSUME NEW f \in Functions
      PROVE  f \in Functions' /\ Definition(f)' = Definition(f) /\ Uri(f)' = Uri(f)
  <2>1. PICK i \in DOMAIN modules : f \in FunctionsOf(i)
    BY DEF Functions
  <2>2. f[1] = i /\ modules'[i] = modules[i] /\ i \in DOMAIN modules'
    BY <1>2, <2>1, FunctionIsOfText
  <2>3. f \in FunctionsOf(i)'
    BY <2>1, <2>2 DEF FunctionsOf
  <2> QED BY <2>2, <2>3 DEF Functions, Definition, Uri
<1>4. ASSUME NEW f \in Functions'
      PROVE  f \in Functions \/ f[1] = Len(modules) + 1
  <2>1. PICK i \in DOMAIN modules' : f \in FunctionsOf(i)'
    BY DEF Functions
  <2>2. f[1] = i
    BY <2>1 DEF FunctionsOf
  <2>3. CASE i \in DOMAIN modules
    <3>1. f \in FunctionsOf(i)
      BY <1>2, <2>1, <2>3 DEF FunctionsOf
    <3> QED BY <2>3, <3>1 DEF Functions
  <2> QED BY <1>2, <2>1, <2>2, <2>3
<1>5. \A call : Public(call) \subseteq Public(call)'
  BY <1>3 DEF Public, Declared
<1> QED BY <1>2, <1>3, <1>4, <1>5

\* Registering a text keeps the invariant.
LEMMA RegisterKeeps ==
  ASSUME RegistryInv, NEW module \in Module, Register(module)
  PROVE  RegistryInv'
<1>1. TypeOK /\ AnalysedOnce
  BY DEF RegistryInv, AnalysedOnce
<1>2. /\ Len(modules) + 1 \notin DOMAIN modules
      /\ DOMAIN modules' = DOMAIN modules \cup {Len(modules) + 1}
      /\ \A i \in DOMAIN modules : modules'[i] = modules[i]
      /\ \A f \in Functions :
           f \in Functions' /\ Definition(f)' = Definition(f) /\ Uri(f)' = Uri(f)
      /\ \A f \in Functions' : f \in Functions \/ f[1] = Len(modules) + 1
      /\ \A call : Public(call) \subseteq Public(call)'
  BY <1>1, RegisterAdds
<1>3. UNCHANGED <<analysed, resolved, failures>> /\ pending' = pending \cup {Len(modules) + 1}
  BY DEF Register
<1>4. \A f \in DOMAIN resolved : f \in Functions /\ f[1] \in DOMAIN modules
  BY <1>1, FunctionHasText DEF TypeOK
<1>5. \A f \in DOMAIN resolved : \A call \in DOMAIN resolved[f] : resolved[f][call] \in Functions
  BY <1>1 DEF TypeOK
<1>6. TypeOK'
  <2>1. modules' \in Seq(Module) /\ Len(modules') <= MaxModules
    BY <1>1, MaxModulesIsNat DEF Register, TypeOK
  <2>2. pending' \subseteq DOMAIN modules'
    BY <1>1, <1>2, <1>3 DEF TypeOK
  <2>3. DOMAIN analysed' \subseteq Functions' /\ DOMAIN resolved' = DOMAIN analysed'
    BY <1>1, <1>2, <1>3 DEF TypeOK
  <2>4. ASSUME NEW f \in DOMAIN resolved'
        PROVE  resolved'[f] \in [Definition(f)'.calls -> Functions']
    <3>1. resolved'[f] = resolved[f] /\ Definition(f)' = Definition(f) /\ Functions \subseteq Functions'
      BY <1>2, <1>3, <1>4
    <3>2. resolved[f] \in [Definition(f).calls -> Functions]
      BY <1>1, <1>3 DEF TypeOK
    <3> QED BY <3>1, <3>2
  <2>5. failures' \subseteq {modules'[i].uri : i \in DOMAIN modules'}
    BY <1>1, <1>2, <1>3 DEF TypeOK
  <2> QED BY <2>1, <2>2, <2>3, <2>4, <2>5 DEF TypeOK
<1>7. AnalysedOnce'
  BY <1>1, <1>3, <1>6 DEF AnalysedOnce
<1>8. AnalysedIsDone'
  BY <1>1, <1>2, <1>3, <1>4 DEF RegistryInv, AnalysedIsDone, TypeOK
<1>9. PrivateStaysPrivate'
  BY <1>2, <1>3, <1>4, <1>5 DEF RegistryInv, PrivateStaysPrivate
<1>10. StillDeclared'
  BY <1>2, <1>3, <1>4 DEF RegistryInv, StillDeclared
<1>11. ImportersAgree'
  BY <1>2, <1>3, <1>4 DEF RegistryInv, ImportersAgree
<1>12. NoneForgotten'
  BY <1>2, <1>3 DEF RegistryInv, NoneForgotten
<1>13. EvaluatesWhenDone'
  BY DEF Register, EvaluatesWhenDone
<1> QED BY <1>7, <1>8, <1>9, <1>10, <1>11, <1>12, <1>13 DEF RegistryInv

\* A compilation that succeeds analyses all functions of all pending texts.
LEMMA CompileSucceedsAnalyses ==
  ASSUME TypeOK, NEW ended, CompileSucceeds(ended)
  PROVE  \A f \in UNION {FunctionsOf(i) : i \in pending} :
           f[1] \in pending /\ f \in Functions /\ CanImportAll(f[1]) /\ Resolvable(f)
<1> SUFFICES ASSUME NEW i \in pending, NEW f \in FunctionsOf(i)
             PROVE  f[1] \in pending /\ f \in Functions /\ CanImportAll(f[1]) /\ Resolvable(f)
  OBVIOUS
<1>1. i \in DOMAIN modules
  BY DEF TypeOK
<1>2. ~ Fails(i)
  BY NobodyFails DEF CompileSucceeds
<1>3. f \in Analysable(i)
  BY <1>2, AnalysedCompletely
<1> QED BY <1>1, <1>3, AnalysableIs

\* It keeps the invariant, when what it ends with calls functions that there are.
LEMMA CompileSucceedsKeeps ==
  ASSUME RegistryInv, NEW ended, CompileSucceeds(ended),
         ended.op = "query" /\ ended.ended = "evaluated" => Targets(ended.query) \subseteq Functions
  PROVE  RegistryInv'
<1> DEFINE fs == UNION {FunctionsOf(i) : i \in pending}
<1>1. TypeOK
  BY DEF RegistryInv, AnalysedOnce
<1>2. UNCHANGED <<modules, failures>> /\ Analyse(fs) /\ pending' = {} /\ outcome' = ended
  BY DEF CompileSucceeds
<1>3. \A f \in fs : f[1] \in pending /\ f \in Functions /\ CanImportAll(f[1]) /\ Resolvable(f)
  BY <1>1, CompileSucceedsAnalyses
<1>4. \A f \in Functions : f[1] \in pending => f \in fs
  BY FunctionHasText
<1> HIDE DEF fs
<1>5. /\ DOMAIN analysed' = DOMAIN analysed \cup fs /\ DOMAIN resolved' = DOMAIN analysed'
      /\ \A f \in DOMAIN analysed' : analysed'[f] = 1
      /\ \A f \in DOMAIN resolved' : resolved'[f] \in [Definition(f).calls -> Functions]
      /\ PrivateStaysPrivate' /\ StillDeclared' /\ ImportersAgree'
  BY <1>2, <1>3, AnalyseKeeps
<1>6. Functions' = Functions /\ (\A f : Definition(f)' = Definition(f) /\ Uri(f)' = Uri(f))
  BY <1>2 DEF Functions, FunctionsOf, Definition, Uri
<1>7. TypeOK'
  BY <1>1, <1>2, <1>3, <1>5, <1>6 DEF TypeOK
<1>8. AnalysedOnce' /\ AnalysedIsDone'
  BY <1>2, <1>5, <1>7 DEF AnalysedOnce, AnalysedIsDone
<1>9. NoneForgotten'
  BY <1>2, <1>4, <1>5, <1>6 DEF RegistryInv, NoneForgotten
<1>10. EvaluatesWhenDone'
  <2>1. Targets(ended.query)' = Targets(ended.query)
    BY <1>2 DEF Targets, Target, Public, Declared, Functions, FunctionsOf, Definition, Uri
  <2> QED BY <1>2, <1>6, <2>1 DEF EvaluatesWhenDone
<1> QED BY <1>5, <1>8, <1>9, <1>10 DEF RegistryInv

\* A compilation that throws analyses what it got to, and keeps the invariant.
LEMMA CompileThrowsKeeps ==
  ASSUME RegistryInv, NEW ended, CompileThrows(ended), ended.ended = "threw"
  PROVE  RegistryInv'
<1>1. TypeOK
  BY DEF RegistryInv, AnalysedOnce
<1>2. PICK i \in Thrower :
        /\ Analyse(UNION {Analysable(j) : j \in {h \in pending : h = i \/ Before(h, i)}})
        /\ pending' = Later(i) /\ outcome' = ended
        /\ failures' = failures \cup {modules[i].uri} /\ UNCHANGED modules
  BY DEF CompileThrows
<1> DEFINE fs == UNION {Analysable(j) : j \in {h \in pending : h = i \/ Before(h, i)}}
<1>3. \A f \in fs : f[1] \in pending /\ f \in Functions /\ CanImportAll(f[1]) /\ Resolvable(f)
  BY <1>1, AnalysableIs DEF TypeOK
<1>4. \A f \in fs : f[1] \notin pending'
  <2> SUFFICES ASSUME NEW j \in pending, j = i \/ Before(j, i), NEW f \in Analysable(j)
               PROVE  f[1] \notin Later(i)
    BY <1>2
  <2>1. f[1] = j
    BY <1>1, AnalysableIs DEF TypeOK
  <2>2. FirstText(modules[i].uri) \in Nat /\ FirstText(modules[j].uri) \in Nat
    BY <1>1, FirstTextIsText DEF Thrower, TypeOK
  <2>3. ~ (FirstText(modules[i].uri) < FirstText(modules[j].uri))
    BY <2>2 DEF Before
  <2> QED BY <2>1, <2>3 DEF Later
<1>5. \A f \in Functions : f[1] \in pending => f \in fs \/ f[1] \in pending' \/ Uri(f) \in failures'
  <2> SUFFICES ASSUME NEW f \in Functions, f[1] \in pending \ Later(i), Uri(f) # modules[i].uri
               PROVE  f \in fs
    BY <1>2
  <2>1. Before(f[1], i) /\ ~ Fails(f[1])
    BY <1>1, NotLater DEF Uri
  <2>2. f \in Analysable(f[1])
    BY <2>1, FunctionHasText, AnalysedCompletely
  <2> QED BY <2>1, <2>2
<1>6. Analyse(fs) /\ UNCHANGED modules
  BY <1>2
<1> HIDE DEF fs
<1>7. /\ DOMAIN analysed' = DOMAIN analysed \cup fs /\ DOMAIN resolved' = DOMAIN analysed'
      /\ \A f \in DOMAIN analysed' : analysed'[f] = 1
      /\ \A f \in DOMAIN resolved' : resolved'[f] \in [Definition(f).calls -> Functions]
      /\ PrivateStaysPrivate' /\ StillDeclared' /\ ImportersAgree'
  BY <1>3, <1>6, AnalyseKeeps
<1>8. Functions' = Functions /\ (\A f : Definition(f)' = Definition(f) /\ Uri(f)' = Uri(f))
  BY <1>6 DEF Functions, FunctionsOf, Definition, Uri
<1>9. pending' \subseteq pending /\ i \in pending
  BY <1>2 DEF Later, Thrower
<1>10. TypeOK'
  BY <1>1, <1>2, <1>3, <1>7, <1>8, <1>9 DEF TypeOK
<1>11. AnalysedOnce' /\ AnalysedIsDone'
  BY <1>4, <1>7, <1>9, <1>10 DEF RegistryInv, AnalysedOnce, AnalysedIsDone
<1>12. NoneForgotten'
  BY <1>2, <1>5, <1>7, <1>8 DEF RegistryInv, NoneForgotten
<1>13. EvaluatesWhenDone'
  BY <1>2 DEF EvaluatesWhenDone
<1> QED BY <1>7, <1>11, <1>12, <1>13 DEF RegistryInv

\* A query whose imports and calls are correct calls functions that there are.
LEMMA CorrectCallsFunctions ==
  ASSUME NEW query, StaticallyCorrect(query)
  PROVE  Targets(query) \subseteq Functions
<1> SUFFICES ASSUME NEW call \in query.calls
             PROVE  Target(query, call) \in Functions
  BY DEF Targets
<1>1. Target(query, call) # Unresolved
  BY DEF StaticallyCorrect, Targets
<1>2. /\ call.uri \in query.imports /\ Public(call) # {}
      /\ Target(query, call) = RegisterFunctionDefinitions(Public(call))
  BY <1>1 DEF Target
<1>3. Target(query, call) \in Public(call)
  BY <1>2, ImportFindsOne DEF StaticallyCorrect
<1> QED BY <1>3 DEF Public, Declared

\* A call that leaves the registry as it is keeps what is known of the registry.
LEMMA LeavesRegistry ==
  ASSUME RegistryInv, UNCHANGED <<modules, pending, analysed, resolved, failures>>
  PROVE  /\ \A call : Public(call)' = Public(call)
         /\ EvaluatesWhenDone' => RegistryInv'
<1>1. /\ Functions' = Functions
      /\ \A f : Definition(f)' = Definition(f) /\ Uri(f)' = Uri(f)
      /\ \A call : Public(call)' = Public(call)
  BY DEF Public, Declared, Functions, FunctionsOf, Definition, Uri
<1> QED BY <1>1 DEF RegistryInv, TypeOK, AnalysedOnce, AnalysedIsDone,
      PrivateStaysPrivate, StillDeclared, ImportersAgree, NoneForgotten

-----------------------------------------------------------------------------
(* The theorems.                                                           *)

\* The inductive invariant holds: at the start, when a text is registered, when modules are
\* compiled and when a query evaluates.
THEOREM RegistryInvariant == Spec => []RegistryInv
<1>1. Init => RegistryInv
  BY MaxModulesIsNat DEF Init, RegistryInv, TypeOK, Functions, AnalysedOnce, AnalysedIsDone,
     PrivateStaysPrivate, StillDeclared, ImportersAgree, NoneForgotten, EvaluatesWhenDone
<1>2. ASSUME RegistryInv, [Next]_vars
      PROVE  RegistryInv'
  <2>1. CASE \E module \in Module : Register(module)
    BY <1>2, <2>1, RegisterKeeps
  <2>2. CASE Finalize
    <3>1. CASE CompileSucceeds([op |-> "finalize", ended |-> "compiled"])
      BY <1>2, <3>1, CompileSucceedsKeeps
    <3>2. CASE CompileThrows([op |-> "finalize", ended |-> "threw"])
      BY <1>2, <3>2, CompileThrowsKeeps
    <3> QED BY <2>2, <3>1, <3>2 DEF Finalize
  <2>3. ASSUME NEW query \in Query, Evaluate(query)
        PROVE  RegistryInv'
    <3> DEFINE ended(how) == [op |-> "query", query |-> query, ended |-> how]
               correctly == IF StaticallyCorrect(query) THEN "evaluated" ELSE "static error"
    <3>1. CASE query.imports = {}
      <4>1. /\ outcome' = ended(IF query.calls = {} THEN "evaluated" ELSE "static error")
            /\ UNCHANGED <<modules, pending, analysed, resolved, failures>>
        BY <2>3, <3>1 DEF Evaluate
      <4>2. EvaluatesWhenDone'
        BY <4>1 DEF EvaluatesWhenDone, Targets
      <4> QED BY <1>2, <4>1, <4>2, LeavesRegistry
    <3>2. CASE CompileThrows(ended("threw"))
      BY <1>2, <3>2, CompileThrowsKeeps
    <3>3. CASE CompileSucceeds(ended(correctly))
      <4>1. ended(correctly).ended = "evaluated" => Targets(ended(correctly).query) \subseteq Functions
        BY CorrectCallsFunctions
      <4> HIDE DEF ended
      <4> QED BY <1>2, <3>3, <4>1, CompileSucceedsKeeps
    <3> QED BY <2>3, <3>1, <3>2, <3>3 DEF Evaluate
  <2>4. CASE UNCHANGED vars
    <3>1. UNCHANGED <<modules, pending, analysed, resolved, outcome, failures>>
      BY <2>4 DEF vars
    <3>2. Functions' = Functions /\ \A call : Public(call)' = Public(call)
      BY <1>2, <3>1, LeavesRegistry DEF Functions, FunctionsOf
    <3>3. EvaluatesWhenDone'
      BY <1>2, <3>1, <3>2 DEF RegistryInv, EvaluatesWhenDone, Targets, Target
    <3> QED BY <1>2, <3>1, <3>3, LeavesRegistry
  <2> QED BY <1>2, <2>1, <2>2, <2>3, <2>4 DEF Next
<1> QED BY <1>1, <1>2, PTL DEF Spec

\* No function is analysed twice, in whatever order texts are registered and compiled.
THEOREM NoSecondAnalysis == Spec => []AnalysedOnce
<1>1. RegistryInv => AnalysedOnce
  BY DEF RegistryInv
<1> QED BY <1>1, RegistryInvariant, PTL

\* Modules that import a namespace agree on its functions, whenever they were analysed.
THEOREM Agreement == Spec => []ImportersAgree
<1>1. RegistryInv => ImportersAgree
  BY DEF RegistryInv
<1> QED BY <1>1, RegistryInvariant, PTL

\* A private function is called from its own text only.
THEOREM Privacy == Spec => []PrivateStaysPrivate
<1>1. RegistryInv => PrivateStaysPrivate
  BY DEF RegistryInv
<1> QED BY <1>1, RegistryInvariant, PTL

\* A query that evaluates gets to functions only that are analysed, or whose namespace has thrown:
\* when it calls any, nothing is pending, and all functions there are make a closed set.
THEOREM OnlyAnalysed == Spec => []EvaluatesAnalysed
<1>1. ASSUME RegistryInv
      PROVE  EvaluatesAnalysed
  <2> SUFFICES ASSUME outcome.op = "query", outcome.ended = "evaluated"
               PROVE  \E S \in SUBSET {f \in Functions : f \in DOMAIN analysed \/ Uri(f) \in failures} :
                        Targets(outcome.query) \cup Called(S) \subseteq S
    BY DEF EvaluatesAnalysed
  <2>1. Targets(outcome.query) \subseteq Functions /\ (pending = {} \/ Targets(outcome.query) = {})
    BY <1>1 DEF RegistryInv, EvaluatesWhenDone
  <2>2. CASE Targets(outcome.query) = {}
    <3>1. Called({}) = {}
      BY DEF Called
    <3> QED BY <2>2, <3>1
  <2>3. CASE pending = {}
    <3>1. \A f \in Functions : f \in DOMAIN analysed \/ Uri(f) \in failures
      BY <1>1, <2>3 DEF RegistryInv, NoneForgotten
    <3>2. Called(Functions) \subseteq Functions
      BY <1>1 DEF Called, RegistryInv, AnalysedOnce, TypeOK
    <3> QED BY <2>1, <3>1, <3>2
  <2> QED BY <2>1, <2>2, <2>3
<1> QED BY <1>1, RegistryInvariant, PTL

\* A compilation that throws gives up on one namespace only: what it does not leave for later is of
\* the namespace that threw, or came before it and was analysed.
THEOREM OneNamespaceLost == Spec => GivesUpOneNamespace
<1>1. ASSUME RegistryInv, [Next]_vars
      PROVE  [\A i, j \in GivenUp : modules[i].uri = modules[j].uri]_vars
  <2>1. TypeOK
    BY <1>1 DEF RegistryInv, AnalysedOnce
  <2>2. ASSUME NEW fs, Analyse(fs)
        PROVE  fs \subseteq DOMAIN analysed'
    BY <2>2 DEF Analyse
  <2>3. ASSUME NEW ended, CompileSucceeds(ended)
        PROVE  GivenUp = {}
    <3>1. \A i \in pending : FunctionsOf(i) \subseteq DOMAIN analysed'
      BY <2>2, <2>3 DEF CompileSucceeds
    <3> QED BY <3>1 DEF GivenUp
  <2>4. ASSUME NEW ended, CompileThrows(ended)
        PROVE  \E i \in Thrower : \A j \in GivenUp : modules[j].uri = modules[i].uri
    <3>1. PICK i \in Thrower :
            /\ Analyse(UNION {Analysable(j) : j \in {h \in pending : h = i \/ Before(h, i)}})
            /\ pending' = Later(i)
      BY <2>4 DEF CompileThrows
    <3>2. ASSUME NEW j \in GivenUp
          PROVE  modules[j].uri = modules[i].uri
      <4>1. j \in pending \ Later(i)
        BY <3>1 DEF GivenUp
      <4>2. CASE Before(j, i) /\ ~ Fails(j)
        <5>1. FunctionsOf(j) \subseteq DOMAIN analysed'
          BY <2>2, <3>1, <4>1, <4>2, AnalysedCompletely
        <5> QED BY <5>1 DEF GivenUp
      <4> QED BY <2>1, <4>1, <4>2, NotLater
    <3> QED BY <3>2
  <2>5. ASSUME NEW module \in Module, Register(module)
        PROVE  GivenUp = {}
    BY <2>5 DEF Register, GivenUp
  <2>6. (UNCHANGED pending) => GivenUp = {}
    BY DEF GivenUp
  <2>7. CASE Finalize
    BY <2>3, <2>4, <2>7 DEF Finalize
  <2>8. ASSUME NEW query \in Query, Evaluate(query)
        PROVE  \A i, j \in GivenUp : modules[i].uri = modules[j].uri
    BY <2>3, <2>4, <2>6, <2>8 DEF Evaluate
  <2> QED BY <1>1, <2>5, <2>7, <2>8 DEF Next
<1> QED BY <1>1, RegistryInvariant, PTL DEF Spec, GivesUpOneNamespace
=============================================================================
