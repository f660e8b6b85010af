--------------------------------- MODULE Flwor ---------------------------------
(***************************************************************************)
(* A FLWOR expression as it is read: a chain of clauses, each an iterator  *)
(* of dynamic contexts that asks the one before it.  One step is what one  *)
(* clause does when it is asked for a context, given one, or told that     *)
(* there are no more.                                                      *)
(*                                                                         *)
(* An item is a kind and a number: numbers and NaN, strings that           *)
(* JavaScript reads as a number ("numeral", the empty string too) and      *)
(* those it does not ("word"), and dates, each by its place in the order   *)
(* of its type.                                                            *)
(***************************************************************************)
EXTENDS Integers, Sequences, FiniteSets, SequencesExt

CONSTANTS
  Queries,   \* the expressions: [clauses, return]
  Focus      \* variables bound around the expression |-> their items

VARIABLES
  query,     \* the expression that is evaluated
  clauses,   \* what the iterator of each clause keeps
  turn,      \* whose turn it is: the frame on top of the JavaScript stack
  remaining, \* items of the return expression that were not read yet
  answer     \* items returned so far
vars == <<query, clauses, turn, remaining, answer>>

Item(kind, n) == [kind |-> kind, n |-> n]
AtReturn == turn.clause = Len(query.clauses) + 1
ClauseIs(k, type) == k \in DOMAIN query.clauses /\ query.clauses[k].type = type

(***************************************************************************)
(* Bindings.  A binding is a function that returns a sequence: of items    *)
(* that are known, or of the position that a for clause is at when it is   *)
(* called.                                                                 *)
(***************************************************************************)
Bound(items) == [items |-> items]
PositionOf(k) == [place |-> k]
scopeWithVariableBindings(context, name, binding) ==
  (name :> binding) @@ context

\* A part of an expression is a literal, or a reference to a variable of whose
\* items those of some kinds are taken.  All parts are evaluated at once.
IsVarRef(part) == "var" \in DOMAIN part
VarRef(context, name) ==
  IF "place" \in DOMAIN context[name] THEN <<Item("number", clauses[context[name].place].position)>>
  ELSE context[name].items
Taken(part, items) == SelectSeq(items, LAMBDA x : x.kind \in part.kinds)
evaluate(context, parts) ==
  FlattenSeq([i \in DOMAIN parts |->
                IF IsVarRef(parts[i]) THEN Taken(parts[i], VarRef(context, parts[i].var)) ELSE <<parts[i].item>>])

(***************************************************************************)
(* Quantified expressions.  An in-clause is evaluated where only the       *)
(* variable of the clause before it is bound, to all of its items.         *)
(***************************************************************************)
NamesIn(parts) == {parts[i].var : i \in {j \in DOMAIN parts : IsVarRef(parts[j])}}
InClauses(test, context) ==
  LET In[i \in DOMAIN test.in] ==
        evaluate(IF i = 1 THEN context
                 ELSE scopeWithVariableBindings(context, test.in[i - 1].var, Bound(In[i - 1])),
                 test.in[i].source)
  IN In
Selections(evaluated) ==
  {choice \in [DOMAIN evaluated -> UNION {DOMAIN evaluated[i] : i \in DOMAIN evaluated}] :
     \A i \in DOMAIN evaluated : choice[i] \in DOMAIN evaluated[i]}
BindAll(test, items, context) ==
  [v \in DOMAIN context \cup {test.in[i].var : i \in DOMAIN test.in} |->
     IF \E i \in DOMAIN test.in : test.in[i].var = v
     THEN Bound(<<items[CHOOSE i \in DOMAIN test.in : test.in[i].var = v]>>) ELSE context[v]]
satisfies(test, context) ==
  evaluate(context, <<test.left>>) = evaluate(context, <<test.right>>)
QuantifiedExpression(test, context) ==
  LET evaluated == InClauses(test, context)
      Satisfied(choice) == satisfies(test, BindAll(test, [i \in DOMAIN evaluated |-> evaluated[i][choice[i]]], context))
  IN IF test.quantifier = "some" THEN \E choice \in Selections(evaluated) : Satisfied(choice)
     ELSE \A choice \in Selections(evaluated) : Satisfied(choice)

(***************************************************************************)
(* The order by clause: one key for each context, which are sorted by      *)
(* exchanging neighbours.                                                  *)
(***************************************************************************)
Empty == [kind |-> "empty", n |-> 0]
isNaN(v) == v.kind \notin {"number", "numeral"}
getPrimitiveTypeName(v) ==
  CASE v.kind \in {"number", "NaN"} -> "xs:double" [] v.kind \in {"numeral", "word"} -> "xs:string" [] OTHER -> v.kind
greaterThan(w, v) == w.kind # "NaN" /\ v.kind # "NaN" /\ w.n > v.n

KeysOf(spec, contexts) == [i \in DOMAIN contexts |-> evaluate(contexts[i], spec.key)]
FirstOf(keys) == FlattenSeq([i \in DOMAIN keys |-> IF keys[i] = <<>> THEN <<Empty>> ELSE <<keys[i][1]>>])

\* Types are compared to that of the first key, also when that is empty; only
\* strings and numbers are converted.
TypesOf(values) == {getPrimitiveTypeName(v) : v \in Range(values) \ {Empty}}
HaveCommonType(values) ==
  LET types == TypesOf(values)
  IN types = {} \/ types = {"xs:string"} \/ types = {"xs:double"} \/ types = {getPrimitiveTypeName(values[1])}

ExchangeLeast(w, v) ==
  /\ w # Empty
  /\ v = Empty \/ (isNaN(v) /\ ~isNaN(w)) \/ greaterThan(w, v)
ExchangeGreatest(w, v) ==
  /\ v # Empty
  /\ w = Empty \/ (isNaN(w) /\ ~isNaN(v)) \/ greaterThan(w, v)
Exchange(spec, w, v) == IF spec.isEmptyLeast THEN ExchangeLeast(w, v) ELSE ExchangeGreatest(w, v)

\* Every start is followed by the places before it, also past one that was right.
Visits(n) ==
  FlattenSeq([start \in 1 .. n |-> IF start = n THEN <<>> ELSE [i \in 1 .. start |-> start + 1 - i]])
SortedIndices(spec, values) ==
  LET visits == Visits(Len(values))
      Visited[n \in 0 .. Len(visits)] ==
        IF n = 0 THEN [i \in 1 .. Len(values) |-> i]
        ELSE LET indices == Visited[n - 1]
                 i == visits[n]
             IN IF Exchange(spec, values[indices[i]], values[indices[i + 1]])
                THEN SubSeq(indices, 1, i - 1) \o <<indices[i + 1], indices[i]>> \o SubSeq(indices, i + 2, Len(values))
                ELSE indices
  IN Visited[Len(visits)]
InDirection(spec, indices) == IF spec.isAscending THEN indices ELSE Reverse(indices)

(***************************************************************************)
(* The actions.                                                            *)
(***************************************************************************)
Ask(k) == [act |-> "ask", clause |-> k]
Give(k, context) == [act |-> "give", clause |-> k, context |-> context]
End(k) == [act |-> "end", clause |-> k]
Waiting == [act |-> "waiting", clause |-> 0]
Done == [act |-> "done", clause |-> 0]
Raised(code) == [act |-> "raised", clause |-> 0, code |-> code]
IsAsked(k, type) == turn = Ask(k) /\ ClauseIs(k, type)
IsGiven(k, type) == turn.act = "give" /\ turn.clause = k /\ ClauseIs(k, type)
IsEnded(k, type) == turn = End(k) /\ ClauseIs(k, type)

Fresh(clause) ==
  CASE clause.type = "for" -> [open |-> FALSE, context |-> <<>>, items |-> <<>>, position |-> 0]
    [] clause.type = "order by" -> [hasValues |-> FALSE, contexts |-> <<>>, rest |-> <<>>]
    [] OTHER -> <<>>

Init ==
  /\ query \in Queries
  /\ clauses = [k \in DOMAIN query.clauses |-> Fresh(query.clauses[k])] @@ (0 :> [hasPassed |-> FALSE])
  /\ turn = Waiting /\ remaining = <<>> /\ answer = <<>>

\* The caller asks for one item; it may stop asking.
PullItem ==
  /\ turn = Waiting
  /\ turn' = Ask(Len(query.clauses) + 1)
  /\ UNCHANGED <<query, clauses, remaining, answer>>

(* The return expression: its items, then those for the next context. *)
ReturnItem ==
  /\ AtReturn /\ turn.act = "ask" /\ remaining # <<>>
  /\ answer' = Append(answer, Head(remaining)) /\ remaining' = Tail(remaining)
  /\ turn' = Waiting
  /\ UNCHANGED <<query, clauses>>

ReturnAsks ==
  /\ AtReturn /\ turn.act = "ask" /\ remaining = <<>>
  /\ turn' = Ask(turn.clause - 1)
  /\ UNCHANGED <<query, clauses, remaining, answer>>

ReturnEvaluates ==
  /\ AtReturn /\ turn.act = "give"
  /\ remaining' = evaluate(turn.context, query.return)
  /\ turn' = Ask(turn.clause)
  /\ UNCHANGED <<query, clauses, answer>>

ReturnEnds ==
  /\ AtReturn /\ turn.act = "end"
  /\ turn' = Done
  /\ UNCHANGED <<query, clauses, remaining, answer>>

(* Before the first clause is the context of the expression, once. *)
SingleContext ==
  /\ turn = Ask(0)
  /\ turn' = IF clauses[0].hasPassed THEN End(1) ELSE Give(1, [v \in DOMAIN Focus |-> Bound(Focus[v])])
  /\ clauses' = [clauses EXCEPT ![0].hasPassed = TRUE]
  /\ UNCHANGED <<query, remaining, answer>>

(* for *)
ForBinding(k) ==
  LET c == query.clauses[k]
      context == scopeWithVariableBindings(clauses[k].context, c.var, Bound(<<Head(clauses[k].items)>>))
  IN IF c.positional = "" THEN context ELSE scopeWithVariableBindings(context, c.positional, PositionOf(k))
ForBinds(k) ==
  /\ IsAsked(k, "for") /\ clauses[k].open /\ clauses[k].items # <<>>
  /\ clauses' = [clauses EXCEPT ![k].items = Tail(@), ![k].position = @ + 1]
  /\ turn' = Give(k + 1, ForBinding(k))
  /\ UNCHANGED <<query, remaining, answer>>

ForAsks(k) ==
  /\ IsAsked(k, "for") /\ ~(clauses[k].open /\ clauses[k].items # <<>>)
  /\ clauses' = [clauses EXCEPT ![k].open = FALSE]
  /\ turn' = Ask(k - 1)
  /\ UNCHANGED <<query, remaining, answer>>

\* Mutant: positions count on from those of the context before.
ForOpensCounting(k) ==
  /\ IsGiven(k, "for")
  /\ clauses' = [clauses EXCEPT ![k] =
       [open |-> TRUE, context |-> turn.context, position |-> clauses[k].position,
        items |-> evaluate(turn.context, query.clauses[k].source)]]
  /\ turn' = Ask(k)
  /\ UNCHANGED <<query, remaining, answer>>
ForOpens(k) ==
  /\ IsGiven(k, "for")
  /\ clauses' = [clauses EXCEPT ![k] =
       [open |-> TRUE, context |-> turn.context, position |-> 0,
        items |-> evaluate(turn.context, query.clauses[k].source)]]
  /\ turn' = Ask(k)
  /\ UNCHANGED <<query, remaining, answer>>

(* let and where *)
AsksForContext(k) ==
  /\ IsAsked(k, "let") \/ IsAsked(k, "where")
  /\ turn' = Ask(k - 1)
  /\ UNCHANGED <<query, clauses, remaining, answer>>

LetBinds(k) ==
  /\ IsGiven(k, "let")
  /\ turn' = Give(k + 1, scopeWithVariableBindings(turn.context, query.clauses[k].var,
                                                   Bound(evaluate(turn.context, query.clauses[k].source))))
  /\ UNCHANGED <<query, clauses, remaining, answer>>

WhereTests(k) ==
  /\ IsGiven(k, "where")
  /\ turn' = IF QuantifiedExpression(query.clauses[k].test, turn.context)
             THEN Give(k + 1, turn.context)
             ELSE Ask(k - 1)
  /\ UNCHANGED <<query, clauses, remaining, answer>>

EndsAfterLast(k) ==
  /\ IsEnded(k, "for") \/ IsEnded(k, "let") \/ IsEnded(k, "where")
  /\ turn' = End(k + 1)
  /\ UNCHANGED <<query, clauses, remaining, answer>>

(* order by: all contexts first *)
OrderByAsks(k) ==
  /\ IsAsked(k, "order by") /\ ~clauses[k].hasValues
  /\ turn' = Ask(k - 1)
  /\ UNCHANGED <<query, clauses, remaining, answer>>

OrderByCollects(k) ==
  /\ IsGiven(k, "order by")
  /\ clauses' = [clauses EXCEPT ![k].contexts = Append(@, turn.context)]
  /\ turn' = Ask(k)
  /\ UNCHANGED <<query, remaining, answer>>

OrderBySorts(k) ==
  /\ IsEnded(k, "order by")
  /\ LET spec == query.clauses[k]
         keys == KeysOf(spec, clauses[k].contexts)
         values == FirstOf(keys)
     IN IF (\E i \in DOMAIN keys : Len(keys[i]) > 1) \/ ~HaveCommonType(values)
        THEN turn' = Raised("XPTY0004") /\ UNCHANGED clauses
        ELSE /\ clauses' = [clauses EXCEPT ![k].hasValues = TRUE,
                                           ![k].rest = InDirection(spec, SortedIndices(spec, values))]
             /\ turn' = Ask(k)
  /\ UNCHANGED <<query, remaining, answer>>

OrderByGives(k) ==
  /\ IsAsked(k, "order by") /\ clauses[k].hasValues
  /\ IF clauses[k].rest = <<>> THEN turn' = End(k + 1) /\ UNCHANGED clauses
     ELSE /\ turn' = Give(k + 1, clauses[k].contexts[Head(clauses[k].rest)])
          /\ clauses' = [clauses EXCEPT ![k].rest = Tail(@)]
  /\ UNCHANGED <<query, remaining, answer>>

(***************************************************************************)
(* What runs on the stack until an item is returned.                       *)
(***************************************************************************)
Return == ReturnItem \/ ReturnAsks \/ ReturnEvaluates \/ ReturnEnds
For(k) == ForBinds(k) \/ ForAsks(k) \/ ForOpens(k)
LetOrWhere(k) == AsksForContext(k) \/ LetBinds(k) \/ WhereTests(k) \/ EndsAfterLast(k)
OrderBy(k) == OrderByAsks(k) \/ OrderByCollects(k) \/ OrderBySorts(k) \/ OrderByGives(k)
Step == Return \/ SingleContext \/ \E k \in DOMAIN query.clauses : For(k) \/ LetOrWhere(k) \/ OrderBy(k)

Next == PullItem \/ Step
Spec == Init /\ [][Next]_vars

(***************************************************************************)
(* The reference: the contexts after each clause, clause by clause, with   *)
(* positions as they are when they are bound.                              *)
(***************************************************************************)
InLoop(clause, context) ==
  LET items == evaluate(context, clause.source)
      Named(i) == scopeWithVariableBindings(context, clause.var, Bound(<<items[i]>>))
  IN [i \in DOMAIN items |->
        IF clause.positional = "" THEN Named(i)
        ELSE scopeWithVariableBindings(Named(i), clause.positional, Bound(<<Item("number", i)>>))]

\* A quantified expression takes one item for each variable in turn.
RECURSIVE Quantified(_, _, _)
Quantified(test, i, context) ==
  IF i > Len(test.in) THEN satisfies(test, context)
  ELSE LET items == evaluate(context, test.in[i].source)
           For1(item) == Quantified(test, i + 1, scopeWithVariableBindings(context, test.in[i].var, Bound(<<item>>)))
       IN IF test.quantifier = "some" THEN \E item \in Range(items) : For1(item)
          ELSE \A item \in Range(items) : For1(item)

\* The order that the comment in OrderByExpression states.
StatedGreater(spec, w, v) ==
  IF spec.isEmptyLeast
  THEN (v = Empty /\ w # Empty) \/ (v.kind = "NaN" /\ w.kind # "NaN" /\ w # Empty)
       \/ (w # Empty /\ v # Empty /\ greaterThan(w, v))
  ELSE (w = Empty /\ v # Empty) \/ (w.kind = "NaN" /\ v.kind # "NaN" /\ v # Empty)
       \/ (w # Empty /\ v # Empty /\ greaterThan(w, v))
StatedIndices(spec, values) ==
  LET Before(i, j) == StatedGreater(spec, values[j], values[i])
                      \/ (~StatedGreater(spec, values[i], values[j]) /\ i < j)
      Place(i) == Cardinality({j \in DOMAIN values : Before(j, i)}) + 1
  IN InDirection(spec, FlattenSeq([p \in 1 .. Len(values) |-> <<CHOOSE i \in DOMAIN values : Place(i) = p>>]))
CanBeOrdered(keys) ==
  (\A i \in DOMAIN keys : Len(keys[i]) <= 1) /\ Cardinality(TypesOf(FirstOf(keys))) <= 1

Wrong == [contexts |-> <<>>, raises |-> TRUE]
Right(contexts) == [contexts |-> contexts, raises |-> FALSE]
After(clause, contexts) ==
  CASE clause.type = "for"   -> Right(FlattenSeq([i \in DOMAIN contexts |-> InLoop(clause, contexts[i])]))
    [] clause.type = "let"   ->
         Right([i \in DOMAIN contexts |->
                  scopeWithVariableBindings(contexts[i], clause.var, Bound(evaluate(contexts[i], clause.source)))])
    [] clause.type = "where" -> Right(SelectSeq(contexts, LAMBDA c : Quantified(clause.test, 1, c)))
    [] OTHER ->
         LET keys == KeysOf(clause, contexts)
         IN IF CanBeOrdered(keys)
            THEN LET order == StatedIndices(clause, FirstOf(keys))
                 IN Right([i \in DOMAIN order |-> contexts[order[i]]])
            ELSE Wrong
Tuples(q) ==
  LET Through[n \in 0 .. Len(q.clauses)] ==
        IF n = 0 THEN Right(<<[v \in DOMAIN Focus |-> Bound(Focus[v])]>>)
        ELSE LET before == Through[n - 1]
             IN IF before.raises THEN before ELSE After(q.clauses[n], before.contexts)
  IN Through[Len(q.clauses)]
ResultOf(q, tuples) == FlattenSeq([i \in DOMAIN tuples |-> evaluate(tuples[i], q.return)])

(***************************************************************************)
(* Properties.                                                             *)
(***************************************************************************)
\* The expressions of which the code is known to lose the thread: one that reads
\* a position after an order by asked for all contexts, an in-clause that reads
\* the variable of an earlier one, keys of which JavaScript takes some strings
\* for numbers, and dates after an empty key.
ReadBy(clause) ==
  CASE clause.type \in {"for", "let"} -> NamesIn(clause.source)
    [] clause.type = "where" ->
         UNION {NamesIn(clause.test.in[i].source) : i \in DOMAIN clause.test.in}
           \cup NamesIn(<<clause.test.left, clause.test.right>>)
    [] OTHER -> NamesIn(clause.key)
PositionsBefore(q, k) == {q.clauses[j].positional : j \in {i \in 1 .. k - 1 : q.clauses[i].type = "for"}} \ {""}
ReadsPositionLate(q) ==
  \E k \in DOMAIN q.clauses : q.clauses[k].type = "order by" /\
    \/ \E j \in k .. Len(q.clauses) : ReadBy(q.clauses[j]) \cap PositionsBefore(q, k) # {}
    \/ NamesIn(q.return) \cap PositionsBefore(q, k) # {}
ReadsEarlierInClause(q) ==
  \E k \in DOMAIN q.clauses : q.clauses[k].type = "where" /\
    \E i, j \in DOMAIN q.clauses[k].test.in :
      i < j /\ q.clauses[k].test.in[i].var \in NamesIn(q.clauses[k].test.in[j].source)
KeysSeen == {FirstOf(KeysOf(query.clauses[k], clauses[k].contexts)) :
               k \in {j \in DOMAIN query.clauses : query.clauses[j].type = "order by"}}
MixesNumerals(values) == {"numeral", "word"} \subseteq {v.kind : v \in Range(values)}
EmptyBeforeDates(values) == values # <<>> /\ values[1] = Empty /\ "date" \in TypesOf(values)
Known == ReadsPositionLate(query) \/ ReadsEarlierInClause(query)
         \/ \E values \in KeysSeen : MixesNumerals(values) \/ EmptyBeforeDates(values)

\* However the clauses interleave, what the caller was given is the beginning of
\* what the nested loops return, all of it at the end; an error is raised where
\* the keys of an order by cannot be ordered, and nowhere else.
TuplesOfTheLoops ==
  turn.act \in {"waiting", "done", "raised"} /\ ~Known =>
    LET tuples == Tuples(query)
        result == ResultOf(query, tuples.contexts)
    IN /\ turn = Done => ~tuples.raises /\ answer = result
       /\ turn = Waiting /\ answer # <<>> => ~tuples.raises /\ IsPrefix(answer, result)
       /\ turn.act = "raised" => tuples.raises
=============================================================================
