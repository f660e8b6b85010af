--------------------------- MODULE SharedIterable ---------------------------
(***************************************************************************)
(* createDoublyIterableSequence: one iterator, any number of independent   *)
(* views.  A let binding, a parameter, a map or array member, a global     *)
(* variable and a constant expression are all read this way: every         *)
(* reference gets a view of its own, the views are read in any             *)
(* interleaving, and views made later start from the beginning again while *)
(* the iterator behind them can only go on.                                *)
(***************************************************************************)
EXTENDS Naturals, Sequences

CONSTANTS
  Item,      \* the items
  View,       \* the views that may be made
  MaxItems      \* bound on the length of the source

ASSUME MaxItemsAssumption == MaxItems \in Nat

VARIABLES
  source,     \* what the backing iterator delivers
  pulled,     \* how much of it has been read
  saved,      \* savedValues
  made,       \* the views made so far
  at,         \* the index i of each view
  got,        \* what each view has delivered
  done        \* the views that have answered that there is nothing left

sharedVars == <<source, pulled, saved, made, at, got, done>>

SharedInit ==
  /\ source \in UNION {[1 .. n -> Item] : n \in 0 .. MaxItems}
  /\ pulled = 0
  /\ saved = <<>>
  /\ made = {}
  /\ at = [v \in View |-> 0]
  /\ got = [v \in View |-> <<>>]
  /\ done = {}

\* the call of the function that createDoublyIterableSequence returns
Make(v) ==
  /\ v \notin made
  /\ made' = made \cup {v}
  /\ UNCHANGED <<source, pulled, saved, at, got, done>>

DeliverTo(v, item) ==
  /\ at' = [at EXCEPT ![v] = @ + 1]
  /\ got' = [got EXCEPT ![v] = Append(@, item)]

\* next on a view that others have overtaken: savedValues[i++]
\* Mutant: the view gives what was read last, wherever it is itself.
ReplayLatest(v) ==
  /\ v \in made
  /\ at[v] < Len(saved)
  /\ DeliverTo(v, saved[Len(saved)])
  /\ UNCHANGED <<source, pulled, saved, made, done>>
ReplaySaved(v) ==
  /\ v \in made
  /\ at[v] < Len(saved)
  /\ DeliverTo(v, saved[at[v] + 1])
  /\ UNCHANGED <<source, pulled, saved, made, done>>

\* next on the view that is the furthest: savedValues[i++] gets the new item
\* Mutant: the source is read one item ahead.
PullAhead(v) ==
  /\ v \in made
  /\ at[v] >= Len(saved)
  /\ pulled < Len(source)
  /\ pulled' = pulled + 2
  /\ saved' = Append(saved, source[pulled + 1])
  /\ DeliverTo(v, source[pulled + 1])
  /\ UNCHANGED <<source, made, done>>
PullNew(v) ==
  /\ v \in made
  /\ at[v] >= Len(saved)
  /\ pulled < Len(source)
  /\ pulled' = pulled + 1
  /\ saved' = [i \in 1 .. at[v] + 1 |-> IF i <= at[v] THEN saved[i] ELSE source[pulled + 1]]
  /\ DeliverTo(v, source[pulled + 1])
  /\ UNCHANGED <<source, made, done>>

\* next when nothing is saved and nothing left; a view asked again asks the iterator again
\* Mutant: the end of what is saved is the end.
EndOfSaved(v) ==
  /\ v \in made
  /\ saved # <<>>
  /\ at[v] >= Len(saved)
  /\ done' = done \cup {v}
  /\ UNCHANGED <<source, pulled, saved, made, at, got>>
EndView(v) ==
  /\ v \in made
  /\ at[v] >= Len(saved)
  /\ pulled = Len(source)
  /\ done' = done \cup {v}
  /\ UNCHANGED <<source, pulled, saved, made, at, got>>

SharedNext == \E v \in View : Make(v) \/ ReplaySaved(v) \/ PullNew(v) \/ EndView(v)

SharedSpec == SharedInit /\ [][SharedNext]_sharedVars

-----------------------------------------------------------------------------

SharedTypeOK ==
  /\ source \in Seq(Item) /\ Len(source) <= MaxItems
  /\ pulled \in 0 .. Len(source)
  /\ saved \in Seq(Item)
  /\ made \subseteq View
  /\ at \in [View -> 0 .. MaxItems]
  /\ got \in [View -> Seq(Item)]
  /\ done \subseteq made

IsPrefixOf(s, t) == Len(s) <= Len(t) /\ \A i \in 1 .. Len(s) : s[i] = t[i]

\* What is saved is exactly what was read, so an item that one view took is there for all.
SavesWhatIsRead == Len(saved) = pulled /\ IsPrefixOf(saved, source)

\* No view is ahead of what is saved: savedValues has no holes.
NoHoles == \A v \in View : at[v] = Len(got[v]) /\ at[v] <= Len(saved)

\* Every view delivers the source from its first item on, in order, whatever the others do in
\* between: reading one variable reference never moves another.
ViewsAreIndependent == \A v \in View : IsPrefixOf(got[v], source)

\* A view that says it is done has given every item, also when another view met the end first.
DoneMeansAll == \A v \in done : got[v] = source

SharedInv == SharedTypeOK /\ SavesWhatIsRead /\ NoHoles /\ ViewsAreIndependent /\ DoneMeansAll

\* The source is read on demand: never further than the furthest view.
ReadsOnDemand == pulled > 0 => \E v \in made : at[v] = pulled
=============================================================================
