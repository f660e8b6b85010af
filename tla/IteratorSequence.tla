-------------------------- MODULE IteratorSequence --------------------------
(***************************************************************************)
(* IteratorBackedSequence: a lazily evaluated sequence.  All consumers of  *)
(* one object (its iterator, the views made by filter and map, and the     *)
(* questions isEmpty, isSingleton, getLength, ...) share one cursor over   *)
(* one source iterator that can only go forward.  The first two items are  *)
(* always remembered, the rest only once somebody asked for all of them.   *)
(* A question moves the cursor back to the start, reads, and puts it back. *)
(*                                                                         *)
(* One object, and a client that makes any of the calls in any order.      *)
(* getAllValues, and getLength through it, read the source one item per    *)
(* step; every other call is one step.                                     *)
(***************************************************************************)
EXTENDS Integers

CONSTANTS
  Value,      \* the items sequences are made of
  NoValue,    \* undefined, null and DONE_TOKEN
  Nodes,      \* the items that are nodes
  Truthy,     \* atomic items with effective boolean value TRUE
  Falsy,      \* atomic items with effective boolean value FALSE
  MaxLen      \* bound on the length of the source

ASSUME LengthAssumption == MaxLen \in Nat
ASSUME NoValueAssumption == NoValue \notin Value
ASSUME ClassAssumption ==
  /\ Nodes \subseteq Value /\ Truthy \subseteq Value /\ Falsy \subseteq Value
  /\ Nodes \cap Truthy = {} /\ Nodes \cap Falsy = {} /\ Truthy \cap Falsy = {}

VARIABLES
  size,       \* how many items the source iterator delivers
  items,      \* the items it delivers; those from size on do not exist
  seq,        \* the fields of the object, and how far the source has been read
  frame,      \* the reading loop on the call stack, "idle" when there is none
  back,       \* the position of the cursor when that loop was entered
  status,     \* "live", "failed" after an error, "retired" after switchCases
  last        \* the last call that returned, and its answer

vars == <<size, items, seq, frame, back, status, last>>

NotKnown == -1

SeqRecord ==
  [cached : [0 .. MaxLen -> Value \cup {NoValue}], \* _cachedValues
   clen   : 0 .. MaxLen,                            \* _cachedValues.length
   pos    : 0 .. MaxLen,                            \* _currentPosition
   len    : NotKnown .. MaxLen,                     \* _length
   all    : BOOLEAN,                                \* _cacheAllValues
   pulled : 0 .. MaxLen]                            \* items taken from valueIterator

New(predictedLength) ==
  [cached |-> [i \in 0 .. MaxLen |-> NoValue], clen |-> 0, pos |-> 0,
   len |-> predictedLength, all |-> FALSE, pulled |-> 0]

\* The length a caller predicts is the true one.
Init ==
  /\ size \in 0 .. MaxLen
  /\ items \in [0 .. MaxLen - 1 -> Value]
  /\ \E predictedLength \in {NotKnown, size} : seq = New(predictedLength)
  /\ frame = "idle" /\ back = 0
  /\ status = "live"
  /\ last = [op |-> "new"]

-----------------------------------------------------------------------------

Remembers(s) == s.all \/ s.pos < 2

\* value.next on a remembered item
\* Mutant: the position is not advanced.
ReplayInPlace(s) == [seq |-> s, item |-> s.cached[s.pos]]
Replay(s) == [seq |-> [s EXCEPT !.pos = @ + 1], item |-> s.cached[s.pos]]

\* value.next when the source is done: the position becomes the length
End(s) == [seq |-> [s EXCEPT !.len = s.pos], item |-> NoValue]

\* value.next on a new item of the source
Pull(s) ==
  [seq  |-> [s EXCEPT !.cached[s.pos] = IF Remembers(s) THEN items[s.pulled] ELSE @,
                      !.clen = IF Remembers(s) /\ @ <= s.pos THEN s.pos + 1 ELSE @,
                      !.pos = @ + 1,
                      !.pulled = @ + 1],
   item |-> items[s.pulled]]

\* value.next: the object afterwards and the item, NoValue when done
NextOf(s) ==
  IF s.len # NotKnown /\ s.pos >= s.len THEN [seq |-> s, item |-> NoValue]
  ELSE IF s.cached[s.pos] # NoValue THEN Replay(s)
  ELSE IF s.pulled = size THEN End(s)
  ELSE Pull(s)

ResetTo(s, position) == [s EXCEPT !.pos = position]

\* first(): a remembered first item, or the source's first item
FirstOf(s) ==
  IF s.cached[0] # NoValue
  THEN [seq |-> s, item |-> s.cached[0]]
  ELSE LET r == NextOf(s) IN [seq |-> ResetTo(r.seq, 0), item |-> r.item]

\* isEmpty()
\* Mutant: asks the iterator instead of first().
EmptyByNext(s) == LET r == NextOf(s) IN [seq |-> r.seq, holds |-> r.item = NoValue]
EmptyOf(s) ==
  IF s.len = 0
  THEN [seq |-> s, holds |-> TRUE]
  ELSE LET r == FirstOf(s) IN [seq |-> r.seq, holds |-> r.item = NoValue]

\* the two items that isSingleton() and getEffectiveBooleanValue() look at
Peek1(s) == NextOf(ResetTo(s, 0))
Peek2(s) == NextOf(Peek1(s).seq)

\* isSingleton()
\* Mutant: the cursor is not put back.
SingletonWithoutReset(s) ==
  IF s.len # NotKnown
  THEN [seq |-> s, holds |-> s.len = 1]
  ELSE [seq |-> Peek2(s).seq, holds |-> Peek1(s).item # NoValue /\ Peek2(s).item = NoValue]
SingletonOf(s) ==
  IF s.len # NotKnown
  THEN [seq |-> s, holds |-> s.len = 1]
  ELSE IF Peek1(s).item = NoValue
  THEN [seq |-> ResetTo(Peek1(s).seq, s.pos), holds |-> FALSE]
  ELSE [seq |-> ResetTo(Peek2(s).seq, s.pos), holds |-> Peek2(s).item = NoValue]

CachedValues(s) == [i \in 0 .. s.clen - 1 |-> s.cached[i]]

-----------------------------------------------------------------------------

Idle == status = "live" /\ frame = "idle"

\* The client gets an answer; the object becomes s.
Return(s, answer) ==
  /\ seq' = s
  /\ last' = answer
  /\ UNCHANGED <<size, items, frame, back, status>>

\* A call throws; the client gives up the object.
Throw(s, answer) ==
  /\ seq' = s
  /\ last' = answer
  /\ status' = "failed"
  /\ UNCHANGED <<size, items, frame, back>>

CallNext ==
  /\ Idle
  /\ LET r == NextOf(seq) IN Return(r.seq, [op |-> "next", item |-> r.item])

CallFirst ==
  /\ Idle
  /\ LET r == FirstOf(seq) IN Return(r.seq, [op |-> "first", item |-> r.item])

CallIsEmpty ==
  /\ Idle
  /\ LET r == EmptyOf(seq) IN Return(r.seq, [op |-> "isEmpty", holds |-> r.holds])

CallIsSingleton ==
  /\ Idle
  /\ LET r == SingletonOf(seq) IN Return(r.seq, [op |-> "isSingleton", holds |-> r.holds])

\* getEffectiveBooleanValue of a single value: an xs:QName, a date or a map has none
ValueHasBoolean(v) == v \in Nodes \cup Truthy \cup Falsy

CallEffectiveBooleanValue ==
  /\ Idle
  /\ LET one == Peek1(seq)
         two == Peek2(seq)
         answer(b) == [op |-> "booleanValue", holds |-> b]
         error == [op |-> "booleanValue", error |-> "FORG0006"]
     IN \/ /\ one.item = NoValue
           /\ Return(ResetTo(one.seq, seq.pos), answer(FALSE))
        \/ /\ one.item \in Nodes
           /\ Return(ResetTo(one.seq, seq.pos), answer(TRUE))
        \/ /\ one.item \notin Nodes \cup {NoValue}
           /\ two.item # NoValue
           /\ Throw(two.seq, error)
        \/ /\ one.item \notin Nodes \cup {NoValue}
           /\ two.item = NoValue
           /\ IF ValueHasBoolean(one.item)
              THEN Return(ResetTo(two.seq, seq.pos), answer(one.item \in Truthy))
              ELSE Throw(ResetTo(two.seq, seq.pos), error)

\* getAllValues refuses when items went by that were not remembered
HasProgressed(s) == s.pos > s.clen /\ s.len # s.clen

\* Mutant: the loop does not make the sequence remember what it reads.
StartForgetful(loop) ==
  IF HasProgressed(seq)
  THEN Throw(seq, [op |-> "progressed", error |-> "progressed"])
  ELSE frame' = loop /\ back' = seq.pos /\ UNCHANGED <<size, items, seq, status, last>>
StartReading(loop) ==
  IF HasProgressed(seq)
  THEN Throw(seq, [op |-> "progressed", error |-> "progressed"])
  ELSE /\ seq' = [seq EXCEPT !.all = TRUE]
       /\ frame' = loop
       /\ back' = seq.pos
       /\ UNCHANGED <<size, items, status, last>>

CallGetAllValues ==
  /\ Idle
  /\ StartReading("getAllValues")

CallGetLength(onlyIfCheap) ==
  /\ Idle
  /\ \/ /\ seq.len # NotKnown
        /\ Return(seq, [op |-> "getLength", length |-> seq.len])
     \/ /\ seq.len = NotKnown
        /\ onlyIfCheap
        /\ Return(seq, [op |-> "getLength", length |-> NotKnown])
     \/ /\ seq.len = NotKnown
        /\ ~ onlyIfCheap
        /\ StartReading("getLength")

\* one turn of the loop of getAllValues; at the end the caller gets its answer
Read ==
  /\ frame # "idle"
  /\ LET r == NextOf(seq)
     IN \/ /\ r.item # NoValue
           /\ seq' = r.seq
           /\ UNCHANGED <<frame, last>>
        \/ /\ r.item = NoValue
           /\ frame' = "idle"
           /\ \/ /\ frame = "getAllValues"
                 /\ seq' = r.seq
                 /\ last' = [op |-> "getAllValues", all |-> CachedValues(r.seq)]
              \/ /\ frame = "getLength"
                 /\ seq' = ResetTo(r.seq, back)
                 /\ last' = [op |-> "getLength", length |-> r.seq.clen]
  /\ UNCHANGED <<size, items, back, status>>

\* switchCases: the callback of the case gives the result.  A result that is (a view of) this
\* object has its length, or none; any other result replaces this object, which takes over
\* the length of the result and is not read again.
CallSwitchCases ==
  /\ Idle
  /\ LET empty == EmptyOf(seq)
         single == SingletonOf(empty.seq)
         kind == IF empty.holds THEN "empty" ELSE IF single.holds THEN "singleton" ELSE "multiple"
         probed == IF empty.holds THEN empty.seq ELSE single.seq
     IN /\ last' = [op |-> "switchCases", kind |-> kind]
        /\ \/ /\ seq' = probed
              /\ UNCHANGED status
           \/ /\ \E resultLength \in 0 .. MaxLen : seq' = [probed EXCEPT !.len = resultLength]
              /\ status' = "retired"
        /\ UNCHANGED <<size, items, frame, back>>

Next ==
  \/ CallNext
  \/ CallFirst
  \/ CallIsEmpty
  \/ CallIsSingleton
  \/ CallEffectiveBooleanValue
  \/ CallGetAllValues
  \/ \E onlyIfCheap \in BOOLEAN : CallGetLength(onlyIfCheap)
  \/ Read
  \/ CallSwitchCases

\* A loop on the JavaScript stack runs until it returns.
Spec == Init /\ [][Next]_vars /\ WF_vars(Read)

-----------------------------------------------------------------------------

TypeOK ==
  /\ size \in 0 .. MaxLen
  /\ items \in [0 .. MaxLen - 1 -> Value]
  /\ seq \in SeqRecord
  /\ frame \in {"idle", "getAllValues", "getLength"}
  /\ back \in 0 .. MaxLen
  /\ status \in {"live", "failed", "retired"}

\* What is remembered is a prefix of the source, item by item, and nothing beyond it:
\* a question asked between two reads never leaves a hole or an item in the wrong place.
CacheIsPrefix ==
  /\ seq.clen <= seq.pulled
  /\ seq.pulled <= size
  /\ \A i \in 0 .. MaxLen :
       seq.cached[i] = IF i < seq.clen THEN items[i] ELSE NoValue

\* The source is only ever read at the cursor: whenever the next call would read the source,
\* the cursor is where the source is.  Otherwise an item is skipped, or the end of the source
\* gives the sequence a wrong length.
PullsInStep ==
  status = "live" =>
    \/ seq.len # NotKnown /\ seq.pos >= seq.len
    \/ seq.pos < seq.clen
    \/ seq.pos = seq.pulled

\* A known _length is the number of items of the source, for as long as the object is read.
LengthIsTrue == status # "retired" => seq.len \in {NotKnown, size}

\* The cursor can only be behind the source while everything read is remembered, and while a
\* loop of getAllValues is on the stack everything is.  This is the part that is not a
\* property of its own but that PullsInStep needs in order to survive a reset.
CursorInv ==
  /\ seq.pos <= seq.pulled
  /\ seq.clen < 2 => seq.clen = seq.pulled
  /\ seq.all => seq.clen = seq.pulled
  /\ status = "live" => seq.pos = seq.pulled \/ seq.clen = seq.pulled
  /\ frame # "idle" => /\ status = "live"
                       /\ seq.all
                       /\ back <= seq.pulled

\* However calls interleave, the remembered items are a prefix of the source, a known length is
\* the number of items, and the cursor is behind the source only while everything is remembered:
\* what first, isEmpty, getAllValues and the others rely on when they move the cursor and back.
SequenceInv == TypeOK /\ CacheIsPrefix /\ LengthIsTrue /\ CursorInv

\* The promise of SequenceReader: the cursor of the abstract sequence is the cursor of this one,
\* and stays where it was while getAllValues or getLength is still reading.
Reader == INSTANCE SequenceReader
            WITH at <- IF frame = "idle" THEN seq.pos ELSE back
ReaderSpec == Reader!Spec

\* A loop of getAllValues ends: the source is finite and every turn reads from it.
ReadingEnds == frame # "idle" ~> frame = "idle"

=============================================================================
