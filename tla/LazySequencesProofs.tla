------------------------- MODULE LazySequencesProofs -------------------------
(***************************************************************************)
(* For every source and every set of items: the invariants of              *)
(* IteratorSequence, and that it implements SequenceReader.                *)
(* The argument: Base says what holds of the object at every moment, also  *)
(* in the middle of a question; Good adds that the cursor is where the     *)
(* source is or everything read is remembered.  NextOf on a Base object    *)
(* whose cursor can be served delivers the item at the cursor and keeps    *)
(* Base; a question started from a Good object therefore answers by the    *)
(* items alone and gives back a Good object with the same cursor.          *)
(***************************************************************************)
EXTENDS IteratorSequence, SharedIterable, TLAPS

SourceOK == size \in 0 .. MaxLen /\ items \in [0 .. MaxLen - 1 -> Value]

Base(s) ==
  /\ s \in SeqRecord
  /\ s.clen <= s.pulled
  /\ s.pulled <= size
  /\ \A i \in 0 .. MaxLen :
       s.cached[i] = IF i < s.clen THEN items[i] ELSE NoValue
  /\ s.len \in {NotKnown, size}
  /\ s.pos <= s.pulled
  /\ s.clen < 2 => s.clen = s.pulled
  /\ s.all => s.clen = s.pulled

Good(s) == Base(s) /\ (s.pos = s.pulled \/ s.clen = s.pulled)

\* The next call can be served: from what is remembered, or the source is at the cursor.
Servable(s) == Base(s) /\ (s.pos < s.clen \/ s.pos = s.pulled)

ItemAt(p) == IF p < size THEN items[p] ELSE NoValue
Forward(p) == IF p < size THEN p + 1 ELSE p

\* A Good object can be served: what is read but ahead of the cursor is remembered.
LEMMA GoodIsServable == ASSUME NEW s, Good(s) PROVE Servable(s)
BY DEF Good, Servable, Base, SeqRecord

\* value.next replaying a remembered item.
LEMMA ReplayLemma ==
  ASSUME SourceOK, NEW s, Servable(s), s.pos < s.clen
  PROVE  /\ Base(Replay(s).seq)
         /\ Replay(s).item = items[s.pos]
         /\ Replay(s).seq = [s EXCEPT !.pos = s.pos + 1]
         /\ s.pos < size
<1> DEFINE t == Replay(s).seq
<1>1. /\ s \in SeqRecord /\ size \in 0 .. MaxLen
      /\ s.pos \in 0 .. MaxLen - 1 /\ s.pos < size /\ s.pos < s.pulled
      /\ s.cached[s.pos] = items[s.pos]
  BY LengthAssumption DEF Servable, Base, SourceOK, SeqRecord
<1>2. t = [s EXCEPT !.pos = s.pos + 1] /\ Replay(s).item = items[s.pos]
  BY <1>1 DEF Replay
<1>3. /\ t \in SeqRecord /\ t.pos = s.pos + 1
      /\ t.cached = s.cached /\ t.clen = s.clen /\ t.len = s.len /\ t.all = s.all
      /\ t.pulled = s.pulled
  BY <1>1, <1>2, LengthAssumption DEF SeqRecord
<1>4. t.pos <= t.pulled
  BY <1>1, <1>3 DEF SeqRecord
<1>5. Base(t)
  BY <1>3, <1>4 DEF Servable, Base
<1> QED
  BY <1>1, <1>2, <1>5

\* value.next at the end of the source learns the true length.
LEMMA EndLemma ==
  ASSUME SourceOK, NEW s, Servable(s), s.pos = s.pulled, s.pulled = size
  PROVE  /\ Base(End(s).seq)
         /\ End(s).item = NoValue
         /\ End(s).seq = [s EXCEPT !.len = size]
<1> USE LengthAssumption DEF SourceOK, Servable, Base, SeqRecord, End, NotKnown
<1>1. End(s).seq \in SeqRecord
  <2>1. s \in SeqRecord /\ s.pos \in -1 .. MaxLen
    OBVIOUS
  <2>2. End(s).seq = [s EXCEPT !.len = s.pos]
    OBVIOUS
  <2> QED BY <2>1, <2>2
<1> QED
  BY <1>1

\* value.next on a new item of the source.
LEMMA PullLemma ==
  ASSUME SourceOK, NEW s, Servable(s), ~(s.pos < s.clen), s.pos = s.pulled, s.pulled < size
  PROVE  /\ Base(Pull(s).seq)
         /\ Pull(s).item = items[s.pos]
         /\ Pull(s).seq.pos = s.pos + 1
         /\ Pull(s).seq.pulled = s.pulled + 1
         /\ Pull(s).seq.len = s.len
         /\ Pull(s).seq.all = s.all
         /\ (s.all \/ s.pos < 2) => Pull(s).seq.clen = s.pulled + 1
<1> USE LengthAssumption, NoValueAssumption
<1> DEFINE t == Pull(s).seq
<1>1. /\ s \in SeqRecord /\ size \in 0 .. MaxLen /\ items \in [0 .. MaxLen - 1 -> Value]
      /\ s.pos \in 0 .. MaxLen - 1 /\ s.pulled = s.pos
      /\ s.clen <= s.pos
      /\ items[s.pos] \in Value
  BY DEF Servable, Base, SourceOK, SeqRecord
<1>2. /\ t.pos = s.pos + 1 /\ t.pulled = s.pulled + 1 /\ t.len = s.len /\ t.all = s.all
      /\ t.clen = IF Remembers(s) THEN s.pos + 1 ELSE s.clen
      /\ t.cached = [s.cached EXCEPT ![s.pos] = IF Remembers(s) THEN items[s.pos] ELSE @]
      /\ Pull(s).item = items[s.pos]
  BY <1>1 DEF Pull, SeqRecord
<1>3. t \in SeqRecord
  BY <1>1, <1>2 DEF SeqRecord, Pull, Remembers, Servable, Base
<1>4. s.clen < 2 => s.clen = s.pos
  BY <1>1 DEF Servable, Base
<1>5. Remembers(s) => s.clen = s.pos
  BY <1>1, <1>4 DEF Servable, Base, Remembers, SeqRecord
<1>6. \A i \in 0 .. MaxLen : t.cached[i] = IF i < t.clen THEN items[i] ELSE NoValue
  <2> SUFFICES ASSUME NEW i \in 0 .. MaxLen
               PROVE  t.cached[i] = IF i < t.clen THEN items[i] ELSE NoValue
    OBVIOUS
  <2>1. s.cached[i] = IF i < s.clen THEN items[i] ELSE NoValue
    BY DEF Servable, Base
  <2>2. s.cached \in [0 .. MaxLen -> Value \cup {NoValue}] /\ s.clen \in 0 .. MaxLen
    BY <1>1 DEF SeqRecord
  <2>3. CASE Remembers(s)
    BY <1>1, <1>2, <1>5, <2>1, <2>2, <2>3
  <2>4. CASE ~ Remembers(s)
    BY <1>1, <1>2, <2>1, <2>2, <2>4
  <2> QED
    BY <2>3, <2>4
<1>7. t.clen <= t.pulled /\ t.pulled <= size /\ t.pos <= t.pulled /\ t.len \in {NotKnown, size}
  BY <1>1, <1>2 DEF Servable, Base, SeqRecord
<1>8. (t.clen < 2 => t.clen = t.pulled) /\ (t.all => t.clen = t.pulled)
  BY <1>1, <1>2, <1>4, <1>5 DEF Remembers, SeqRecord
<1>9. Base(t)
  BY <1>3, <1>6, <1>7, <1>8 DEF Base
<1> QED
  BY <1>1, <1>2, <1>9 DEF Remembers

\* value.next as its callers see it: the item at the cursor, and one step forward.
LEMMA NextLemma ==
  ASSUME SourceOK, NEW s, Servable(s)
  PROVE  LET r == NextOf(s)
         IN /\ Base(r.seq)
            /\ r.item = ItemAt(s.pos)
            /\ r.seq.pos = Forward(s.pos)
            /\ r.seq.all = s.all
            /\ s.clen = s.pulled /\ (s.pos < 2 \/ s.all) => r.seq.clen = r.seq.pulled
            /\ s.pos < s.clen => r.seq.clen = s.clen /\ r.seq.pulled = s.pulled
            /\ s.pulled <= r.seq.pulled
            /\ r.seq.pos = r.seq.pulled \/ s.pos < s.clen
            /\ s.pos < size => r.item \in Value
            /\ s.pos = size => r.seq.len = size
<1> DEFINE r == NextOf(s)
<1>0. /\ s \in SeqRecord /\ size \in 0 .. MaxLen /\ items \in [0 .. MaxLen - 1 -> Value]
      /\ s.pos \in 0 .. MaxLen /\ s.pulled \in 0 .. MaxLen /\ s.clen \in 0 .. MaxLen
      /\ s.pos <= size /\ s.clen <= s.pulled /\ s.pulled <= size /\ Base(s)
      /\ s.len \in {NotKnown, size}
      /\ s.pos < s.clen \/ s.pos = s.pulled
      /\ s.pos < size => items[s.pos] \in Value
      /\ s.cached[s.pos] = IF s.pos < s.clen THEN items[s.pos] ELSE NoValue
  BY LengthAssumption DEF Servable, Base, SourceOK, SeqRecord
<1>1. CASE s.len # NotKnown /\ s.pos >= s.len
  <2>1. s.pos = size /\ s.len = size /\ ~(s.pos < s.clen) /\ s.pos = s.pulled
    BY <1>0, <1>1 DEF NotKnown
  <2>2. r = [seq |-> s, item |-> NoValue]
    BY <1>1 DEF NextOf
  <2> QED
    BY <1>0, <2>1, <2>2 DEF ItemAt, Forward
<1>2. CASE ~(s.len # NotKnown /\ s.pos >= s.len) /\ s.pos < s.clen
  <2>1. s.cached[s.pos] # NoValue
    BY <1>0, <1>2, NoValueAssumption
  <2>2. r = Replay(s)
    BY <1>2, <2>1 DEF NextOf
  <2>3. /\ Base(r.seq) /\ r.item = items[s.pos]
        /\ r.seq = [s EXCEPT !.pos = s.pos + 1] /\ s.pos < size
    BY <1>2, <2>2, ReplayLemma
  <2> QED
    BY <1>0, <1>2, <2>3 DEF ItemAt, Forward, SeqRecord
<1>3. CASE ~(s.len # NotKnown /\ s.pos >= s.len) /\ ~(s.pos < s.clen) /\ s.pulled = size
  <2>1. s.cached[s.pos] = NoValue
    BY <1>0, <1>3
  <2>2. r = End(s)
    BY <1>3, <2>1 DEF NextOf
  <2>3. Base(r.seq) /\ r.item = NoValue /\ r.seq = [s EXCEPT !.len = size]
    BY <1>0, <1>3, <2>2, EndLemma
  <2> QED
    BY <1>0, <1>3, <2>3 DEF ItemAt, Forward, SeqRecord
<1>4. CASE ~(s.len # NotKnown /\ s.pos >= s.len) /\ ~(s.pos < s.clen) /\ s.pulled # size
  <2>1. s.cached[s.pos] = NoValue
    BY <1>0, <1>4
  <2>2. r = Pull(s)
    BY <1>4, <2>1 DEF NextOf
  <2>3. s.pos = s.pulled /\ s.pulled < size
    BY <1>0, <1>4
  <2>4. /\ Base(r.seq) /\ r.item = items[s.pos]
        /\ r.seq.pos = s.pos + 1 /\ r.seq.pulled = s.pulled + 1
        /\ r.seq.len = s.len /\ r.seq.all = s.all
        /\ (s.all \/ s.pos < 2) => r.seq.clen = s.pulled + 1
    BY <1>4, <2>2, <2>3, PullLemma
  <2> QED
    BY <1>0, <1>4, <2>3, <2>4 DEF ItemAt, Forward
<1> QED
  BY <1>1, <1>2, <1>3, <1>4

\* Putting the cursor back where it was, or anywhere while everything read is remembered.
LEMMA ResetLemma ==
  ASSUME NEW s, Base(s), NEW p \in Nat, p <= s.pulled
  PROVE  /\ Base(ResetTo(s, p))
         /\ ResetTo(s, p).pos = p
         /\ p = s.pulled \/ s.clen = s.pulled => Good(ResetTo(s, p))
         /\ p < s.clen \/ s.clen = s.pulled => Servable(ResetTo(s, p))
         /\ ResetTo(s, p).len = s.len /\ ResetTo(s, p).clen = s.clen
         /\ ResetTo(s, p).pulled = s.pulled /\ ResetTo(s, p).all = s.all
<1> DEFINE t == ResetTo(s, p)
<1>1. s \in SeqRecord /\ p \in 0 .. MaxLen
  BY LengthAssumption DEF Base, SeqRecord
<1>2. /\ t \in SeqRecord /\ t.pos = p
      /\ t.cached = s.cached /\ t.clen = s.clen /\ t.len = s.len /\ t.all = s.all
      /\ t.pulled = s.pulled
  BY <1>1 DEF SeqRecord, ResetTo
<1>3. Base(t)
  BY <1>2 DEF Base
<1>4. p < s.clen \/ s.clen = s.pulled => t.pos < t.clen \/ t.pos = t.pulled
  BY <1>1, <1>2 DEF SeqRecord
<1> QED
  BY <1>2, <1>3, <1>4 DEF Good, Servable

\* The two items a question looks at are the first two, and putting the cursor back gives a
\* Good object: either everything read is remembered, or the question read nothing new.
LEMMA PeekLemma ==
  ASSUME SourceOK, NEW s, Good(s)
  PROVE  /\ Peek1(s).item = ItemAt(0)
         /\ size > 0 => Peek2(s).item = ItemAt(1)
         /\ Good(ResetTo(Peek1(s).seq, s.pos)) /\ ResetTo(Peek1(s).seq, s.pos).pos = s.pos
         /\ Good(ResetTo(Peek2(s).seq, s.pos)) /\ ResetTo(Peek2(s).seq, s.pos).pos = s.pos
         /\ Base(Peek2(s).seq)
<1> DEFINE a == ResetTo(s, 0)
           one == Peek1(s)
           two == Peek2(s)
<1>0. /\ Base(s) /\ s.pos \in Nat /\ s.clen \in Nat /\ s.pulled \in Nat /\ size \in Nat
      /\ s.pos <= s.pulled /\ s.clen <= s.pulled /\ s.pulled <= size
      /\ s.pos = s.pulled \/ s.clen = s.pulled
      /\ s.clen < 2 => s.clen = s.pulled
      /\ 0 <= s.pulled
  BY LengthAssumption DEF Good, Base, SeqRecord, SourceOK
<1>1. /\ Base(a) /\ a.pos = 0 /\ a.clen = s.clen /\ a.pulled = s.pulled
      /\ 0 < s.clen \/ s.clen = s.pulled => Servable(a)
  BY <1>0, ResetLemma
<1>2. Servable(a)
  BY <1>0, <1>1
<1>3. one = NextOf(a) /\ two = NextOf(one.seq)
  BY DEF Peek1, Peek2
<1>4. /\ Base(one.seq) /\ one.item = ItemAt(0) /\ one.seq.pos = Forward(0)
      /\ s.clen = s.pulled => one.seq.clen = one.seq.pulled
      /\ 0 < s.clen => one.seq.clen = s.clen /\ one.seq.pulled = s.pulled
      /\ s.pulled <= one.seq.pulled
  BY <1>1, <1>2, <1>3, NextLemma
<1>5. /\ one.seq.pos \in Nat /\ one.seq.clen \in Nat /\ one.seq.pulled \in Nat
      /\ one.seq.pos <= one.seq.pulled
  BY <1>4, LengthAssumption DEF Base, SeqRecord
<1>6. one.seq.pos = (IF size > 0 THEN 1 ELSE 0)
  BY <1>0, <1>4 DEF Forward
<1>7. one.seq.pos < one.seq.clen \/ one.seq.pos = one.seq.pulled
  BY <1>0, <1>4, <1>5, <1>6
<1>8. Servable(one.seq)
  BY <1>4, <1>7 DEF Servable
<1>9. /\ Base(two.seq) /\ two.item = ItemAt(one.seq.pos)
      /\ one.seq.clen = one.seq.pulled => two.seq.clen = two.seq.pulled
      /\ one.seq.pos < one.seq.clen =>
           two.seq.clen = one.seq.clen /\ two.seq.pulled = one.seq.pulled
      /\ one.seq.pulled <= two.seq.pulled
  BY <1>3, <1>6, <1>8, NextLemma
<1>10. two.seq.pulled \in Nat /\ two.seq.clen \in Nat
  BY <1>9, LengthAssumption DEF Base, SeqRecord
<1>11. s.pos <= one.seq.pulled /\ s.pos <= two.seq.pulled
  BY <1>0, <1>4, <1>5, <1>9, <1>10
<1>12. s.pos = one.seq.pulled \/ one.seq.clen = one.seq.pulled
  BY <1>0, <1>4
<1>13. s.pos = two.seq.pulled \/ two.seq.clen = two.seq.pulled
  <2>1. CASE s.clen = s.pulled
    BY <2>1, <1>4, <1>9
  <2>2. CASE s.clen # s.pulled
    <3>1. 1 < s.clen /\ s.pos = s.pulled
      BY <2>2, <1>0
    <3>2. one.seq.clen = s.clen /\ one.seq.pulled = s.pulled /\ one.seq.pos < one.seq.clen
      BY <3>1, <1>0, <1>4, <1>6
    <3> QED
      BY <3>1, <3>2, <1>9
  <2> QED
    BY <2>1, <2>2
<1>14. Good(ResetTo(one.seq, s.pos)) /\ ResetTo(one.seq, s.pos).pos = s.pos
  BY <1>0, <1>4, <1>11, <1>12, ResetLemma
<1>15. Good(ResetTo(two.seq, s.pos)) /\ ResetTo(two.seq, s.pos).pos = s.pos
  BY <1>0, <1>9, <1>11, <1>13, ResetLemma
<1> QED
  BY <1>4, <1>6, <1>9, <1>14, <1>15

\* first() answers with the first item and leaves the cursor alone: when nothing is
\* remembered yet, the cursor is still at the start.
LEMMA FirstLemma ==
  ASSUME SourceOK, NEW s, Good(s)
  PROVE  Good(FirstOf(s).seq) /\ FirstOf(s).seq.pos = s.pos /\ FirstOf(s).item = ItemAt(0)
<1>0. /\ Base(s) /\ s.pos \in Nat /\ s.clen \in Nat /\ s.pulled \in Nat /\ size \in Nat
      /\ s.pos <= s.pulled /\ s.clen <= s.pulled /\ s.pulled <= size
      /\ s.clen < 2 => s.clen = s.pulled
      /\ s.cached[0] = IF 0 < s.clen THEN items[0] ELSE NoValue
  BY LengthAssumption DEF Good, Base, SeqRecord, SourceOK
<1>1. CASE s.cached[0] # NoValue
  <2>1. 0 < s.clen /\ 0 < size /\ s.cached[0] = items[0]
    BY <1>0, <1>1
  <2> QED
    BY <1>1, <2>1 DEF FirstOf, ItemAt
<1>2. CASE s.cached[0] = NoValue
  <2> DEFINE r == NextOf(s)
  <2>1. s.clen = 0 /\ s.pulled = 0 /\ s.pos = 0
    <3>1. ~(0 < s.clen)
      <4>1. SUFFICES ASSUME 0 < s.clen PROVE FALSE
        OBVIOUS
      <4>2. items[0] = NoValue /\ 0 < size
        BY <4>1, <1>0, <1>2
      <4>3. items[0] \in Value
        BY <4>2, <1>0, LengthAssumption DEF SourceOK
      <4> QED
        BY <4>2, <4>3, NoValueAssumption
    <3> QED
      BY <3>1, <1>0
  <2>2. Servable(s)
    BY GoodIsServable
  <2>3. /\ Base(r.seq) /\ r.item = ItemAt(s.pos)
        /\ r.seq.clen = r.seq.pulled /\ s.pulled <= r.seq.pulled
    BY <2>1, <2>2, NextLemma
  <2>4. Good(ResetTo(r.seq, 0)) /\ ResetTo(r.seq, 0).pos = 0
    BY <2>1, <2>3, ResetLemma
  <2>5. FirstOf(s) = [seq |-> ResetTo(r.seq, 0), item |-> r.item]
    BY <1>2 DEF FirstOf
  <2> QED
    BY <2>1, <2>3, <2>4, <2>5
<1> QED
  BY <1>1, <1>2

\* No item of the source is mistaken for the end.
LEMMA ItemLemma ==
  ASSUME SourceOK, NEW p \in Nat
  PROVE  (ItemAt(p) = NoValue <=> p >= size) /\ (p < size => ItemAt(p) = items[p] /\ items[p] \in Value)
BY LengthAssumption, NoValueAssumption DEF ItemAt, SourceOK

\* isEmpty() answers by the number of items alone.
LEMMA EmptyLemma ==
  ASSUME SourceOK, NEW s, Good(s)
  PROVE  Good(EmptyOf(s).seq) /\ EmptyOf(s).seq.pos = s.pos /\ (EmptyOf(s).holds <=> size = 0)
         /\ EmptyOf(s).holds \in BOOLEAN
<1>1. s.len = 0 => size = 0
  BY DEF Good, Base, NotKnown
<1>2. Good(FirstOf(s).seq) /\ FirstOf(s).seq.pos = s.pos /\ FirstOf(s).item = ItemAt(0)
  BY FirstLemma
<1>3. ItemAt(0) = NoValue <=> size = 0
  BY ItemLemma DEF SourceOK
<1> QED
  BY <1>1, <1>2, <1>3 DEF EmptyOf

\* isSingleton() answers by the number of items alone.
LEMMA SingletonLemma ==
  ASSUME SourceOK, NEW s, Good(s)
  PROVE  Good(SingletonOf(s).seq) /\ SingletonOf(s).seq.pos = s.pos
         /\ (SingletonOf(s).holds <=> size = 1) /\ SingletonOf(s).holds \in BOOLEAN
<1>1. size \in Nat /\ (s.len # NotKnown => s.len = size)
  BY LengthAssumption DEF Good, Base, SourceOK
<1>2. /\ Peek1(s).item = ItemAt(0)
      /\ size > 0 => Peek2(s).item = ItemAt(1)
      /\ Good(ResetTo(Peek1(s).seq, s.pos)) /\ ResetTo(Peek1(s).seq, s.pos).pos = s.pos
      /\ Good(ResetTo(Peek2(s).seq, s.pos)) /\ ResetTo(Peek2(s).seq, s.pos).pos = s.pos
  BY PeekLemma
<1>3. (ItemAt(0) = NoValue <=> size = 0) /\ (ItemAt(1) = NoValue <=> size <= 1)
  BY <1>1, ItemLemma
<1>4. CASE s.len # NotKnown
  BY <1>1, <1>4 DEF SingletonOf
<1>5. CASE s.len = NotKnown /\ Peek1(s).item = NoValue
  <2>1. SingletonOf(s) = [seq |-> ResetTo(Peek1(s).seq, s.pos), holds |-> FALSE]
    BY <1>5 DEF SingletonOf
  <2>2. size = 0
    BY <1>2, <1>3, <1>5
  <2> QED
    BY <1>2, <2>1, <2>2
<1>6. CASE s.len = NotKnown /\ Peek1(s).item # NoValue
  <2>1. SingletonOf(s) = [seq |-> ResetTo(Peek2(s).seq, s.pos), holds |-> Peek2(s).item = NoValue]
    BY <1>6 DEF SingletonOf
  <2>2. size > 0
    BY <1>1, <1>2, <1>3, <1>6
  <2>3. (Peek2(s).item = NoValue) = (size = 1)
    BY <1>1, <1>2, <1>3, <2>2
  <2>4. SingletonOf(s).seq = ResetTo(Peek2(s).seq, s.pos) /\ SingletonOf(s).holds = (size = 1)
    BY <2>1, <2>3
  <2> QED
    BY <1>2, <2>4
<1> QED
  BY <1>4, <1>5, <1>6

-----------------------------------------------------------------------------

\* What SequenceInv gives to a call.
LEMMA IdleLemma ==
  ASSUME SequenceInv
  PROVE  SourceOK /\ (status # "retired" => Base(seq)) /\ (status = "live" => Good(seq))
BY DEF SequenceInv, TypeOK, CacheIsPrefix, LengthIsTrue, CursorInv, Base, Good, SourceOK

\* A call that returns with a Good object keeps the invariant.
LEMMA ReturnLemma ==
  ASSUME SequenceInv, Idle, NEW t, NEW answer, Good(t), Return(t, answer)
  PROVE  SequenceInv'
<1> USE DEF Return, Good, Base
<1>1. TypeOK'
  BY DEF SequenceInv, TypeOK
<1>2. CacheIsPrefix'
  BY DEF CacheIsPrefix
<1>3. LengthIsTrue'
  BY DEF LengthIsTrue
<1>4. CursorInv'
  BY DEF CursorInv, Idle
<1> QED
  BY <1>1, <1>2, <1>3, <1>4 DEF SequenceInv

\* A call that throws needs no more than Base.
LEMMA ThrowLemma ==
  ASSUME SequenceInv, Idle, NEW t, NEW answer, Base(t), Throw(t, answer)
  PROVE  SequenceInv'
<1> USE DEF Throw, Base
<1>1. TypeOK'
  BY DEF SequenceInv, TypeOK
<1>2. CacheIsPrefix'
  BY DEF CacheIsPrefix
<1>3. LengthIsTrue'
  BY DEF LengthIsTrue
<1>4. CursorInv'
  BY DEF CursorInv, Idle
<1> QED
  BY <1>1, <1>2, <1>3, <1>4 DEF SequenceInv

\* getAllValues starts only when everything read is remembered.
LEMMA StartLemma ==
  ASSUME SequenceInv, Idle, NEW loop \in {"getAllValues", "getLength"}, StartReading(loop)
  PROVE  SequenceInv'
<1>1. Good(seq) /\ SourceOK
  BY IdleLemma DEF Idle
<1>2. CASE HasProgressed(seq)
  <2>1. Throw(seq, [op |-> "progressed", error |-> "progressed"])
    BY <1>2 DEF StartReading
  <2> QED
    BY <1>1, <2>1, ThrowLemma DEF Good
<1>3. CASE ~ HasProgressed(seq)
  <2>1. /\ seq' = [seq EXCEPT !.all = TRUE] /\ frame' = loop /\ back' = seq.pos
        /\ UNCHANGED <<size, items, status, last>>
    BY <1>3 DEF StartReading
  <2>2. seq \in SeqRecord
    BY <1>1 DEF Good, Base
  <2>3. /\ seq' \in SeqRecord /\ seq'.all = TRUE
        /\ seq'.cached = seq.cached /\ seq'.clen = seq.clen /\ seq'.len = seq.len
        /\ seq'.pos = seq.pos /\ seq'.pulled = seq.pulled
    BY <2>1, <2>2 DEF SeqRecord
  <2>4. seq.clen = seq.pulled
    <3>1. seq.pos <= seq.clen \/ seq.len = seq.clen
      BY <1>3, <2>2 DEF HasProgressed, SeqRecord
    <3> QED
      BY <1>1, <2>2, <3>1 DEF Good, Base, SeqRecord, SourceOK, NotKnown
  <2>5. TypeOK'
    BY <2>1, <2>2, <2>3 DEF SequenceInv, TypeOK, SeqRecord
  <2>6. CacheIsPrefix' /\ LengthIsTrue'
    BY <2>1, <2>3 DEF SequenceInv, CacheIsPrefix, LengthIsTrue
  <2>7. CursorInv'
    BY <2>1, <2>3, <2>4 DEF SequenceInv, CursorInv, Idle
  <2> QED
    BY <2>5, <2>6, <2>7 DEF SequenceInv
<1> QED
  BY <1>2, <1>3

\* One turn of the reading loop.
LEMMA ReadLemma ==
  ASSUME SequenceInv, Read
  PROVE  SequenceInv'
<1> DEFINE r == NextOf(seq)
<1>1. /\ SourceOK /\ Good(seq) /\ status = "live" /\ frame # "idle" /\ seq.all
      /\ seq.clen = seq.pulled /\ back <= seq.pulled /\ back \in 0 .. MaxLen
      /\ UNCHANGED <<size, items, back, status>>
  BY IdleLemma DEF Read, SequenceInv, CursorInv, TypeOK
<1>2. Servable(seq)
  BY <1>1, GoodIsServable
<1>3. /\ Base(r.seq) /\ r.seq.all = seq.all /\ r.seq.clen = r.seq.pulled
      /\ seq.pulled <= r.seq.pulled
  BY <1>1, <1>2, NextLemma
<1>4. Good(r.seq)
  BY <1>3 DEF Good
<1>5. back \in Nat /\ back <= r.seq.pulled
  BY <1>1, <1>3, LengthAssumption DEF Base, SeqRecord, Good
<1>6. Good(ResetTo(r.seq, back)) /\ ResetTo(r.seq, back).all = seq.all
  BY <1>3, <1>5, ResetLemma
<1>7. (seq' = r.seq /\ frame' = frame) \/ (frame' = "idle" /\ seq' \in {r.seq, ResetTo(r.seq, back)})
  BY DEF Read
<1>8. TypeOK'
  BY <1>1, <1>4, <1>6, <1>7 DEF TypeOK, SequenceInv, Good, Base
<1>9. CacheIsPrefix' /\ LengthIsTrue'
  BY <1>1, <1>4, <1>6, <1>7 DEF CacheIsPrefix, LengthIsTrue, Good, Base
<1>10. CursorInv'
  <2>1. CASE seq' = r.seq /\ frame' = frame
    BY <2>1, <1>1, <1>3, <1>4, <1>5 DEF CursorInv, Good, Base
  <2>2. CASE frame' = "idle" /\ seq' \in {r.seq, ResetTo(r.seq, back)}
    BY <2>2, <1>1, <1>4, <1>6 DEF CursorInv, Good, Base
  <2> QED
    BY <1>7, <2>1, <2>2
<1> QED
  BY <1>8, <1>9, <1>10 DEF SequenceInv

\* What switchCases finds out, and the object it leaves.
LEMMA SwitchLemma ==
  ASSUME SourceOK, NEW s, Good(s)
  PROVE  LET e == EmptyOf(s)
             d == SingletonOf(e.seq)
             probed == IF e.holds THEN e.seq ELSE d.seq
         IN /\ Good(probed) /\ probed.pos = s.pos
            /\ e.holds <=> size = 0
            /\ ~ e.holds => (d.holds <=> size = 1)
<1>1. /\ Good(EmptyOf(s).seq) /\ EmptyOf(s).seq.pos = s.pos
      /\ (EmptyOf(s).holds <=> size = 0)
  BY EmptyLemma
<1>2. /\ Good(SingletonOf(EmptyOf(s).seq).seq)
      /\ SingletonOf(EmptyOf(s).seq).seq.pos = EmptyOf(s).seq.pos
      /\ (SingletonOf(EmptyOf(s).seq).holds <=> size = 1)
  BY <1>1, SingletonLemma
<1> QED
  BY <1>1, <1>2

\* switchCases keeps the invariant, whether or not the caller gives up the sequence.
LEMMA SwitchInvariance ==
  ASSUME SequenceInv, CallSwitchCases
  PROVE  SequenceInv'
<1> DEFINE e == EmptyOf(seq)
           d == SingletonOf(e.seq)
           probed == IF e.holds THEN e.seq ELSE d.seq
<1>1. Good(seq) /\ SourceOK
  BY IdleLemma DEF Idle, CallSwitchCases
<1>2. Good(probed)
  BY <1>1, SwitchLemma
<1>3. /\ frame = "idle" /\ status = "live"
      /\ UNCHANGED <<size, items, frame, back>>
      /\ \/ seq' = probed /\ UNCHANGED status
         \/ /\ \E resultLength \in 0 .. MaxLen : seq' = [probed EXCEPT !.len = resultLength]
            /\ status' = "retired"
  BY DEF CallSwitchCases, Idle
<1>4. CASE seq' = probed /\ UNCHANGED status
  <2> USE DEF Good, Base
  <2>1. TypeOK'
    BY <1>2, <1>3, <1>4 DEF SequenceInv, TypeOK
  <2>2. CacheIsPrefix' /\ LengthIsTrue'
    BY <1>2, <1>3, <1>4 DEF CacheIsPrefix, LengthIsTrue
  <2>3. CursorInv'
    BY <1>2, <1>3, <1>4 DEF CursorInv
  <2> QED
    BY <2>1, <2>2, <2>3 DEF SequenceInv
<1>5. ASSUME NEW resultLength \in 0 .. MaxLen, seq' = [probed EXCEPT !.len = resultLength],
             status' = "retired"
      PROVE  SequenceInv'
  <2>1. /\ seq' \in SeqRecord
        /\ seq'.cached = probed.cached /\ seq'.clen = probed.clen /\ seq'.all = probed.all
        /\ seq'.pos = probed.pos /\ seq'.pulled = probed.pulled
    <3>1. probed \in SeqRecord
      BY <1>2 DEF Good, Base
    <3>2. resultLength \in NotKnown .. MaxLen
      BY LengthAssumption DEF NotKnown
    <3> QED
      BY <3>1, <3>2, <1>5 DEF SeqRecord
  <2>2. TypeOK'
    BY <1>3, <1>5, <2>1 DEF SequenceInv, TypeOK
  <2>3. CacheIsPrefix' /\ LengthIsTrue'
    BY <1>2, <1>3, <1>5, <2>1 DEF CacheIsPrefix, LengthIsTrue, Good, Base
  <2>4. CursorInv'
    BY <1>2, <1>3, <1>5, <2>1 DEF CursorInv, Good, Base
  <2> QED
    BY <2>2, <2>3, <2>4 DEF SequenceInv
<1> QED
  BY <1>3, <1>4, <1>5

\* getEffectiveBooleanValue: whether it answers or throws.
LEMMA BooleanInvariance ==
  ASSUME SequenceInv, CallEffectiveBooleanValue
  PROVE  SequenceInv'
<1>1. Idle /\ Good(seq) /\ SourceOK
  BY IdleLemma DEF Idle, CallEffectiveBooleanValue
<1>2. /\ Good(ResetTo(Peek1(seq).seq, seq.pos))
      /\ Good(ResetTo(Peek2(seq).seq, seq.pos))
      /\ Base(Peek2(seq).seq)
  BY <1>1, PeekLemma
<1>3. \/ \E answer : Return(ResetTo(Peek1(seq).seq, seq.pos), answer)
      \/ \E answer : Return(ResetTo(Peek2(seq).seq, seq.pos), answer)
      \/ \E answer : Throw(Peek2(seq).seq, answer)
      \/ \E answer : Throw(ResetTo(Peek2(seq).seq, seq.pos), answer)
  BY Zenon DEF CallEffectiveBooleanValue
<1>4. Base(ResetTo(Peek2(seq).seq, seq.pos))
  BY <1>2 DEF Good
<1> QED
  BY <1>1, <1>2, <1>3, <1>4, ReturnLemma, ThrowLemma

\* The initial object is Good.
LEMMA InitLemma == Init => SequenceInv
<1> SUFFICES ASSUME Init PROVE SequenceInv
  OBVIOUS
<1>1. PICK predictedLength \in {NotKnown, size} : seq = New(predictedLength)
  BY DEF Init
<1>2. /\ seq \in SeqRecord
      /\ seq.clen = 0 /\ seq.pos = 0 /\ seq.pulled = 0 /\ seq.len \in {NotKnown, size}
      /\ \A i \in 0 .. MaxLen : seq.cached[i] = NoValue
  BY <1>1, LengthAssumption DEF Init, New, SeqRecord, NotKnown
<1>3. TypeOK
  BY <1>2, LengthAssumption DEF Init, TypeOK
<1>4. CacheIsPrefix /\ LengthIsTrue /\ CursorInv
  BY <1>2, LengthAssumption DEF Init, CacheIsPrefix, LengthIsTrue, CursorInv
<1> QED
  BY <1>3, <1>4 DEF SequenceInv

\* Every step keeps the invariant.
LEMMA StepLemma == SequenceInv /\ [Next]_vars => SequenceInv'
<1> SUFFICES ASSUME SequenceInv, [Next]_vars PROVE SequenceInv'
  OBVIOUS
<1>0. Idle => Good(seq) /\ Servable(seq) /\ SourceOK
  BY IdleLemma, GoodIsServable DEF Idle
<1>1. CASE CallNext
  <2>1. Idle /\ \E answer : Return(NextOf(seq).seq, answer)
    BY <1>1 DEF CallNext
  <2>2. Good(NextOf(seq).seq)
    <3> DEFINE r == NextOf(seq)
    <3>1. /\ Base(r.seq)
          /\ seq.pos < seq.clen => r.seq.clen = seq.clen /\ r.seq.pulled = seq.pulled
          /\ r.seq.pos = r.seq.pulled \/ seq.pos < seq.clen
      BY <1>0, <2>1, NextLemma
    <3>2. seq.pos < seq.clen => seq.clen = seq.pulled
      BY <1>0, <2>1, LengthAssumption DEF Good, Base, SeqRecord
    <3> QED
      BY <3>1, <3>2 DEF Good
  <2> QED
    BY <2>1, <2>2, ReturnLemma
<1>2. CASE CallFirst
  <2>1. Idle /\ \E answer : Return(FirstOf(seq).seq, answer)
    BY <1>2 DEF CallFirst
  <2> QED
    BY <2>1, <1>0, FirstLemma, ReturnLemma
<1>3. CASE CallIsEmpty
  <2>1. Idle /\ \E answer : Return(EmptyOf(seq).seq, answer)
    BY <1>3 DEF CallIsEmpty
  <2> QED
    BY <2>1, <1>0, EmptyLemma, ReturnLemma
<1>4. CASE CallIsSingleton
  <2>1. Idle /\ \E answer : Return(SingletonOf(seq).seq, answer)
    BY <1>4 DEF CallIsSingleton
  <2> QED
    BY <2>1, <1>0, SingletonLemma, ReturnLemma
<1>5. CASE CallEffectiveBooleanValue
  BY <1>5, BooleanInvariance
<1>6. CASE CallGetAllValues
  BY <1>6, StartLemma DEF CallGetAllValues
<1>7. ASSUME NEW onlyIfCheap \in BOOLEAN, CallGetLength(onlyIfCheap) PROVE SequenceInv'
  <2>1. Idle /\ ((\E answer : Return(seq, answer)) \/ StartReading("getLength"))
    BY <1>7 DEF CallGetLength
  <2> QED
    BY <2>1, <1>0, ReturnLemma, StartLemma
<1>8. CASE Read
  BY <1>8, ReadLemma
<1>9. CASE CallSwitchCases
  BY <1>9, SwitchInvariance
<1>10. CASE UNCHANGED vars
  BY <1>10 DEF vars, SequenceInv, TypeOK, CacheIsPrefix, LengthIsTrue, CursorInv
<1> QED
  BY <1>1, <1>2, <1>3, <1>4, <1>5, <1>6, <1>7, <1>8, <1>9, <1>10 DEF Next

\* The inductive invariant of a lazy sequence.
THEOREM SequenceInvariant == Spec => []SequenceInv
<1> QED
  BY InitLemma, StepLemma, PTL DEF Spec

\* TypeOK holds for every source and every set of items.
THEOREM TypeCorrect == Spec => []TypeOK
<1>1. SequenceInv => TypeOK
  BY DEF SequenceInv
<1> QED
  BY <1>1, SequenceInvariant, PTL

\* What is remembered is always a prefix of the source.
THEOREM RememberedPrefix == Spec => []CacheIsPrefix
<1>1. SequenceInv => CacheIsPrefix
  BY DEF SequenceInv
<1> QED
  BY <1>1, SequenceInvariant, PTL

\* The source is only read when the cursor is where the source is.
THEOREM CursorInStep == Spec => []PullsInStep
<1>1. SequenceInv => PullsInStep
  <2> SUFFICES ASSUME SequenceInv, status = "live" PROVE PullsInStep
    BY DEF PullsInStep
  <2>1. Servable(seq)
    BY IdleLemma, GoodIsServable
  <2> QED
    BY <2>1 DEF Servable, PullsInStep
<1> QED
  BY <1>1, SequenceInvariant, PTL

\* A known length is the number of items.
THEOREM TrueLength == Spec => []LengthIsTrue
<1>1. SequenceInv => LengthIsTrue
  BY DEF SequenceInv
<1> QED
  BY <1>1, SequenceInvariant, PTL

-----------------------------------------------------------------------------

\* A call that returns with the cursor where it was is a question of the abstract sequence.
LEMMA AskLemma ==
  ASSUME Idle, NEW t, t.pos = seq.pos, NEW answer, Return(t, answer)
  PROVE  Reader!Ask(answer)
BY DEF Reader!Ask, Return, Idle

\* A call that throws, with the cursor anywhere in the list, is a failure of the abstract sequence.
LEMMA FailLemma ==
  ASSUME Idle, SequenceInv, SequenceInv', NEW t, NEW answer, Throw(t, answer)
  PROVE  Reader!Fail(answer)
<1>1. seq'.pos \in 0 .. size
  BY LengthAssumption DEF Throw, SequenceInv, CursorInv, CacheIsPrefix, TypeOK, SeqRecord
<1> QED
  BY <1>1 DEF Reader!Fail, Throw, Idle

\* value.next delivers the item at the abstract cursor, or nothing at its end.
LEMMA NextRefines ==
  ASSUME SequenceInv, CallNext
  PROVE  Reader!Deliver \/ Reader!Exhausted
<1> DEFINE r == NextOf(seq)
<1>1. /\ Idle /\ Base(seq) /\ Servable(seq) /\ SourceOK
      /\ Return(r.seq, [op |-> "next", item |-> r.item])
  BY IdleLemma, GoodIsServable DEF CallNext, Idle
<1>2. r.item = ItemAt(seq.pos) /\ r.seq.pos = Forward(seq.pos)
  BY <1>1, NextLemma
<1>3. seq.pos \in Nat /\ seq.pos <= size /\ size \in Nat
  BY <1>1, LengthAssumption DEF Base, SeqRecord, SourceOK
<1>4. CASE seq.pos < size
  <2>1. r.item = items[seq.pos] /\ r.seq.pos = seq.pos + 1
    BY <1>2, <1>4 DEF ItemAt, Forward
  <2> QED
    BY <1>1, <1>4, <2>1 DEF Reader!Deliver, Return, Idle
<1>5. CASE seq.pos = size
  <2>1. r.item = NoValue /\ r.seq.pos = seq.pos
    BY <1>2, <1>3, <1>5 DEF ItemAt, Forward
  <2>2. Reader!Ask([op |-> "next", item |-> NoValue])
    BY <1>1, <2>1, AskLemma
  <2> QED
    BY <1>1, <1>5, <2>2 DEF Reader!Exhausted, Idle
<1> QED
  BY <1>3, <1>4, <1>5

\* first() is the abstract question for the first item.
LEMMA FirstRefines ==
  ASSUME SequenceInv, CallFirst
  PROVE  Reader!Ask([op |-> "first", item |-> Reader!First])
<1> DEFINE r == FirstOf(seq)
<1>1. Idle /\ Good(seq) /\ SourceOK /\ Return(r.seq, [op |-> "first", item |-> r.item])
  BY IdleLemma DEF CallFirst, Idle
<1>2. r.seq.pos = seq.pos /\ r.item = ItemAt(0)
  BY <1>1, FirstLemma
<1>3. ItemAt(0) = Reader!First
  BY <1>1, LengthAssumption DEF ItemAt, Reader!First, SourceOK
<1> QED
  BY <1>1, <1>2, <1>3, AskLemma

\* isEmpty() is the abstract question whether there are no items.
LEMMA EmptyRefines ==
  ASSUME SequenceInv, CallIsEmpty
  PROVE  Reader!Ask([op |-> "isEmpty", holds |-> size = 0])
<1> DEFINE r == EmptyOf(seq)
<1>1. Idle /\ Good(seq) /\ SourceOK /\ Return(r.seq, [op |-> "isEmpty", holds |-> r.holds])
  BY IdleLemma DEF CallIsEmpty, Idle
<1>2. r.seq.pos = seq.pos /\ r.holds = (size = 0)
  BY <1>1, EmptyLemma
<1> QED
  BY <1>1, <1>2, AskLemma

\* isSingleton() is the abstract question whether there is one item.
LEMMA SingletonRefines ==
  ASSUME SequenceInv, CallIsSingleton
  PROVE  Reader!Ask([op |-> "isSingleton", holds |-> size = 1])
<1> DEFINE r == SingletonOf(seq)
<1>1. Idle /\ Good(seq) /\ SourceOK /\ Return(r.seq, [op |-> "isSingleton", holds |-> r.holds])
  BY IdleLemma DEF CallIsSingleton, Idle
<1>2. r.seq.pos = seq.pos /\ r.holds = (size = 1)
  BY <1>1, SingletonLemma
<1> QED
  BY <1>1, <1>2, AskLemma

\* getEffectiveBooleanValue() answers, or refuses, by the list alone.
LEMMA BooleanRefines ==
  ASSUME SequenceInv, SequenceInv', CallEffectiveBooleanValue
  PROVE  Reader!AskBooleanValue \/ Reader!NoBooleanValue
<1> DEFINE one == Peek1(seq)
           two == Peek2(seq)
           yes(b) == [op |-> "booleanValue", holds |-> b]
           error == [op |-> "booleanValue", error |-> "FORG0006"]
<1>1. Idle /\ Good(seq) /\ SourceOK
  BY IdleLemma DEF CallEffectiveBooleanValue, Idle
<1>2. /\ one.item = ItemAt(0) /\ (size > 0 => two.item = ItemAt(1))
      /\ ResetTo(one.seq, seq.pos).pos = seq.pos
      /\ ResetTo(two.seq, seq.pos).pos = seq.pos
  BY <1>1, PeekLemma
<1>3. /\ size \in Nat
      /\ (ItemAt(0) = NoValue <=> size = 0) /\ (ItemAt(1) = NoValue <=> size <= 1)
      /\ size > 0 => ItemAt(0) = items[0] /\ items[0] \in Value
  BY <1>1, ItemLemma, LengthAssumption DEF SourceOK
<1>4. \/ one.item = NoValue /\ Return(ResetTo(one.seq, seq.pos), yes(FALSE))
      \/ one.item \in Nodes /\ Return(ResetTo(one.seq, seq.pos), yes(TRUE))
      \/ /\ one.item \notin Nodes \cup {NoValue}
         /\ two.item # NoValue
         /\ Throw(two.seq, error)
      \/ /\ one.item \notin Nodes \cup {NoValue}
         /\ two.item = NoValue
         /\ IF ValueHasBoolean(one.item)
            THEN Return(ResetTo(two.seq, seq.pos), yes(one.item \in Truthy))
            ELSE Throw(ResetTo(two.seq, seq.pos), error)
  BY Zenon DEF CallEffectiveBooleanValue
<1>5. CASE one.item = NoValue /\ Return(ResetTo(one.seq, seq.pos), yes(FALSE))
  <2>1. size = 0 /\ Reader!Ask(yes(FALSE))
    BY <1>1, <1>2, <1>3, <1>5, AskLemma
  <2> QED
    BY <2>1 DEF Reader!AskBooleanValue
<1>6. CASE one.item \in Nodes /\ Return(ResetTo(one.seq, seq.pos), yes(TRUE))
  <2>1. size > 0 /\ items[0] \in Nodes
    BY <1>2, <1>3, <1>6, NoValueAssumption, ClassAssumption
  <2>2. Reader!Ask(yes(TRUE))
    BY <1>1, <1>2, <1>6, AskLemma
  <2> QED
    BY <2>1, <2>2 DEF Reader!AskBooleanValue
<1>7. CASE /\ one.item \notin Nodes \cup {NoValue}
           /\ two.item # NoValue
           /\ Throw(two.seq, error)
  <2>1. size > 1 /\ items[0] \notin Nodes
    BY <1>2, <1>3, <1>7
  <2>2. Reader!Fail(error)
    BY <1>1, <1>7, FailLemma
  <2> QED
    BY <2>1, <2>2, <1>3 DEF Reader!NoBooleanValue
<1>8. CASE /\ one.item \notin Nodes \cup {NoValue}
           /\ two.item = NoValue
           /\ IF ValueHasBoolean(one.item)
              THEN Return(ResetTo(two.seq, seq.pos), yes(one.item \in Truthy))
              ELSE Throw(ResetTo(two.seq, seq.pos), error)
  <2>1. size = 1 /\ one.item = items[0] /\ items[0] \notin Nodes
    BY <1>2, <1>3, <1>8
  <2>2. CASE ~ ValueHasBoolean(one.item)
    <3>1. Reader!Fail(error)
      BY <1>1, <1>8, <2>2, FailLemma
    <3> QED
      BY <2>1, <2>2, <3>1 DEF Reader!NoBooleanValue, ValueHasBoolean
  <2>3. CASE one.item \in Truthy
    <3>1. ValueHasBoolean(one.item) /\ (one.item \in Truthy) = TRUE
      BY <2>3 DEF ValueHasBoolean
    <3>2. Reader!Ask(yes(TRUE))
      BY <1>1, <1>2, <1>8, <3>1, AskLemma
    <3> QED
      BY <2>1, <2>3, <3>2 DEF Reader!AskBooleanValue
  <2>4. CASE one.item \in Falsy
    <3>1. ValueHasBoolean(one.item) /\ (one.item \in Truthy) = FALSE
      BY <2>4, ClassAssumption DEF ValueHasBoolean
    <3>2. Reader!Ask(yes(FALSE))
      BY <1>1, <1>2, <1>8, <3>1, AskLemma
    <3> QED
      BY <2>1, <2>4, <3>2 DEF Reader!AskBooleanValue
  <2> QED
    BY <2>1, <2>2, <2>3, <2>4 DEF ValueHasBoolean
<1> QED
  BY <1>4, <1>5, <1>6, <1>7, <1>8

\* A loop that starts, or a turn that reads, is invisible; a refusal only comes past the two
\* items every sequence remembers.
LEMMA StartRefines ==
  ASSUME SequenceInv, SequenceInv', Idle, NEW loop \in {"getAllValues", "getLength"},
         StartReading(loop)
  PROVE  Reader!Progressed \/ UNCHANGED Reader!vars
<1>1. CASE HasProgressed(seq)
  <2>1. Throw(seq, [op |-> "progressed", error |-> "progressed"])
    BY <1>1 DEF StartReading
  <2>2. seq.pos > 2
    BY <1>1, LengthAssumption
       DEF HasProgressed, SequenceInv, CursorInv, CacheIsPrefix, TypeOK, SeqRecord
  <2>3. Reader!Fail([op |-> "progressed", error |-> "progressed"])
    BY <2>1, FailLemma
  <2> QED
    BY <2>2, <2>3 DEF Reader!Progressed, Reader!Remembered, Idle
<1>2. CASE ~ HasProgressed(seq)
  BY <1>2 DEF StartReading, Idle, Reader!vars
<1> QED
  BY <1>1, <1>2

\* getLength() answers with the size or, asked to be cheap, not at all.
LEMMA LengthRefines ==
  ASSUME SequenceInv, SequenceInv', NEW onlyIfCheap \in BOOLEAN, CallGetLength(onlyIfCheap)
  PROVE  \/ \E n \in {NotKnown, size} : Reader!Ask([op |-> "getLength", length |-> n])
         \/ Reader!Progressed \/ UNCHANGED Reader!vars
<1>1. Idle /\ seq.len \in {NotKnown, size}
  BY DEF CallGetLength, SequenceInv, LengthIsTrue, Idle
<1>2. CASE \E n \in {NotKnown, size} : Return(seq, [op |-> "getLength", length |-> n])
  BY <1>1, <1>2, AskLemma
<1>3. CASE StartReading("getLength")
  BY <1>1, <1>3, StartRefines
<1> QED
  BY <1>1, <1>2, <1>3 DEF CallGetLength

\* A turn of the loop is invisible until the last, which answers for the whole list.
LEMMA ReadRefines ==
  ASSUME SequenceInv, Read
  PROVE  \/ UNCHANGED Reader!vars
         \/ Reader!AskAll
         \/ \E n \in {NotKnown, size} : Reader!Ask([op |-> "getLength", length |-> n])
<1> DEFINE r == NextOf(seq)
<1>1. /\ SourceOK /\ Good(seq) /\ status = "live" /\ frame # "idle" /\ seq.all
      /\ seq.clen = seq.pulled
      /\ UNCHANGED <<size, items, back, status>>
  BY IdleLemma DEF Read, SequenceInv, CursorInv, TypeOK
<1>2. /\ Servable(seq) /\ size \in Nat /\ seq.pos \in Nat /\ seq.pos <= size
  BY <1>1, GoodIsServable, LengthAssumption DEF Good, Base, SourceOK, SeqRecord
<1>3. /\ Base(r.seq) /\ r.seq.clen = r.seq.pulled /\ r.item = ItemAt(seq.pos)
      /\ r.seq.pos = Forward(seq.pos) /\ (r.seq.pos = r.seq.pulled \/ seq.pos < seq.clen)
  BY <1>1, <1>2, NextLemma
<1>4. CASE r.item # NoValue
  BY <1>1, <1>4 DEF Read, Reader!vars
<1>5. CASE r.item = NoValue
  <2>1. seq.pos = size /\ r.seq.pos = size
    <3>1. seq.pos >= size
      BY <1>1, <1>2, <1>3, <1>5, ItemLemma
    <3> QED
      BY <1>2, <1>3, <3>1 DEF Forward
  <2>2. r.seq.clen = size
    BY <2>1, <1>1, <1>3, LengthAssumption DEF Base, SeqRecord, SourceOK
  <2>3. CachedValues(r.seq) = [i \in 0 .. size - 1 |-> items[i]]
    <3>1. \A i \in 0 .. size - 1 : r.seq.cached[i] = items[i]
      BY <1>1, <1>3, <2>2, LengthAssumption DEF Base, SourceOK
    <3> QED
      BY <2>2, <3>1 DEF CachedValues
  <2>4. CASE frame = "getAllValues"
    <3>1. frame' = "idle" /\ seq' = r.seq
          /\ last' = [op |-> "getAllValues", all |-> CachedValues(r.seq)]
      BY <1>5, <2>4 DEF Read
    <3> QED
      BY <1>1, <2>1, <2>3, <3>1 DEF Reader!AskAll
  <2>5. CASE frame = "getLength"
    <3>1. frame' = "idle" /\ seq' = ResetTo(r.seq, back)
          /\ last' = [op |-> "getLength", length |-> r.seq.clen]
      BY <1>5, <2>5 DEF Read
    <3>2. seq'.pos = back
      BY <3>1, <1>3 DEF ResetTo, Base, SeqRecord
    <3>3. Reader!Ask([op |-> "getLength", length |-> size])
      BY <1>1, <2>2, <3>1, <3>2 DEF Reader!Ask
    <3> QED
      BY <3>3
  <2> QED
    BY <1>1, <2>4, <2>5 DEF SequenceInv, TypeOK
<1> QED
  BY <1>4, <1>5

\* switchCases names the case that the list is in.
LEMMA SwitchRefines ==
  ASSUME SequenceInv, CallSwitchCases
  PROVE  Reader!Switch
<1> DEFINE e == EmptyOf(seq)
           d == SingletonOf(e.seq)
           probed == IF e.holds THEN e.seq ELSE d.seq
           kind == IF e.holds THEN "empty" ELSE IF d.holds THEN "singleton" ELSE "multiple"
<1>1. Good(seq) /\ SourceOK /\ Idle
  BY IdleLemma DEF Idle, CallSwitchCases
<1>2. /\ Good(probed) /\ probed.pos = seq.pos
      /\ e.holds <=> size = 0
      /\ ~ e.holds => (d.holds <=> size = 1)
  BY <1>1, SwitchLemma
<1>3. kind = Reader!KindOf
  BY <1>2 DEF Reader!KindOf
<1>4. /\ last' = [op |-> "switchCases", kind |-> kind]
      /\ \/ seq' = probed /\ UNCHANGED status
         \/ /\ \E resultLength \in 0 .. MaxLen : seq' = [probed EXCEPT !.len = resultLength]
            /\ status' = "retired"
      /\ UNCHANGED <<size, items, frame, back>>
  BY DEF CallSwitchCases
<1>5. seq'.pos = seq.pos
  <2>1. probed \in SeqRecord
    BY <1>2 DEF Good, Base
  <2> QED
    BY <1>2, <1>4, <2>1 DEF SeqRecord
<1> QED
  BY <1>1, <1>3, <1>4, <1>5 DEF Reader!Switch, Idle

\* A lazy sequence keeps the promise of SequenceReader.
THEOREM SequenceRefines == Spec => ReaderSpec
<1>1. Init => Reader!Init
  BY DEF Init, Reader!Init, New
<1>2. SequenceInv /\ SequenceInv' /\ [Next]_vars => [Reader!Next]_(Reader!vars)
  <2> SUFFICES ASSUME SequenceInv, SequenceInv', [Next]_vars
               PROVE  Reader!Next \/ UNCHANGED Reader!vars
    OBVIOUS
  <2>1. CASE CallNext
    BY <2>1, NextRefines DEF Reader!Next
  <2>2. CASE CallFirst
    BY <2>2, FirstRefines DEF Reader!Next
  <2>3. CASE CallIsEmpty
    BY <2>3, EmptyRefines DEF Reader!Next
  <2>4. CASE CallIsSingleton
    BY <2>4, SingletonRefines DEF Reader!Next
  <2>5. CASE CallEffectiveBooleanValue
    BY <2>5, BooleanRefines DEF Reader!Next
  <2>6. CASE CallGetAllValues
    BY <2>6, StartRefines DEF CallGetAllValues, Reader!Next
  <2>7. ASSUME NEW onlyIfCheap \in BOOLEAN, CallGetLength(onlyIfCheap)
        PROVE  Reader!Next \/ UNCHANGED Reader!vars
    <3>1. \A n \in {NotKnown, size} : n \in {Reader!NotKnown, size}
      BY DEF NotKnown, Reader!NotKnown
    <3> QED
      BY <2>7, <3>1, LengthRefines DEF Reader!Next
  <2>8. CASE Read
    <3>1. \A n \in {NotKnown, size} : n \in {Reader!NotKnown, size}
      BY DEF NotKnown, Reader!NotKnown
    <3> QED
      BY <2>8, <3>1, ReadRefines DEF Reader!Next
  <2>9. CASE CallSwitchCases
    BY <2>9, SwitchRefines DEF Reader!Next
  <2>10. CASE UNCHANGED vars
    BY <2>10 DEF vars, Reader!vars
  <2> QED
    BY <2>1, <2>2, <2>3, <2>4, <2>5, <2>6, <2>7, <2>8, <2>9, <2>10 DEF Next
<1> QED
  BY <1>1, <1>2, SequenceInvariant, PTL DEF Spec, ReaderSpec, Reader!Spec

-----------------------------------------------------------------------------
(***************************************************************************)
(* The views of createDoublyIterableSequence are independent, for any      *)
(* items, any number of views and any length of the source: what is saved  *)
(* is what was read, and no view is ahead of it.                           *)
(***************************************************************************)
\* What SharedInit chooses as the source is a sequence of at most MaxItems items.
LEMMA SourceType ==
  ASSUME NEW n \in 0 .. MaxItems, NEW s \in [1 .. n -> Item]
  PROVE  s \in Seq(Item) /\ Len(s) = n
  BY MaxItemsAssumption

\* An item more makes a view's deliveries one longer, and changes nothing for the other views.
LEMMA Delivered ==
  ASSUME SharedTypeOK, NEW v \in View, NEW item \in Item, DeliverTo(v, item), at[v] < MaxItems
  PROVE  /\ at' \in [View -> 0 .. MaxItems]
         /\ got' \in [View -> Seq(Item)]
         /\ at'[v] = at[v] + 1
         /\ got'[v] = Append(got[v], item)
         /\ \A w \in View \ {v} : at'[w] = at[w] /\ got'[w] = got[w]
  <1>1. got[v] \in Seq(Item) /\ at[v] \in 0 .. MaxItems
    BY DEF SharedTypeOK
  <1>2. Append(got[v], item) \in Seq(Item)
    BY <1>1
  <1>3. QED
    BY <1>1, <1>2, MaxItemsAssumption DEF SharedTypeOK, DeliverTo

\* A prefix grows by the next item of the whole.
LEMMA PrefixGrows ==
  ASSUME NEW s \in Seq(Item), NEW t \in Seq(Item), IsPrefixOf(s, t), Len(s) < Len(t)
  PROVE  IsPrefixOf(Append(s, t[Len(s) + 1]), t)
  BY DEF IsPrefixOf

\* Replaying a saved item keeps the invariant: the item is the one of the source at that place.
LEMMA ReplaySavedKeeps ==
  ASSUME SharedInv, NEW v \in View, ReplaySaved(v)
  PROVE  SharedInv'
  <1>1. /\ at[v] < Len(saved) /\ Len(saved) = pulled /\ pulled <= Len(source)
        /\ at[v] = Len(got[v]) /\ at[v] \in Nat /\ Len(source) <= MaxItems
    BY DEF ReplaySaved, SharedInv, SharedTypeOK, SavesWhatIsRead, NoHoles
  <1>2. saved[at[v] + 1] = source[at[v] + 1] /\ saved[at[v] + 1] \in Item
    BY <1>1 DEF SharedInv, SharedTypeOK, SavesWhatIsRead, IsPrefixOf
  <1>3. at[v] < MaxItems
    BY <1>1, MaxItemsAssumption DEF SharedInv, SharedTypeOK
  <1>4. /\ at' \in [View -> 0 .. MaxItems]
        /\ got' \in [View -> Seq(Item)]
        /\ at'[v] = at[v] + 1
        /\ got'[v] = Append(got[v], source[at[v] + 1])
        /\ \A w \in View \ {v} : at'[w] = at[w] /\ got'[w] = got[w]
    BY <1>2, <1>3, Delivered DEF ReplaySaved, SharedInv
  <1>5. UNCHANGED <<source, pulled, saved, made, done>>
    BY DEF ReplaySaved
  <1>6. got[v] \in Seq(Item) /\ source \in Seq(Item) /\ IsPrefixOf(got[v], source)
    BY DEF SharedInv, SharedTypeOK, ViewsAreIndependent
  <1>7. IsPrefixOf(got'[v], source)
    <2>1. Len(got[v]) < Len(source)
      BY <1>1, <1>6
    <2>2. IsPrefixOf(Append(got[v], source[Len(got[v]) + 1]), source)
      BY <2>1, <1>6, PrefixGrows
    <2>3. QED
      BY <2>2, <1>1, <1>4
  <1>8. v \notin done
    <2>1. got[v] # source
      BY <1>1, <1>6
    <2>2. QED
      BY <2>1 DEF SharedInv, DoneMeansAll
  <1>9. SharedTypeOK'
    BY <1>4, <1>5 DEF SharedInv, SharedTypeOK
  <1>10. SavesWhatIsRead'
    BY <1>5 DEF SharedInv, SavesWhatIsRead, IsPrefixOf
  <1>11. NoHoles'
    <2>1. at'[v] = Len(got'[v]) /\ at'[v] <= Len(saved)
      BY <1>1, <1>4, <1>6 DEF SharedInv, SharedTypeOK
    <2>2. QED
      BY <2>1, <1>4, <1>5 DEF SharedInv, NoHoles
  <1>12. ViewsAreIndependent'
    BY <1>4, <1>5, <1>7 DEF SharedInv, ViewsAreIndependent
  <1>13. DoneMeansAll'
    BY <1>4, <1>5, <1>8 DEF SharedInv, DoneMeansAll, SharedTypeOK
  <1>14. QED
    BY <1>9, <1>10, <1>11, <1>12, <1>13 DEF SharedInv

\* Reading the source keeps the invariant: only a view at the end of what is saved reads it.
LEMMA PullNewKeeps ==
  ASSUME SharedInv, NEW v \in View, PullNew(v)
  PROVE  SharedInv'
  <1>1. /\ at[v] = Len(saved) /\ Len(saved) = pulled /\ pulled < Len(source)
        /\ at[v] = Len(got[v]) /\ pulled \in Nat /\ Len(source) <= MaxItems
        /\ Len(source) \in Nat
    BY DEF PullNew, SharedInv, SharedTypeOK, SavesWhatIsRead, NoHoles
  <1>2. source \in Seq(Item) /\ saved \in Seq(Item) /\ IsPrefixOf(saved, source) /\ got[v] \in Seq(Item)
    BY DEF SharedInv, SharedTypeOK, SavesWhatIsRead
  <1>3. source[pulled + 1] \in Item
    BY <1>1, <1>2
  <1>4. saved' = Append(saved, source[pulled + 1])
    <2>1. saved' = [i \in 1 .. pulled + 1 |-> IF i <= pulled THEN saved[i] ELSE source[pulled + 1]]
      BY <1>1 DEF PullNew
    <2>2. QED
      BY <2>1, <1>1, <1>2, <1>3
  <1>5. /\ saved' \in Seq(Item) /\ Len(saved') = pulled + 1 /\ pulled' = pulled + 1
        /\ IsPrefixOf(saved', source)
    <2>1. IsPrefixOf(saved', source)
      BY <1>1, <1>2, <1>4, PrefixGrows
    <2>2. QED
      BY <2>1, <1>1, <1>2, <1>3, <1>4 DEF PullNew
  <1>6. /\ at' \in [View -> 0 .. MaxItems]
        /\ got' \in [View -> Seq(Item)]
        /\ at'[v] = at[v] + 1
        /\ got'[v] = Append(got[v], source[pulled + 1])
        /\ \A w \in View \ {v} : at'[w] = at[w] /\ got'[w] = got[w]
    <2>1. at[v] < MaxItems
      BY <1>1, MaxItemsAssumption
    <2>2. QED
      BY <2>1, <1>3, Delivered DEF PullNew, SharedInv
  <1>7. UNCHANGED <<source, made, done>>
    BY DEF PullNew
  <1>8. IsPrefixOf(got'[v], source)
    <2>1. IsPrefixOf(got[v], source)
      BY DEF SharedInv, ViewsAreIndependent
    <2>2. QED
      BY <2>1, <1>1, <1>2, <1>6, PrefixGrows
  <1>9. v \notin done
    <2>1. got[v] # source
      BY <1>1, <1>2
    <2>2. QED
      BY <2>1 DEF SharedInv, DoneMeansAll
  <1>10. SharedTypeOK'
    BY <1>1, <1>5, <1>6, <1>7 DEF SharedInv, SharedTypeOK
  <1>11. SavesWhatIsRead'
    BY <1>5, <1>7 DEF SavesWhatIsRead
  <1>12. NoHoles'
    <2>1. at'[v] = Len(got'[v]) /\ at'[v] <= Len(saved')
      BY <1>1, <1>2, <1>5, <1>6
    <2>2. ASSUME NEW w \in View \ {v}
          PROVE  at'[w] = Len(got'[w]) /\ at'[w] <= Len(saved')
      <3>1. at[w] = Len(got[w]) /\ at[w] <= Len(saved) /\ at[w] \in Nat
        BY DEF SharedInv, NoHoles, SharedTypeOK
      <3>2. QED
        BY <3>1, <1>1, <1>5, <1>6
    <2>3. QED
      BY <2>1, <2>2 DEF NoHoles
  <1>13. ViewsAreIndependent'
    BY <1>6, <1>7, <1>8 DEF SharedInv, ViewsAreIndependent
  <1>14. DoneMeansAll'
    BY <1>6, <1>7, <1>9 DEF SharedInv, DoneMeansAll, SharedTypeOK
  <1>15. QED
    BY <1>10, <1>11, <1>12, <1>13, <1>14 DEF SharedInv

\* A view says that it is done when it has as many items as the source: the same items.
LEMMA EndViewKeeps ==
  ASSUME SharedInv, NEW v \in View, EndView(v)
  PROVE  SharedInv'
  <1>1. /\ got[v] \in Seq(Item) /\ source \in Seq(Item) /\ IsPrefixOf(got[v], source)
        /\ Len(got[v]) = Len(source)
    BY DEF EndView, SharedInv, SharedTypeOK, SavesWhatIsRead, NoHoles, ViewsAreIndependent
  <1>2. got[v] = source
    BY <1>1 DEF IsPrefixOf
  <1>3. done' = done \cup {v} /\ v \in made /\ UNCHANGED <<source, pulled, saved, made, at, got>>
    BY DEF EndView
  <1>4. QED
    BY <1>2, <1>3 DEF SharedInv, SharedTypeOK, SavesWhatIsRead, NoHoles, ViewsAreIndependent, DoneMeansAll, IsPrefixOf

\* Making a view changes none of the others.
LEMMA MakeKeeps ==
  ASSUME SharedInv, NEW v \in View, Make(v)
  PROVE  SharedInv'
  BY DEF Make, SharedInv, SharedTypeOK, SavesWhatIsRead, NoHoles, ViewsAreIndependent, DoneMeansAll, IsPrefixOf

\* createDoublyIterableSequence: all parts of the invariant, for any number of views.
THEOREM SharedInvariant == SharedSpec => []SharedInv
  <1>1. SharedInit => SharedInv
    <2> SUFFICES ASSUME SharedInit PROVE SharedInv
      OBVIOUS
    <2>1. source \in Seq(Item) /\ Len(source) <= MaxItems
      <3>1. PICK n \in 0 .. MaxItems : source \in [1 .. n -> Item]
        BY DEF SharedInit
      <3>2. QED
        BY <3>1, SourceType, MaxItemsAssumption
    <2>2. QED
      BY <2>1, MaxItemsAssumption
      DEF SharedInit, SharedInv, SharedTypeOK, SavesWhatIsRead, NoHoles, ViewsAreIndependent, DoneMeansAll, IsPrefixOf
  <1>2. SharedInv /\ [SharedNext]_sharedVars => SharedInv'
    <2> SUFFICES ASSUME SharedInv, [SharedNext]_sharedVars PROVE SharedInv'
      OBVIOUS
    <2>1. CASE UNCHANGED sharedVars
      BY <2>1
      DEF sharedVars, SharedInv, SharedTypeOK, SavesWhatIsRead, NoHoles, ViewsAreIndependent, DoneMeansAll, IsPrefixOf
    <2>2. ASSUME NEW v \in View, Make(v) \/ ReplaySaved(v) \/ PullNew(v) \/ EndView(v)
          PROVE  SharedInv'
      BY <2>2, MakeKeeps, ReplaySavedKeeps, PullNewKeeps, EndViewKeeps
    <2>3. QED
      BY <2>1, <2>2 DEF SharedNext
  <1>3. QED
    BY <1>1, <1>2, PTL DEF SharedSpec

\* The type invariant of the shared iterable.
THEOREM SharedTypeCorrect == SharedSpec => []SharedTypeOK
  <1>1. SharedInv => SharedTypeOK
    BY DEF SharedInv
  <1>2. QED
    BY <1>1, SharedInvariant, PTL

\* Reading one view never moves, repeats or skips an item of another.
THEOREM IndependentViews == SharedSpec => []ViewsAreIndependent
  <1>1. SharedInv => ViewsAreIndependent
    BY DEF SharedInv
  <1>2. QED
    BY <1>1, SharedInvariant, PTL

\* No view ends early: one that says it is done has delivered the whole source.
THEOREM NoViewEndsEarly == SharedSpec => []DoneMeansAll
  <1>1. SharedInv => DoneMeansAll
    BY DEF SharedInv
  <1>2. QED
    BY <1>1, SharedInvariant, PTL

\* The source is never read further than the view that is the furthest: an item is pulled only for
\* a view that asks for it.
THEOREM OnDemand == SharedSpec => []ReadsOnDemand
  <1>1. SharedInit => ReadsOnDemand
    BY DEF SharedInit, ReadsOnDemand
  <1>2. SharedInv /\ ReadsOnDemand /\ [SharedNext]_sharedVars => ReadsOnDemand'
    <2> SUFFICES ASSUME SharedInv, ReadsOnDemand, [SharedNext]_sharedVars, pulled' > 0
                 PROVE  \E w \in made' : at'[w] = pulled'
      BY DEF ReadsOnDemand
    <2>1. /\ at \in [View -> 0 .. MaxItems] /\ pulled \in Nat /\ Len(saved) = pulled /\ made \subseteq View
          /\ \A w \in View : at[w] <= Len(saved)
      BY DEF SharedInv, SharedTypeOK, SavesWhatIsRead, NoHoles
    <2>2. ASSUME NEW v \in View, Make(v)
          PROVE  \E w \in made' : at'[w] = pulled'
      BY <2>2 DEF Make, ReadsOnDemand
    <2>3. ASSUME NEW v \in View, ReplaySaved(v)
          PROVE  \E w \in made' : at'[w] = pulled'
      <3>1. at[v] < pulled /\ pulled' = pulled /\ made' = made /\ at' = [at EXCEPT ![v] = @ + 1]
        BY <2>1, <2>3 DEF ReplaySaved, DeliverTo
      <3>2. PICK w \in made : at[w] = pulled
        BY <3>1 DEF ReadsOnDemand
      <3>3. w # v /\ w \in View
        BY <2>1, <3>1, <3>2
      <3>4. QED
        BY <2>1, <3>1, <3>2, <3>3
    <2>4. ASSUME NEW v \in View, PullNew(v)
          PROVE  \E w \in made' : at'[w] = pulled'
      <3>1. /\ v \in made' /\ at[v] = pulled /\ pulled' = pulled + 1
            /\ at' = [at EXCEPT ![v] = @ + 1]
        BY <2>1, <2>4 DEF PullNew, DeliverTo
      <3>2. QED
        BY <2>1, <3>1
    <2>5. ASSUME NEW v \in View, EndView(v)
          PROVE  \E w \in made' : at'[w] = pulled'
      BY <2>5 DEF EndView, ReadsOnDemand
    <2>6. CASE UNCHANGED sharedVars
      BY <2>6 DEF sharedVars, ReadsOnDemand
    <2>7. QED
      BY <2>2, <2>3, <2>4, <2>5, <2>6 DEF SharedNext
  <1>3. QED
    BY <1>1, <1>2, SharedInvariant, PTL DEF SharedSpec
=============================================================================
