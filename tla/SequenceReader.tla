--------------------------- MODULE SequenceReader ---------------------------
(***************************************************************************)
(* What an ISequence promises to the expression that evaluates it: a       *)
(* cursor that delivers a fixed list of items in order, and questions      *)
(* about the whole list (is it empty, is it a singleton, its length, its   *)
(* effective boolean value) whose answers depend neither on the cursor nor *)
(* on the questions asked before, and that leave the cursor alone.         *)
(* The only refusals are an effective boolean value that does not exist    *)
(* and a question about the whole list once the cursor has gone past the   *)
(* two items every sequence remembers.                                     *)
(***************************************************************************)
EXTENDS Integers

CONSTANTS
  Value,      \* the items sequences are made of
  NoValue,    \* "no item": done, null
  Nodes,      \* the items whose effective boolean value is TRUE by being nodes
  Truthy,     \* the atomic items with effective boolean value TRUE
  Falsy,      \* the atomic items with effective boolean value FALSE
  MaxLen      \* bound on the length of the list

VARIABLES
  size,       \* the number of items
  items,      \* the items; those from size on do not exist
  at,         \* the cursor: the number of items delivered
  status,     \* "live", "failed" after an error, "retired" after switchCases
  last        \* the last call that returned, and its answer

vars == <<size, items, at, status, last>>

NotKnown == -1
Remembered == 2

Answers ==
  [op : {"new"}]
    \cup [op : {"next", "first"}, item : Value \cup {NoValue}]
    \cup [op : {"isEmpty", "isSingleton", "booleanValue"}, holds : BOOLEAN]
    \cup [op : {"getLength"}, length : NotKnown .. MaxLen]
    \cup [op : {"getAllValues"}, all : UNION {[0 .. n - 1 -> Value] : n \in 0 .. MaxLen}]
    \cup [op : {"switchCases"}, kind : {"empty", "singleton", "multiple"}]
    \cup [op : {"booleanValue"}, error : {"FORG0006"}]
    \cup [op : {"progressed"}, error : {"progressed"}]

Init ==
  /\ size \in 0 .. MaxLen
  /\ items \in [0 .. MaxLen - 1 -> Value]
  /\ at = 0
  /\ status = "live"
  /\ last = [op |-> "new"]

Ask(answer) ==
  /\ status = "live"
  /\ last' = answer
  /\ UNCHANGED <<size, items, at, status>>

Fail(answer) ==
  /\ status = "live"
  /\ last' = answer
  /\ status' = "failed"
  /\ at' \in 0 .. size
  /\ UNCHANGED <<size, items>>

First == IF size = 0 THEN NoValue ELSE items[0]

Deliver ==
  /\ status = "live"
  /\ at < size
  /\ last' = [op |-> "next", item |-> items[at]]
  /\ at' = at + 1
  /\ UNCHANGED <<size, items, status>>

Exhausted ==
  /\ at = size
  /\ Ask([op |-> "next", item |-> NoValue])

AskBooleanValue ==
  \/ size = 0 /\ Ask([op |-> "booleanValue", holds |-> FALSE])
  \/ size > 0 /\ items[0] \in Nodes /\ Ask([op |-> "booleanValue", holds |-> TRUE])
  \/ size = 1 /\ items[0] \in Truthy /\ Ask([op |-> "booleanValue", holds |-> TRUE])
  \/ size = 1 /\ items[0] \in Falsy /\ Ask([op |-> "booleanValue", holds |-> FALSE])

NoBooleanValue ==
  /\ size > 0 /\ items[0] \notin Nodes
  /\ size = 1 => items[0] \notin Truthy \cup Falsy
  /\ Fail([op |-> "booleanValue", error |-> "FORG0006"])

AskAll ==
  /\ status = "live"
  /\ last' = [op |-> "getAllValues", all |-> [i \in 0 .. size - 1 |-> items[i]]]
  /\ at' = size
  /\ UNCHANGED <<size, items, status>>

Progressed ==
  /\ at > Remembered
  /\ Fail([op |-> "progressed", error |-> "progressed"])

KindOf == IF size = 0 THEN "empty" ELSE IF size = 1 THEN "singleton" ELSE "multiple"

\* switchCases: the case follows from the list; the caller may give up the sequence for its result
Switch ==
  /\ status = "live"
  /\ last' = [op |-> "switchCases", kind |-> KindOf]
  /\ status' \in {"live", "retired"}
  /\ UNCHANGED <<size, items, at>>

Next ==
  \/ Deliver
  \/ Exhausted
  \/ Ask([op |-> "first", item |-> First])
  \/ Ask([op |-> "isEmpty", holds |-> size = 0])
  \/ Ask([op |-> "isSingleton", holds |-> size = 1])
  \/ \E n \in {NotKnown, size} : Ask([op |-> "getLength", length |-> n])
  \/ AskBooleanValue
  \/ NoBooleanValue
  \/ AskAll
  \/ Progressed
  \/ Switch

Spec == Init /\ [][Next]_vars
=============================================================================
