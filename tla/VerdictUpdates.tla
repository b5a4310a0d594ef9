-------------------------- MODULE VerdictUpdates ---------------------------
(***************************************************************************)
(* One Verdict object and the calls of its update(): the value is the      *)
(* worst one ever passed, and the message is the one of the latest call    *)
(* that passed it.                                                         *)
(***************************************************************************)
EXTENDS Verdict, Sequences

CONSTANTS Messages,   \* texts that go with a verdict
          Silent,     \* the empty message a fresh Verdict() has
          MaxUpdates  \* bound: calls of update() on one object

ASSUME MessagesAssumption == Silent \notin Messages /\ MaxUpdates \in Nat

VARIABLES value,    \* __value
          message,  \* __message
          calls     \* history: the arguments of the calls so far, in order

vars == <<value, message, calls>>

TypeOK == /\ value \in VerdictValues
          /\ message \in Messages \cup {Silent}
          /\ calls \in Seq([verdict : VerdictValues, message : Messages])

Init == value = "none" /\ message = Silent /\ calls = <<>>

Update(v, m) ==
  /\ Len(calls) < MaxUpdates
  /\ calls' = Append(calls, [verdict |-> v, message |-> m])
  /\ IF Supersedes(value, v) THEN value' = v /\ message' = m
                             ELSE UNCHANGED <<value, message>>

Next == \E v \in VerdictValues, m \in Messages : Update(v, m)

Spec == Init /\ [][Next]_vars

-----------------------------------------------------------------------------
Passed == {calls[i].verdict : i \in 1..Len(calls)}

\* The value is the worst of all the values passed to update(), whatever the
\* order of the calls (Verdict.update; class docstring of Verdict).
ValueIsWorst == value = Worst(Passed)

\* The message is that of the latest call that passed the final value: the
\* description of a report explains its verdict (generate_testcase_report).
MessageExplainsValue ==
  \/ calls = <<>> /\ message = Silent
  \/ \E i \in 1..Len(calls) :
       /\ calls[i] = [verdict |-> value, message |-> message]
       /\ \A j \in i + 1..Len(calls) : calls[j].verdict # value
=============================================================================
