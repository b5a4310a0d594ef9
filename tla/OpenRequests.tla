---------------------------- MODULE OpenRequests ---------------------------
(***************************************************************************)
(* The requests of the testing tool that wait for a user: the table        *)
(* _pending_responses of the UI adaptor's translator, with the messages    *)
(* that are on their way into it.                                          *)
(***************************************************************************)
EXTENDS Naturals, Sequences, FiniteSets

CONSTANT Requests  \* the messages that call for a user

VARIABLE open  \* open[r]: how many requests r a reply can still act on

OpenInit == open = [r \in Requests |-> 0]

Count(s, r) == Cardinality({k \in 1..Len(s) : s[k] = r})

\* The testing tool publishes the messages in s.
Ask(s) == open' = [r \in Requests |-> open[r] + Count(s, r)]

\* A mutant: the table is keyed by the kind of message, not by correlation id.
CloseAlike(r, s) ==
  /\ open[r] > 0
  /\ open' = [q \in Requests |-> (IF q.msg = r.msg THEN 0 ELSE open[q]) + Count(s, q)]

\* A reply uses a request r up, and the testing tool publishes s upon it.
Close(r, s) ==
  /\ open[r] > 0
  /\ open' = [q \in Requests |-> (IF q = r THEN open[q] - 1 ELSE open[q]) + Count(s, q)]

\* What the adaptor promises: a message that calls for a user opens a request,
\* a reply closes an open one, and nothing else opens or closes any.
OpenNext == \E r \in Requests : Ask(<<r>>) \/ Close(r, <<>>)

OpenSpec == OpenInit /\ [][OpenNext]_open
=============================================================================
