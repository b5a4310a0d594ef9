---------------------------- MODULE VerdictProofs --------------------------
(***************************************************************************)
(* Theorems about VerdictUpdates, for any number of calls of update().     *)
(***************************************************************************)
EXTENDS VerdictUpdates, SequenceTheorems, TLAPS

LEMMA RankIsTotal ==
  /\ \A v \in VerdictValues : Rank[v] \in 0..5
  /\ \A v, w \in VerdictValues : Rank[v] = Rank[w] => v = w
  /\ \A v \in VerdictValues : Rank["none"] <= Rank[v]
BY DEF Rank, VerdictValues

\* v is a member of S, or none, and no member is worse.
IsWorst(v, S) == v \in S \cup {"none"} /\ \A w \in S \cup {"none"} : Supersedes(w, v)

\* There is only one such verdict: what the calls of update() arrive at is what
\* the operator Worst, which the coordinator uses, stands for.
LEMMA WorstIsUnique ==
  ASSUME NEW S \in SUBSET VerdictValues, NEW v, IsWorst(v, S)
  PROVE  v = Worst(S)
<1>1. \A w \in S \cup {"none"} : Rank[v] >= Rank[w]
  BY DEF IsWorst, Supersedes
<1>2. /\ Worst(S) \in S \cup {"none"}
      /\ \A w \in S \cup {"none"} : Rank[Worst(S)] >= Rank[w]
  BY <1>1 DEF IsWorst, Worst
<1>3. v \in VerdictValues /\ Worst(S) \in VerdictValues
  BY <1>2 DEF IsWorst, VerdictValues
<1>4. Rank[v] = Rank[Worst(S)]
  BY <1>1, <1>2, <1>3, RankIsTotal DEF IsWorst
<1>5. QED
  BY <1>3, <1>4, RankIsTotal

LEMMA PassedType == TypeOK => Passed \subseteq VerdictValues
<1> SUFFICES ASSUME TypeOK, NEW i \in 1..Len(calls) PROVE calls[i].verdict \in VerdictValues
  BY DEF Passed
<1>1. calls[i] \in [verdict : VerdictValues, message : Messages]
  BY ElementOfSeq DEF TypeOK
<1>2. QED
  BY <1>1

\* The inductive invariant.  The message part rests on the value part, and that
\* one on there being a worst value among those passed.
UpdatesInv == TypeOK /\ IsWorst(value, Passed) /\ MessageExplainsValue

LEMMA UpdatesInit == Init => UpdatesInv
<1> SUFFICES ASSUME Init PROVE UpdatesInv
  OBVIOUS
<1>1. TypeOK /\ MessageExplainsValue
  BY DEF Init, TypeOK, MessageExplainsValue, VerdictValues
<1>2. Passed = {}
  BY DEF Init, Passed
<1>3. QED
  BY <1>1, <1>2 DEF Init, UpdatesInv, IsWorst, Supersedes, Rank, VerdictValues

LEMMA UpdatesStep == UpdatesInv /\ [Next]_vars => UpdatesInv'
<1> SUFFICES ASSUME UpdatesInv, [Next]_vars PROVE UpdatesInv'
  OBVIOUS
<1>1. CASE UNCHANGED vars
  BY <1>1 DEF vars, UpdatesInv, TypeOK, IsWorst, MessageExplainsValue, Passed
<1>2. ASSUME NEW v \in VerdictValues, NEW m \in Messages, Update(v, m) PROVE UpdatesInv'
  <2> DEFINE call == [verdict |-> v, message |-> m]
             n == Len(calls)
  <2>1. /\ calls' = Append(calls, call)
        /\ Supersedes(value, v) => value' = v /\ message' = m
        /\ ~Supersedes(value, v) => UNCHANGED <<value, message>>
    BY <1>2 DEF Update
  <2>2. /\ n \in Nat
        /\ calls \in Seq([verdict : VerdictValues, message : Messages])
        /\ value \in VerdictValues
    BY DEF UpdatesInv, TypeOK
  <2>3. /\ Len(calls') = n + 1
        /\ \A i \in 1..n : calls'[i] = calls[i]
        /\ calls'[n + 1] = call
        /\ calls' \in Seq([verdict : VerdictValues, message : Messages])
    BY <2>1, <2>2
  <2>4. TypeOK'
    BY <2>1, <2>3 DEF UpdatesInv, TypeOK
  <2>5. Passed' = Passed \cup {v}
    <3>1. 1..(n + 1) = (1..n) \cup {n + 1}
      BY <2>2
    <3>2. QED
      BY <2>3, <3>1 DEF Passed
  <2>6. Passed \subseteq VerdictValues
    BY PassedType DEF UpdatesInv
  <2>7. /\ value \in Passed \cup {"none"}
        /\ \A w \in Passed \cup {"none"} : Supersedes(w, value)
    BY DEF UpdatesInv, IsWorst
  <2>8. /\ value' \in Passed' \cup {"none"}
        /\ \A w \in Passed' \cup {"none"} : Supersedes(w, value')
    <3>1. \A w \in Passed \cup {"none", v} : w \in VerdictValues /\ Rank[w] \in 0..5
      BY <2>6, RankIsTotal DEF VerdictValues
    <3>2. CASE Supersedes(value, v)
      BY <2>1, <2>2, <2>5, <2>7, <3>1, <3>2, RankIsTotal DEF Supersedes
    <3>3. CASE ~Supersedes(value, v)
      BY <2>1, <2>2, <2>5, <2>7, <3>1, <3>3, RankIsTotal DEF Supersedes
    <3>4. QED
      BY <3>2, <3>3
  <2>9. IsWorst(value', Passed')
    BY <2>8 DEF IsWorst
  <2>10. MessageExplainsValue'
    <3>1. CASE Supersedes(value, v)
      <4>1. calls'[n + 1] = [verdict |-> value', message |-> message']
        BY <2>1, <2>3, <3>1
      <4>2. n + 1 \in 1..Len(calls') /\ (n + 2)..Len(calls') = {}
        BY <2>2, <2>3
      <4>3. QED
        BY <2>2, <4>1, <4>2 DEF MessageExplainsValue
    <3>2. CASE ~Supersedes(value, v)
      <4>1. value' = value /\ message' = message /\ v # value
        BY <2>1, <2>2, <3>2, RankIsTotal DEF Supersedes
      <4>2. calls # <<>>
        <5>1. SUFFICES ASSUME calls = <<>> PROVE FALSE
          OBVIOUS
        <5>2. Passed = {}
          BY <5>1 DEF Passed
        <5>3. value = "none"
          BY <2>7, <5>2
        <5>4. QED
          BY <3>2, <5>3, RankIsTotal DEF Supersedes
      <4>3. PICK i \in 1..n : /\ calls[i] = [verdict |-> value, message |-> message]
                              /\ \A j \in i + 1..n : calls[j].verdict # value
        BY <4>2 DEF UpdatesInv, MessageExplainsValue
      <4>4. i \in 1..Len(calls') /\ calls'[i] = [verdict |-> value', message |-> message']
        BY <2>2, <2>3, <4>1, <4>3
      <4>5. \A j \in i + 1..Len(calls') : calls'[j].verdict # value'
        <5>1. ASSUME NEW j \in i + 1..Len(calls') PROVE j \in i + 1..n \/ j = n + 1
          BY <2>2, <2>3
        <5>2. \A j \in i + 1..n : calls'[j] = calls[j]
          BY <2>2, <2>3
        <5>3. calls'[n + 1].verdict = v
          BY <2>3
        <5>4. QED
          BY <4>1, <4>3, <5>1, <5>2, <5>3
      <4>6. QED
        BY <4>4, <4>5 DEF MessageExplainsValue
    <3>3. QED
      BY <3>1, <3>2
  <2>11. QED
    BY <2>4, <2>9, <2>10 DEF UpdatesInv
<1>3. QED
  BY <1>1, <1>2 DEF Next

LEMMA UpdatesInvHolds == Spec => []UpdatesInv
BY UpdatesInit, UpdatesStep, PTL DEF Spec

\* Whatever the calls of update() and their order, a verdict is the worst value
\* passed to it.
THEOREM UpdatesAreMonotone == Spec => []ValueIsWorst
<1>1. UpdatesInv => ValueIsWorst
  <2> SUFFICES ASSUME UpdatesInv PROVE value = Worst(Passed)
    BY DEF ValueIsWorst
  <2>1. Passed \in SUBSET VerdictValues
    BY PassedType DEF UpdatesInv
  <2>2. QED
    BY <2>1, WorstIsUnique DEF UpdatesInv
<1>2. QED
  BY <1>1, UpdatesInvHolds, PTL

\* The message of a verdict belongs to the latest call that passed its value, so
\* that the description of a report explains its verdict.
THEOREM MessagesExplainVerdicts == Spec => []MessageExplainsValue
<1>1. UpdatesInv => MessageExplainsValue
  BY DEF UpdatesInv
<1>2. QED
  BY <1>1, UpdatesInvHolds, PTL
=============================================================================
