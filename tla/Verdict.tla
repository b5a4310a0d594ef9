------------------------------ MODULE Verdict ------------------------------
(***************************************************************************)
(* The verdict lattice of ioppytest/test_suite/testsuite.py (class         *)
(* Verdict): six values, each with precedence over the previous ones, and  *)
(* an update that only ever makes a verdict worse.                         *)
(***************************************************************************)
EXTENDS Naturals

VerdictValues == {"none", "pass", "inconclusive", "fail", "aborted", "error"}

\* Position of a value in the tuple __values.
Rank == [v \in VerdictValues |->
           CASE v = "none" -> 0
             [] v = "pass" -> 1
             [] v = "inconclusive" -> 2
             [] v = "fail" -> 3
             [] v = "aborted" -> 4
             [] v = "error" -> 5]

\* A mutant: the new value replaces a better one only if it is strictly worse.
SupersedesStrictly(old, new) == Rank[new] > Rank[old]

\* A mutant: the latest value always wins.
SupersedesAlways(old, new) == TRUE

\* Whether update() lets the value new replace old.
Supersedes(old, new) == Rank[new] >= Rank[old]

\* What a Verdict() holds after update() was called with each member of S, in
\* whatever order: the loop of generate_testcase_report.  VerdictUpdates shows
\* that the calls one after the other compute it.
Worst(S) == CHOOSE v \in S \cup {"none"} :
              \A w \in S \cup {"none"} : Rank[v] >= Rank[w]

=============================================================================
