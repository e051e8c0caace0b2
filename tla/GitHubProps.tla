---------------------------- MODULE GitHubProps ----------------------------
(***************************************************************************)
(* What the webhook and the fix loop it feeds promise.                     *)
(***************************************************************************)
EXTENDS GitHubEvents, MergeQueueProps

\* Rows, tasks and goroutines hold what the code can store in them; past the
\* search a trigger has an issue.
FixTypeOK ==
  /\ keyOf \in [Issues -> Keys \cup {"none"}]
  /\ open \subseteq Issues
  /\ fix \in [Triggers -> [issue : {0} \cup Issues, attempt : Nat]]
  /\ at \in [Triggers -> {"idle", "find", "open", "count", "create", "stamp", "escalate", "end"}]
  /\ about \in [Triggers -> Keys \cup {"none"}]
  /\ issue \in [Triggers -> {0} \cup Issues]
  /\ attempt \in [Triggers -> Nat]
  /\ paused \in BOOLEAN /\ blind \in Nat /\ short \in Nat
  /\ \A t \in Triggers :
       /\ Running(t) => about[t] \in Keys
       /\ at[t] \in {"count", "create", "stamp", "escalate"} => issue[t] \in Issues
CITypeOK ==
  /\ phase \in [Pulls -> Phases] /\ failures \in [Pulls -> Nat]
  /\ hpc \in [Deliveries -> {"ready", "record", "gate", "end"}]
  /\ passing \in [Deliveries -> BOOLEAN] /\ head \in [Deliveries -> Pulls \cup {"none"}]
  /\ \A d \in Deliveries : hpc[d] \in {"record", "gate"} => head[d] \in Pulls
TypeOK == QueueTypeOK /\ FixTypeOK /\ CITypeOK

\* No fix task carries an attempt at the cap, however triggers interleave and
\* whatever fails.
AttemptsCapped == FixAttemptCap > 0 => \A t \in Triggers : fix[t].attempt < FixAttemptCap

\* An issue gets fewer fix tasks than the cap, but for one with each failure and
\* one with each count made while another trigger's fix was in the making.
FixesBounded ==
  FixAttemptCap > 0 =>
    \A n \in Issues : Cardinality(FixesOf(n)) < FixAttemptCap + short + mishaps

\* A key has one open issue, and one more with each failure and each search that
\* ran while an issue was being opened or missed one off the page.
IssuesOf(k) == {n \in open : keyOf[n] = k}
OneIssuePerKey == \A k \in Keys : Cardinality(IssuesOf(k)) <= 1 + blind + mishaps
=============================================================================
