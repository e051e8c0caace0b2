----------------------------- MODULE MergeQueue -----------------------------
(****************************************************************************)
(* The merge queue of one project (gateway/merge_queue.go): a delivery of a *)
(* passing check for an approved pull request enqueues a row and then works *)
(* the queue off, one pull at a time; the watchdog frees rows whose         *)
(* processor died (gateway/recovery.go).  GitHub is modelled by what the    *)
(* processor can see of it.                                                 *)
(*                                                                          *)
(* A step is one statement, transaction or call.  "Slip" marks a plausible  *)
(* mistake in the definition that follows, for the mutation runs.           *)
(****************************************************************************)
EXTENDS Naturals, Sequences, Mishaps

CONSTANTS
  Pulls,
  Deliveries    \* webhook deliveries, each with the goroutine it starts

ASSUME MergeAssumption == "none" \notin Pulls

VARIABLES
  rows,    \* merge_queue by created_at: pull, status, and whether updated_at
           \* is more than five minutes ago
  pulls,   \* GitHub: each pull is "open", "conflicting" or "merged"
  workers, \* rows a conflict task was created for
  pc,      \* where each delivery is
  pull,    \* its pull
  row,     \* the row it has claimed, 0 for none
  answer   \* what GitHub answered

mergeVars == <<rows, pulls, workers, pc, pull, row, answer>>
-----------------------------------------------------------------------------
Active == {"queued", "merging"}
Settled == {"merged", "conflict", "failed"}
\* tasks_status_check, which no migration widens.
TaskStatuses == {"backlog", "assigned", "in_progress", "review", "done", "blocked",
                 "cancelled"}

Rows(S) == {i \in DOMAIN rows : rows[i].status \in S}
Oldest(i) == \A j \in Rows({"queued"}) : i <= j
Holds(d, i) == row[d] = i /\ pc[d] \in {"put", "settle"}
NewRow(p) == [pull |-> p, status |-> "queued", old |-> FALSE]
SetRow(i, s) == rows' = [rows EXCEPT ![i].status = s, ![i].old = FALSE]
Goes(d, point) == pc' = [pc EXCEPT ![d] = point]
Takes(d, i) == row' = [row EXCEPT ![d] = i]
\* enqueueMerge returns, to where the queue is processed or not.
Enqueued(d, point) == Goes(d, point) /\ pull' = [pull EXCEPT ![d] = "none"]

MergeInit ==
  /\ rows = <<>>
  /\ pulls = [p \in Pulls |-> "open"]
  /\ workers = {}
  /\ pc = [d \in Deliveries |-> "ready"]
  /\ pull = [d \in Deliveries |-> "none"]
  /\ row = [d \in Deliveries |-> 0]
  /\ answer = [d \in Deliveries |-> "none"]
  /\ mishaps = 0

\* The gate of handleCheckRunEvent is passed.
Deliver(d, p) ==
  /\ pc[d] = "ready"
  /\ pull' = [pull EXCEPT ![d] = p]
  /\ Goes(d, "count")
  /\ UNCHANGED <<rows, pulls, workers, row, answer, mishaps>>

\* enqueueMerge, its first statement: an error counts as none.
Count(d) ==
  /\ pc[d] = "count"
  /\ LET found == \E i \in Rows(Active) : rows[i].pull = pull[d]
     IN  \/ found /\ Enqueued(d, "claim") /\ Fine
         \/ ~found /\ Goes(d, "insert") /\ UNCHANGED pull /\ Fine
         \/ Goes(d, "insert") /\ UNCHANGED pull /\ Mishap
  /\ UNCHANGED <<rows, pulls, workers, row, answer>>

\* Its second: after an error the queue is not processed.
Insert(d) ==
  /\ pc[d] = "insert"
  /\ \/ /\ rows' = Append(rows, NewRow(pull[d]))
        /\ Enqueued(d, "claim") /\ Fine
     \/ Enqueued(d, "end") /\ Mishap /\ UNCHANGED rows
  /\ UNCHANGED <<pulls, workers, row, answer>>

\* One transaction under the advisory lock.  Slip: any queued row is claimed.
ClaimAny(d) ==
  /\ pc[d] = "claim"
  /\ \/ /\ \E i \in Rows({"queued"}) : Oldest(i) /\ SetRow(i, "merging") /\ Takes(d, i)
        /\ Goes(d, "put")
     \/ Rows({"queued"}) = {} /\ Goes(d, "end") /\ UNCHANGED <<rows, row>>
  /\ UNCHANGED <<pulls, workers, pull, answer, mishaps>>
Claim(d) ==
  /\ pc[d] = "claim"
  /\ \/ /\ Rows({"merging"}) = {}
        /\ \E i \in Rows({"queued"}) : Oldest(i) /\ SetRow(i, "merging") /\ Takes(d, i)
        /\ Goes(d, "put") /\ Fine
     \/ /\ Rows({"queued"}) = {} \/ Rows({"merging"}) # {}
        /\ Goes(d, "end") /\ UNCHANGED <<rows, row>> /\ Fine
     \/ Goes(d, "end") /\ UNCHANGED <<rows, row>> /\ Mishap
  /\ UNCHANGED <<pulls, workers, pull, answer>>

\* GitHub merges p, which may put other open pulls in conflict.
Merge(p) ==
  \E C \in SUBSET {q \in Pulls \ {p} : pulls[q] = "open"} :
    /\ pulls' = [q \in Pulls |-> IF q = p THEN "merged"
                                 ELSE IF q \in C THEN "conflicting" ELSE pulls[q]]

\* doGitHubMerge.  GitHub answers 405 or 409 for whatever it will not merge now
\* (a conflict, a draft, pending checks, a base that moved), and says "already
\* merged" of a pull that is.  A lost answer reads as an error although GitHub
\* merged; one whose body cannot be read is a bare 405.
Put(d) ==
  /\ pc[d] = "put"
  /\ LET p == rows[row[d]].pull
         Answer(a) == answer' = [answer EXCEPT ![d] = a]
     IN  \/ pulls[p] = "open" /\ Merge(p) /\ Answer("ok") /\ Fine
         \/ pulls[p] = "open" /\ Merge(p) /\ Answer("error") /\ Mishap
         \/ pulls[p] # "merged" /\ Answer("refused") /\ UNCHANGED pulls /\ Fine
         \/ pulls[p] = "merged" /\ Answer("already") /\ UNCHANGED pulls /\ Fine
         \/ pulls[p] = "merged" /\ Answer("refused") /\ UNCHANGED pulls /\ Mishap
         \/ Answer("error") /\ UNCHANGED pulls /\ Mishap
  /\ Goes(d, "settle")
  /\ UNCHANGED <<rows, workers, pull, row>>

\* Slips: every 405 is a conflict; every 405 is a merge.
OutcomeNoAlready(a) ==
  CASE a = "ok" -> "merged" [] a \in {"already", "refused"} -> "conflict" [] OTHER -> "failed"
OutcomeNoConflict(a) ==
  CASE a \in {"ok", "already", "refused"} -> "merged" [] OTHER -> "failed"
Outcome(a) ==
  CASE a \in {"ok", "already"} -> "merged" [] a = "refused" -> "conflict" [] OTHER -> "failed"

\* The row's last update, whose error is dropped.  Slip: one row is enough.
SettleOnce(d) ==
  /\ pc[d] = "settle"
  /\ SetRow(row[d], Outcome(answer[d]))
  /\ Goes(d, "end") /\ Takes(d, 0)
  /\ answer' = [answer EXCEPT ![d] = "none"]
  /\ UNCHANGED <<pulls, workers, pull, mishaps>>
Settle(d) ==
  /\ pc[d] = "settle"
  /\ \/ SetRow(row[d], Outcome(answer[d])) /\ Fine
     \/ Mishap /\ UNCHANGED rows
  /\ IF Outcome(answer[d]) = "conflict" THEN Goes(d, "worker") /\ UNCHANGED row
     ELSE Goes(d, "claim") /\ Takes(d, 0)
  /\ answer' = [answer EXCEPT ![d] = "none"]
  /\ UNCHANGED <<pulls, workers, pull>>

\* dispatchConflictWorker inserts a task of status 'pending'.
DispatchConflictWorker(d) ==
  /\ pc[d] = "worker"
  /\ workers' = IF "pending" \in TaskStatuses THEN workers \cup {row[d]} ELSE workers
  /\ Goes(d, "claim") /\ Takes(d, 0)
  /\ UNCHANGED <<rows, pulls, pull, answer, mishaps>>
-----------------------------------------------------------------------------
(* Time, the watchdog, and what happens at GitHub. *)

\* Five minutes pass only for a row whose processor is gone: a live one
\* settles it after a call of twenty seconds at most.
Age(i) ==
  /\ rows[i].status = "merging" /\ ~rows[i].old
  /\ \A d \in Deliveries : ~Holds(d, i)
  /\ rows' = [rows EXCEPT ![i].old = TRUE]
  /\ UNCHANGED <<pulls, workers, pc, pull, row, answer, mishaps>>

\* recoverStuckMerges; it starts no processor.  Slip: a row is freed only when
\* no other waits.
RecoverIdle ==
  /\ Rows({"queued"}) = {} /\ \E i \in Rows({"merging"}) : rows[i].old
  /\ rows' = [i \in DOMAIN rows |->
       IF rows[i].old THEN [rows[i] EXCEPT !.status = "queued", !.old = FALSE] ELSE rows[i]]
  /\ UNCHANGED <<pulls, workers, pc, pull, row, answer, mishaps>>
RecoverStuckMerges ==
  /\ \E i \in Rows({"merging"}) : rows[i].old
  /\ rows' = [i \in DOMAIN rows |->
       IF rows[i].status = "merging" /\ rows[i].old
       THEN [rows[i] EXCEPT !.status = "queued", !.old = FALSE] ELSE rows[i]]
  /\ UNCHANGED <<pulls, workers, pc, pull, row, answer, mishaps>>

\* The rows stay, the goroutines are gone.
MergeCrash ==
  /\ pc' = [d \in Deliveries |-> IF pc[d] = "ready" THEN "ready" ELSE "end"]
  /\ pull' = [d \in Deliveries |-> "none"]
  /\ row' = [d \in Deliveries |-> 0]
  /\ answer' = [d \in Deliveries |-> "none"]
  /\ UNCHANGED <<rows, pulls, workers>>

\* A pull merged by hand or by an agent, and a conflict resolved.
MergedElsewhere(p) ==
  /\ pulls[p] = "open" /\ Merge(p)
  /\ UNCHANGED <<rows, workers, pc, pull, row, answer, mishaps>>
Resolved(p) ==
  /\ pulls[p] = "conflicting"
  /\ pulls' = [pulls EXCEPT ![p] = "open"]
  /\ UNCHANGED <<rows, workers, pc, pull, row, answer, mishaps>>

Process(d) == Claim(d) \/ Put(d) \/ Settle(d) \/ DispatchConflictWorker(d)
Queue(d) == Count(d) \/ Insert(d) \/ Process(d)
Watch == RecoverStuckMerges \/ \E i \in DOMAIN rows : Age(i)
Elsewhere == \E p \in Pulls : MergedElsewhere(p) \/ Resolved(p)
MergeNext ==
  \/ \E d \in Deliveries : Queue(d) \/ \E p \in Pulls : Deliver(d, p)
  \/ Watch \/ Elsewhere
  \/ Mishap /\ MergeCrash
mergeQueueVars == <<mergeVars, mishaps>>
MergeSpec == MergeInit /\ [][MergeNext]_mergeQueueVars

\* Goroutines run, time passes and the watchdog ticks; GitHub and people owe
\* nothing.
MergeFairSpec ==
  /\ MergeSpec
  /\ \A d \in Deliveries : WF_mergeQueueVars(Queue(d))
  /\ WF_mergeQueueVars(Watch)
=============================================================================
