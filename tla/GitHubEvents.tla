---------------------------- MODULE GitHubEvents ----------------------------
(****************************************************************************)
(* The GitHub webhook (gateway/webhook_github.go) and the development tasks *)
(* it moves (agent/github_task_queue.go, gateway/handlers_github_tasks.go), *)
(* composed with what it starts: a passing check feeds the merge queue, the *)
(* last failing one the fix loop, which bug reports feed as well.  A task   *)
(* is identified with the pull of its branch.                               *)
(****************************************************************************)
EXTENDS MergeQueue, FixLoop

CONSTANTS
  Reports,     \* bug reports, by their triggers
  Tracked,     \* pulls an agent may register a task for
  MaxFailures, \* GitHubTask.MaxRetries
  MaxBlocks,   \* no bound of the code: an operator counts no failures past it
  Advances     \* phases an operator may set by hand

Phases == {"none", "reading", "coding", "fixing", "awaiting_ci", "complete", "blocked"}

ASSUME GitHubAssumption ==
  /\ Triggers = Deliveries \cup Reports /\ Deliveries \cap Reports = {}
  /\ "ci" \in Keys /\ "none" \notin Keys /\ Tracked \subseteq Pulls /\ Advances \subseteq Phases
  /\ MaxFailures \in Nat \ {0} /\ MaxBlocks \in Nat

VARIABLES
  phase,    \* GitHubTask.Phase, "none" when no task is registered
  failures, \* GitHubTask.RetryCount
  hpc,      \* where the handler of each delivery is
  passing,  \* whether its check passed
  head      \* the pull of its check

ciVars == <<phase, failures, hpc, passing, head>>
gitHubVars == <<mergeVars, fixVars, ciVars, mishaps>>

GitHubInit ==
  /\ MergeInit /\ FixInit
  /\ phase = [p \in Pulls |-> "none"]
  /\ failures = [p \in Pulls |-> 0]
  /\ hpc = [d \in Deliveries |-> "ready"]
  /\ passing = [d \in Deliveries |-> FALSE]
  /\ head = [d \in Deliveries |-> "none"]

CIOnly == UNCHANGED <<mergeVars, fixVars, mishaps>>
On(d, point) == hpc' = [hpc EXCEPT ![d] = point]
\* The handler returns, and its locals with it.
Handled(d) ==
  /\ On(d, "end")
  /\ passing' = [passing EXCEPT ![d] = FALSE]
  /\ head' = [head EXCEPT ![d] = "none"]
Waiting(p) == phase[p] = "awaiting_ci"

\* Whether a task waits for this check is read outside the queue's lock.
CheckRun(d, p, ok) ==
  /\ hpc[d] = "ready"
  /\ IF ~ok /\ ~Waiting(p) THEN Handled(d)
     ELSE /\ On(d, IF Waiting(p) THEN "record" ELSE "gate")
          /\ passing' = [passing EXCEPT ![d] = ok]
          /\ head' = [head EXCEPT ![d] = p]
  /\ UNCHANGED <<phase, failures>> /\ CIOnly

\* RecordTestFailure on a task.
Exhausted(p) == failures[p] + 1 >= MaxFailures
Fails(p) ==
  /\ failures' = [failures EXCEPT ![p] = @ + 1]
  /\ phase' = [phase EXCEPT ![p] = IF Exhausted(p) THEN "blocked" ELSE "fixing"]

\* The task's branch of handleCheckRunEvent.  No caller records the number of
\* a task's pull, so every CI failure of a repository has one key.  Without a
\* database, the task's repository or a brief found for it nothing is started.
Record(d) ==
  /\ hpc[d] = "record"
  /\ LET p == head[d]
     IN  \/ /\ phase[p] # "none" /\ passing[d]
            /\ phase' = [phase EXCEPT ![p] = "complete"]
            /\ On(d, "gate")
            /\ UNCHANGED <<failures, fixVars, mishaps, passing, head>>
         \/ /\ phase[p] # "none" /\ ~passing[d]
            /\ Fails(p) /\ Handled(d)
            /\ UNCHANGED <<fixVars, mishaps>> \/ (Exhausted(p) /\ Trigger(d, "ci"))
  /\ UNCHANGED mergeVars

\* prHasApprovedReview asks GitHub; the handler then enqueues.
Gate(d) ==
  /\ hpc[d] = "gate" /\ Handled(d)
  /\ Deliver(d, head[d]) \/ UNCHANGED <<mergeVars, mishaps>>
  /\ UNCHANGED <<phase, failures, fixVars>>

\* The webhook of a closed pull that was merged.
PRMerged(p) ==
  /\ pulls[p] = "merged" /\ phase[p] # "none"
  /\ phase' = [phase EXCEPT ![p] = "complete"]
  /\ UNCHANGED <<failures, hpc, passing, head>> /\ CIOnly

\* gh_task_register overwrites a task that exists.
Register(p) ==
  /\ phase' = [phase EXCEPT ![p] = "reading"]
  /\ failures' = [failures EXCEPT ![p] = 0]
  /\ UNCHANGED <<hpc, passing, head>> /\ CIOnly

\* An operator advances a task, or "blocks" it, which is one more failure.
AdvanceTask(p, ph) ==
  /\ phase[p] # "none" /\ phase' = [phase EXCEPT ![p] = ph]
  /\ UNCHANGED <<failures, hpc, passing, head>> /\ CIOnly
BlockTask(p) ==
  /\ phase[p] # "none" /\ failures[p] < MaxBlocks
  /\ Fails(p)
  /\ UNCHANGED <<hpc, passing, head>> /\ CIOnly

BugReport(t, k) == Trigger(t, k) /\ UNCHANGED <<mergeVars, ciVars>>

\* A restart: tasks are kept in memory only.
Crash ==
  /\ Mishap /\ MergeCrash /\ FixCrash
  /\ phase' = [p \in Pulls |-> "none"]
  /\ failures' = [p \in Pulls |-> 0]
  /\ hpc' = [d \in Deliveries |-> IF hpc[d] = "ready" THEN "ready" ELSE "end"]
  /\ passing' = [d \in Deliveries |-> FALSE]
  /\ head' = [d \in Deliveries |-> "none"]

Handle(d) == Record(d) \/ Gate(d)
MergeStep ==
  /\ Watch \/ Elsewhere \/ \E d \in Deliveries : Queue(d)
  /\ UNCHANGED <<fixVars, ciVars>>
FixStep ==
  /\ People \/ \E t \in Triggers : Fix(t)
  /\ UNCHANGED <<mergeVars, ciVars>>
Development ==
  \E p \in Tracked :
    PRMerged(p) \/ Register(p) \/ BlockTask(p) \/ \E ph \in Advances : AdvanceTask(p, ph)

GitHubNext ==
  \/ \E d \in Deliveries : Handle(d) \/ \E p \in Pulls, ok \in BOOLEAN : CheckRun(d, p, ok)
  \/ MergeStep \/ FixStep \/ Development
  \/ \E t \in Reports, k \in Keys \ {"ci"} : BugReport(t, k)
  \/ Crash
GitHubSpec == GitHubInit /\ [][GitHubNext]_gitHubVars
=============================================================================
