# A TLA+ verification of Qorven's control plane

Qorven is a self-hosted workspace of AI agents. Its gateway (Go, `src/backend`)
keeps plans, approvals, tasks, merges and permissions in PostgreSQL and runs
agents in goroutines of its own. Most of what can go wrong lies between those
goroutines: two of them working on the same rows, a restart between two
statements, an answer that comes after the timer. This directory holds TLA+
specifications of the parts where that matters most, the configurations with
which TLC checks them, and proofs checked by TLAPS.

Five parts are modelled: the **plan graph** with its approvals and its recovery
sweeper; the **permission gate** with the governance holds built on it; the
**task runtime**, which runs agents on tasks and puts their results together;
the **GitHub loop**, in which the webhook feeds a merge queue and a fix loop;
and the **cancellation of sessions**. The rest of this file says what the
system consists of, what is modelled and how, what is checked and proved, and
what is left out.

Paths below are relative to `src/backend/internal` unless they start with `src/`.

## 1. Inventory

| Component | State it keeps | Operations | What it talks to | What is hard |
|---|---|---|---|---|
| Plan runtime (`orchestrator/graph`, `orchestrator/handlers`, `orchestrator/service.go`) | `plans.status`, `plan_nodes.state`, artifacts; per run: a snapshot, hops, paused nodes | `ExecutePlan`, `Run`, the handlers planner, human_feedback, agent_task | stores, agent loop | any number of runs of one plan at once, stale snapshots, restarts in the middle of a node |
| Plan and approval stores (`plans`, `approvals`) | plan, node, edge and approval rows; transition tables | `UpdatePlanStatus`, `UpdateNodeState`, `ArchivePlan`, `Request`, `Resolve` | PostgreSQL | check-then-insert, unique constraints as the last defence, idempotence |
| Plan endpoints (`gateway/plan_handlers.go`, `gateway/project_handlers.go`) | `wakeup_requests`, the project's build phase | build a project, approve, reject, revise a plan, archive | runtime, stores | several statements without a transaction, work handed to a goroutine |
| Recovery sweeper (`orchestrator/sweeper.go`) | attempts, consumed and dead-lettered wakeups | collect candidates, resume one | runtime, wakeups | overlaps healthy runs, retry budget, wakeups queued meanwhile |
| Sweeper manager (`orchestrator/sweeper_manager.go`) | one sweeper per active tenant | reconcile | sweepers | tenants becoming idle while work arrives |
| Permission gate (`permissions`) | `permission_requests`, `permission_policies`; in memory: reply channels and transient grants | `Request`, `NewPending` and its wait, `Reply`, policies | agent tools, reply endpoint | timer against reply, two replies, restart with callers gone |
| Governance holds (`governance/approval.go`, `gateway/governance_wire.go`, `gateway/handlers_governance.go`) | `approval_requests` | `RequestApproval`, `Decide` | gate | two rows, two endpoints, no transaction across them |
| Task runtime (`agent/runtime.go`, `gateway/task_worker.go`, `gateway/task_coordinator.go`, `gateway/recovery.go`, `tasks`) | `tasks` rows with status, lease, iteration count, synthesis mark; per agent: a queue of wakeups, a state, a resume token | run an iteration, the agent's lifecycle tools, delegate, synthesise, recover, pause, cancel, suspend, wake | agent loop, people | stale decisions written late, leases, wakeups lost in a full queue, two siblings finishing at once |
| Merge queue (`gateway/merge_queue.go`) | `merge_queue` rows | enqueue, claim, merge, settle, recover | GitHub | a lost answer, rows stranded by a restart |
| Fix loop (`gateway/fix_loop.go`) | stamps on `tasks`, issues at GitHub, a paused project | find or open the issue, count attempts, make a fix task, escalate | GitHub, tasks | check-then-create twice over, errors read as "none" |
| GitHub events and development tasks (`gateway/webhook_github.go`, `agent/github_task_queue.go`, `gateway/handlers_github_tasks.go`) | development tasks in memory: phase, failures | check results, merged pulls, registering, advancing | merge queue, fix loop | state read outside the lock, redelivery, a restart that forgets the tasks |
| Session cancellation (`api/sessioncancel`, `gateway/protocol.go`) | the active run of each session | register, cancel, release, report | agent loop | preemption gives up the lock half-way, tags written after the swap |
| Scheduler (`scheduler`, `gateway/scheduler_bridge.go`) | lanes of slots, session queues | `Schedule`, `Enqueue`, `tryStart` | agent loop | constructed only in tests |
| Cron (`cron`) | `cron_jobs` | tick, run, restart a job | agents | claimed before run, edited while running |
| Team tasks (`teams`), bus and debounce (`bus`, `gateway/consumer.go`), sub-agents and delegation (`subagent`, `delegation`, `rooms`), heartbeat and workflows | rows and in-memory buffers | life cycle, grouping, limits, ticks | agents, channels | unguarded updates, timers |
| Agent loop, supervisor, model gateway, streaming, drafts, memory, channels, tools, user interfaces | sessions, caches, pools | one turn, routing, fan-out | providers, browsers, messengers | mostly I/O and text |

`PROJECT.json` lists each with its source files and status, and under `hazards`
each place where this code is hard to test, with the properties that cover it.

What makes each core component correct:

- *Plans*: an agent works only behind gates a reviewer approved; the verdict
  that opens a gate is one a reviewer gave and is never changed; a finished node
  stays finished and a plan is done only when all its nodes are; work is not
  repeated; an approved plan comes to an end even across a restart.
- *Sweeper*: every wakeup is consumed or given up on, and given up on only when
  its budget is used; a wakeup is dealt with once.
- *Gate*: a prompted call runs only if its row is allowed; an answer is final;
  every call ends although nobody answers; what outlives a call was granted by
  an accepted answer; a blocked agent stays blocked, as far as the look for its
  policy succeeds.
- *Holds*: an answer given to a hold reaches its caller, and only once.
- *Task runtime*: a parent is synthesised once its subtasks are done, and only
  once; iteration caps hold across retries and restarts, but for increments the
  database refuses; a task whose worker
  dies is taken up again, a task whose worker lives is not; a suspended agent
  can always be resumed; no wakeup is lost on its own.
- *Merge queue*: one merge at a time; a row tells the truth about GitHub; no row
  is passed over, none blocks the queue.
- *Fix loop*: a failure has one issue and a bounded number of fix tasks, and
  each exception has its cause.
- *GitHub events*: what they feed, the merge queue and the fix loop, keeps its
  promises under any order of deliveries.
- *Sessions*: an abort reaches the turn that runs, is answered truthfully, and
  nothing outlives its turn in the registry.

## 2. Modules

| Module | What it is |
|---|---|
| `PlanStates` | statuses, states and the two transition tables of `plans/types.go` and `approvals/types.go` |
| `PlanGraph` | one plan, its rows, and the builders, resolvers and sweepers that drive it |
| `PlanContract` | the abstract specification: what a plan promises its reviewer |
| `PlanGraphProps` | the properties of `PlanGraph`, and the mapping to `PlanContract` |
| `MCPlanGraph` | the graphs TLC checks |
| `PlanGraphProofs` | proof of the type invariant |
| `PlanGraphSafety` | the inductive invariant, the safety theorems and the refinement |
| `PlanGraphApart` | what holds of one sweeper (the retry budget) and as long as no two runs hold the same node |
| `PermissionGate` | tool calls, holds, replies, decisions and policies for one tool |
| `GateContract` | the abstract specification: what the gate promises whoever answers it |
| `PermissionGateProps` | its properties, and the mapping to `GateContract` |
| `MCPermissionGate` | the calls, agents and users TLC checks |
| `PermissionGateProofs` | its inductive invariant and theorems |
| `TaskRuntime` | tasks, the goroutine of each agent, the coordinator, both recoveries and the requests of people |
| `TaskRuntimeProps`, `MCTaskRuntime`, `TaskRuntimeProofs` | its properties, instances, and theorems |
| `Mishaps` | one bounded count of restarts, refused statements and lost answers; `PlanGraph`, `PermissionGate`, `MergeQueue` and `FixLoop` extend it |
| `MergeQueue` | the merge queue of one project, with GitHub as its answers show it |
| `MergeQueueProps`, `MCMergeQueue`, `MergeQueueProofs` | its properties, instances, and theorems |
| `FixLoop` | `triggerFixLoop` and the issues and tasks it makes |
| `GitHubEvents` | the webhook and the development tasks, composed with `MergeQueue` and `FixLoop` |
| `GitHubProps`, `MCGitHub`, `GitHubProofs` | properties of the composition, an instance, and theorems |
| `SessionCancel` | the registry of cancel functions and the turns of a session |
| `SessionCancelProps`, `MCSessionCancel`, `SessionCancelProofs` | its properties, instances, and theorems |

### The plan graph

A step is one call to the database, because that is what two goroutines can
interleave at; whatever a transaction does is one step. The variables
`planStatus`, `nodeState`, `artifact`, `approvals` and `wakeups` are the rows;
`recent` stands for `updated_at` against the sweeper's stale window (the plan's
own row was written within it, or only a node's, or neither); `agentRuns` counts
the agent turns a node got; `buildPhase` is what the project page shows. Each
process has a program counter and the locals of the Go function it is in: the
snapshot still to be visited (`todo`), the node (`cur`), the nodes that paused,
the hops, and the approval row and verdict it carries.

- A *builder* is `proceedToBuild` after POST `/projects/{id}/approve`.
- A *resolver* is `resolvePlanApproval`: `Pick` reads the pending approval,
  `Resolve` is `approvals.Resolve`, `Wakeup` queues the row and turns into a run.
- A *sweeper* is `Sweeper.Run`: `Collect`, `CountAttempt`, `CheckBudget`,
  `DeadLetter`, `CheckPlan`, a run, `Consume`.
- A *run* is `Runtime.Run`: `Load`, `Start`, `List` (the snapshot and
  `selectRunnable`), then for each node `Begin`, the handler (`Exec` and
  `AgentReturns`, or `Request`, `Insert`, `Get`), `Block`, `Done` or `Fail`, and
  `Settle` and `Close` at the end. As in the code, an illegal move of a node
  or plan writes nothing; `Begin` ignores that and goes on, `Done` returns.

Nothing in the code keeps two runs of a plan apart, so nothing in the model
does, except the constant `Overlap`: with `FALSE` a run starts only when none is
in flight, which separates what goes wrong by itself from what goes wrong
through overlap. `Events` says which faults may happen: an agent's error, inputs
that do not decode, a database error in a handler, a run cut off by its deadline
(`timeout`), a client that hangs up, an archive request, a run that outlasts the
stale window (`slow`), a statement or query whose error the code logs and drops
(`refused`: the failing of a node, the count of attempts, the look at the budget,
dead-lettering, consuming), a restart (`restart`: `Crash` ends every goroutine
and keeps the rows). The last two are counted in `mishaps`. Where such a write is
refused the run or sweep goes on as if it had been made: `Fail` then fails the
plan of a node that is left running, `DeadLetter` leaves the rows open.

Left out: what an agent does in its turn, events and telemetry, plan revisions
and threads, the limit of 100 candidates per sweep, other plans (every statement
is keyed by the plan), and tenants. The database is taken to execute each
statement atomically. `Init` is the plan as `handleBuildProject` leaves it.

### The permission gate

A *call* is an agent's goroutine inside `Gate.Request` (a `"tool"`) or
`RequestApproval` (a `"hold"`); a *request* is an HTTP request that answers it,
from the card in the chat (`Cards`) or the governance inbox (`Inboxes`). A call
made for no user (`"unowned"`, a task worker's) skips the short-circuits, as
`gate.go:397` does. Rows
and memory are separate, as `Crash` keeps the one and forgets the other. `row`,
`repliedBy`, `hold` and `policy` are rows; `transient`, `listening` and
`channel` are the maps and one-slot channels of `Gate`. The three
short-circuits of `Request` are three steps, since they are three looks, and a
query for a policy that fails finds none (`gate.go:125`): for the blocking policy
too, so that the call goes on (`unread` remembers those calls).
`Hear`, `TimeOut` and `Cancel` are the branches of the select and may all be
enabled, as Go then picks any. `Reply` is the transaction; `Signal` comes after
its commit and delivers only to a registered channel with a free slot; the card
then closes the hold and stores what was granted.

Left out: other tools, tenants and other users' agents (rows and maps are keyed
by them), and who is allowed to edit policies.

### The task runtime

A task's row is spread over `status`, `lease`, `beating` (its
`last_heartbeat_at` is recent), `flagged`, `iterations` and `synthesis` (the
mark the coordinator sets once). Each agent has one goroutine, whose program
counter walks through `AgentRuntime.run` (`Receive`, `Unpark`, `StartRun`,
`Return`, `Drain`), `taskWorker.processTask` (`Turn`, which reads the row and
decides; `Claim`, which writes `in_progress` and the lease without reading
again; `Step`, which counts; the agent's run with its lifecycle tools; `RunEnds`;
`Move` and `Write`, a `Transition`), and the coordinator (`Siblings`,
`ReadParent`, `Cas`). `Send` is `WakeAgent`: a full channel drops the wakeup.
People's requests are pauses, cancels and edits of a status (`RequestRead`,
`RequestWrite`: one transition in two statements), the kill switch, dispatches,
wakeups by hand, suspending and resuming an agent, the last two in the halves
the code has. A row is inserted and its wakeup sent in two steps (`Create` and
`Created`, `Delegate` and `HandOff`). `Watchdog` is the one UPDATE of
`recoverInflightTasks`, `Rewake` the loop that wakes an agent for each row it
returned, `RecoverStale` the older sweep of the task store. `made` counts the
iterations themselves, `iterations` is the column: an increment the database
refuses is logged, and the iteration is made all the same. The status table and the check constraint of the
database are both there, because they differ: a row cannot be `paused`.

Left out: worktrees, scratchpads, costs, events, and the pickers that assign a
task to an agent. Time is in `Expire` and `Age`: a lease runs out only where
nobody beats for it, which is what a heartbeat every 20 seconds of a lease of three minutes is for,
or where the beats are refused.

### The GitHub loop

`GitHubEvents` is a composition: it extends `MergeQueue` and `FixLoop`, whose
actions it conjoins with `UNCHANGED` of the others' variables or, where the code
calls from one into the other, with each other (`Record` may trigger the fix
loop in the step that blocks a task, and does not where the repository or its
brief is not found; `Gate` delivers to the merge queue). A restart
is one action over all three. `MergeQueue` also has a specification of its own
(`MergeSpec`), which `merges` checks with more pulls and deliveries than the
composition affords.

In `MergeQueue`, `pulls` is the state of each pull at GitHub, `Put` the call that
merges. Its answers are those the code tells apart: merged, "already merged", a
bare 405 or 409, anything else. GitHub may refuse any pull that is not merged,
for a conflict, a draft, pending checks or a base that moved, and the code takes
all of that for a conflict; an answer may be lost. `Merge` may put other
pulls in conflict; people merge by hand and resolve conflicts. `Claim` is the
transaction under the advisory lock. In `FixLoop`, a trigger is one call of
`triggerFixLoop`: `FindIssue`, `OpenIssue`, `CountFixes`, `CreateFixTask`,
`Stamp`, `EscalateFix`, each with the error it ignores or returns on. The search
is shown one page of the newest issues (`PageSize`, 50 in the code) and takes the
first whose body contains the key, so that the issue of a key that starts with
another is found for that one too (`Matches`). Nothing keeps triggers of one key
apart. Two histories count what a trigger could not see: `blind`, the searches
made while an issue of the key was off the page or about to be opened; `short`,
the counts made while another fix for the issue was in the making.

Left out: issue and review events, which only write comments or a task, texts
and labels, and several projects (every row and key is of one).

### Session cancellation

`entries` is the map of the registry, `cancelled` the flag of each entry that
`cancelOnce` swaps. A submit registers (`Register`, and `Install` after it has
cancelled what it found outside the lock), runs its turn, reads the entry back
to report how it ended, and releases. `CancelOnce`, `Tag` and `Invoke` are the three
steps of `cancelOnce`, shared by preempting submits and aborts. `Serial` names
the sessions whose submits register one after the other, as one browser tab
does; the others may interleave in any way. `Report` is one step where the code
looks at the context, at the entry and at the context again
(`protocol.go:295-312`): no property depends on what falls between them.

### Slips

A definition marked *Slip* is a plausible mistake in the definition after it (a
guard dropped, an off-by-one, two checks swapped). No specification uses one.
`PROJECT.json` pairs every property of every passing run with one that breaks
it, to make sure that the property says something about the code.

## 3. What TLC checks

Nine runs pass. The number is that of distinct states.

| Run | Instance | Properties |
|---|---|---|
| `plan_sweep` (1 025 000) | a builder, a resolver and the sweeper overlap, runs may outlast the stale window | `VerdictBacked` `DeadLetterEarned` `EdgesRespected` `KeepsContract` |
| `plan_serial` (2 212 000) | one run at a time; a builder, two resolvers with two verdicts, the sweeper, agents that fail, undecodable inputs, runs cut off, a restart or refused statement anywhere; a gate with two tasks behind it, one with an error branch into a kind without handler | `VerdictBacked` `ExecOnce` `FailedHasCause` `AttemptsBounded` `NoWorkAfterEnd` |
| `plan_live` (197 000) | fair; builder, resolver, sweeper, overlapping; handler and database errors, a refused statement, a client that hangs up, an archive request | `TypeOK` `NoUnapprovedExecution` `WakeupsDrained` `ApprovedPlanEnds` |
| `gate` (630 000) | fair; calls of an agent whose policy is edited and of a blocked one, a hold, a card and an inbox request, callers that give up; a failed query, refused statement or restart | `TypeOK` `RanOnlyIfAllowed` `BlockedNeverRuns` `GrantsEarned` `KeepsGateContract` `EveryCallEnds` |
| `tasks` (1 336 000) | a task and a subtask, two agents; a request to change a status, to flip the kill switch, to dispatch, to wake the wrong agent or to suspend an agent, and one to resume it; a refused statement, a restart, a STOP file or a spent budget | `TypeOK` `ParkedCanWake` `IterationsBounded` |
| `tasks_live` (142 000) | fair; a task with two subtasks of two agents, a restart or a stale sweep | `SynthesisOnce` `AssignedIsTended` `LiveWorkKept` `NeverStuckInProgress` `SynthesisHappens` |
| `merges` (287 000) | fair; two pulls, three deliveries, merges by hand, refused merges, a restart, refused statement or lost answer | `OneMergeInFlight` `MergedMeansMerged` `NoConflictAfterMerge` `QueuedIsTended` `QueueNeverJams` |
| `github` (1 264 000) | the composition: a tracked pull, a delivery of its check, two bug reports whose keys may be equal or the one the start of the other, a page of one issue, an operator, a mishap | `TypeOK` `FixesBounded` `OneIssuePerKey` |
| `sessions` (3 590 000) | three submits and two aborts of two sessions, one of them serial | `TypeOK` `AbortReaches` `RegistryDrains` `AbortsOnce` `EventEarned` |

The properties are stated, with the code they are about, in the `...Props`
modules. `KeepsContract` is refinement: `PlanContract` knows only granted gates,
worked nodes and an outcome, and the plan with all its runs must be one of its
behaviours. So is `KeepsGateContract`: `GateContract` knows only the verdict on
each call, what became of it and who is waived. A verdict that is taken back, a
call that runs on anything but its own verdict or a waiver that stands at that
moment, a hold that runs without asking, and a waiver for everyone that no
allowed call has led to are steps it does not have.

**Bounds.** Two runs of one plan already show every way in which a stale
snapshot meets a fresh one. The plan of `plan_sweep` and `plan_live` is the
smallest that `handleBuildProject` writes; `plan_serial` adds an error branch
and a node without handler. `MaxAttempts = 2` lets a wakeup be retried once and
given up on (the default is 10); `MaxHops = 8` lies above the visits of these
plans and the 3 of `plan_serial` below, so that runs also end at the bound.
`agentRuns` and `woken` are counted up to 2, which stands for "more than once".
One restart, refused statement or fault may come at any step of the runs that
have them. In `gate` the cards decide what has different effects (a lasting
policy, the two kinds of grant, a refusal), and policies are edited to
auto-approved, the one edit that lets a call run; a call for no user is only in
the theorem. In `tasks` the queue holds one wakeup, so that it overflows, and one iteration and
one retry reach both caps; `tasks_live` has two retries and a queue that holds
all, as `AssignedIsTended` is about losses that are nobody's fault. Two
subtasks of two agents are the race for the synthesis. In `merges`, three
deliveries for two pulls give two processors at once, and a row enqueued
twice. In `github`, `MaxFailures = 2` (3 in the code) is reached with one count
by an operator (`MaxBlocks` bounds those, the code does not) and one failing
check, `FixAttemptCap = 2` (3 in the code) with the second trigger of an issue,
and a page of one issue (50 in the code) is left by the first issue as soon as
there is a second; three triggers overlap in every way. Two aborts and three submits are what
it takes for one submit to overtake another while a third runs. Where a run
would find nothing but permutations of deliveries, submits or aborts, symmetry
is declared; no run with symmetry checks liveness. The theorems of section 4
hold without any of these bounds.

**Deadlock** is not checked: builders, calls, deliveries, submits and requests
are finite in number, and when they are done the system does stop.

**Fairness.** Each `FairSpec` has weak fairness of each goroutine's own next step
once it is under way: the Go scheduler runs every goroutine, a turn or iteration
ends by its context's deadline, tickers never stop. To that come the passing of
time where something waits for it (timers of the gate, `Expire`, `Age`), the
watchdogs, and the loop in which a watchdog wakes agents (`Rewake`). In the gate it is only the calls' goroutines of which this is assumed:
that a reply gets to its end is not needed for a call to end. Nothing is assumed of people, agents' decisions, GitHub, faults or
restarts: a reviewer need never come, an agent need never report. In
`plan_live` there is no restart because with one `ApprovedPlanEnds` is false
(below).

### Where code and comments part

Three runs are expected to find a violation. Each checks one property that a
comment of the code states.

| Run | Property | What happens |
|---|---|---|
| `plan_stranded` | `ApprovedPlanEnds` | After a restart in the middle of a node, the node stays in state running; `selectRunnable` picks only pending and blocked ones (`graph.go:351`), so no sweep ever ends the plan, although `sweeper.go:29` says that such plans are resumed. |
| `tasks_unsynthesised` | `TriggeredOnceTerminal` | A person cancels the last subtask. Only a worker calls `onTaskComplete`, so the parent is never synthesised, although all its subtasks are terminal (`task_coordinator.go:31`). |
| `merges_conflict` | `ConflictGetsWorker` | `dispatchConflictWorker` inserts a task of status `pending`, which `tasks_status_check` refuses; the row says conflict and nobody is asked to resolve it (`merge_queue.go:261`). |

### What the properties leave out on purpose

Some properties are claimed under a condition, because TLC finds them violated
without it. Each is a hazard in `PROJECT.json`.

- `ExecOnce` is checked for one run at a time, and proved as long as no two runs
  hold the same node. With two at one node, the build can be approved while its
  own run has not returned, and both execute the task, since `Run` ignores the
  illegal move of a node that is running or done (`graph.go:227`).
- `EdgesRespected` is checked with reviewers who all decide the same. With two
  verdicts and two runs at one gate it fails: they find it without a row and
  each inserts one; the first is approved, the gate is done and the agent behind
  it starts; the second row is rejected, and its run writes that verdict over the
  gate's artifact, since done to done is a legal move (`plans/types.go`).
- `FailedHasCause` has two causes: a failed node, or a node left running whose
  failing the store refused (`graph.go:432`). `AttemptsBounded` counts one
  attempt more for each restart, failed read and refused dead-letter
  (`sweeper.go:332`, `418`).
- `NoWorkAfterEnd` is checked for one run at a time, and not proved: with two,
  one fails the plan while the other goes on from its snapshot.
- It is checked without archive requests, too: the sweeper's terminal states lack
  archived (`sweeper.go:355`), and so do `Run`'s.
- `BlockedNeverRuns` excepts a call whose look for the blocking policy failed,
  and one for no user that somebody allowed: the gate fails open on the first and
  does not look for the second (`gate.go:125`, `397`).
- Nothing is claimed of a hold's own row: the card is on screen before that row
  is written (`governance_wire.go:124-136`), and an early answer closes nothing.
- Nothing is claimed of how long a grant lasts: session and one-hour grants are
  stored without an agent and looked up with one (`plan_handlers.go:423`).
- `AbortReaches` is claimed of serial sessions: `Register` gives up the lock
  between cancelling and installing (`registry.go:85`), and of three submits one
  may be overwritten uncancelled.
- `EventEarned` does not say whose tags are reported: `Lookup` may find the entry
  of a newer submit (`registry.go:133`).
- `FixesBounded` and `OneIssuePerKey` count what exceeds the cap or the one issue:
  never more than the failures and the counts or searches that could not see
  (`short`, `blind`). `AttemptsCapped`, which is proved, has no exception.
- That a blocked development task is always followed by a fix is not claimed: the
  lookups between the two fail silently (`webhook_github.go:204`). Nor is that a
  row says conflict only of a pull in conflict (`merge_queue.go:181`), or that
  one push counts as one failure (`webhook_github.go:152`).
- `IterationsBounded` counts the iterations made: the cap, one more for each other
  agent that may have the task, and one more for each fault.
- `NoConflictAfterMerge` is claimed while nothing fails: an "already merged" whose
  body cannot be read is a bare 405.
- Nothing is claimed of a wakeup that a full channel or a restart loses
  (`runtime.go:117`), nor of a row freed by the watchdog, which waits for the next
  webhook (`recovery.go:71`).
- `LiveWorkKept` and `AssignedIsTended` speak of the watchdog, which goes by the
  lease, not of `RecoverStale` (`tasks/store.go:353`), which goes by the
  heartbeat and wakes nobody.
- `TriggeredOnceTerminal` is shown false by a cancelled subtask;
  `SynthesisHappens` speaks of agents that keep to one lifecycle tool and whose
  iterations do not fail (`task_coordinator.go:57`).
- Nothing is claimed of a task that is cancelled between the worker's read and
  its claim (`task_worker.go:177`): the claim reopens it.

## 4. What is proved

TLAPS checks the proofs for every value of the constants: every graph, forest
of tasks, number of pulls, deliveries, submits, agents and requests, every cap
and every number of faults and restarts. The assumptions are those named in the
modules (`NodesAssumption`, `ProcAssumption`, `BoundsAssumption`,
`TasksAssumption`, `MergeAssumption`, `FixAssumption`, `GitHubAssumption`,
`SessionsAssumption` and so on): bounds are natural numbers, kinds of process
are disjoint, `"none"` is not a task. No assumption restricts the shape of a
graph, which may be cyclic. A theorem with a further hypothesis says so below.

**Plans** (`PlanGraphProofs`, `PlanGraphSafety`). `TypeCorrect` needs `LocalsOK`: a
process at a node carries a node, one at an approval row carries a row that
exists. The safety theorems (`NothingUnapproved`, `VerdictsBacked`,
`RowsStayDistinct`, `DoneIsDone`) rest on one invariant,

    IInv == TypeOK /\ LocalsOK /\ RunsOK /\ StoreOK

`NoUnapprovedExecution` is not inductive by itself, and neither is
`EdgesRespected`: a run executes nodes from a snapshot it took earlier, and an
artifact can be overwritten. What lasts is that an edge was *earned*: its parent
ended as the edge asks and, where the edge asks for a verdict, a reviewer gave
that verdict (`Earned`, `Cleared`). Nodes stay final and approvals are only
added to, so `Cleared` is never lost; a node enters a snapshot only over
satisfied edges, and an artifact is written from a verdict that a row holds
(`VerdictBacked` and the part of `RunsOK` about `"done"`), so what is satisfied
was earned. `RunsOK` says that the nodes of every snapshot are cleared, and
`StoreOK` that the nodes agents worked on are: this is `WorkStaysCleared`, which
holds however many runs overlap, and `NothingUnapproved` is the part of it about
gates.

An earned edge is still satisfied as long as the gate it stands on has no second
verdict. Hence `EdgesRespectedOneVerdict`, of every behaviour in which no gate
has two (`OneVerdict`), runs overlapping as they may; `EdgesRespectedApart`,
below, needs no such assumption about reviewers.

`DoneMeansDone` is inductive only with
the fact that a run about to close a plan as done saw every node done, and that
finished nodes stay finished (`NodesStayFinal`, which with `ApprovalsStayFinal`
follows step by step from the transition tables). `ImplementsContract` uses the
same invariant: each step grants gates, lets an agent work behind granted ones,
closes the plan, or changes nothing the contract sees.

**The retry budget** (`PlanGraphApart`). `AttemptsStayBounded` and
`DeadLettersEarned` assume `OneSweeper`: the manager keeps one sweeper per
tenant in a map under its mutex. The sweeper counts an attempt in one statement
and judges it in the next, so an open row may be at the budget in between;
`BudgetOK` says that outside that window only restarts, failed reads and refused
statements put a row there, one each, and that a sweeper about to give up has a
row that has run out.

**Nodes apart** (`PlanGraphApart`). Runs of a plan overlap in this code, so the
theorems do not exclude that: they hold of every behaviour in which no two
processes have the same node in hand (`NodesApart`), which a process has while the
node is in its snapshot, still to be visited, or is being worked on. That is the
one way in which overlap breaks them: runs that have listed different nodes may
go on side by side, and sweeps, approvals, restarts, cut-off runs and refused
statements come as they may. The invariant is

    ApartInv == IInv /\ (\A p \in Proc : TurnOK(p)) /\ WorkOK

`TurnOK` says what this buys a process: every node it has still to visit may
start, the node it works on is running and, before an agent starts, has had no
turn, a gate it inserts a row for has none, a node it fails the plan for has
failed or been deserted. `WorkOK` says what is left in the rows: a node that may
start has had no turn, a gate has one row at most, a failed plan a failed or
deserted node. From it `WorkedOnce`, `FailureHasCause` and
`EdgesRespectedApart`.

**Gate** (`PermissionGateProofs`). `IInv` adds to the claims that a call that has not
asked has no row (`NotAskedYet`), that a request between `Reply` and its end
finds its own answer in the row (`RepliesStand`: this is what makes late signals
truthful), that requests are about calls (`TargetsOK`), that the policy of
an agent nobody edits stays and its call gets past the first look only if that
look failed (`BlockedStays`), and that a hold, like a call for no user, does not
pass the short-circuits (`HoldsAsk`). From it follow `OnlyAllowedRun`,
`ChannelsTruthful`, `NothingUnearned`, `BlockedStayBlocked` and
`AnswersStayFinal`.

`GateImplementsContract` is the refinement. The verdict is the call's row, the
outcome is open until the call has ended, and a holder is waived while it has
an auto-approved policy or a grant in memory. Each group of actions has a lemma:
a short-circuit that lets a call run is a `RunWaived`, since the policy or grant
it read stands in that state; what is heard on a channel is a `RunAllowed` or a
`Refuse` (`ChannelMatchesRow`); a reply that commits is a `Rule`; a card's grant
is a `WaiveForAll`, since its own answer stands in the row (`RepliesStand`); a
restart is a `Lapse`. What the contract does allow is said in it as well: a call
may be refused although its verdict allows it, when the timer was first, and a
request may be ruled on when nobody waits for it any more.

**Tasks** (`TaskRuntimeProofs`). `CoreOK` is the type invariant with what a
goroutine and a request hold at each of their points. On it rest, separately:
`ParkedOwedToken`, which needs nothing more; `SynthesizedOnce`, by `WokenOK` (a
parent woken has its mark, and the mark is set in the step that wakes);
`IterationsStayBounded`, by `IterationsOK`, a count: the increments made plus
the agents that have passed the check and not yet counted (`Owing`) never
exceed the cap and the agents a wakeup can reach, which `ReachOK` bounds, and
`MadeOK`: the iterations made exceed the increments by no more than the faults;
and `ReclaimsOnlyDead`, by `LeaseOK` (an iterated task has its lease), under the
hypothesis that the database refuses no statement: a refused claim or heartbeat
leaves a live worker without a lease, and the watchdog then takes its task.

That no wakeup is lost (`AssignedIsTended`) is claimed until somebody
interferes, and `QuietOK` says what holds until then (`Calm`): a runtime gets
and serves only tasks of its own (`RuntimesOK`); a task in progress has its
worker before its return, and the lease, so the watchdog never finds one to
take (`HeldOK`); what a worker knows of its row is still so, since nobody else
writes it (`TurnsOK`); and a task assigned below its cap is queued, or its agent
has it and has not decided yet (`TendedOK`). `WakeAgent` drops a signal for a
full channel, so `AssignedTended` asks that the queue of a task has room as long
as a wakeup for it may be still to come (`RoomOK`): in the code it has 32
places, whatever the workload, and a full one is a hazard no theorem covers.

**Merges** (`MergeQueueProofs`). `QueueInv` says that the row a processor holds is
the one row in merging and is fresh (so that the watchdog passes it over), that
what GitHub answered it is still so, and that while nothing failed a row in
merging has its holder and a pull with a merged row gets no bare 405 again. From
it: `MergesOneAtATime`, `MergedIsTrue`, `NoConflictOnceMerged`, `QueuedTended`.

**The GitHub loop** (`GitHubProofs`). Its invariant is `QueueInv /\ FixInv /\
CITypeOK`. The composition is proved through its parts: each step of `GitHubNext`
is for the queue a step of `MergeNext` or a mishap elsewhere, and for the fix
loop one of `FixMoves`; so `QueueInv`, proved once for `MergeSpec`, carries over
(`QueueSafeBehindWebhook`). `FixInv` has the attempt a trigger carries below the
cap always (`CapOK`), and two counts. The fixes of an issue, made or in the
making, exceed the greatest attempt among them by no more than `short` and
`mishaps`, and that attempt is below the cap (`FixesStayBounded`). The issues of a key, open or about to be opened,
are no more than one, `blind` and `mishaps` (`OneIssueEach`). Neither assumes
that triggers keep apart, or anything of how keys match or of the page.

**Sessions** (`SessionCancelProofs`). `IInv` says that an installed entry belongs to
a turn of its session that is not over, that a won swap makes its winner the
only one to tag and to invoke, that a cancelled turn that still runs is in the
hands of its canceller, and that where submits come one by one a submit past its
swap has nothing uncancelled in its way. From it follow all five properties of
the run.

**Only model-checked.** All liveness (`WakeupsDrained`, `ApprovedPlanEnds`,
`EveryCallEnds`, `NeverStuckInProgress`, `SynthesisHappens`, `QueueNeverJams`,
`TriggeredOnceTerminal`), since the prover handles neither fairness nor
`ENABLED`; and `NoWorkAfterEnd`, which holds of one run at a time only. Every
other invariant and action property of a passing run is
stated by a theorem; where the theorem has a hypothesis, the run meets it. No
module declares a RECURSIVE operator, so every one can be proved about.

## 5. Plan

Done, in this order: the plan graph and its contract; the permission gate and its contract; the
task runtime with both recoveries; the merge queue; the fix loop and the webhook
that feeds both; session cancellation; and the safety proofs of each.

What would come next:

1. An abstract specification of the task worker (what a task promises whoever
   assigned it), with its refinement.
2. `PlanGraph`: plan revisions with their approval threads, so that a revised
   plan is seen to ask again.
3. **SweeperManager** (`orchestrator/sweeper_manager.go`): reconciling sweepers
   against tenants that come and go; it would discharge `OneSweeper`.
4. **Cron** (`cron/execution.go`): claims, restarts and edits of a job's row.
5. **Sub-agents** (`subagent/orchestrator.go`, `delegation/depth.go`): limits of
   depth and fan-out over a tree of runs that start and end concurrently.

## 6. Not modelled

The repository has some 240 000 lines in 1100 files. Most of them are handlers
that move one row between HTTP and one SQL statement, adapters to model
providers, messengers, mail, storage and browsers, prompts and catalogues, and
the web dashboard: code with no state of its own between two statements, which a
state machine could only repeat. The models are of the parts that have one.

- *Agent loop, supervisor, memory, tools*: text and model calls. What the models
  need of a turn, that it starts, ends, fails or reports, is in `PlanGraph`,
  `TaskRuntime` and `SessionCancel`.
- *Model gateway, provider pools, budgets*: arithmetic over clocks and prices.
- *Streaming, web, command line, installer*: presentation; nothing reads it back.
- *Scheduler, file-backed cron service, the bus package's debouncer*: constructed
  only in tests. What a property of theirs would show is about no running
  system.
- *Team tasks*: single unguarded statements, whose only interesting property
  fails by reading one of them.
- *Sweeper manager, cron runner, sub-agents, heartbeat and workflows*: sequential
  under one lock or one loop around one statement; next in the plan above.
- Within the modelled components: see the paragraphs "Left out" of section 2.
