----------------------------- MODULE PlanGraph -----------------------------
(****************************************************************************)
(* One plan and everything that drives it.                                  *)
(*                                                                          *)
(* The database (internal/plans, internal/approvals, the wakeup_requests    *)
(* table) is the shared state; a step of a process is one database call.    *)
(* The processes are goroutines of the gateway:                             *)
(*   - a builder is a POST /projects/{id}/approve: proceedToBuild starts a  *)
(*     run of the graph (gateway/project_handlers.go);                      *)
(*   - a resolver is a POST /plans/{id}/approve, /reject or /revise: it     *)
(*     resolves the open approval, queues a wakeup and, for an approval,    *)
(*     starts a run (gateway/plan_handlers.go);                             *)
(*   - a sweeper is the recovery loop (orchestrator/sweeper.go).            *)
(* A run is Runtime.Run (orchestrator/graph/graph.go) with the handlers of  *)
(* orchestrator/handlers.  Nothing in the code keeps two runs of one plan   *)
(* apart.  Nodes are numbered in the order ListNodesByPlan returns them.    *)
(*                                                                          *)
(* A definition marked "Slip" is a plausible mistake in the definition that *)
(* follows it; no specification uses it.  The mutation runs put it in the   *)
(* place of that definition, to see which property notices.                 *)
(****************************************************************************)
EXTENDS PlanStates, Mishaps, Integers, Sequences

CONSTANTS
  NumNodes,      \* nodes of the plan
  Kind,          \* the kind of each node
  Edges,         \* records [from, cond, to]
  Builders, Resolvers, Sweepers,
  Choices,       \* the verdicts a resolver may bring
  MaxHops,       \* Config.MaxHopsPerRun
  MaxAttempts,   \* Sweeper.MaxAttempts
  Events,        \* what the environment may do, a subset of EventKinds
  Overlap        \* may a run start while another run is in flight?

EventKinds == {"agent_error", "bad_inputs", "db_error", "timeout",
               "disconnect", "archive", "slow", "restart", "refused"}

Node == 1..NumNodes
Proc == Builders \cup Resolvers \cup Sweepers

\* RegisterAll installs these three; the other kinds have no handler.
HandledKinds == {"planner", "human_feedback", "agent_task"}

ASSUME NodesAssumption ==
  /\ NumNodes \in Nat
  /\ Kind \in [Node -> NodeKinds]
  /\ Edges \subseteq [from : Node, cond : EdgeConditions, to : Node]
ASSUME ProcAssumption ==
  /\ Builders \cap Resolvers = {}
  /\ Builders \cap Sweepers = {}
  /\ Resolvers \cap Sweepers = {}
ASSUME BoundsAssumption ==
  /\ MaxHops \in Nat \ {0}
  /\ MaxAttempts \in Nat \ {0}
  /\ Choices \subseteq Verdicts
  /\ Events \subseteq EventKinds
  /\ Overlap \in BOOLEAN

VARIABLES
  planStatus,    \* plans.status
  recent,        \* what was last updated within StalePlanAfter: the plan's
                 \* row, else some row of its nodes, else nothing
  nodeState,     \* plan_nodes.state
  artifact,      \* plan_nodes.artifacts->>'approval'
  approvals,     \* per node, its approval rows in created_at order
  wakeups,       \* the plan's wakeup_requests rows in created_at order
  buildPhase,    \* CodeProject.BuildPhase, as the build goroutine sets it
  agentRuns,     \* agent runs started for the node: 0, 1 or 2 (many)
  pc,            \* where each process is
  todo,          \* nodes of the run's last snapshot still to be visited
  cur,           \* the node being visited, 0 if none
  pausedInRun,   \* pausedInThisRun
  hops,          \* node visits of the run
  row,           \* the approval row the process works on, 0 if none
  verdict        \* the verdict the process carries

dbVars == <<planStatus, recent, nodeState, artifact, approvals, wakeups>>
procVars == <<pc, todo, cur, pausedInRun, hops, row, verdict>>
vars == <<dbVars, buildPhase, agentRuns, mishaps, procVars>>

\* Points at which a process is inside Runtime.Run ...
RunPoints == {"load", "start", "list", "begin", "exec", "agent", "request",
              "insert", "get", "block", "done", "fail", "failplan",
              "settle", "closedone", "closefailed"}
\* ... inside an HTTP request before the run, and inside the sweeper.
RequestPoints == {"resolve", "wakeup"}
SweepPoints == {"attempt", "budget", "dead", "check", "consume"}
Points == {"ready", "idle", "built", "unbuilt", "end"}
            \cup RunPoints \cup RequestPoints \cup SweepPoints

Running(p) == pc[p] \in RunPoints
-----------------------------------------------------------------------------
(* The graph. *)

Incoming(n) == {e \in Edges : e.to = n}

\* Slip: the verdict is not looked at.
EdgeSatisfiedByAnyVerdict(e) ==
  IF e.cond = "on_error" THEN nodeState[e.from] = "failed"
                         ELSE nodeState[e.from] = "done"

EdgeSatisfied(e) ==
  IF e.cond = "on_error"
  THEN nodeState[e.from] = "failed"
  ELSE /\ nodeState[e.from] = "done"
       /\ \/ e.cond \in {"always", "on_success"}
          \/ e.cond = "approved" /\ artifact[e.from] = "approved"
          \/ e.cond = "rejected" /\ artifact[e.from] = "rejected"
          \/ e.cond = "revision" /\ artifact[e.from] = "revision_requested"

\* Slips: running nodes are taken up again; blocked ones never are.
ResumableOrRunning == {"pending", "blocked", "running"}
OnlyPending == {"pending"}
Resumable == {"pending", "blocked"}

\* Slip: a parent that has been started is enough.
RunnableOnceStarted == {n \in Node : /\ nodeState[n] \in Resumable
                                     /\ \A e \in Incoming(n) :
                                          nodeState[e.from] # "pending"}

\* selectRunnable: pending or blocked nodes all of whose incoming edges are
\* satisfied; a node without incoming edges is runnable.
Runnable == {n \in Node : /\ nodeState[n] \in Resumable
                          /\ \A e \in Incoming(n) : EdgeSatisfied(e)}

HasOutgoingErrorEdge(n) == \E e \in Edges : e.from = n /\ e.cond = "on_error"

\* Slip: blocked and running nodes count as finished.
NonePending == \A n \in Node : nodeState[n] # "pending"
AllTerminal == \A n \in Node : nodeState[n] \in TerminalNodeStates
AnyFailed   == \E n \in Node : nodeState[n] = "failed"

\* A statement whose error the code logs and drops.
Refused == "refused" \in Events /\ Mishap
-----------------------------------------------------------------------------
(* The store: one transaction each.  An illegal move writes nothing. *)

UpdatePlanStatus(next) ==
  IF ValidTransition(planStatus, next)
  THEN planStatus' = next /\ recent' = "plan"
  ELSE UNCHANGED <<planStatus, recent>>

\* UpdateNodeState leaves plans.updated_at alone.
UpdateNodeState(n, next) ==
  IF ValidNodeTransition(nodeState[n], next)
  THEN /\ nodeState' = [nodeState EXCEPT ![n] = next]
       /\ recent' = IF recent = "none" THEN "nodes" ELSE recent
  ELSE UNCHANGED <<nodeState, recent>>

IsOpen(w) == wakeups[w].state = "open"

SetOpenWakeups(state) ==
  wakeups' = [w \in DOMAIN wakeups |->
                IF IsOpen(w) THEN [wakeups[w] EXCEPT !.state = state]
                             ELSE wakeups[w]]
-----------------------------------------------------------------------------
(* Control. *)

Goto(p, point) == pc' = [pc EXCEPT ![p] = point]

\* Where the caller of ExecutePlan goes on; a pause is no error.  The run's
\* locals die with it.
AfterRun(p, ok) ==
  CASE p \in Builders  -> IF ok THEN "built" ELSE "unbuilt"
    [] p \in Sweepers  -> IF ok THEN "consume" ELSE "idle"
    [] p \in Resolvers -> "end"

Return(p, ok) ==
  /\ Goto(p, AfterRun(p, ok))
  /\ todo' = [todo EXCEPT ![p] = {}]
  /\ cur' = [cur EXCEPT ![p] = 0]
  /\ pausedInRun' = [pausedInRun EXCEPT ![p] = {}]
  /\ hops' = [hops EXCEPT ![p] = 0]
  /\ row' = [row EXCEPT ![p] = 0]
  /\ verdict' = [verdict EXCEPT ![p] = "none"]

\* The next node of the snapshot, or a fresh snapshot after the last one.
NextNode(p) ==
  /\ Goto(p, IF todo[p] = {} THEN "list" ELSE "begin")
  /\ cur' = [cur EXCEPT ![p] = 0]
  /\ row' = [row EXCEPT ![p] = 0]
  /\ verdict' = [verdict EXCEPT ![p] = "none"]

MayStartRun == Overlap \/ \A q \in Proc : ~Running(q)

Init ==
  /\ planStatus = "draft"
  /\ recent = "plan"
  /\ nodeState = [n \in Node |-> "pending"]
  /\ artifact = [n \in Node |-> "none"]
  /\ approvals = [n \in Node |-> <<>>]
  /\ wakeups = <<>>
  /\ buildPhase = "pending_approval"
  /\ agentRuns = [n \in Node |-> 0]
  /\ mishaps = 0
  /\ pc = [p \in Proc |-> IF p \in Sweepers THEN "idle" ELSE "ready"]
  /\ todo = [p \in Proc |-> {}]
  /\ cur = [p \in Proc |-> 0]
  /\ pausedInRun = [p \in Proc |-> {}]
  /\ hops = [p \in Proc |-> 0]
  /\ row = [p \in Proc |-> 0]
  /\ verdict = [p \in Proc |-> "none"]
-----------------------------------------------------------------------------
(* Runtime.Run. *)

\* Slip: a failed plan is not turned away.
FinishedButFailed == {"done", "cancelled"}
Finished == {"done", "failed", "cancelled"}

\* GetPlan; rejected and archived plans are not turned away.
Load(p) ==
  /\ pc[p] = "load"
  /\ IF planStatus \in Finished
     THEN Return(p, TRUE)
     ELSE /\ Goto(p, IF planStatus = "running" THEN "list" ELSE "start")
          /\ UNCHANGED <<todo, cur, pausedInRun, hops, row, verdict>>
  /\ UNCHANGED <<dbVars, buildPhase, agentRuns, mishaps>>

\* plan -> running; an illegal transition is ignored.
Start(p) ==
  /\ pc[p] = "start"
  /\ UpdatePlanStatus("running")
  /\ Goto(p, "list")
  /\ UNCHANGED <<nodeState, artifact, approvals, wakeups,
                 buildPhase, agentRuns, mishaps, todo, cur, pausedInRun,
                 hops, row, verdict>>

\* ListNodesByPlan and selectRunnable; the visits that follow work from this
\* snapshot.
List(p) ==
  /\ pc[p] = "list"
  /\ LET runnable == Runnable \ pausedInRun[p]
     IN  IF hops[p] >= MaxHops
         THEN Return(p, FALSE)
         ELSE /\ Goto(p, IF runnable = {} THEN "settle" ELSE "begin")
              /\ todo' = [todo EXCEPT ![p] = runnable]
              /\ UNCHANGED <<cur, pausedInRun, hops, row, verdict>>
  /\ UNCHANGED <<dbVars, buildPhase, agentRuns, mishaps>>

\* fail and failWithArtifacts: node -> failed; the run goes on as if it were,
\* also when the store refused it.
MarkFailed(n) ==
  \/ UpdateNodeState(n, "failed") /\ Fine
  \/ Refused /\ UNCHANGED <<nodeState, recent>>

\* Visit the next node n of the snapshot: without a handler it fails (fail
\* drops a store error) and the run returns, leaving the plan's status alone;
\* otherwise node -> running, an illegal transition being ignored.
Begin(p) ==
  /\ pc[p] = "begin"
  /\ \E n \in todo[p] :
       /\ \A m \in todo[p] : n <= m
       /\ IF Kind[n] \notin HandledKinds
          THEN MarkFailed(n) /\ Return(p, FALSE)
          ELSE /\ UpdateNodeState(n, "running")
               /\ Fine
               /\ Goto(p, IF Kind[n] = "human_feedback" THEN "request"
                                                        ELSE "exec")
               /\ todo' = [todo EXCEPT ![p] = @ \ {n}]
               /\ cur' = [cur EXCEPT ![p] = n]
               /\ hops' = [hops EXCEPT ![p] = @ + 1]
               /\ UNCHANGED <<pausedInRun, row, verdict>>
  /\ UNCHANGED <<planStatus, artifact, approvals, wakeups,
                 buildPhase, agentRuns>>

\* The planner and agent_task handlers call the agent loop.
Exec(p) ==
  /\ pc[p] = "exec"
  /\ agentRuns' = [agentRuns EXCEPT ![cur[p]] = IF @ = 2 THEN 2 ELSE @ + 1]
  /\ Goto(p, "agent")
  /\ UNCHANGED <<dbVars, buildPhase, mishaps, todo, cur, pausedInRun, hops,
                 row, verdict>>

AgentReturns(p) ==
  /\ pc[p] = "agent"
  /\ Goto(p, "done")
  /\ UNCHANGED <<dbVars, buildPhase, agentRuns, mishaps, todo, cur,
                 pausedInRun, hops, row, verdict>>

\* approvals.Request: the latest row of the node, whatever its state ...
Request(p) ==
  /\ pc[p] = "request"
  /\ LET n == cur[p]
     IN  IF approvals[n] = <<>>
         THEN Goto(p, "insert") /\ UNCHANGED row
         ELSE Goto(p, "get") /\ row' = [row EXCEPT ![p] = Len(approvals[n])]
  /\ UNCHANGED <<dbVars, buildPhase, agentRuns, mishaps, todo, cur,
                 pausedInRun, hops, verdict>>

HasState(n, state) == \E i \in DOMAIN approvals[n] : approvals[n][i] = state

PendingExists(n) == HasState(n, "pending")

\* ... or a new pending row; if the insert meets another pending row of the
\* node (the unique indexes), the latest row again.
Insert(p) ==
  /\ pc[p] = "insert"
  /\ LET n == cur[p]
     IN  IF PendingExists(n)
         THEN /\ UNCHANGED approvals
              /\ row' = [row EXCEPT ![p] = Len(approvals[n])]
         ELSE /\ approvals' = [approvals EXCEPT ![n] = Append(@, "pending")]
              /\ row' = [row EXCEPT ![p] = Len(approvals[n]) + 1]
  /\ Goto(p, "get")
  /\ UNCHANGED <<planStatus, recent, nodeState, artifact,
                 wakeups, buildPhase, agentRuns, mishaps, todo, cur,
                 pausedInRun, hops, verdict>>

\* Slip: a pending approval is handed on like a verdict.
GetWithoutPause(p) ==
  /\ pc[p] = "get"
  /\ verdict' = [verdict EXCEPT ![p] = approvals[cur[p]][row[p]]]
  /\ Goto(p, "done")
  /\ UNCHANGED <<dbVars, buildPhase, agentRuns, mishaps, todo, cur,
                 pausedInRun, hops, row>>

\* The human_feedback handler re-reads the row: pause, or carry its verdict.
Get(p) ==
  /\ pc[p] = "get"
  /\ LET state == approvals[cur[p]][row[p]]
     IN  IF state = "pending"
         THEN Goto(p, "block") /\ UNCHANGED verdict
         ELSE Goto(p, "done") /\ verdict' = [verdict EXCEPT ![p] = state]
  /\ UNCHANGED <<dbVars, buildPhase, agentRuns, mishaps, todo, cur,
                 pausedInRun, hops, row>>

\* PauseSignal: node -> blocked, and the run goes on with the next node.
Block(p) ==
  /\ pc[p] = "block"
  /\ LET n == cur[p]
     IN  /\ UpdateNodeState(n, "blocked")
         /\ IF ValidNodeTransition(nodeState[n], "blocked")
            THEN /\ pausedInRun' = [pausedInRun EXCEPT ![p] = @ \cup {n}]
                 /\ NextNode(p)
                 /\ UNCHANGED <<todo, hops>>
            ELSE Return(p, FALSE)
  /\ UNCHANGED <<planStatus, artifact, approvals, wakeups,
                 buildPhase, agentRuns, mishaps>>

\* Slip: the node is done, its artifacts are not merged.
DropArtifacts(p) == artifact
MergeArtifacts(p) ==
  IF verdict[p] = "none" THEN artifact
                         ELSE [artifact EXCEPT ![cur[p]] = verdict[p]]

\* Success: node -> done, the verdict merged into its artifacts.
Done(p) ==
  /\ pc[p] = "done"
  /\ LET n == cur[p]
     IN  /\ UpdateNodeState(n, "done")
         /\ IF ValidNodeTransition(nodeState[n], "done")
            THEN /\ artifact' = MergeArtifacts(p)
                 /\ NextNode(p)
                 /\ UNCHANGED <<todo, pausedInRun, hops>>
            ELSE Return(p, FALSE) /\ UNCHANGED artifact
  /\ UNCHANGED <<planStatus, approvals, wakeups, buildPhase,
                 agentRuns, mishaps>>

\* A handler error: node -> failed; with an on_error edge the run goes on,
\* without one, or when the look for it fails, the plan fails next.
Fail(p) ==
  /\ pc[p] = "fail"
  /\ MarkFailed(cur[p])
  /\ \/ HasOutgoingErrorEdge(cur[p]) /\ NextNode(p)
     \/ /\ ~HasOutgoingErrorEdge(cur[p]) \/ "refused" \in Events
        /\ Goto(p, "failplan")
        /\ UNCHANGED <<cur, row, verdict>>
  /\ UNCHANGED <<planStatus, artifact, approvals, wakeups,
                 buildPhase, agentRuns, todo, pausedInRun, hops>>

FailPlan(p) ==
  /\ pc[p] = "failplan"
  /\ UpdatePlanStatus("failed")
  /\ Return(p, FALSE)
  /\ UNCHANGED <<nodeState, artifact, approvals, wakeups,
                 buildPhase, agentRuns, mishaps>>

\* Nothing left to visit: ErrPaused, or the terminal assessment.
Settle(p) ==
  /\ pc[p] = "settle"
  /\ IF pausedInRun[p] = {} /\ AllTerminal
     THEN /\ Goto(p, IF AnyFailed THEN "closefailed" ELSE "closedone")
          /\ UNCHANGED <<todo, cur, pausedInRun, hops, row, verdict>>
     ELSE Return(p, TRUE)
  /\ UNCHANGED <<dbVars, buildPhase, agentRuns, mishaps>>

Close(p) ==
  /\ \/ pc[p] = "closefailed" /\ UpdatePlanStatus("failed")
     \/ pc[p] = "closedone" /\ UpdatePlanStatus("done")
  /\ Return(p, TRUE)
  /\ UNCHANGED <<nodeState, artifact, approvals, wakeups,
                 buildPhase, agentRuns, mishaps>>

\* The handler returns an error: the agent run failed, the inputs of the node
\* do not decode, or the approvals store could not be reached.
HandlerError(p) ==
  /\ \/ pc[p] = "agent" /\ "agent_error" \in Events
     \/ pc[p] = "exec" /\ "bad_inputs" \in Events
     \/ pc[p] \in {"request", "insert", "get"} /\ "db_error" \in Events
  /\ Goto(p, "fail")
  /\ UNCHANGED <<dbVars, buildPhase, agentRuns, mishaps, todo, cur,
                 pausedInRun, hops, row, verdict>>

\* The run's context ends, or a store call fails: every later call of the run
\* fails too, and the run returns an error wherever it stands -- except in
\* the final status update, whose error is dropped.  A node left in state
\* running stays there.
RunInterrupted(p) ==
  /\ "timeout" \in Events
  /\ Running(p)
  /\ Return(p, pc[p] \in {"closedone", "closefailed"})
  /\ UNCHANGED <<dbVars, buildPhase, agentRuns, mishaps>>

RunStep(p) ==
  \/ Load(p) \/ Start(p) \/ List(p) \/ Begin(p) \/ Exec(p)
  \/ AgentReturns(p) \/ Request(p) \/ Insert(p) \/ Get(p) \/ Block(p)
  \/ Done(p) \/ Fail(p) \/ FailPlan(p) \/ Settle(p) \/ Close(p)
-----------------------------------------------------------------------------
(* proceedToBuild. *)

BuildStart(p) ==
  /\ p \in Builders /\ pc[p] = "ready"
  /\ MayStartRun
  /\ buildPhase' = "spawning"
  /\ Goto(p, "load")
  /\ UNCHANGED <<dbVars, agentRuns, mishaps, todo, cur, pausedInRun, hops,
                 row, verdict>>

\* ExecutePlan returned: nil means done, also when the plan only paused.
BuildReport(p) ==
  /\ \/ pc[p] = "built" /\ buildPhase' = "done"
     \/ pc[p] = "unbuilt" /\ buildPhase' = "failed"
  /\ Goto(p, "end")
  /\ UNCHANGED <<dbVars, agentRuns, mishaps, todo, cur, pausedInRun, hops,
                 row, verdict>>
-----------------------------------------------------------------------------
(* resolvePlanApproval. *)

\* GetPlan and ListByPlan: take a pending approval of the plan, or answer
\* without changing anything.
Pick(p) ==
  /\ p \in Resolvers /\ pc[p] = "ready"
  /\ \E choice \in Choices, n \in Node :
       \E i \in DOMAIN approvals[n] :
         /\ approvals[n][i] = "pending"
         /\ Goto(p, "resolve")
         /\ cur' = [cur EXCEPT ![p] = n]
         /\ row' = [row EXCEPT ![p] = i]
         /\ verdict' = [verdict EXCEPT ![p] = choice]
  /\ UNCHANGED <<dbVars, buildPhase, agentRuns, mishaps, todo, pausedInRun,
                 hops>>

MayResolve(n, i, choice) == approvals[n][i] = "pending" /\ ~HasState(n, choice)

\* approvals.Resolve, idempotent when the row already holds the verdict,
\* whoever brought it; an error when it holds another one, or when another
\* row of the node does (UNIQUE (node_id, state)).
Resolve(p) ==
  /\ pc[p] = "resolve"
  /\ LET n == cur[p]
         state == approvals[n][row[p]]
     IN  \/ /\ state = verdict[p]
            /\ Goto(p, "wakeup")
            /\ UNCHANGED <<approvals, todo, cur, pausedInRun, hops, row,
                           verdict>>
         \/ /\ MayResolve(n, row[p], verdict[p])
            /\ approvals' = [approvals EXCEPT ![n][row[p]] = verdict[p]]
            /\ Goto(p, "wakeup")
            /\ UNCHANGED <<todo, cur, pausedInRun, hops, row, verdict>>
         \/ /\ state # verdict[p]
            /\ ~MayResolve(n, row[p], verdict[p])
            /\ Return(p, FALSE)
            /\ UNCHANGED approvals
  /\ UNCHANGED <<planStatus, recent, nodeState, artifact,
                 wakeups, buildPhase, agentRuns, mishaps>>

\* Queue the wakeup (its error, such as a client that hung up, is dropped);
\* an approval goes on as the goroutine that runs the plan.
Wakeup(p) ==
  /\ pc[p] = "wakeup"
  /\ verdict[p] = "approved" => MayStartRun
  /\ \/ wakeups' = Append(wakeups, [attempts |-> 0, state |-> "open"])
     \/ "disconnect" \in Events /\ UNCHANGED wakeups
  /\ Goto(p, IF verdict[p] = "approved" THEN "load" ELSE "end")
  /\ cur' = [cur EXCEPT ![p] = 0]
  /\ row' = [row EXCEPT ![p] = 0]
  /\ verdict' = [verdict EXCEPT ![p] = "none"]
  /\ UNCHANGED <<planStatus, recent, nodeState, artifact,
                 approvals, buildPhase, agentRuns, mishaps, todo,
                 pausedInRun, hops>>

\* handleArchivePlan: only the transition table guards it.
Archive ==
  /\ "archive" \in Events
  /\ planStatus # "archived"
  /\ ValidTransition(planStatus, "archived")
  /\ UpdatePlanStatus("archived")
  /\ UNCHANGED <<nodeState, artifact, approvals, wakeups,
                 buildPhase, agentRuns, mishaps, procVars>>
-----------------------------------------------------------------------------
(* The sweeper: Run with the one candidate plan, and resumeOne. *)

\* Slip: wakeups of plans that are over are not collected.
OpenWakeupOfRunningPlan ==
  planStatus = "running" /\ \E w \in DOMAIN wakeups : IsOpen(w)
HasOpenWakeup == \E w \in DOMAIN wakeups : IsOpen(w)
IsStale == planStatus = "running" /\ recent # "plan"

\* collectCandidates: an open wakeup, or a running plan whose own row is old.
Collect(s) ==
  /\ s \in Sweepers /\ pc[s] = "idle"
  /\ HasOpenWakeup \/ IsStale
  /\ Goto(s, "attempt")
  /\ UNCHANGED <<dbVars, buildPhase, agentRuns, mishaps, todo, cur,
                 pausedInRun, hops, row, verdict>>

\* From here to Consume the sweep goes on whatever the database answers.
CountAttempt(s) ==
  /\ pc[s] = "attempt"
  /\ \/ /\ wakeups' = [w \in DOMAIN wakeups |->
                        IF IsOpen(w) THEN [wakeups[w] EXCEPT !.attempts = @ + 1]
                                     ELSE wakeups[w]]
        /\ Fine
     \/ Refused /\ UNCHANGED wakeups
  /\ Goto(s, "budget")
  /\ UNCHANGED <<planStatus, recent, nodeState, artifact,
                 approvals, buildPhase, agentRuns, todo, cur,
                 pausedInRun, hops, row, verdict>>

\* Slips: off by one, either way.
OverBudgetEarly(w) == IsOpen(w) /\ wakeups[w].attempts >= MaxAttempts - 1
OverBudgetLate(w) == IsOpen(w) /\ wakeups[w].attempts > MaxAttempts
OverBudget(w) == IsOpen(w) /\ wakeups[w].attempts >= MaxAttempts

\* SELECT MAX(attempts): one row over the budget condemns them all; a query
\* that fails reads as no attempt at all.
CheckBudget(s) ==
  /\ pc[s] = "budget"
  /\ \/ /\ Goto(s, IF \E w \in DOMAIN wakeups : OverBudget(w) THEN "dead"
                                                              ELSE "check")
        /\ Fine
     \/ Refused /\ Goto(s, "check")
  /\ UNCHANGED <<dbVars, buildPhase, agentRuns, todo, cur,
                 pausedInRun, hops, row, verdict>>

DeadLetter(s) ==
  /\ pc[s] = "dead"
  /\ \/ SetOpenWakeups("dead") /\ Fine
     \/ Refused /\ UNCHANGED wakeups
  /\ Goto(s, "idle")
  /\ UNCHANGED <<planStatus, recent, nodeState, artifact,
                 approvals, buildPhase, agentRuns, todo, cur,
                 pausedInRun, hops, row, verdict>>

\* Skip a plan that is over (archived is not in the list), else ExecutePlan;
\* a plan that cannot be read is left to the next sweep.
CheckPlan(s) ==
  /\ pc[s] = "check"
  /\ \/ /\ planStatus \in {"done", "failed", "cancelled", "rejected"}
        /\ Goto(s, "consume")
        /\ Fine
     \/ /\ planStatus \notin {"done", "failed", "cancelled", "rejected"}
        /\ MayStartRun
        /\ Goto(s, "load")
        /\ Fine
     \/ Refused /\ Goto(s, "idle")
  /\ UNCHANGED <<dbVars, buildPhase, agentRuns, todo, cur,
                 pausedInRun, hops, row, verdict>>

\* markConsumed: every row open now, not only those counted in CountAttempt.
Consume(s) ==
  /\ pc[s] = "consume"
  /\ \/ SetOpenWakeups("consumed") /\ Fine
     \/ Refused /\ UNCHANGED wakeups
  /\ Goto(s, "idle")
  /\ UNCHANGED <<planStatus, recent, nodeState, artifact,
                 approvals, buildPhase, agentRuns, todo, cur,
                 pausedInRun, hops, row, verdict>>
-----------------------------------------------------------------------------
(* The environment. *)

\* StalePlanAfter passes without an update of the plan or of a node.  A slow
\* run may take longer than that, any other run does not.
TimePasses ==
  /\ recent # "none"
  /\ "slow" \in Events \/ \A p \in Proc : ~Running(p)
  /\ recent' = "none"
  /\ UNCHANGED <<planStatus, nodeState, artifact, approvals, wakeups,
                 buildPhase, agentRuns, mishaps, procVars>>

\* The gateway stops and starts again: requests and runs in flight are gone,
\* the sweeper starts over.  Requests not yet sent may still come.
AfterCrash(p) == CASE p \in Sweepers  -> "idle"
                   [] pc[p] = "ready" -> "ready"
                   [] OTHER           -> "end"

Crash ==
  /\ "restart" \in Events
  /\ Mishap
  /\ pc' = [p \in Proc |-> AfterCrash(p)]
  /\ todo' = [p \in Proc |-> {}]
  /\ cur' = [p \in Proc |-> 0]
  /\ pausedInRun' = [p \in Proc |-> {}]
  /\ hops' = [p \in Proc |-> 0]
  /\ row' = [p \in Proc |-> 0]
  /\ verdict' = [p \in Proc |-> "none"]
  /\ UNCHANGED <<dbVars, buildPhase, agentRuns>>

SweepStep(s) == \/ Collect(s) \/ CountAttempt(s) \/ CheckBudget(s)
                \/ DeadLetter(s) \/ CheckPlan(s) \/ Consume(s)

\* What a process does by itself once it is under way.
Progress(p) == RunStep(p) \/ BuildReport(p) \/ Resolve(p) \/ Wakeup(p)
                 \/ SweepStep(p)

Next ==
  \/ \E p \in Proc : \/ Progress(p)
                     \/ BuildStart(p) \/ Pick(p)
                     \/ HandlerError(p) \/ RunInterrupted(p)
  \/ Archive \/ TimePasses \/ Crash

Spec == Init /\ [][Next]_vars

\* The Go scheduler runs every goroutine that can run, an agent run ends (its
\* context has a deadline), the sweeper ticks for ever, and time passes.
\* Requests, the events of Events and restarts need never happen.
FairSpec == Spec /\ (\A p \in Proc : WF_vars(Progress(p)))
                 /\ WF_vars(TimePasses)
=============================================================================
