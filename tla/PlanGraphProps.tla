--------------------------- MODULE PlanGraphProps ---------------------------
(***************************************************************************)
(* What is claimed of a plan (module PlanGraph).                           *)
(***************************************************************************)
EXTENDS PlanGraph, FiniteSets

WakeupRow == [attempts : Nat, state : {"open", "consumed", "dead"}]

SharedTypeOK ==
  /\ planStatus \in PlanStatuses
  /\ recent \in {"plan", "nodes", "none"}
  /\ nodeState \in [Node -> NodeStates]
  /\ artifact \in [Node -> Verdicts \cup {"none"}]
  /\ approvals \in [Node -> Seq(ApprovalStates)]
  /\ wakeups \in Seq(WakeupRow)
  /\ buildPhase \in {"pending_approval", "spawning", "done", "failed"}
  /\ agentRuns \in [Node -> 0..2]
  /\ mishaps \in 0..MaxMishaps

LocalTypeOK ==
  /\ pc \in [Proc -> Points]
  /\ todo \in [Proc -> SUBSET Node]
  /\ cur \in [Proc -> Node \cup {0}]
  /\ pausedInRun \in [Proc -> SUBSET Node]
  /\ hops \in [Proc -> Nat]
  /\ row \in [Proc -> Nat]
  /\ verdict \in [Proc -> Verdicts \cup {"none"}]

\* The type invariant: the shared rows and the locals of each process.
TypeOK == SharedTypeOK /\ LocalTypeOK
-----------------------------------------------------------------------------
Gates(n) == {e.from : e \in {d \in Edges : d.to = n /\ d.cond = "approved"}}

\* A human's approval is what starts an agent: a node behind approved-edges is
\* never executed unless each of those gates has an approval row resolved to
\* approved, whichever run executes it and however stale its snapshot
\* (graph.go selectRunnable, handlers.go HumanFeedback, store.go Resolve).
NoUnapprovedExecution ==
  \A n \in Node : agentRuns[n] > 0 =>
    \A g \in Gates(n) : HasState(g, "approved")

\* The verdict a gate hands on in its artifacts is one a reviewer gave, and a
\* finished gate always has one (handlers.go HumanFeedback).
VerdictBacked ==
  \A n \in Node :
    /\ artifact[n] # "none" => HasState(n, artifact[n])
    /\ (nodeState[n] = "done" /\ Kind[n] = "human_feedback")
         => artifact[n] # "none"

\* No node ever has two open approvals, and no two rows of one state, however
\* many runs ask for one (approvals/store.go Request, Resolve; the unique
\* constraints they lean on).
RowsDistinct ==
  \A n \in Node : \A i, j \in DOMAIN approvals[n] :
    approvals[n][i] = approvals[n][j] => i = j

\* A plan is reported done only when every node is done, although the status
\* is written from an earlier read of the nodes (graph.go 314-326).
DoneMeansDone == planStatus = "done" => \A n \in Node : nodeState[n] = "done"

\* Where a run works on its node, from the update to running on.
AtWork == {"exec", "agent", "request", "insert", "get", "block", "done", "fail"}

\* A node left in the middle of its work: nobody is at it any more.
Deserted(n) == /\ nodeState[n] = "running"
               /\ \A p \in Proc : ~(pc[p] \in AtWork /\ cur[p] = n)

\* A plan fails because a node failed, although the error of writing that the
\* node failed is dropped and the plan fails all the same: then the node is
\* left running, and stays so (graph.go failWithArtifacts, 275-290, 319-323).
FailedHasCause ==
  planStatus = "failed" =>
    \/ AnyFailed
    \/ mishaps > 0 /\ \E n \in Node : Deserted(n)

\* The retry budget: a restart between counting an attempt and dead-lettering,
\* a failed look at the count or a refused dead-letter can cost one attempt
\* more each, nothing else can (sweeper.go resumeOne, deadLetter).
AttemptsBounded ==
  \A w \in DOMAIN wakeups : wakeups[w].attempts <= MaxAttempts + mishaps

\* A resolved approval is never changed, no approval is ever deleted.
ApprovalsFinal ==
  [][\A n \in Node : \A i \in DOMAIN approvals[n] :
       /\ i \in DOMAIN approvals'[n]
       /\ approvals[n][i] # "pending" => approvals'[n][i] = approvals[n][i]]_vars

\* A finished node is never reopened, whatever stale run visits it.
NodesFinal ==
  [][\A n \in Node : nodeState[n] \in TerminalNodeStates
                       => nodeState'[n] = nodeState[n]]_vars

\* A dead-lettered group held a row that used up its budget: wakeups are not
\* given up on before (sweeper.go 336-342, 410-421).
DeadLetterEarned ==
  \A w \in DOMAIN wakeups : wakeups[w].state = "dead" =>
    \E v \in DOMAIN wakeups : /\ wakeups[v].state = "dead"
                              /\ wakeups[v].attempts >= MaxAttempts

\* An agent works for a node only if the parents ended the way its incoming
\* edges ask, and they stay that way (graph.go edgeSatisfied).
EdgesRespected ==
  \A n \in Node : agentRuns[n] > 0 => \A e \in Incoming(n) : EdgeSatisfied(e)

\* Completed work is not repeated: an agent run starts for a node only once
\* (orchestrator/crash_recover_test.go, chaos_mid_plan_test.go).
ExecOnce == \A n \in Node : agentRuns[n] <= 1

\* No agent starts work for a plan that is over.
NoWorkAfterEnd ==
  [][agentRuns' # agentRuns => planStatus = "running"]_vars

Over == planStatus \in {"done", "failed", "cancelled", "rejected", "archived"}

OpenRow(w) == w \in DOMAIN wakeups /\ IsOpen(w)

\* Every queued wakeup is dealt with: consumed or given up on (sweeper.go).
WakeupsDrained ==
  \A w \in 1..Cardinality(Resolvers) : OpenRow(w) ~> ~OpenRow(w)

\* A plan whose gate is approved comes to an end, whoever of the approving
\* request and the sweeper gets to run it (plan_handlers.go 281-295,
\* gateway_server.go 123-126).
ApprovedPlanEnds ==
  \A g \in Node : HasState(g, "approved") ~> Over

-----------------------------------------------------------------------------
(* The plan as its reviewer sees it. *)

AgentNode == {n \in Node : Kind[n] \in {"planner", "agent_task"}}

\* Kinds without a handler never succeed, so a plan is done only without them.
Granted == {g \in Node : HasState(g, "approved")}
Worked == {n \in Node : agentRuns[n] > 0}
Outcome == IF planStatus \in {"done", "failed", "archived"} THEN planStatus
                                                            ELSE "open"

Contract == INSTANCE PlanContract WITH
  Nodes <- Node, AgentNodes <- AgentNode, Before <- [n \in Node |-> Gates(n)],
  granted <- Granted, worked <- Worked, outcome <- Outcome

\* Whatever the interleaving of runs, restarts and sweeps, the plan keeps the
\* contract of module PlanContract.
KeepsContract == Contract!ContractSpec
=============================================================================
