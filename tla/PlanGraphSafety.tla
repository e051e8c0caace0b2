-------------------------- MODULE PlanGraphSafety --------------------------
(***************************************************************************)
(* The safety properties of a plan, proved from one inductive invariant.   *)
(***************************************************************************)
EXTENDS PlanGraphProofs

\* The parent of an edge ended as the edge asks; if the edge asks for a verdict,
\* a reviewer gave it.  Unlike EdgeSatisfied this can never become false again.
Asked(cond) == CASE cond = "approved" -> "approved" [] cond = "rejected" -> "rejected"
                 [] cond = "revision" -> "revision_requested" [] OTHER -> "none"

Earned(e) ==
  /\ nodeState[e.from] = IF e.cond = "on_error" THEN "failed" ELSE "done"
  /\ Asked(e.cond) # "none" => HasState(e.from, Asked(e.cond))

Cleared(n) == \A e \in Incoming(n) : Earned(e)

\* Agents work on cleared nodes only.
WorkCleared == \A n \in Node : agentRuns[n] > 0 => Cleared(n)

\* What a run carries with it: a snapshot of cleared nodes only, a verdict
\* that a row of its gate holds, and before it closes the plan as done, the
\* certainty that every node is.
RunOK(p) ==
  /\ \A n \in todo[p] : Cleared(n)
  /\ pc[p] = "exec" => Cleared(cur[p])
  /\ pc[p] \in {"exec", "agent"} => Kind[cur[p]] # "human_feedback"
  /\ pc[p] \in {"request", "insert", "get"} => Kind[cur[p]] = "human_feedback"
  /\ verdict[p] # "none" => pc[p] \in {"done"} \cup AtVerdict
  /\ pc[p] = "done" /\ verdict[p] # "none" => HasState(cur[p], verdict[p])
  /\ pc[p] = "done" /\ Kind[cur[p]] = "human_feedback" => verdict[p] # "none"
  /\ pc[p] \in {"agent", "done"} /\ cur[p] \in AgentNode => agentRuns[cur[p]] > 0
  /\ pc[p] = "closedone" => \A n \in Node : nodeState[n] = "done"

RunsOK == \A p \in Proc : RunOK(p)

\* What the rows say: no node is ever cancelled, no plan rejected, and an
\* agent node is done only after an agent worked on it.
StoreOK ==
  /\ planStatus \in {"draft", "running", "done", "failed", "archived"}
  /\ \A n \in Node : nodeState[n] # "cancelled"
  /\ \A n \in AgentNode : nodeState[n] = "done" => agentRuns[n] > 0
  /\ \A n \in Node : approvals[n] # <<>> => Kind[n] = "human_feedback"
  /\ WorkCleared
  /\ VerdictBacked
  /\ DoneMeansDone
  /\ RowsDistinct

IInv == TypeOK /\ LocalsOK /\ RunsOK /\ StoreOK
-----------------------------------------------------------------------------
(* Facts that only become truer. *)

AgentsKept == \A n \in Node : agentRuns[n] > 0 => agentRuns'[n] > 0

\* Only Exec starts an agent.
LEMMA AgentWrites ==
  ASSUME TypeOK, LocalsOK, [Next]_vars
  PROVE  agentRuns' = agentRuns \/ \E p \in Proc : Exec(p)
<1>1. ASSUME NEW p \in Proc, RunStep(p), ~Exec(p) PROVE agentRuns' = agentRuns
  BY <1>1
  DEF RunStep, Load, Start, List, Begin, AgentReturns, Request, Insert, Get,
      Block, Done, Fail, FailPlan, Settle, Close
<1>2. ASSUME NEW p \in Proc, ProcStep(p), ~RunStep(p) PROVE agentRuns' = agentRuns
  <2>1. CASE SweepStep(p)
    BY <2>1 DEF SweepStep, Collect, CountAttempt, CheckBudget, DeadLetter,
                CheckPlan, Consume
  <2>2. CASE ~SweepStep(p)
    BY <1>2, <2>2 DEF ProcStep, BuildStart, BuildReport, HandlerError,
                      RunInterrupted, Pick, Resolve, Wakeup
  <2> QED BY <2>1, <2>2
<1>3. CASE Archive \/ TimePasses \/ Crash \/ UNCHANGED vars
  BY <1>3 DEF Archive, TimePasses, Crash, vars
<1> QED BY <1>1, <1>2, <1>3, NextCases

\* What Exec writes.
LEMMA ExecEffect ==
  ASSUME TypeOK, LocalsOK, NEW p \in Proc, Exec(p)
  PROVE  /\ cur[p] \in Node
         /\ agentRuns'[cur[p]] > 0
         /\ \A n \in Node \ {cur[p]} : agentRuns'[n] = agentRuns[n]
<1>1. cur[p] \in Node
  BY AtNodeFacts DEF Exec, AtNode
<1>2. agentRuns[cur[p]] \in 0..2 /\ agentRuns \in [Node -> 0..2]
  BY <1>1 DEF TypeOK, SharedTypeOK
<1>3. agentRuns'[cur[p]] = IF agentRuns[cur[p]] = 2 THEN 2 ELSE agentRuns[cur[p]] + 1
  BY <1>1, <1>2 DEF Exec
<1>4. \A n \in Node \ {cur[p]} : agentRuns'[n] = agentRuns[n]
  BY <1>1, <1>2 DEF Exec
<1> QED BY <1>1, <1>2, <1>3, <1>4

\* An agent that has worked on a node has worked on it.
LEMMA AgentsStep ==
  ASSUME TypeOK, LocalsOK, [Next]_vars
  PROVE  AgentsKept
<1>1. CASE agentRuns' = agentRuns
  BY <1>1 DEF AgentsKept
<1>2. CASE \E p \in Proc : Exec(p)
  <2>1. PICK p \in Proc : Exec(p)
    BY <1>2
  <2> QED BY <2>1, ExecEffect DEF AgentsKept
<1> QED BY <1>1, <1>2, AgentWrites

\* A state an approval row has had once resolved it keeps.
LEMMA StatesKept ==
  ASSUME RowsKept, NEW n \in Node, NEW v \in Verdicts, HasState(n, v)
  PROVE  HasState(n, v)'
BY DEF HasState, RowsKept, Verdicts

\* The parents of a node are nodes.
LEMMA ParentsAreNodes ==
  ASSUME NEW n, NEW e \in Incoming(n)
  PROVE  e.from \in Node
BY NodesAssumption DEF Incoming

\* The gates of a cleared node are approved.
LEMMA ClearedGates ==
  ASSUME NEW n, Cleared(n), NEW g \in Gates(n)
  PROVE  g \in Node /\ HasState(g, "approved")
<1>1. PICK e \in Edges : e.from = g /\ e.to = n /\ e.cond = "approved"
  BY DEF Gates
<1>2. e \in Incoming(n) /\ Asked(e.cond) = "approved"
  BY <1>1 DEF Incoming, Asked
<1> QED BY <1>1, <1>2, ParentsAreNodes DEF Cleared, Earned

\* A node that was cleared stays cleared.
LEMMA ClearedKept ==
  ASSUME RowsKept, NodesKept, NEW n, Cleared(n)
  PROVE  Cleared(n)'
<1> SUFFICES ASSUME NEW e \in Incoming(n) PROVE Earned(e)'
  BY DEF Cleared, Incoming
<1>1. e.from \in Node /\ Earned(e)
  BY ParentsAreNodes DEF Cleared
<1>2. nodeState'[e.from] = nodeState[e.from]
  BY <1>1 DEF Earned, NodesKept, TerminalNodeStates
<1>3. Asked(e.cond) # "none" => HasState(e.from, Asked(e.cond))'
  <2> SUFFICES ASSUME Asked(e.cond) # "none" PROVE HasState(e.from, Asked(e.cond))'
    OBVIOUS
  <2>1. Asked(e.cond) \in Verdicts
    BY DEF Asked, Verdicts
  <2> QED BY <1>1, <2>1, StatesKept DEF Earned
<1> QED BY <1>1, <1>2, <1>3 DEF Earned

\* A process that takes no step keeps what it carries.
LEMMA UndisturbedRun ==
  ASSUME TypeOK, LocalsOK, RowsKept, NodesKept, AgentsKept,
         NEW q \in Proc, RunOK(q), SameLocals(q)
  PROVE  RunOK(q)'
<1>1. \A n \in todo'[q] : Cleared(n)'
  BY ClearedKept DEF RunOK, SameLocals
<1>2. pc'[q] = "exec" => Cleared(cur[q])'
  BY ClearedKept DEF RunOK, SameLocals
<1>3. pc'[q] = "done" /\ verdict'[q] # "none" => HasState(cur[q], verdict[q])'
  <2> SUFFICES ASSUME pc[q] = "done", verdict[q] # "none"
               PROVE  HasState(cur[q], verdict[q])'
    BY DEF SameLocals
  <2>1. cur[q] \in Node /\ verdict[q] \in Verdicts
    BY AtNodeFacts DEF AtNode, TypeOK, LocalTypeOK
  <2> QED BY <2>1, StatesKept DEF RunOK, SameLocals
<1>4. pc'[q] \in {"agent", "done"} /\ cur'[q] \in AgentNode => agentRuns'[cur'[q]] > 0
  BY DEF RunOK, SameLocals, AgentsKept, AgentNode
<1>5. pc'[q] = "closedone" => \A n \in Node : nodeState'[n] = "done"
  BY DEF RunOK, SameLocals, NodesKept, TerminalNodeStates
<1> QED BY <1>1, <1>2, <1>3, <1>4, <1>5 DEF RunOK, SameLocals, Cleared, HasState, AgentNode
-----------------------------------------------------------------------------
(* A process that takes a step. *)

\* Points at which RunOK says nothing but that no verdict is carried.
QuietPoints == Points \ ({"exec", "agent", "request", "insert", "get", "done",
                          "closedone"} \cup AtVerdict)

\* The nodes of a snapshot are cleared.
LEMMA TodoCleared ==
  ASSUME RowsKept, NodesKept, NEW p \in Proc, RunOK(p), todo'[p] \subseteq todo[p]
  PROVE  \A n \in todo'[p] : Cleared(n)'
BY ClearedKept DEF RunOK

\* A process that is not at work satisfies its invariant.
LEMMA QuietOK ==
  ASSUME RowsKept, NodesKept, NEW p \in Proc, RunOK(p), todo'[p] \subseteq todo[p],
         pc'[p] \in QuietPoints, verdict'[p] = "none"
  PROVE  RunOK(p)'
<1>1. \A n \in todo'[p] : Cleared(n)'
  BY TodoCleared
<1> QED BY <1>1 DEF RunOK, QuietPoints

\* A process without a verdict has none to back.
LEMMA NoVerdict ==
  ASSUME NEW p \in Proc, RunOK(p), pc[p] \notin {"done"} \cup AtVerdict
  PROVE  verdict[p] = "none"
BY DEF RunOK

\* Returning from a run leaves the invariant of the process.
LEMMA ReturnOK ==
  ASSUME TypeOK, RowsKept, NodesKept, NEW p \in Proc, RunOK(p),
         NEW ok \in BOOLEAN, Return(p, ok)
  PROVE  RunOK(p)'
<1>1. /\ pc'[p] \in {"built", "unbuilt", "consume", "idle", "end"}
      /\ todo'[p] = {} /\ verdict'[p] = "none"
  BY ReturnTypes DEF TypeOK
<1>2. pc'[p] \in QuietPoints
  BY <1>1 DEF QuietPoints, AtVerdict, Points, SweepPoints
<1> QED BY <1>1, <1>2, QuietOK

\* Where a process is after a move.
LEMMA GotoAt ==
  ASSUME TypeOK, NEW p \in Proc, NEW point, Goto(p, point)
  PROVE  pc'[p] = point
BY DEF Goto, TypeOK, LocalTypeOK

\* Going on to the next node leaves the invariant of the process.
LEMMA NextNodeOK ==
  ASSUME TypeOK, RowsKept, NodesKept, NEW p \in Proc, RunOK(p), NextNode(p), todo' = todo
  PROVE  RunOK(p)'
<1>1. pc'[p] \in {"list", "begin"} /\ verdict'[p] = "none"
  BY GotoAt DEF NextNode, TypeOK, LocalTypeOK
<1>2. pc'[p] \in QuietPoints
  BY <1>1 DEF QuietPoints, AtVerdict, Points, RunPoints
<1> QED BY <1>1, <1>2, QuietOK

\* A node selectRunnable picks is cleared: the artifact that satisfies an edge
\* repeats an approval row.
LEMMA RunnableCleared ==
  ASSUME StoreOK, NEW n \in Runnable
  PROVE  Cleared(n)
<1> SUFFICES ASSUME NEW e \in Incoming(n) PROVE Earned(e)
  BY DEF Cleared
<1>1. EdgeSatisfied(e) /\ e.from \in Node
  BY ParentsAreNodes DEF Runnable
<1>2. Asked(e.cond) # "none" => artifact[e.from] = Asked(e.cond)
  BY <1>1 DEF EdgeSatisfied, Asked
<1>3. Asked(e.cond) # "none" => HasState(e.from, Asked(e.cond))
  BY <1>1, <1>2 DEF StoreOK, VerdictBacked
<1> QED BY <1>1, <1>3 DEF EdgeSatisfied, Earned

\* A step of a run keeps the invariant of its process.
LEMMA RunStepOK ==
  ASSUME IInv, RowsKept, NodesKept, AgentsKept, NEW p \in Proc, RunStep(p)
  PROVE  RunOK(p)'
<1> USE DEF IInv
<1>t. LocalTypeOK
  BY DEF TypeOK
<1>o. RunOK(p)
  BY DEF RunsOK
<1>r. ASSUME NEW ok \in BOOLEAN, Return(p, ok) PROVE RunOK(p)'
  BY <1>o, <1>r, ReturnOK
<1>q. {"start", "list", "settle", "begin", "closefailed", "block", "failplan"}
        \subseteq QuietPoints
  BY DEF QuietPoints, AtVerdict, Points, RunPoints
<1>1. CASE Load(p)
  <2>1. verdict[p] = "none"
    BY <1>o, <1>1, NoVerdict DEF Load, AtVerdict
  <2>2. CASE Return(p, TRUE)
    BY <1>r, <2>2
  <2>3. CASE ~Return(p, TRUE)
    <3>1. /\ Goto(p, IF planStatus = "running" THEN "list" ELSE "start")
          /\ UNCHANGED <<todo, verdict>>
      BY <1>1, <2>3 DEF Load
    <3>2. pc'[p] \in {"list", "start"}
      BY <3>1, GotoAt
    <3> QED BY <1>o, <1>q, <2>1, <3>1, <3>2, QuietOK
  <2> QED BY <2>2, <2>3
<1>2. CASE Start(p)
  <2>1. verdict[p] = "none" /\ UNCHANGED <<todo, verdict>>
    BY <1>o, <1>2, NoVerdict DEF Start, AtVerdict
  <2>2. pc'[p] = "list"
    BY <1>2, GotoAt DEF Start
  <2> QED BY <1>o, <1>q, <2>1, <2>2, QuietOK
<1>3. CASE List(p)
  <2>1. verdict[p] = "none"
    BY <1>o, <1>3, NoVerdict DEF List, AtVerdict
  <2>2. CASE Return(p, FALSE)
    BY <1>r, <2>2
  <2>3. CASE ~Return(p, FALSE)
    <3>1. /\ \E point \in {"settle", "begin"} : Goto(p, point)
          /\ todo' = [todo EXCEPT ![p] = Runnable \ pausedInRun[p]]
          /\ verdict' = verdict
      BY <1>3, <2>3 DEF List
    <3>2. pc'[p] \in {"settle", "begin"}
      BY <3>1, GotoAt
    <3>3. todo'[p] \subseteq Runnable
      BY <1>t, <3>1 DEF LocalTypeOK
    <3>4. \A n \in todo'[p] : Cleared(n)'
      BY <3>3, RunnableCleared, ClearedKept
    <3> QED BY <2>1, <3>1, <3>2, <3>4 DEF RunOK, AtVerdict
  <2> QED BY <2>2, <2>3
<1>4. CASE Begin(p)
  <2>1. CASE Return(p, FALSE)
    BY <1>r, <2>1
  <2>2. CASE ~Return(p, FALSE)
    <3>1. PICK n \in todo[p] :
            /\ Kind[n] \in HandledKinds
            /\ Goto(p, IF Kind[n] = "human_feedback" THEN "request" ELSE "exec")
            /\ todo' = [todo EXCEPT ![p] = todo[p] \ {n}]
            /\ cur' = [cur EXCEPT ![p] = n]
            /\ verdict' = verdict
      BY <1>4, <2>2 DEF Begin
    <3>2. verdict'[p] = "none"
      BY <1>o, <1>4, <3>1, NoVerdict DEF Begin, AtVerdict
    <3>3. cur'[p] = n /\ todo'[p] \subseteq todo[p]
      BY <1>t, <3>1 DEF LocalTypeOK
    <3>4. \A m \in todo'[p] : Cleared(m)'
      BY <1>o, <3>3, TodoCleared
    <3>5. Cleared(cur[p])'
      BY <1>o, <3>3, ClearedKept DEF RunOK
    <3>6. pc'[p] = IF Kind[n] = "human_feedback" THEN "request" ELSE "exec"
      BY <3>1, GotoAt
    <3> QED BY <3>2, <3>3, <3>4, <3>5, <3>6 DEF RunOK, AtVerdict
  <2> QED BY <2>1, <2>2
<1>5. CASE Exec(p)
  <2>1. /\ verdict[p] = "none" /\ UNCHANGED <<todo, cur, verdict>>
        /\ pc'[p] = "agent"
    BY <1>o, <1>5, NoVerdict, GotoAt DEF Exec, AtVerdict
  <2>2. agentRuns'[cur[p]] > 0
    BY <1>5, ExecEffect
  <2>3. Kind[cur[p]] # "human_feedback"
    BY <1>o, <1>5 DEF RunOK, Exec
  <2>4. \A n \in todo'[p] : Cleared(n)'
    BY <1>o, <2>1, TodoCleared
  <2> QED BY <2>1, <2>2, <2>3, <2>4 DEF RunOK, AtVerdict, AgentNode
<1>6. CASE AgentReturns(p)
  <2>1. /\ verdict[p] = "none" /\ UNCHANGED <<todo, cur, verdict, agentRuns>>
        /\ pc[p] = "agent" /\ pc'[p] = "done"
    BY <1>o, <1>6, NoVerdict, GotoAt DEF AgentReturns, AtVerdict
  <2>2. \A n \in todo'[p] : Cleared(n)'
    BY <1>o, <2>1, TodoCleared
  <2> QED BY <1>o, <2>1, <2>2 DEF RunOK, AtVerdict, AgentNode
<1>7. CASE Request(p) \/ Insert(p)
  <2>1. /\ verdict[p] = "none" /\ UNCHANGED <<todo, cur, verdict>>
        /\ Kind[cur[p]] = "human_feedback"
    BY <1>o, <1>7, NoVerdict DEF Request, Insert, RunOK, AtVerdict
  <2>2. pc'[p] \in {"insert", "get"}
    BY <1>7, GotoAt DEF Request, Insert
  <2>3. \A n \in todo'[p] : Cleared(n)'
    BY <1>o, <2>1, TodoCleared
  <2> QED BY <2>1, <2>2, <2>3 DEF RunOK, AtVerdict
<1>8. CASE Get(p)
  <2> DEFINE state == approvals[cur[p]][row[p]]
  <2>1. /\ verdict[p] = "none" /\ Kind[cur[p]] = "human_feedback"
        /\ UNCHANGED <<todo, cur, row, approvals>>
    BY <1>o, <1>8, NoVerdict DEF Get, RunOK, AtVerdict, dbVars
  <2>2. \A n \in todo'[p] : Cleared(n)'
    BY <1>o, <2>1, TodoCleared
  <2>3. CASE state = "pending"
    <3>1. pc'[p] = "block" /\ verdict' = verdict
      BY <1>8, <2>3, GotoAt DEF Get
    <3> QED BY <1>o, <1>q, <2>1, <3>1, QuietOK
  <2>4. CASE state # "pending"
    <3>1. pc'[p] = "done" /\ verdict'[p] = state
      BY <1>8, <1>t, <2>4, GotoAt DEF Get, LocalTypeOK
    <3>2. state \in ApprovalStates /\ row[p] \in DOMAIN approvals[cur[p]]
      BY <1>8, AtNodeFacts DEF Get, AtRow, LocalsOK
    <3>3. state # "none"
      BY <3>2 DEF ApprovalStates, Verdicts
    <3>4. HasState(cur[p], verdict[p])'
      BY <2>1, <3>1, <3>2 DEF HasState
    <3> QED BY <2>1, <2>2, <3>1, <3>3, <3>4 DEF RunOK, AtVerdict, AgentNode
  <2> QED BY <2>3, <2>4
<1>9. CASE Block(p) \/ Done(p)
  <2>1. Return(p, FALSE) \/ (NextNode(p) /\ todo' = todo)
    BY <1>9 DEF Block, Done
  <2> QED BY <1>o, <1>r, <2>1, NextNodeOK
<1>10. CASE Fail(p)
  <2>1. CASE NextNode(p)
    BY <1>o, <1>10, <2>1, NextNodeOK DEF Fail
  <2>2. CASE ~NextNode(p)
    <3>1. verdict[p] = "none" /\ UNCHANGED <<todo, verdict>>
      BY <1>o, <1>10, <2>2, NoVerdict DEF Fail, AtVerdict
    <3>2. pc'[p] = "failplan"
      BY <1>10, <2>2, GotoAt DEF Fail
    <3> QED BY <1>o, <1>q, <3>1, <3>2, QuietOK
  <2> QED BY <2>1, <2>2
<1>11. CASE FailPlan(p) \/ Close(p)
  BY <1>11, <1>r DEF FailPlan, Close
<1>12. CASE Settle(p)
  <2>1. CASE Return(p, TRUE)
    BY <1>r, <2>1
  <2>2. CASE ~Return(p, TRUE)
    <3>1. verdict[p] = "none" /\ UNCHANGED <<todo, verdict, nodeState>> /\ AllTerminal
      BY <1>o, <1>12, <2>2, NoVerdict DEF Settle, AtVerdict, dbVars
    <3>2. \A n \in todo'[p] : Cleared(n)'
      BY <1>o, <3>1, TodoCleared
    <3>3. CASE AnyFailed
      <4>1. pc'[p] = "closefailed"
        BY <1>12, <2>2, <3>3, GotoAt DEF Settle
      <4> QED BY <1>o, <1>q, <3>1, <4>1, QuietOK
    <3>4. CASE ~AnyFailed
      <4>1. pc'[p] = "closedone"
        BY <1>12, <2>2, <3>4, GotoAt DEF Settle
      <4>2. \A n \in Node : nodeState'[n] = "done"
        BY <3>1, <3>4 DEF AllTerminal, AnyFailed, StoreOK, TerminalNodeStates
      <4> QED BY <3>1, <3>2, <4>1, <4>2 DEF RunOK, AtVerdict
    <3> QED BY <3>3, <3>4
  <2> QED BY <2>1, <2>2
<1> QED BY <1>1, <1>2, <1>3, <1>4, <1>5, <1>6, <1>7, <1>8, <1>9, <1>10, <1>11,
           <1>12 DEF RunStep

\* So does any other step of a process.
LEMMA OtherStepOK ==
  ASSUME IInv, RowsKept, NodesKept, NEW p \in Proc, ProcStep(p), ~RunStep(p)
  PROVE  RunOK(p)'
<1> USE DEF IInv
<1>t. LocalTypeOK
  BY DEF TypeOK
<1>o. RunOK(p)
  BY DEF RunsOK
<1>r. ASSUME NEW ok \in BOOLEAN, Return(p, ok) PROVE RunOK(p)'
  BY <1>o, <1>r, ReturnOK
<1>q. {"load", "fail", "end", "attempt", "budget", "idle", "dead", "check",
       "consume"} \subseteq QuietPoints
  BY DEF QuietPoints, AtVerdict, Points, RunPoints, SweepPoints
<1>1. CASE BuildStart(p) \/ BuildReport(p) \/ HandlerError(p) \/ SweepStep(p)
  <2>1. /\ pc[p] \notin {"done"} \cup AtVerdict
        /\ UNCHANGED <<todo, verdict>>
        /\ \E point \in {"load", "fail", "end", "attempt", "budget", "idle",
                         "dead", "check", "consume"} : Goto(p, point)
    BY <1>1 DEF BuildStart, BuildReport, HandlerError, SweepStep, Collect,
                CountAttempt, CheckBudget, DeadLetter, CheckPlan, Consume,
                AtVerdict
  <2>2. verdict'[p] = "none"
    BY <1>o, <2>1, NoVerdict
  <2>3. pc'[p] \in QuietPoints
    BY <1>q, <2>1, GotoAt
  <2> QED BY <1>o, <2>1, <2>2, <2>3, QuietOK
<1>2. CASE RunInterrupted(p)
  <2>1. (pc[p] \in {"closedone", "closefailed"}) \in BOOLEAN
    OBVIOUS
  <2> QED BY <1>2, <1>r, <2>1 DEF RunInterrupted
<1>3. CASE Pick(p)
  <2>1. Goto(p, "resolve") /\ todo' = todo
    BY <1>3 DEF Pick
  <2>2. pc'[p] = "resolve"
    BY <2>1, GotoAt
  <2>3. \A n \in todo'[p] : Cleared(n)'
    BY <1>o, <2>1, TodoCleared
  <2> QED BY <2>2, <2>3 DEF RunOK, AtVerdict
<1>4. CASE Resolve(p)
  <2>1. CASE Return(p, FALSE)
    BY <1>r, <2>1
  <2>2. CASE ~Return(p, FALSE)
    <3>1. Goto(p, "wakeup") /\ todo' = todo
      BY <1>4, <2>2 DEF Resolve
    <3>2. pc'[p] = "wakeup"
      BY <3>1, GotoAt
    <3>3. \A n \in todo'[p] : Cleared(n)'
      BY <1>o, <3>1, TodoCleared
    <3> QED BY <3>2, <3>3 DEF RunOK, AtVerdict
  <2> QED BY <2>1, <2>2
<1>5. CASE Wakeup(p)
  <2>1. /\ pc'[p] \in {"load", "end"}
        /\ todo' = todo /\ verdict'[p] = "none"
    BY <1>5, <1>t, GotoAt DEF Wakeup, LocalTypeOK
  <2> QED BY <1>o, <1>q, <2>1, QuietOK
<1> QED BY <1>1, <1>2, <1>3, <1>4, <1>5 DEF ProcStep

\* Every step keeps the invariants of all the processes.
LEMMA RunsStep ==
  ASSUME IInv, [Next]_vars
  PROVE  RunsOK'
<1> USE DEF IInv
<1> SUFFICES ASSUME NEW q \in Proc PROVE RunOK(q)'
  BY DEF RunsOK
<1>1. RowsKept /\ NodesKept /\ AgentsKept /\ RunOK(q)
  BY ApprovalsStep, NodesStep, AgentsStep DEF RunsOK
<1>2. ASSUME NEW p \in Proc, ProcStep(p) PROVE RunOK(q)'
  BY <1>1, <1>2, Locality, UndisturbedRun, RunStepOK, OtherStepOK
<1>3. CASE Archive \/ TimePasses \/ UNCHANGED vars
  <2>1. SameLocals(q)
    BY <1>3 DEF Archive, TimePasses, vars, procVars, SameLocals
  <2> QED BY <1>1, <2>1, UndisturbedRun
<1>4. CASE Crash
  <2>1. /\ pc'[q] \in {"idle", "ready", "end"}
        /\ todo'[q] = {} /\ verdict'[q] = "none"
    BY <1>4 DEF Crash, AfterCrash
  <2>2. pc'[q] \in QuietPoints
    BY <2>1 DEF QuietPoints, AtVerdict, Points
  <2> QED BY <1>1, <2>1, <2>2, QuietOK
<1> QED BY <1>2, <1>3, <1>4, NextCases
-----------------------------------------------------------------------------
(* The rows. *)

\* Every write of the plan's status is a move of the table, and done is
\* written only by a run that found every node done.
StatusMoves ==
  /\ ValidTransition(planStatus, planStatus')
  /\ planStatus' \in {"running", "failed", "done", "archived"}
  /\ planStatus' = "done" => \E p \in Proc : pc[p] = "closedone"

\* What a step writes to the plan's status.
LEMMA StatusWrites ==
  ASSUME [Next]_vars
  PROVE  planStatus' = planStatus \/ StatusMoves
<1>1. ASSUME NEW s \in {"running", "failed", "archived"}, UpdatePlanStatus(s)
      PROVE  planStatus' = planStatus \/ StatusMoves
  BY <1>1 DEF UpdatePlanStatus, StatusMoves
<1>2. ASSUME NEW p \in Proc, RunStep(p)
      PROVE  planStatus' = planStatus \/ StatusMoves
  <2>1. CASE Start(p) \/ FailPlan(p)
    BY <1>1, <2>1 DEF Start, FailPlan
  <2>2. CASE Close(p)
    BY <1>1, <2>2 DEF Close, UpdatePlanStatus, StatusMoves
  <2>3. CASE ~(Start(p) \/ FailPlan(p) \/ Close(p))
    BY <1>2, <2>3
    DEF RunStep, Load, List, Begin, Exec, AgentReturns, Request, Insert, Get,
        Block, Done, Fail, Settle, dbVars
  <2> QED BY <2>1, <2>2, <2>3
<1>3. ASSUME NEW p \in Proc, ProcStep(p), ~RunStep(p)
      PROVE  planStatus' = planStatus
  <2>1. CASE SweepStep(p)
    BY <2>1 DEF SweepStep, Collect, CountAttempt, CheckBudget, DeadLetter,
                CheckPlan, Consume, dbVars
  <2>2. CASE ~SweepStep(p)
    BY <1>3, <2>2 DEF ProcStep, BuildStart, BuildReport, HandlerError,
                      RunInterrupted, Pick, Resolve, Wakeup, dbVars
  <2> QED BY <2>1, <2>2
<1>4. CASE Archive
  BY <1>1, <1>4 DEF Archive
<1>5. CASE TimePasses \/ Crash \/ UNCHANGED vars
  BY <1>5 DEF TimePasses, Crash, vars, dbVars
<1> QED BY <1>2, <1>3, <1>4, <1>5, NextCases

\* Which steps write artifacts.
LEMMA ArtifactWrites ==
  ASSUME TypeOK, LocalsOK, [Next]_vars
  PROVE  artifact' = artifact \/ \E p \in Proc : Done(p)
<1>1. ASSUME NEW p \in Proc, RunStep(p), ~Done(p) PROVE artifact' = artifact
  BY <1>1
  DEF RunStep, Load, Start, List, Begin, Exec, AgentReturns, Request, Insert,
      Get, Block, Fail, FailPlan, Settle, Close, dbVars
<1>2. ASSUME NEW p \in Proc, ProcStep(p), ~RunStep(p) PROVE artifact' = artifact
  <2>1. CASE SweepStep(p)
    BY <2>1 DEF SweepStep, Collect, CountAttempt, CheckBudget, DeadLetter,
                CheckPlan, Consume, dbVars
  <2>2. CASE ~SweepStep(p)
    BY <1>2, <2>2 DEF ProcStep, BuildStart, BuildReport, HandlerError,
                      RunInterrupted, Pick, Resolve, Wakeup, dbVars
  <2> QED BY <2>1, <2>2
<1>3. CASE Archive \/ TimePasses \/ Crash \/ UNCHANGED vars
  BY <1>3 DEF Archive, TimePasses, Crash, vars, dbVars
<1> QED BY <1>1, <1>2, <1>3, NextCases

\* The only way to done is a run that stands at done.
LEMMA BecomesDone ==
  ASSUME TypeOK, LocalsOK, [Next]_vars, NEW n \in Node,
         nodeState[n] # "done", nodeState'[n] = "done"
  PROVE  \E p \in Proc : /\ Done(p) /\ cur[p] = n
                         /\ ValidNodeTransition(nodeState[n], "done")
<1>1. PICK p \in Proc : WritesNode(p)
  BY NodeWrites
<1>2. ASSUME NEW m \in Node, NEW s, s # "done", UpdateNodeState(m, s)
      PROVE  FALSE
  BY <1>2, UpdateNodeStateEffect
<1>3. todo[p] \subseteq Node
  BY DEF TypeOK, LocalTypeOK
<1>4. Done(p) /\ UpdateNodeState(cur[p], "done") /\ cur[p] \in Node
  BY <1>1, <1>2, <1>3 DEF WritesNode
<1>5. cur[p] = n
  BY <1>4, UpdateNodeStateEffect
<1>6. ValidNodeTransition(nodeState[n], "done")
  BY <1>4, <1>5 DEF UpdateNodeState
<1> QED BY <1>4, <1>5, <1>6

\* No node is ever cancelled.
LEMMA NeverCancelled ==
  ASSUME TypeOK, LocalsOK, [Next]_vars, NEW n \in Node,
         nodeState[n] # "cancelled"
  PROVE  nodeState'[n] # "cancelled"
<1>1. CASE nodeState' = nodeState
  BY <1>1
<1>2. CASE nodeState' # nodeState
  <2>1. PICK p \in Proc : WritesNode(p)
    BY <1>2, NodeWrites
  <2>2. todo[p] \subseteq Node
    BY DEF TypeOK, LocalTypeOK
  <2>3. PICK m \in Node, s \in {"failed", "running", "blocked", "done"} :
          UpdateNodeState(m, s)
    BY <2>1, <2>2 DEF WritesNode
  <2> QED BY <2>3, UpdateNodeStateEffect
<1> QED BY <1>1, <1>2

\* A second row of a state: Insert is kept from it by the unique index on
\* pending rows, Resolve by the one on (node_id, state).
LEMMA RowsDistinctStep ==
  ASSUME TypeOK, LocalsOK, RowsDistinct, [Next]_vars
  PROVE  RowsDistinct'
<1>1. CASE approvals' = approvals
  BY <1>1 DEF RowsDistinct
<1>2. CASE \E p \in Proc : Insert(p) /\ approvals' # approvals
  <2>1. PICK p \in Proc : Insert(p) /\ approvals' # approvals
    BY <1>2
  <2> DEFINE n == cur[p]
  <2>2. n \in Node
    BY <2>1, InsertAppends
  <2>3. ~HasState(n, "pending") /\ approvals' = [approvals EXCEPT ![n] = Append(@, "pending")]
    BY <2>1 DEF Insert, PendingExists
  <2>4. /\ approvals[n] \in Seq(ApprovalStates)
        /\ "pending" \in ApprovalStates
        /\ DOMAIN approvals[n] = 1..Len(approvals[n])
        /\ Len(approvals[n]) \in Nat
    BY <2>2, LenProperties DEF TypeOK, SharedTypeOK, ApprovalStates
  <2>5. /\ approvals'[n] = Append(approvals[n], "pending")
        /\ \A m \in Node \ {n} : approvals'[m] = approvals[m]
    BY <2>2, <2>3 DEF TypeOK, SharedTypeOK
  <2>6. /\ DOMAIN approvals'[n] = 1..(Len(approvals[n]) + 1)
        /\ \A i \in 1..Len(approvals[n]) : approvals'[n][i] = approvals[n][i]
        /\ approvals'[n][Len(approvals[n]) + 1] = "pending"
    BY <2>4, <2>5, AppendProperties, LenProperties
  <2>7. \A i \in 1..Len(approvals[n]) : approvals[n][i] # "pending"
    BY <2>3, <2>4 DEF HasState
  <2>8. \A i, j \in DOMAIN approvals'[n] : approvals'[n][i] = approvals'[n][j] => i = j
    <3> DEFINE L == Len(approvals[n])
    <3> SUFFICES ASSUME NEW i \in 1..(L + 1), NEW j \in 1..(L + 1),
                        approvals'[n][i] = approvals'[n][j]
                 PROVE  i = j
      BY <2>6
    <3>1. CASE i \in 1..L /\ j \in 1..L
      <4>1. approvals[n][i] = approvals[n][j]
        BY <2>6, <3>1
      <4> QED BY <2>2, <2>4, <3>1, <4>1 DEF RowsDistinct
    <3>2. \A k \in 1..L : approvals'[n][k] # "pending"
      BY <2>6, <2>7
    <3>3. (i = L + 1) <=> (j = L + 1)
      <4>1. \A k \in 1..(L + 1) : k # L + 1 => k \in 1..L
        BY <2>4
      <4> QED BY <2>6, <3>2, <4>1
    <3>4. i \in 1..L \/ i = L + 1
      BY <2>4
    <3> QED BY <2>4, <3>1, <3>3, <3>4
  <2> QED BY <2>5, <2>8 DEF RowsDistinct
<1>3. CASE \E p \in Proc : Resolve(p) /\ approvals' # approvals
  <2>1. PICK p \in Proc : Resolve(p) /\ approvals' # approvals
    BY <1>3
  <2> DEFINE n == cur[p]
             i == row[p]
             v == verdict[p]
  <2>2. /\ n \in Node /\ i \in DOMAIN approvals[n]
        /\ approvals' = [approvals EXCEPT ![n][i] = v]
        /\ ~HasState(n, v)
    BY <2>1, ResolveSets DEF MayResolve
  <2>3. /\ DOMAIN approvals'[n] = DOMAIN approvals[n]
        /\ approvals'[n][i] = v
        /\ \A j \in DOMAIN approvals[n] \ {i} : approvals'[n][j] = approvals[n][j]
        /\ \A m \in Node \ {n} : approvals'[m] = approvals[m]
    BY <2>2 DEF TypeOK, SharedTypeOK
  <2>4. \A j \in DOMAIN approvals[n] : approvals[n][j] # v
    BY <2>2 DEF HasState
  <2>5. \A j, k \in DOMAIN approvals'[n] : approvals'[n][j] = approvals'[n][k] => j = k
    BY <2>2, <2>3, <2>4 DEF RowsDistinct
  <2> QED BY <2>3, <2>5 DEF RowsDistinct
<1> QED BY <1>1, <1>2, <1>3, ApprovalWrites

\* Every step keeps the work of agents cleared.
LEMMA ExecutionStep ==
  ASSUME IInv, [Next]_vars
  PROVE  WorkCleared'
<1> USE DEF IInv
<1>1. RowsKept /\ NodesKept
  BY ApprovalsStep, NodesStep
<1>2. ASSUME NEW n \in Node, agentRuns'[n] > 0 PROVE Cleared(n)'
  <2>1. CASE agentRuns[n] > 0
    <3>1. Cleared(n)
      BY <2>1 DEF StoreOK, WorkCleared
    <3> QED BY <1>1, <3>1, ClearedKept
  <2>2. CASE ~(agentRuns[n] > 0)
    <3>1. PICK p \in Proc : Exec(p)
      BY <1>2, <2>2, AgentWrites
    <3>2. cur[p] = n
      BY <1>2, <2>2, <3>1, ExecEffect
    <3>3. Cleared(n)
      BY <3>1, <3>2 DEF RunsOK, RunOK, Exec
    <3> QED BY <1>1, <3>3, ClearedKept
  <2> QED BY <2>1, <2>2
<1> QED BY <1>2 DEF WorkCleared

\* Only gates ask for approvals.
LEMMA GatesOnlyStep ==
  ASSUME IInv, [Next]_vars, NEW n \in Node, approvals'[n] # <<>>
  PROVE  Kind[n] = "human_feedback"
<1> USE DEF IInv
<1>1. CASE approvals'[n] = approvals[n]
  BY <1>1 DEF StoreOK
<1>2. CASE \E p \in Proc : Insert(p)
  <2>1. PICK p \in Proc : Insert(p)
    BY <1>2
  <2>2. CASE n = cur[p]
    BY <2>1, <2>2 DEF Insert, RunsOK, RunOK
  <2>3. CASE n # cur[p]
    <3>1. approvals'[n] = approvals[n]
      BY <2>1, <2>3 DEF Insert, TypeOK, SharedTypeOK
    <3> QED BY <1>1, <3>1
  <2> QED BY <2>2, <2>3
<1>3. CASE \E p \in Proc : Resolve(p) /\ approvals' # approvals
  <2>1. PICK p \in Proc : Resolve(p) /\ approvals' # approvals
    BY <1>3
  <2>2. /\ cur[p] \in Node /\ row[p] \in DOMAIN approvals[cur[p]]
        /\ approvals' = [approvals EXCEPT ![cur[p]][row[p]] = verdict[p]]
    BY <2>1, ResolveSets
  <2>3. approvals[n] # <<>>
    BY <1>1, <2>2 DEF TypeOK, SharedTypeOK
  <2> QED BY <2>3 DEF StoreOK
<1> QED BY <1>1, <1>2, <1>3, ApprovalWrites

\* What Done writes.
LEMMA DoneEffect ==
  ASSUME TypeOK, LocalsOK, NEW p \in Proc, Done(p)
  PROVE  /\ cur[p] \in Node
         /\ \A n \in Node \ {cur[p]} : artifact'[n] = artifact[n]
         /\ artifact'[cur[p]] \in {artifact[cur[p]], verdict[p]}
         /\ artifact'[cur[p]] = "none" => artifact[cur[p]] = "none"
         /\ (/\ ValidNodeTransition(nodeState[cur[p]], "done")
             /\ verdict[p] # "none") => artifact'[cur[p]] = verdict[p]
<1>1. cur[p] \in Node
  BY AtNodeFacts DEF Done, AtNode
<1>2. artifact \in [Node -> Verdicts \cup {"none"}]
  BY DEF TypeOK, SharedTypeOK
<1>3. CASE ValidNodeTransition(nodeState[cur[p]], "done")
  <2>1. artifact' = IF verdict[p] = "none" THEN artifact
                    ELSE [artifact EXCEPT ![cur[p]] = verdict[p]]
    BY <1>3 DEF Done, MergeArtifacts
  <2> QED BY <1>1, <1>2, <2>1
<1>4. CASE ~ValidNodeTransition(nodeState[cur[p]], "done")
  <2>1. artifact' = artifact
    BY <1>4 DEF Done
  <2> QED BY <1>1, <1>4, <2>1
<1> QED BY <1>3, <1>4

\* Every step keeps the verdicts of finished gates backed.
LEMMA VerdictStep ==
  ASSUME IInv, [Next]_vars
  PROVE  VerdictBacked'
<1> USE DEF IInv
<1>r. RowsKept
  BY ApprovalsStep
<1>1. ASSUME NEW n \in Node, artifact'[n] # "none" PROVE HasState(n, artifact[n])'
  <2>1. CASE artifact'[n] = artifact[n]
    <3>1. artifact[n] \in Verdicts
      BY <1>1, <2>1 DEF TypeOK, SharedTypeOK
    <3>2. HasState(n, artifact[n])
      BY <1>1, <2>1 DEF StoreOK, VerdictBacked
    <3> QED BY <1>r, <2>1, <3>1, <3>2, StatesKept
  <2>2. CASE artifact'[n] # artifact[n]
    <3>1. PICK p \in Proc : Done(p)
      BY <2>2, ArtifactWrites
    <3>2. cur[p] = n /\ artifact'[n] = verdict[p]
      BY <2>2, <3>1, DoneEffect
    <3>3. verdict[p] \in Verdicts
      BY <1>1, <3>2 DEF TypeOK, LocalTypeOK
    <3>4. HasState(n, verdict[p])
      BY <1>1, <3>1, <3>2 DEF RunsOK, RunOK, Done
    <3> QED BY <1>r, <3>2, <3>3, <3>4, StatesKept
  <2> QED BY <2>1, <2>2
<1>2. ASSUME NEW n \in Node, artifact[n] # "none" PROVE artifact'[n] # "none"
  BY <1>2, ArtifactWrites, DoneEffect
<1>3. ASSUME NEW n \in Node, nodeState'[n] = "done", Kind[n] = "human_feedback"
      PROVE  artifact'[n] # "none"
  <2>1. CASE nodeState[n] = "done"
    BY <1>2, <1>3, <2>1 DEF StoreOK, VerdictBacked
  <2>2. CASE nodeState[n] # "done"
    <3>1. PICK p \in Proc : /\ Done(p) /\ cur[p] = n
                            /\ ValidNodeTransition(nodeState[n], "done")
      BY <1>3, <2>2, BecomesDone
    <3>2. verdict[p] # "none"
      BY <1>3, <3>1 DEF RunsOK, RunOK, Done
    <3> QED BY <3>1, <3>2, DoneEffect
  <2> QED BY <2>1, <2>2
<1> QED BY <1>1, <1>3 DEF VerdictBacked

\* Every step keeps the invariant of the store.
LEMMA StoreStep ==
  ASSUME IInv, [Next]_vars
  PROVE  StoreOK'
<1> USE DEF IInv
<1>k. NodesKept /\ AgentsKept
  BY NodesStep, AgentsStep
<1>1. planStatus' \in {"draft", "running", "done", "failed", "archived"}
  BY StatusWrites DEF StatusMoves, StoreOK
<1>2. \A n \in Node : nodeState'[n] # "cancelled"
  BY NeverCancelled DEF StoreOK
<1>3. ASSUME NEW n \in AgentNode, nodeState'[n] = "done" PROVE agentRuns'[n] > 0
  <2>1. CASE nodeState[n] = "done"
    BY <1>k, <2>1 DEF StoreOK, AgentsKept, AgentNode
  <2>2. CASE nodeState[n] # "done"
    <3>1. n \in Node
      BY DEF AgentNode
    <3>2. PICK p \in Proc : Done(p) /\ cur[p] = n
      BY <1>3, <2>2, <3>1, BecomesDone
    <3>3. agentRuns[n] > 0
      BY <3>2 DEF RunsOK, RunOK, Done
    <3> QED BY <1>k, <3>1, <3>3 DEF AgentsKept
  <2> QED BY <2>1, <2>2
<1>4. DoneMeansDone'
  <2> SUFFICES ASSUME planStatus' = "done", NEW n \in Node
               PROVE  nodeState'[n] = "done"
    BY DEF DoneMeansDone
  <2>1. nodeState[n] = "done"
    BY StatusWrites DEF StatusMoves, StoreOK, DoneMeansDone, RunsOK, RunOK
  <2> QED BY <1>k, <2>1 DEF NodesKept, TerminalNodeStates
<1>5. RowsDistinct'
  BY RowsDistinctStep DEF StoreOK
<1> QED BY <1>1, <1>2, <1>3, <1>4, <1>5, ExecutionStep, VerdictStep, GatesOnlyStep
    DEF StoreOK, AgentNode
-----------------------------------------------------------------------------
\* The initial state satisfies the invariant.
LEMMA InitInv ==
  ASSUME Init
  PROVE  IInv
<1>1. TypeOK /\ LocalsOK
  BY InitTypes
<1>2. RunsOK
  BY DEF Init, RunsOK, RunOK, AtVerdict
<1>3. StoreOK
  BY DEF Init, StoreOK, WorkCleared, VerdictBacked, DoneMeansDone,
         RowsDistinct, AgentNode
<1> QED BY <1>1, <1>2, <1>3 DEF IInv

\* Every step keeps the invariant.
LEMMA NextInv ==
  ASSUME IInv, [Next]_vars
  PROVE  IInv'
BY TypeStep, LocalsStep, RunsStep, StoreStep DEF IInv

\* The invariant holds in every reachable state.
LEMMA Inductive == Spec => []IInv
<1>1. Init => IInv
  BY InitInv
<1>2. IInv /\ [Next]_vars => IInv'
  BY NextInv
<1> QED BY <1>1, <1>2, PTL DEF Spec

\* No agent ever works on a node whose gates have not all been approved.
THEOREM NothingUnapproved == Spec => []NoUnapprovedExecution
<1>1. IInv => NoUnapprovedExecution
  BY ClearedGates DEF IInv, StoreOK, WorkCleared, NoUnapprovedExecution
<1> QED BY <1>1, Inductive, PTL

\* A gate hands on only verdicts that reviewers gave.
THEOREM VerdictsBacked == Spec => []VerdictBacked
<1>1. IInv => VerdictBacked
  BY DEF IInv, StoreOK
<1> QED BY <1>1, Inductive, PTL

\* A node never has two approval rows of one state.
THEOREM RowsStayDistinct == Spec => []RowsDistinct
<1>1. IInv => RowsDistinct
  BY DEF IInv, StoreOK
<1> QED BY <1>1, Inductive, PTL

\* A plan that is done has every node done.
THEOREM DoneIsDone == Spec => []DoneMeansDone
<1>1. IInv => DoneMeansDone
  BY DEF IInv, StoreOK
<1> QED BY <1>1, Inductive, PTL

\* No step reopens a finished node.
THEOREM NodesStayFinal == Spec => NodesFinal
<1>1. IInv /\ [Next]_vars
        => [\A n \in Node : nodeState[n] \in TerminalNodeStates
                              => nodeState'[n] = nodeState[n]]_vars
  BY NodesStep DEF IInv, NodesKept
<1> QED BY <1>1, Inductive, PTL DEF Spec, NodesFinal

\* No step deletes an approval row or changes a resolved one.
THEOREM ApprovalsStayFinal == Spec => ApprovalsFinal
<1>1. IInv /\ [Next]_vars
        => [\A n \in Node : \A i \in DOMAIN approvals[n] :
              /\ i \in DOMAIN approvals'[n]
              /\ approvals[n][i] # "pending"
                   => approvals'[n][i] = approvals[n][i]]_vars
  BY ApprovalsStep DEF IInv, RowsKept
<1> QED BY <1>1, Inductive, PTL DEF Spec, ApprovalsFinal

\* No agent ever works on a node before each parent ended as its edge asks
\* (graph.go selectRunnable, edgeSatisfied), and a parent that ended stays as it
\* is.  This needs nothing of the runs: any number may overlap.
THEOREM WorkStaysCleared == Spec => []WorkCleared
<1>1. IInv => WorkCleared
  BY DEF IInv, StoreOK
<1> QED BY <1>1, Inductive, PTL
-----------------------------------------------------------------------------
(* Edges that look at a verdict.                                            *)
(*                                                                          *)
(* The artifact of a finished gate is written again by a second run that    *)
(* stands at the same gate, and a gate that two runs inserted rows for may  *)
(* have two verdicts: the edge may lose the verdict its agent started on.   *)
(* That is the only way.                                                    *)

OneVerdict ==
  \A n \in Node : \A v, w \in Verdicts : HasState(n, v) /\ HasState(n, w) => v = w

\* Where a gate has one verdict, its artifact holds what the edge was given.
LEMMA EarnedSatisfied ==
  ASSUME IInv, OneVerdict, NEW e \in Edges, e.from \in Node, Earned(e)
  PROVE  EdgeSatisfied(e)
<1> USE DEF IInv
<1>0. e.cond \in EdgeConditions
  BY NodesAssumption
<1>1. CASE Asked(e.cond) = "none"
  BY <1>0, <1>1 DEF Earned, EdgeSatisfied, Asked, EdgeConditions
<1>2. CASE Asked(e.cond) # "none"
  <2> DEFINE n == e.from
             v == Asked(e.cond)
  <2>1. v \in Verdicts /\ HasState(n, v) /\ nodeState[n] = "done"
    BY <1>2 DEF Earned, Asked, Verdicts
  <2>2. Kind[n] = "human_feedback"
    BY <2>1 DEF HasState, StoreOK
  <2>3. artifact[n] \in Verdicts /\ HasState(n, artifact[n])
    BY <2>1, <2>2 DEF StoreOK, VerdictBacked, TypeOK, SharedTypeOK
  <2>4. artifact[n] = v
    BY <2>1, <2>3 DEF OneVerdict
  <2> QED BY <1>0, <1>2, <2>1, <2>4 DEF EdgeSatisfied, Asked, EdgeConditions
<1> QED BY <1>1, <1>2

\* While no gate has two verdicts, agents have worked only on nodes whose edges
\* are satisfied, and the edges stay satisfied (graph.go edgeSatisfied).
THEOREM EdgesRespectedOneVerdict == Spec /\ []OneVerdict => []EdgesRespected
<1>1. IInv /\ OneVerdict => EdgesRespected
  <2> SUFFICES ASSUME IInv, OneVerdict, NEW n \in Node, agentRuns[n] > 0,
                      NEW e \in Incoming(n)
               PROVE  EdgeSatisfied(e)
    BY DEF EdgesRespected
  <2>1. e \in Edges /\ e.from \in Node
    BY ParentsAreNodes DEF Incoming
  <2>2. Earned(e)
    BY DEF IInv, StoreOK, WorkCleared, Cleared
  <2> QED BY <2>1, <2>2, EarnedSatisfied
<1> QED BY <1>1, Inductive, PTL
-----------------------------------------------------------------------------
(* The plan implements its contract. *)

\* The initial states map to initial states of the contract.
LEMMA ContractInitially ==
  ASSUME Init
  PROVE  Contract!ContractInit
BY DEF Init, Contract!ContractInit, Granted, Worked, Outcome, HasState

\* A reviewer grants a gate, or the row written says something else.
LEMMA GrantStep ==
  ASSUME IInv, [Next]_vars, approvals' # approvals
  PROVE  [Contract!ContractNext]_(Contract!contractVars)
<1> USE DEF IInv
<1>1. PICK p \in Proc : (Insert(p) \/ Resolve(p)) /\ approvals' # approvals
  BY ApprovalWrites
<1>2. Worked' = Worked /\ Outcome' = Outcome
  BY <1>1 DEF Insert, Resolve, Worked, Outcome
<1>3. RowsKept
  BY ApprovalsStep
<1>4. Granted \subseteq Granted'
  BY <1>3, StatesKept DEF Granted, Verdicts
<1>5. CASE Insert(p)
  <2>1. cur[p] \in Node /\ approvals' = [approvals EXCEPT ![cur[p]] = Append(@, "pending")]
    BY <1>1, <1>5, InsertAppends DEF Insert
  <2>2. approvals[cur[p]] \in Seq(ApprovalStates) /\ "pending" \in ApprovalStates
    BY <2>1 DEF TypeOK, SharedTypeOK, ApprovalStates
  <2>3. /\ approvals'[cur[p]] = Append(approvals[cur[p]], "pending")
        /\ \A m \in Node \ {cur[p]} : approvals'[m] = approvals[m]
    BY <2>1 DEF TypeOK, SharedTypeOK
  <2>4. \A i \in DOMAIN approvals'[cur[p]] :
          \/ approvals'[cur[p]][i] = "pending"
          \/ i \in DOMAIN approvals[cur[p]] /\ approvals'[cur[p]][i] = approvals[cur[p]][i]
    BY <2>2, <2>3, AppendProperties, LenProperties
  <2>5. Granted' \subseteq Granted
    BY <2>3, <2>4 DEF Granted, HasState
  <2> QED BY <1>2, <1>4, <2>5 DEF Contract!contractVars
<1>6. CASE Resolve(p)
  <2>1. /\ cur[p] \in Node /\ row[p] \in DOMAIN approvals[cur[p]]
        /\ approvals' = [approvals EXCEPT ![cur[p]][row[p]] = verdict[p]]
    BY <1>1, <1>6, ResolveSets
  <2>2. /\ \A m \in Node \ {cur[p]} : approvals'[m] = approvals[m]
        /\ DOMAIN approvals'[cur[p]] = DOMAIN approvals[cur[p]]
        /\ approvals'[cur[p]][row[p]] = verdict[p]
        /\ \A i \in DOMAIN approvals[cur[p]] \ {row[p]} :
             approvals'[cur[p]][i] = approvals[cur[p]][i]
    BY <2>1 DEF TypeOK, SharedTypeOK
  <2>3. Granted' \subseteq Granted \cup {cur[p]}
    BY <2>2 DEF Granted, HasState
  <2>4. CASE cur[p] \in Granted'
    <3>1. Granted' = Granted \cup {cur[p]}
      BY <1>4, <2>3, <2>4
    <3> QED BY <1>2, <2>1, <3>1 DEF Contract!ContractNext, Contract!Grant
  <2>5. CASE cur[p] \notin Granted'
    <3>1. Granted' = Granted
      BY <1>4, <2>3, <2>5
    <3> QED BY <1>2, <3>1 DEF Contract!contractVars
  <2> QED BY <2>4, <2>5
<1> QED BY <1>1, <1>5, <1>6

\* An agent starts on a node whose gates are granted.
LEMMA WorkStep ==
  ASSUME IInv, [Next]_vars, agentRuns' # agentRuns
  PROVE  [Contract!ContractNext]_(Contract!contractVars)
<1> USE DEF IInv
<1>1. PICK p \in Proc : Exec(p)
  BY AgentWrites
<1>2. Granted' = Granted /\ Outcome' = Outcome
  BY <1>1 DEF Exec, dbVars, Granted, HasState, Outcome
<1>3. cur[p] \in Node /\ Worked' = Worked \cup {cur[p]}
  BY <1>1, ExecEffect DEF Worked
<1>4. Gates(cur[p]) \subseteq Granted
  BY <1>1, ClearedGates DEF RunsOK, RunOK, Exec, Granted
<1> QED BY <1>2, <1>3, <1>4 DEF Contract!ContractNext, Contract!Work

\* The plan ends, done only after every agent node was worked on, or is put
\* away.
LEMMA OutcomeStep ==
  ASSUME IInv, [Next]_vars, UNCHANGED <<approvals, agentRuns>>
  PROVE  [Contract!ContractNext]_(Contract!contractVars)
<1> USE DEF IInv
<1>1. Granted' = Granted /\ Worked' = Worked
  BY DEF Granted, HasState, Worked
<1>2. CASE planStatus' = planStatus
  BY <1>1, <1>2 DEF Contract!contractVars, Outcome
<1>3. CASE planStatus' # planStatus
  <2>1. StatusMoves /\ planStatus \in {"draft", "running", "done", "failed", "archived"}
    BY <1>3, StatusWrites DEF StoreOK
  <2>2. CASE planStatus = "draft"
    <3>1. planStatus' = "running"
      BY <1>3, <2>1, <2>2 DEF StatusMoves, ValidTransition, PlanMoves
    <3> QED BY <1>1, <2>2, <3>1 DEF Contract!contractVars, Outcome
  <2>3. CASE planStatus = "running"
    <3>1. planStatus' \in {"done", "failed"}
      BY <1>3, <2>1, <2>3 DEF StatusMoves, ValidTransition, PlanMoves
    <3>2. CASE planStatus' = "failed"
      <4>1. Outcome = "open" /\ Outcome' = "failed"
        BY <2>3, <3>2 DEF Outcome
      <4> QED BY <1>1, <4>1 DEF Contract!ContractNext, Contract!CloseFailed
    <3>3. CASE planStatus' = "done"
      <4>1. Outcome = "open" /\ Outcome' = "done"
        BY <2>3, <3>3 DEF Outcome
      <4>2. \A n \in Node : nodeState[n] = "done"
        BY <2>1, <3>3 DEF StatusMoves, RunsOK, RunOK
      <4>3. AgentNode \subseteq Worked
        BY <4>2 DEF StoreOK, AgentNode, Worked
      <4> QED BY <1>1, <4>1, <4>3 DEF Contract!ContractNext, Contract!CloseDone
    <3> QED BY <3>1, <3>2, <3>3
  <2>4. CASE planStatus \in {"done", "failed"}
    <3>1. planStatus' = "archived"
      BY <1>3, <2>1, <2>4 DEF StatusMoves, ValidTransition, PlanMoves
    <3>2. Outcome \in {"done", "failed"} /\ Outcome' = "archived"
      BY <2>4, <3>1 DEF Outcome
    <3> QED BY <1>1, <3>2 DEF Contract!ContractNext, Contract!PutAway
  <2>5. CASE planStatus = "archived"
    BY <1>3, <2>1, <2>5 DEF StatusMoves, ValidTransition, PlanMoves
  <2> QED BY <2>1, <2>2, <2>3, <2>4, <2>5
<1> QED BY <1>2, <1>3

\* Whatever the graph, the processes and the interleaving, the plan implements
\* the contract of module PlanContract.
THEOREM ImplementsContract == Spec => KeepsContract
<1>1. Init => Contract!ContractInit
  BY ContractInitially
<1>2. IInv /\ [Next]_vars => [Contract!ContractNext]_(Contract!contractVars)
  BY GrantStep, WorkStep, OutcomeStep
<1> QED BY <1>1, <1>2, Inductive, PTL DEF Spec, KeepsContract, Contract!ContractSpec
=============================================================================
