-------------------------- MODULE PlanGraphProofs --------------------------
(***************************************************************************)
(* Proofs about one plan (modules PlanGraph and PlanGraphProps), for every *)
(* graph, every set of processes and every bound.                          *)
(***************************************************************************)
EXTENDS PlanGraphProps, SequenceTheorems, TLAPS

\* Points at which a process is busy with a node, and with an approval row.
AtNode == {"exec", "agent", "request", "insert", "get", "block", "done",
           "fail", "failplan", "resolve", "wakeup"}
AtRow == {"get", "resolve"}
AtVerdict == {"resolve", "wakeup"}

\* What the locals of a process mean where it stands.
LocalsOK ==
  \A p \in Proc :
    /\ pc[p] \in AtNode => cur[p] \in Node
    /\ pc[p] \in AtRow => row[p] \in DOMAIN approvals[cur[p]]
    /\ pc[p] \in AtVerdict => verdict[p] \in Verdicts
-----------------------------------------------------------------------------
(* The operators of the store and of the control keep the types. *)

\* A status update keeps the types, legal or not.
LEMMA UpdatePlanStatusTypes ==
  ASSUME SharedTypeOK, NEW s \in PlanStatuses, UpdatePlanStatus(s)
  PROVE  /\ planStatus' \in PlanStatuses
         /\ recent' \in {"plan", "nodes", "none"}
BY DEF SharedTypeOK, UpdatePlanStatus

\* So does an update of a node's state.
LEMMA UpdateNodeStateTypes ==
  ASSUME SharedTypeOK, NEW n \in Node, NEW s \in NodeStates,
         UpdateNodeState(n, s)
  PROVE  /\ nodeState' \in [Node -> NodeStates]
         /\ recent' \in {"plan", "nodes", "none"}
BY DEF SharedTypeOK, UpdateNodeState

\* A step without a mishap and one with keep the count in its bounds.
LEMMA MishapTypes ==
  ASSUME SharedTypeOK, Fine \/ Refused \/ Mishap
  PROVE  mishaps' \in 0..MaxMishaps
BY MishapsAssumption DEF SharedTypeOK, Fine, Refused, Mishap

\* Marking a node as failed keeps the types, refused or not.
LEMMA MarkFailedTypes ==
  ASSUME SharedTypeOK, NEW n \in Node, MarkFailed(n)
  PROVE  /\ nodeState' \in [Node -> NodeStates]
         /\ recent' \in {"plan", "nodes", "none"}
         /\ mishaps' \in 0..MaxMishaps
<1>1. CASE UpdateNodeState(n, "failed") /\ Fine
  BY <1>1, UpdateNodeStateTypes, MishapTypes DEF NodeStates
<1>2. CASE Refused /\ UNCHANGED <<nodeState, recent>>
  BY <1>2, MishapTypes DEF SharedTypeOK
<1> QED BY <1>1, <1>2 DEF MarkFailed

\* Rewriting rows of a sequence one by one gives a sequence of that length.
LEMMA RewrittenSeq ==
  ASSUME NEW S, NEW s \in Seq(S), NEW t,
         t \in [DOMAIN s -> S]
  PROVE  t \in Seq(S) /\ DOMAIN t = DOMAIN s
<1>1. Len(s) \in Nat /\ DOMAIN s = 1..Len(s)
  BY LenProperties
<1>2. t \in [1..Len(s) -> S]
  BY <1>1
<1>3. t \in Seq(S)
  BY <1>1, <1>2, SeqDef
<1> QED BY <1>3

\* Closing the open wakeups keeps the types.
LEMMA SetOpenWakeupsTypes ==
  ASSUME SharedTypeOK, NEW s \in {"open", "consumed", "dead"},
         SetOpenWakeups(s)
  PROVE  wakeups' \in Seq(WakeupRow) /\ DOMAIN wakeups' = DOMAIN wakeups
<1>1. \A w \in DOMAIN wakeups : wakeups[w] \in WakeupRow
  BY ElementOfSeq, LenProperties DEF SharedTypeOK
<1>2. wakeups' \in [DOMAIN wakeups -> WakeupRow]
  BY <1>1 DEF SetOpenWakeups, WakeupRow
<1> QED BY <1>2, RewrittenSeq DEF SharedTypeOK

\* A move of a process keeps the types of its locals.
LEMMA GotoTypes ==
  ASSUME LocalTypeOK, NEW p \in Proc, NEW point \in Points, Goto(p, point)
  PROVE  /\ pc' \in [Proc -> Points]
         /\ pc'[p] = point
         /\ \A q \in Proc \ {p} : pc'[q] = pc[q]
BY DEF LocalTypeOK, Goto

\* A process that leaves its run forgets everything about it.
LEMMA ReturnTypes ==
  ASSUME LocalTypeOK, NEW p \in Proc, NEW ok \in BOOLEAN, Return(p, ok)
  PROVE  /\ LocalTypeOK'
         /\ pc'[p] \in {"built", "unbuilt", "consume", "idle", "end"}
         /\ todo'[p] = {} /\ cur'[p] = 0 /\ verdict'[p] = "none"
         /\ \A q \in Proc \ {p} :
              /\ pc'[q] = pc[q] /\ todo'[q] = todo[q] /\ cur'[q] = cur[q]
              /\ row'[q] = row[q] /\ verdict'[q] = verdict[q]
<1>1. AfterRun(p, ok) \in {"built", "unbuilt", "consume", "idle", "end"}
  BY ProcAssumption DEF AfterRun, Proc
<1>2. AfterRun(p, ok) \in Points
  BY <1>1 DEF Points, SweepPoints
<1>3. Goto(p, AfterRun(p, ok))
  BY DEF Return
<1>4. /\ pc' \in [Proc -> Points]
      /\ pc'[p] = AfterRun(p, ok)
      /\ \A q \in Proc \ {p} : pc'[q] = pc[q]
  BY <1>2, <1>3, GotoTypes
<1> QED BY <1>1, <1>4 DEF Return, LocalTypeOK

\* Going on to the next node keeps the types of the locals.
LEMMA NextNodeTypes ==
  ASSUME LocalTypeOK, NEW p \in Proc, NextNode(p),
         UNCHANGED <<todo, hops>>, pausedInRun' \in [Proc -> SUBSET Node]
  PROVE  /\ LocalTypeOK'
         /\ pc'[p] \in {"list", "begin"}
         /\ cur'[p] = 0 /\ verdict'[p] = "none"
         /\ \A q \in Proc \ {p} :
              /\ pc'[q] = pc[q] /\ cur'[q] = cur[q]
              /\ row'[q] = row[q] /\ verdict'[q] = verdict[q]
<1>1. "list" \in Points /\ "begin" \in Points
  BY DEF Points, RunPoints
<1> QED BY <1>1 DEF NextNode, Goto, LocalTypeOK
-----------------------------------------------------------------------------
(* Type correctness. *)

\* What follows about a process from the point it is at.
LEMMA AtNodeFacts ==
  ASSUME TypeOK, LocalsOK, NEW p \in Proc
  PROVE  /\ pc[p] \in AtNode => cur[p] \in Node
         /\ pc[p] \in AtRow =>
              /\ cur[p] \in Node
              /\ row[p] \in 1..Len(approvals[cur[p]])
              /\ approvals[cur[p]][row[p]] \in ApprovalStates
         /\ pc[p] \in AtVerdict => verdict[p] \in Verdicts
<1>1. AtRow \subseteq AtNode
  BY DEF AtRow, AtNode
<1>2. pc[p] \in AtNode => cur[p] \in Node
  BY DEF LocalsOK
<1>3. ASSUME pc[p] \in AtRow
      PROVE  /\ row[p] \in 1..Len(approvals[cur[p]])
             /\ approvals[cur[p]][row[p]] \in ApprovalStates
  <2>1. cur[p] \in Node
    BY <1>1, <1>2, <1>3
  <2>2. approvals[cur[p]] \in Seq(ApprovalStates)
    BY <2>1 DEF TypeOK, SharedTypeOK
  <2>3. row[p] \in DOMAIN approvals[cur[p]]
    BY <1>3 DEF LocalsOK
  <2> QED BY <2>2, <2>3, LenProperties, ElementOfSeq
<1> QED BY <1>1, <1>2, <1>3 DEF LocalsOK

\* A step of Runtime.Run keeps the types.
LEMMA RunStepTypes ==
  ASSUME TypeOK, LocalsOK, NEW p \in Proc, RunStep(p)
  PROVE  TypeOK'
<1> USE DEF TypeOK
<1> DEFINE n == cur[p]
<1>p. RunPoints \subseteq Points
  BY DEF Points
<1>n. pc[p] \in AtNode => n \in Node
  BY AtNodeFacts
<1>1. CASE Load(p)
  <2>1. SharedTypeOK'
    BY <1>1 DEF Load, SharedTypeOK, dbVars
  <2>2. LocalTypeOK'
    BY <1>1, ReturnTypes, <1>p DEF Load, LocalTypeOK, Goto, RunPoints
  <2> QED BY <2>1, <2>2
<1>2. CASE Start(p)
  <2>1. SharedTypeOK'
    BY <1>2, UpdatePlanStatusTypes DEF Start, SharedTypeOK, PlanStatuses
  <2>2. LocalTypeOK'
    BY <1>2, <1>p DEF Start, LocalTypeOK, Goto, RunPoints
  <2> QED BY <2>1, <2>2
<1>3. CASE List(p)
  <2>1. SharedTypeOK'
    BY <1>3 DEF List, SharedTypeOK, dbVars
  <2>2. Runnable \subseteq Node
    BY DEF Runnable
  <2>3. LocalTypeOK'
    BY <1>3, <2>2, ReturnTypes, <1>p DEF List, LocalTypeOK, Goto, RunPoints
  <2> QED BY <2>1, <2>3
<1>4. CASE Begin(p)
  <2>1. PICK m \in todo[p] :
          IF Kind[m] \notin HandledKinds
          THEN MarkFailed(m) /\ Return(p, FALSE)
          ELSE /\ UpdateNodeState(m, "running")
               /\ Fine
               /\ Goto(p, IF Kind[m] = "human_feedback" THEN "request"
                                                        ELSE "exec")
               /\ todo' = [todo EXCEPT ![p] = @ \ {m}]
               /\ cur' = [cur EXCEPT ![p] = m]
               /\ hops' = [hops EXCEPT ![p] = @ + 1]
               /\ UNCHANGED <<pausedInRun, row, verdict>>
    BY <1>4 DEF Begin
  <2>2. m \in Node
    BY DEF LocalTypeOK
  <2>3. SharedTypeOK'
    <3>1. /\ nodeState' \in [Node -> NodeStates]
          /\ recent' \in {"plan", "nodes", "none"}
          /\ mishaps' \in 0..MaxMishaps
      BY <2>1, <2>2, UpdateNodeStateTypes, MarkFailedTypes, MishapTypes DEF NodeStates
    <3> QED BY <1>4, <3>1 DEF Begin, SharedTypeOK
  <2>4. LocalTypeOK'
    <3>1. CASE Kind[m] \notin HandledKinds
      BY <2>1, <3>1, ReturnTypes
    <3>2. CASE Kind[m] \in HandledKinds
      <4>1. (IF Kind[m] = "human_feedback" THEN "request" ELSE "exec") \in Points
        BY <1>p DEF RunPoints
      <4>2. pc' \in [Proc -> Points]
        BY <2>1, <3>2, <4>1 DEF LocalTypeOK, Goto
      <4>3. /\ todo' = [todo EXCEPT ![p] = todo[p] \ {m}]
            /\ cur' = [cur EXCEPT ![p] = m]
            /\ hops' = [hops EXCEPT ![p] = hops[p] + 1]
            /\ UNCHANGED <<pausedInRun, row, verdict>>
        BY <2>1, <3>2
      <4>4. todo[p] \ {m} \in SUBSET Node
        BY DEF LocalTypeOK
      <4>5. todo' \in [Proc -> SUBSET Node]
        BY <4>3, <4>4 DEF LocalTypeOK
      <4>6. cur' \in [Proc -> Node \cup {0}] /\ hops' \in [Proc -> Nat]
        BY <2>2, <4>3 DEF LocalTypeOK
      <4> QED BY <4>2, <4>3, <4>5, <4>6 DEF LocalTypeOK
    <3> QED BY <3>1, <3>2
  <2> QED BY <2>3, <2>4
<1>5. CASE Exec(p)
  <2>1. n \in Node
    BY <1>5, <1>n DEF Exec, AtNode
  <2>2. (IF agentRuns[n] = 2 THEN 2 ELSE agentRuns[n] + 1) \in 0..2
    <3>1. agentRuns[n] \in 0..2
      BY <2>1 DEF SharedTypeOK
    <3> QED BY <3>1
  <2>3. SharedTypeOK'
    BY <1>5, <2>1, <2>2 DEF Exec, SharedTypeOK, dbVars
  <2>4. LocalTypeOK'
    BY <1>5, <1>p DEF Exec, LocalTypeOK, Goto, RunPoints
  <2> QED BY <2>3, <2>4
<1>6. CASE AgentReturns(p)
  <2>1. SharedTypeOK'
    BY <1>6 DEF AgentReturns, SharedTypeOK, dbVars
  <2>2. LocalTypeOK'
    BY <1>6, <1>p DEF AgentReturns, LocalTypeOK, Goto, RunPoints
  <2> QED BY <2>1, <2>2
<1>7. CASE Request(p)
  <2>1. n \in Node
    BY <1>7, <1>n DEF Request, AtNode
  <2>2. Len(approvals[n]) \in Nat
    BY <2>1, LenProperties DEF SharedTypeOK
  <2>3. SharedTypeOK'
    BY <1>7 DEF Request, SharedTypeOK, dbVars
  <2>4. LocalTypeOK'
    BY <1>7, <2>2, <1>p DEF Request, LocalTypeOK, Goto, RunPoints
  <2> QED BY <2>3, <2>4
<1>8. CASE Insert(p)
  <2>1. n \in Node
    BY <1>8, <1>n DEF Insert, AtNode
  <2>2. /\ Len(approvals[n]) \in Nat
        /\ Append(approvals[n], "pending") \in Seq(ApprovalStates)
    BY <2>1, LenProperties, AppendProperties DEF SharedTypeOK, ApprovalStates
  <2>3. SharedTypeOK'
    BY <1>8, <2>1, <2>2 DEF Insert, SharedTypeOK
  <2>4. row' \in [Proc -> Nat]
    BY <1>8, <2>2 DEF Insert, LocalTypeOK
  <2>5. LocalTypeOK'
    BY <1>8, <2>4, <1>p DEF Insert, LocalTypeOK, Goto, RunPoints
  <2> QED BY <2>3, <2>5
<1>9. CASE Get(p)
  <2>1. approvals[n][row[p]] \in ApprovalStates
    BY <1>9, AtNodeFacts DEF Get, AtRow
  <2>2. SharedTypeOK'
    BY <1>9 DEF Get, SharedTypeOK, dbVars
  <2>3. LocalTypeOK'
    BY <1>9, <2>1, <1>p DEF Get, LocalTypeOK, Goto, RunPoints, ApprovalStates
  <2> QED BY <2>2, <2>3
<1>10. CASE Block(p)
  <2>1. n \in Node
    BY <1>10, <1>n DEF Block, AtNode
  <2>2. SharedTypeOK'
    BY <1>10, <2>1, UpdateNodeStateTypes DEF Block, SharedTypeOK, NodeStates
  <2>3. LocalTypeOK'
    <3>1. CASE ValidNodeTransition(nodeState[n], "blocked")
      <4>1. pausedInRun' \in [Proc -> SUBSET Node]
        BY <1>10, <2>1, <3>1 DEF Block, LocalTypeOK
      <4> QED BY <1>10, <3>1, <4>1, NextNodeTypes DEF Block
    <3>2. CASE ~ValidNodeTransition(nodeState[n], "blocked")
      BY <1>10, <3>2, ReturnTypes DEF Block
    <3> QED BY <3>1, <3>2
  <2> QED BY <2>2, <2>3
<1>11. CASE Done(p)
  <2>1. n \in Node
    BY <1>11, <1>n DEF Done, AtNode
  <2>2. MergeArtifacts(p) \in [Node -> Verdicts \cup {"none"}]
    BY <2>1 DEF MergeArtifacts, SharedTypeOK, LocalTypeOK
  <2>3. SharedTypeOK'
    BY <1>11, <2>1, <2>2, UpdateNodeStateTypes DEF Done, SharedTypeOK, NodeStates
  <2>4. LocalTypeOK'
    BY <1>11, <2>1, ReturnTypes, NextNodeTypes DEF Done, LocalTypeOK
  <2> QED BY <2>3, <2>4
<1>12. CASE Fail(p)
  <2>1. n \in Node
    BY <1>12, <1>n DEF Fail, AtNode
  <2>2. SharedTypeOK'
    BY <1>12, <2>1, MarkFailedTypes DEF Fail, SharedTypeOK
  <2>3. LocalTypeOK'
    BY <1>12, <2>1, NextNodeTypes, <1>p DEF Fail, LocalTypeOK, Goto, RunPoints
  <2> QED BY <2>2, <2>3
<1>13. CASE FailPlan(p)
  <2>1. SharedTypeOK'
    BY <1>13, UpdatePlanStatusTypes DEF FailPlan, SharedTypeOK, PlanStatuses
  <2>2. LocalTypeOK'
    BY <1>13, ReturnTypes DEF FailPlan
  <2> QED BY <2>1, <2>2
<1>14. CASE Settle(p)
  <2>1. SharedTypeOK'
    BY <1>14 DEF Settle, SharedTypeOK, dbVars
  <2>2. LocalTypeOK'
    BY <1>14, ReturnTypes, <1>p DEF Settle, LocalTypeOK, Goto, RunPoints
  <2> QED BY <2>1, <2>2
<1>15. CASE Close(p)
  <2>1. SharedTypeOK'
    BY <1>15, UpdatePlanStatusTypes DEF Close, SharedTypeOK, PlanStatuses
  <2>2. LocalTypeOK'
    BY <1>15, ReturnTypes DEF Close
  <2> QED BY <2>1, <2>2
<1> QED BY <1>1, <1>2, <1>3, <1>4, <1>5, <1>6, <1>7, <1>8, <1>9, <1>10,
           <1>11, <1>12, <1>13, <1>14, <1>15 DEF RunStep

\* So does every other step of a process.
LEMMA OtherStepTypes ==
  ASSUME TypeOK, LocalsOK, NEW p \in Proc,
         \/ BuildStart(p) \/ BuildReport(p)
         \/ HandlerError(p) \/ RunInterrupted(p)
         \/ Pick(p) \/ Resolve(p) \/ Wakeup(p) \/ SweepStep(p)
  PROVE  TypeOK'
<1> USE DEF TypeOK
<1> DEFINE n == cur[p]
<1>p. RunPoints \cup RequestPoints \cup SweepPoints \cup {"idle", "end"} \subseteq Points
  BY DEF Points
<1>1. CASE BuildStart(p)
  <2>1. SharedTypeOK'
    BY <1>1 DEF BuildStart, SharedTypeOK, dbVars
  <2>2. LocalTypeOK'
    BY <1>1, <1>p DEF BuildStart, LocalTypeOK, Goto, RunPoints
  <2> QED BY <2>1, <2>2
<1>2. CASE BuildReport(p)
  <2>1. SharedTypeOK'
    BY <1>2 DEF BuildReport, SharedTypeOK, dbVars
  <2>2. LocalTypeOK'
    BY <1>2, <1>p DEF BuildReport, LocalTypeOK, Goto
  <2> QED BY <2>1, <2>2
<1>3. CASE HandlerError(p)
  <2>1. SharedTypeOK'
    BY <1>3 DEF HandlerError, SharedTypeOK, dbVars
  <2>2. LocalTypeOK'
    BY <1>3, <1>p DEF HandlerError, LocalTypeOK, Goto, RunPoints
  <2> QED BY <2>1, <2>2
<1>4. CASE RunInterrupted(p)
  <2>1. SharedTypeOK'
    BY <1>4 DEF RunInterrupted, SharedTypeOK, dbVars
  <2>2. (pc[p] \in {"closedone", "closefailed"}) \in BOOLEAN
    OBVIOUS
  <2>3. LocalTypeOK'
    BY <1>4, <2>2, ReturnTypes DEF RunInterrupted
  <2> QED BY <2>1, <2>3
<1>5. CASE Pick(p)
  <2>1. SharedTypeOK'
    BY <1>5 DEF Pick, SharedTypeOK, dbVars
  <2>2. PICK choice \in Choices, m \in Node :
          \E i \in DOMAIN approvals[m] :
            /\ Goto(p, "resolve")
            /\ cur' = [cur EXCEPT ![p] = m]
            /\ row' = [row EXCEPT ![p] = i]
            /\ verdict' = [verdict EXCEPT ![p] = choice]
    BY <1>5 DEF Pick
  <2>3. PICK i \in DOMAIN approvals[m] :
          /\ Goto(p, "resolve")
          /\ cur' = [cur EXCEPT ![p] = m]
          /\ row' = [row EXCEPT ![p] = i]
          /\ verdict' = [verdict EXCEPT ![p] = choice]
    BY <2>2
  <2>4. i \in Nat
    BY LenProperties DEF SharedTypeOK
  <2>5. choice \in Verdicts
    BY BoundsAssumption
  <2>6. UNCHANGED <<todo, pausedInRun, hops>>
    BY <1>5 DEF Pick
  <2>7. LocalTypeOK'
    BY <2>3, <2>4, <2>5, <2>6, <1>p DEF LocalTypeOK, Goto, RequestPoints
  <2> QED BY <2>1, <2>7
<1>6. CASE Resolve(p)
  <2>1. /\ n \in Node
        /\ row[p] \in 1..Len(approvals[n])
        /\ verdict[p] \in ApprovalStates
    BY <1>6, AtNodeFacts DEF Resolve, AtRow, AtVerdict, ApprovalStates
  <2>2. [approvals[n] EXCEPT ![row[p]] = verdict[p]] \in Seq(ApprovalStates)
    BY <2>1, ExceptSeq DEF SharedTypeOK
  <2>3. approvals' \in [Node -> Seq(ApprovalStates)]
    BY <1>6, <2>1, <2>2 DEF Resolve, SharedTypeOK
  <2>4. SharedTypeOK'
    BY <1>6, <2>3 DEF Resolve, SharedTypeOK
  <2>5. LocalTypeOK'
    BY <1>6, <1>p, ReturnTypes DEF Resolve, LocalTypeOK, Goto, RequestPoints
  <2> QED BY <2>4, <2>5
<1>7. CASE Wakeup(p)
  <2>1. wakeups' \in Seq(WakeupRow)
    <3>1. [attempts |-> 0, state |-> "open"] \in WakeupRow
      BY DEF WakeupRow
    <3>2. Append(wakeups, [attempts |-> 0, state |-> "open"]) \in Seq(WakeupRow)
      BY <3>1, AppendProperties DEF SharedTypeOK
    <3> QED BY <1>7, <3>2 DEF Wakeup, SharedTypeOK
  <2>2. SharedTypeOK'
    BY <1>7, <2>1 DEF Wakeup, SharedTypeOK
  <2>3. LocalTypeOK'
    BY <1>7, <1>p DEF Wakeup, LocalTypeOK, Goto, RunPoints
  <2> QED BY <2>2, <2>3
<1>8. CASE Collect(p)
  <2>1. SharedTypeOK'
    BY <1>8 DEF Collect, SharedTypeOK, dbVars
  <2>2. LocalTypeOK'
    BY <1>8, <1>p DEF Collect, LocalTypeOK, Goto, SweepPoints
  <2> QED BY <2>1, <2>2
<1>9. CASE CountAttempt(p)
  <2>1. \A w \in DOMAIN wakeups : wakeups[w] \in WakeupRow
    BY ElementOfSeq, LenProperties DEF SharedTypeOK
  <2>2. \A w \in DOMAIN wakeups :
          [wakeups[w] EXCEPT !.attempts = @ + 1] \in WakeupRow
    BY <2>1 DEF WakeupRow
  <2>3. wakeups' \in Seq(WakeupRow)
    <3>1. CASE UNCHANGED wakeups
      BY <3>1 DEF SharedTypeOK
    <3>2. CASE wakeups' # wakeups
      <4>1. wakeups' \in [DOMAIN wakeups -> WakeupRow]
        BY <1>9, <2>1, <2>2, <3>2 DEF CountAttempt
      <4> QED BY <4>1, RewrittenSeq DEF SharedTypeOK
    <3> QED BY <3>1, <3>2
  <2>4. SharedTypeOK'
    BY <1>9, <2>3, MishapTypes DEF CountAttempt, SharedTypeOK
  <2>5. LocalTypeOK'
    BY <1>9, <1>p DEF CountAttempt, LocalTypeOK, Goto, SweepPoints
  <2> QED BY <2>4, <2>5
<1>10. CASE CheckBudget(p)
  <2>1. SharedTypeOK'
    BY <1>10, MishapTypes DEF CheckBudget, SharedTypeOK, dbVars
  <2>2. LocalTypeOK'
    BY <1>10, <1>p DEF CheckBudget, LocalTypeOK, Goto, SweepPoints
  <2> QED BY <2>1, <2>2
<1>11. CASE DeadLetter(p)
  <2>1. SharedTypeOK'
    <3>1. wakeups' \in Seq(WakeupRow)
      BY <1>11, SetOpenWakeupsTypes DEF DeadLetter, SharedTypeOK
    <3> QED BY <1>11, <3>1, MishapTypes DEF DeadLetter, SharedTypeOK
  <2>2. LocalTypeOK'
    BY <1>11, <1>p DEF DeadLetter, LocalTypeOK, Goto
  <2> QED BY <2>1, <2>2
<1>12. CASE CheckPlan(p)
  <2>1. SharedTypeOK'
    BY <1>12, MishapTypes DEF CheckPlan, SharedTypeOK, dbVars
  <2>2. LocalTypeOK'
    BY <1>12, <1>p DEF CheckPlan, LocalTypeOK, Goto, SweepPoints, RunPoints
  <2> QED BY <2>1, <2>2
<1>13. CASE Consume(p)
  <2>1. SharedTypeOK'
    <3>1. wakeups' \in Seq(WakeupRow)
      BY <1>13, SetOpenWakeupsTypes DEF Consume, SharedTypeOK
    <3> QED BY <1>13, <3>1, MishapTypes DEF Consume, SharedTypeOK
  <2>2. LocalTypeOK'
    BY <1>13, <1>p DEF Consume, LocalTypeOK, Goto
  <2> QED BY <2>1, <2>2
<1> QED BY <1>1, <1>2, <1>3, <1>4, <1>5, <1>6, <1>7, <1>8, <1>9, <1>10,
           <1>11, <1>12, <1>13 DEF SweepStep

\* Archiving, time and restarts keep the types.
LEMMA EnvironmentTypes ==
  ASSUME TypeOK, Archive \/ TimePasses \/ Crash
  PROVE  TypeOK'
<1> USE DEF TypeOK
<1>1. CASE Archive
  BY <1>1, UpdatePlanStatusTypes
  DEF Archive, SharedTypeOK, LocalTypeOK, procVars, PlanStatuses
<1>2. CASE TimePasses
  BY <1>2 DEF TimePasses, SharedTypeOK, LocalTypeOK, procVars
<1>3. CASE Crash
  <2>1. SharedTypeOK'
    BY <1>3, MishapTypes DEF Crash, SharedTypeOK, dbVars
  <2>2. \A p \in Proc : AfterCrash(p) \in Points
    BY DEF AfterCrash, Points
  <2>3. pc' \in [Proc -> Points]
    BY <1>3, <2>2 DEF Crash
  <2>4. LocalTypeOK'
    BY <1>3, <2>3 DEF Crash, LocalTypeOK
  <2> QED BY <2>1, <2>4
<1> QED BY <1>1, <1>2, <1>3

\* The processes that take a step of their own.
ProcStep(p) == \/ RunStep(p)
               \/ BuildStart(p) \/ BuildReport(p)
               \/ HandlerError(p) \/ RunInterrupted(p)
               \/ Pick(p) \/ Resolve(p) \/ Wakeup(p) \/ SweepStep(p)

\* The steps by who takes them.
LEMMA NextCases ==
  ASSUME Next
  PROVE  (\E p \in Proc : ProcStep(p)) \/ Archive \/ TimePasses \/ Crash
BY DEF Next, Progress, ProcStep

\* Every step keeps the types.
LEMMA TypeStep ==
  ASSUME TypeOK, LocalsOK, [Next]_vars
  PROVE  TypeOK'
<1>1. CASE Next
  BY <1>1, NextCases, RunStepTypes, OtherStepTypes, EnvironmentTypes DEF ProcStep
<1>2. CASE UNCHANGED vars
  BY <1>2 DEF TypeOK, SharedTypeOK, LocalTypeOK, vars, dbVars, procVars
<1> QED BY <1>1, <1>2
-----------------------------------------------------------------------------
(* What a step leaves alone. *)

SameLocals(q) == /\ pc'[q] = pc[q] /\ todo'[q] = todo[q] /\ cur'[q] = cur[q]
                 /\ row'[q] = row[q] /\ verdict'[q] = verdict[q]

\* A process changes its own locals only.
LEMMA Locality ==
  ASSUME TypeOK, NEW p \in Proc, ProcStep(p), NEW q \in Proc \ {p}
  PROVE  SameLocals(q)
<1> USE DEF SameLocals
<1>t. LocalTypeOK
  BY DEF TypeOK
<1>r. ASSUME NEW ok \in BOOLEAN, Return(p, ok) PROVE SameLocals(q)
  BY <1>t, <1>r, ReturnTypes
<1>1. ASSUME RunStep(p) PROVE SameLocals(q)
  <2>1. CASE Load(p)
    BY <1>t, <1>r, <2>1 DEF Load, Goto, LocalTypeOK
  <2>2. CASE Start(p) \/ Exec(p) \/ AgentReturns(p)
    BY <1>t, <2>2 DEF Start, Exec, AgentReturns, Goto, LocalTypeOK
  <2>3. CASE List(p)
    BY <1>t, <1>r, <2>3 DEF List, Goto, LocalTypeOK
  <2>4. CASE Begin(p)
    BY <1>t, <1>r, <2>4 DEF Begin, Goto, LocalTypeOK
  <2>5. CASE Request(p) \/ Insert(p) \/ Get(p)
    BY <1>t, <2>5 DEF Request, Insert, Get, Goto, LocalTypeOK
  <2>6. CASE Block(p)
    BY <1>t, <1>r, <2>6 DEF Block, NextNode, Goto, LocalTypeOK
  <2>7. CASE Done(p)
    BY <1>t, <1>r, <2>7 DEF Done, NextNode, Goto, LocalTypeOK
  <2>8. CASE Fail(p)
    BY <1>t, <2>8 DEF Fail, NextNode, Goto, LocalTypeOK
  <2>9. CASE FailPlan(p) \/ Close(p)
    BY <1>r, <2>9 DEF FailPlan, Close
  <2>10. CASE Settle(p)
    BY <1>t, <1>r, <2>10 DEF Settle, Goto, LocalTypeOK
  <2> QED BY <1>1, <2>1, <2>2, <2>3, <2>4, <2>5, <2>6, <2>7, <2>8, <2>9,
             <2>10 DEF RunStep
<1>2. CASE BuildStart(p) \/ BuildReport(p) \/ HandlerError(p)
  BY <1>t, <1>2 DEF BuildStart, BuildReport, HandlerError, Goto, LocalTypeOK
<1>3. CASE RunInterrupted(p)
  <2>1. (pc[p] \in {"closedone", "closefailed"}) \in BOOLEAN
    OBVIOUS
  <2> QED BY <1>r, <1>3, <2>1 DEF RunInterrupted
<1>4. CASE Pick(p)
  <2>1. PICK choice \in Choices, n \in Node :
          \E i \in DOMAIN approvals[n] :
            /\ Goto(p, "resolve")
            /\ cur' = [cur EXCEPT ![p] = n]
            /\ row' = [row EXCEPT ![p] = i]
            /\ verdict' = [verdict EXCEPT ![p] = choice]
    BY <1>4 DEF Pick
  <2> QED BY <1>t, <1>4, <2>1 DEF Pick, Goto, LocalTypeOK
<1>5. CASE Resolve(p)
  BY <1>t, <1>r, <1>5 DEF Resolve, Goto, LocalTypeOK
<1>6. CASE Wakeup(p)
  BY <1>t, <1>6 DEF Wakeup, Goto, LocalTypeOK
<1>7. CASE SweepStep(p)
  BY <1>t, <1>7 DEF SweepStep, Collect, CountAttempt, CheckBudget, DeadLetter,
                    CheckPlan, Consume, Goto, LocalTypeOK
<1> QED BY <1>1, <1>2, <1>3, <1>4, <1>5, <1>6, <1>7 DEF ProcStep

\* Approval rows are never deleted, and resolved ones never changed.
RowsKept ==
  \A n \in Node : \A i \in DOMAIN approvals[n] :
    /\ i \in DOMAIN approvals'[n]
    /\ approvals[n][i] # "pending" => approvals'[n][i] = approvals[n][i]

\* Insert appends a pending row where there is none.
LEMMA InsertAppends ==
  ASSUME TypeOK, LocalsOK, NEW p \in Proc, Insert(p)
  PROVE  /\ cur[p] \in Node
         /\ RowsKept
         /\ row'[p] \in DOMAIN approvals'[cur[p]]
<1> DEFINE n == cur[p]
<1>1. n \in Node
  BY AtNodeFacts DEF Insert, AtNode
<1>2. /\ approvals[n] \in Seq(ApprovalStates)
      /\ "pending" \in ApprovalStates
      /\ DOMAIN approvals[n] = 1..Len(approvals[n])
      /\ Len(approvals[n]) \in Nat
  BY <1>1, LenProperties DEF TypeOK, SharedTypeOK, ApprovalStates
<1>3. CASE PendingExists(n)
  <2>1. approvals' = approvals /\ row'[p] = Len(approvals[n])
    BY <1>3 DEF Insert, TypeOK, LocalTypeOK
  <2>2. Len(approvals[n]) \in DOMAIN approvals[n]
    BY <1>2, <1>3 DEF PendingExists, HasState
  <2> QED BY <1>1, <2>1, <2>2 DEF RowsKept
<1>4. CASE ~PendingExists(n)
  <2>1. /\ approvals' = [approvals EXCEPT ![n] = Append(@, "pending")]
        /\ row'[p] = Len(approvals[n]) + 1
    BY <1>4 DEF Insert, TypeOK, LocalTypeOK
  <2>2. /\ approvals'[n] = Append(approvals[n], "pending")
        /\ \A m \in Node \ {n} : approvals'[m] = approvals[m]
    BY <1>1, <2>1 DEF TypeOK, SharedTypeOK
  <2>3. /\ DOMAIN approvals'[n] = 1..(Len(approvals[n]) + 1)
        /\ \A i \in 1..Len(approvals[n]) : approvals'[n][i] = approvals[n][i]
    BY <1>2, <2>2, AppendProperties, LenProperties
  <2> QED BY <1>1, <1>2, <2>1, <2>2, <2>3 DEF RowsKept
<1> QED BY <1>1, <1>3, <1>4

\* Resolve turns a pending row into one whose state the node lacks.
LEMMA ResolveSets ==
  ASSUME TypeOK, LocalsOK, NEW p \in Proc, Resolve(p),
         approvals' # approvals
  PROVE  /\ cur[p] \in Node /\ verdict[p] \in Verdicts
         /\ row[p] \in DOMAIN approvals[cur[p]]
         /\ MayResolve(cur[p], row[p], verdict[p])
         /\ approvals' = [approvals EXCEPT ![cur[p]][row[p]] = verdict[p]]
         /\ \A m \in Node : DOMAIN approvals'[m] = DOMAIN approvals[m]
         /\ RowsKept
<1> DEFINE n == cur[p]
<1>1. /\ n \in Node /\ verdict[p] \in Verdicts
      /\ row[p] \in 1..Len(approvals[n])
      /\ row[p] \in DOMAIN approvals[n]
  BY AtNodeFacts DEF Resolve, AtRow, AtVerdict, LocalsOK
<1>2. /\ approvals' = [approvals EXCEPT ![n][row[p]] = verdict[p]]
      /\ MayResolve(n, row[p], verdict[p])
  BY DEF Resolve
<1>3. \A m \in Node : DOMAIN approvals'[m] = DOMAIN approvals[m]
  BY <1>1, <1>2 DEF TypeOK, SharedTypeOK
<1>4. RowsKept
  BY <1>1, <1>2, <1>3 DEF RowsKept, MayResolve, TypeOK, SharedTypeOK
<1> QED BY <1>1, <1>2, <1>3, <1>4

\* Which steps write approval rows.
LEMMA ApprovalWrites ==
  ASSUME [Next]_vars
  PROVE  \/ approvals' = approvals
         \/ \E p \in Proc : (Insert(p) \/ Resolve(p)) /\ approvals' # approvals
<1>1. ASSUME NEW p \in Proc, RunStep(p), ~Insert(p) PROVE approvals' = approvals
  BY <1>1
  DEF RunStep, Load, Start, List, Begin, Exec, AgentReturns, Request, Get,
      Block, Done, Fail, FailPlan, Settle, Close, dbVars
<1>2. ASSUME NEW p \in Proc, ProcStep(p), ~RunStep(p), ~Resolve(p)
      PROVE  approvals' = approvals
  <2>1. CASE SweepStep(p)
    BY <2>1 DEF SweepStep, Collect, CountAttempt, CheckBudget, DeadLetter,
                CheckPlan, Consume, dbVars
  <2>2. CASE ~SweepStep(p)
    BY <1>2, <2>2 DEF ProcStep, BuildStart, BuildReport, HandlerError,
                      RunInterrupted, Pick, Wakeup, dbVars
  <2> QED BY <2>1, <2>2
<1>3. CASE Archive \/ TimePasses \/ Crash \/ UNCHANGED vars
  BY <1>3 DEF Archive, TimePasses, Crash, vars, dbVars
<1> QED BY <1>1, <1>2, <1>3, NextCases

\* Every step keeps the approval rows: none vanishes, no verdict changes.
LEMMA ApprovalsStep ==
  ASSUME TypeOK, LocalsOK, [Next]_vars
  PROVE  RowsKept
<1>1. CASE approvals' = approvals
  BY <1>1 DEF RowsKept
<1>2. CASE approvals' # approvals
  BY <1>2, ApprovalWrites, InsertAppends, ResolveSets
<1> QED BY <1>1, <1>2

\* The transition table has no way out of a terminal node state.
LEMMA TerminalIsFinal ==
  ASSUME NEW old \in TerminalNodeStates, NEW next, ValidNodeTransition(old, next)
  PROVE  next = old
<1>1. CASE old = "done"
  BY <1>1 DEF ValidNodeTransition, NodeMoves
<1>2. CASE old = "failed"
  BY <1>2 DEF ValidNodeTransition, NodeMoves
<1>3. CASE old = "cancelled"
  BY <1>3 DEF ValidNodeTransition, NodeMoves
<1> QED BY <1>1, <1>2, <1>3 DEF TerminalNodeStates

NodesKept ==
  \A n \in Node : nodeState[n] \in TerminalNodeStates
                    => nodeState'[n] = nodeState[n]

\* What an update of a node's state writes.
LEMMA UpdateNodeStateEffect ==
  ASSUME TypeOK, NEW n \in Node, NEW s, UpdateNodeState(n, s)
  PROVE  /\ NodesKept
         /\ nodeState'[n] \in {nodeState[n], s}
         /\ ValidNodeTransition(nodeState[n], s) => nodeState'[n] = s
         /\ \A m \in Node \ {n} : nodeState'[m] = nodeState[m]
<1>1. CASE ValidNodeTransition(nodeState[n], s)
  <2>1. /\ nodeState'[n] = s
        /\ \A m \in Node \ {n} : nodeState'[m] = nodeState[m]
    BY <1>1 DEF UpdateNodeState, TypeOK, SharedTypeOK
  <2>2. nodeState[n] \in TerminalNodeStates => s = nodeState[n]
    BY <1>1, TerminalIsFinal
  <2> QED BY <2>1, <2>2 DEF NodesKept
<1>2. CASE ~ValidNodeTransition(nodeState[n], s)
  BY <1>2 DEF UpdateNodeState, NodesKept
<1> QED BY <1>1, <1>2

\* Which steps write node states, and of which node.
WritesNode(p) ==
  \/ \E n \in todo[p], s \in {"failed", "running"} :
       Begin(p) /\ UpdateNodeState(n, s)
  \/ cur[p] \in Node /\ Block(p) /\ UpdateNodeState(cur[p], "blocked")
  \/ cur[p] \in Node /\ Done(p) /\ UpdateNodeState(cur[p], "done")
  \/ cur[p] \in Node /\ Fail(p) /\ UpdateNodeState(cur[p], "failed")

\* What a step of a run writes to the nodes.
LEMMA NodeWrites ==
  ASSUME TypeOK, LocalsOK, [Next]_vars
  PROVE  nodeState' = nodeState \/ \E p \in Proc : WritesNode(p)
<1> DEFINE Goal == nodeState' = nodeState \/ \E p \in Proc : WritesNode(p)
<1>1. ASSUME NEW p \in Proc, RunStep(p) PROVE Goal
  <2>1. CASE Begin(p)
    BY <2>1 DEF Begin, MarkFailed, WritesNode
  <2>2. CASE Block(p)
    BY <2>2, AtNodeFacts DEF Block, AtNode, WritesNode
  <2>3. CASE Done(p)
    BY <2>3, AtNodeFacts DEF Done, AtNode, WritesNode
  <2>4. CASE Fail(p)
    BY <2>4, AtNodeFacts DEF Fail, MarkFailed, AtNode, WritesNode
  <2>5. CASE ~(Begin(p) \/ Block(p) \/ Done(p) \/ Fail(p))
    <3>1. nodeState' = nodeState
      BY <1>1, <2>5
      DEF RunStep, Load, Start, List, Exec, AgentReturns, Request, Insert, Get,
          FailPlan, Settle, Close, dbVars
    <3> QED BY <3>1
  <2> QED BY <2>1, <2>2, <2>3, <2>4, <2>5
<1>2. ASSUME NEW p \in Proc, ProcStep(p), ~RunStep(p) PROVE nodeState' = nodeState
  <2>1. CASE SweepStep(p)
    BY <2>1 DEF SweepStep, Collect, CountAttempt, CheckBudget, DeadLetter,
                CheckPlan, Consume, dbVars
  <2>2. CASE ~SweepStep(p)
    BY <1>2, <2>2 DEF ProcStep, BuildStart, BuildReport, HandlerError,
                      RunInterrupted, Pick, Resolve, Wakeup, dbVars
  <2> QED BY <2>1, <2>2
<1>3. CASE Archive \/ TimePasses \/ Crash \/ UNCHANGED vars
  BY <1>3 DEF Archive, TimePasses, Crash, vars, dbVars
<1> QED BY <1>1, <1>2, <1>3, NextCases

\* Every step keeps the nodes: terminal states and their artifacts stay.
LEMMA NodesStep ==
  ASSUME TypeOK, LocalsOK, [Next]_vars
  PROVE  NodesKept
<1>1. \A p \in Proc : todo[p] \subseteq Node
  BY DEF TypeOK, LocalTypeOK
<1>2. CASE nodeState' = nodeState
  BY <1>2 DEF NodesKept
<1>3. CASE nodeState' # nodeState
  <2>1. PICK n \in Node, s \in {"failed", "running", "blocked", "done"} :
          UpdateNodeState(n, s)
    BY <1>1, <1>3, NodeWrites DEF WritesNode
  <2> QED BY <2>1, UpdateNodeStateEffect
<1> QED BY <1>2, <1>3
-----------------------------------------------------------------------------
(* The locals of a process mean what they should. *)

\* A process that stands at no node has nothing to keep.
AwayPoints == Points \ AtNode

LocalOK(p) ==
  /\ pc[p] \in AtNode => cur[p] \in Node
  /\ pc[p] \in AtRow => row[p] \in DOMAIN approvals[cur[p]]
  /\ pc[p] \in AtVerdict => verdict[p] \in Verdicts

\* A process outside a run has no locals to keep in order.
LEMMA AwayOK ==
  ASSUME NEW p \in Proc, pc'[p] \notin AtNode
  PROVE  LocalOK(p)'
BY DEF LocalOK, AtNode, AtRow, AtVerdict

\* A step of the run that stays at its node.
LEMMA StayOK ==
  ASSUME TypeOK, NEW p \in Proc, pc[p] \in AtNode, LocalOK(p),
         pc'[p] \notin AtRow \cup AtVerdict, cur'[p] = cur[p]
  PROVE  LocalOK(p)'
BY DEF LocalOK

\* A step of a run keeps the locals of its process in order.
LEMMA RunStepLocal ==
  ASSUME TypeOK, LocalsOK, NEW p \in Proc, RunStep(p)
  PROVE  LocalOK(p)'
<1>t. LocalTypeOK
  BY DEF TypeOK
<1>o. LocalOK(p)
  BY DEF LocalsOK, LocalOK
<1>r. ASSUME NEW ok \in BOOLEAN, Return(p, ok) PROVE LocalOK(p)'
  BY <1>t, <1>r, ReturnTypes, AwayOK DEF AtNode
<1>g. ASSUME NEW point, Goto(p, point) PROVE pc'[p] = point
  BY <1>t, <1>g DEF Goto, LocalTypeOK
<1>n. ASSUME NextNode(p) PROVE LocalOK(p)'
  <2>1. pc'[p] \in {"list", "begin"}
    BY <1>t, <1>n DEF NextNode, Goto, LocalTypeOK
  <2> QED BY <2>1, AwayOK DEF AtNode
<1>1. CASE Load(p) \/ Start(p) \/ List(p) \/ Settle(p)
  <2>1. CASE \E ok \in BOOLEAN : Return(p, ok)
    BY <1>r, <2>1
  <2>2. CASE ~\E ok \in BOOLEAN : Return(p, ok)
    <3>1. \E point \in {"list", "start", "settle", "begin", "closedone", "closefailed"} :
            Goto(p, point)
      BY <1>1, <2>2 DEF Load, Start, List, Settle
    <3> QED BY <3>1, <1>g, AwayOK DEF AtNode
  <2> QED BY <2>1, <2>2
<1>2. CASE Begin(p)
  <2>1. CASE Return(p, FALSE)
    BY <1>r, <2>1
  <2>2. CASE ~Return(p, FALSE)
    <3>1. PICK n \in todo[p] :
            /\ Goto(p, IF Kind[n] = "human_feedback" THEN "request" ELSE "exec")
            /\ cur' = [cur EXCEPT ![p] = n]
      BY <1>2, <2>2 DEF Begin
    <3>2. pc'[p] \in {"request", "exec"}
      BY <1>g, <3>1
    <3>3. cur'[p] = n /\ n \in Node
      BY <1>t, <3>1 DEF LocalTypeOK
    <3> QED BY <3>2, <3>3 DEF LocalOK, AtNode, AtRow, AtVerdict
  <2> QED BY <2>1, <2>2
<1>3. CASE Exec(p) \/ AgentReturns(p)
  <2>1. pc[p] \in AtNode /\ pc'[p] \in {"agent", "done"} /\ cur'[p] = cur[p]
    BY <1>g, <1>3 DEF Exec, AgentReturns, AtNode
  <2> QED BY <1>o, <2>1, StayOK DEF AtRow, AtVerdict
<1>4. CASE Request(p)
  <2> DEFINE n == cur[p]
  <2>1. n \in Node /\ cur' = cur /\ approvals' = approvals
    BY <1>4, AtNodeFacts DEF Request, AtNode, dbVars
  <2>2. CASE approvals[n] = <<>>
    <3>1. pc'[p] = "insert"
      BY <1>4, <1>g, <2>2 DEF Request
    <3> QED BY <2>1, <3>1 DEF LocalOK, AtNode, AtRow, AtVerdict
  <2>3. CASE approvals[n] # <<>>
    <3>1. pc'[p] = "get" /\ row'[p] = Len(approvals[n])
      BY <1>4, <1>g, <1>t, <2>3 DEF Request, LocalTypeOK
    <3>2. Len(approvals[n]) \in DOMAIN approvals[n]
      BY <2>1, <2>3, EmptySeq, LenProperties DEF TypeOK, SharedTypeOK
    <3> QED BY <2>1, <3>1, <3>2 DEF LocalOK, AtNode, AtRow, AtVerdict
  <2> QED BY <2>2, <2>3
<1>5. CASE Insert(p)
  <2>1. pc'[p] = "get" /\ cur' = cur
    BY <1>5, <1>g DEF Insert
  <2> QED BY <1>5, <2>1, InsertAppends DEF LocalOK, AtNode, AtRow, AtVerdict
<1>6. CASE Get(p)
  <2>1. pc[p] \in AtNode /\ pc'[p] \in {"block", "done"} /\ cur'[p] = cur[p]
    BY <1>g, <1>6 DEF Get, AtNode
  <2> QED BY <1>o, <2>1, StayOK DEF AtRow, AtVerdict
<1>7. CASE Block(p) \/ Done(p)
  BY <1>7, <1>n, <1>r DEF Block, Done
<1>8. CASE Fail(p)
  <2>1. CASE NextNode(p)
    BY <1>n, <2>1
  <2>2. CASE ~NextNode(p)
    <3>1. pc[p] \in AtNode /\ pc'[p] = "failplan" /\ cur'[p] = cur[p]
      BY <1>g, <1>8, <2>2 DEF Fail, AtNode
    <3> QED BY <1>o, <3>1, StayOK DEF AtRow, AtVerdict
  <2> QED BY <2>1, <2>2
<1>9. CASE FailPlan(p) \/ Close(p)
  BY <1>9, <1>r DEF FailPlan, Close
<1> QED BY <1>1, <1>2, <1>3, <1>4, <1>5, <1>6, <1>7, <1>8, <1>9 DEF RunStep

\* So does any other step of a process.
LEMMA OtherStepLocal ==
  ASSUME TypeOK, LocalsOK, NEW p \in Proc, ProcStep(p), ~RunStep(p)
  PROVE  LocalOK(p)'
<1>t. LocalTypeOK
  BY DEF TypeOK
<1>o. LocalOK(p)
  BY DEF LocalsOK, LocalOK
<1>r. ASSUME NEW ok \in BOOLEAN, Return(p, ok) PROVE LocalOK(p)'
  BY <1>t, <1>r, ReturnTypes, AwayOK DEF AtNode
<1>g. ASSUME NEW point, Goto(p, point) PROVE pc'[p] = point
  BY <1>t, <1>g DEF Goto, LocalTypeOK
<1>1. CASE BuildStart(p) \/ BuildReport(p) \/ SweepStep(p)
  <2>1. \E point \in {"load", "end", "attempt", "budget", "idle", "dead",
                      "check", "consume"} : Goto(p, point)
    BY <1>1 DEF BuildStart, BuildReport, SweepStep, Collect, CountAttempt,
                CheckBudget, DeadLetter, CheckPlan, Consume
  <2> QED BY <1>g, <2>1, AwayOK DEF AtNode
<1>2. CASE HandlerError(p)
  <2>1. pc[p] \in AtNode /\ pc'[p] = "fail" /\ cur'[p] = cur[p]
    BY <1>g, <1>2 DEF HandlerError, AtNode
  <2> QED BY <1>o, <2>1, StayOK DEF AtRow, AtVerdict
<1>3. CASE RunInterrupted(p)
  <2>1. (pc[p] \in {"closedone", "closefailed"}) \in BOOLEAN
    OBVIOUS
  <2> QED BY <1>r, <1>3, <2>1 DEF RunInterrupted
<1>4. CASE Pick(p)
  <2>1. PICK choice \in Choices, n \in Node :
          \E i \in DOMAIN approvals[n] :
            /\ Goto(p, "resolve")
            /\ cur' = [cur EXCEPT ![p] = n]
            /\ row' = [row EXCEPT ![p] = i]
            /\ verdict' = [verdict EXCEPT ![p] = choice]
    BY <1>4 DEF Pick
  <2>2. /\ cur'[p] = n /\ verdict'[p] = choice /\ choice \in Verdicts
        /\ row'[p] \in DOMAIN approvals[n]
    BY <1>t, <2>1, BoundsAssumption DEF LocalTypeOK
  <2>3. approvals' = approvals
    BY <1>4 DEF Pick, dbVars
  <2> QED BY <2>2, <2>3 DEF LocalOK
<1>5. CASE Resolve(p)
  <2>1. CASE \E ok \in BOOLEAN : Return(p, ok)
    BY <1>r, <2>1
  <2>2. CASE ~\E ok \in BOOLEAN : Return(p, ok)
    <3>1. /\ pc[p] \in AtNode /\ pc[p] \in AtVerdict /\ pc'[p] = "wakeup"
          /\ cur'[p] = cur[p] /\ verdict'[p] = verdict[p]
      BY <1>5, <1>g, <2>2 DEF Resolve, AtNode, AtVerdict
    <3> QED BY <1>o, <3>1 DEF LocalOK, AtRow
  <2> QED BY <2>1, <2>2
<1>6. CASE Wakeup(p)
  <2>1. pc'[p] \in {"load", "end"}
    BY <1>6, <1>g DEF Wakeup
  <2> QED BY <2>1, AwayOK DEF AtNode
<1> QED BY <1>1, <1>2, <1>3, <1>4, <1>5, <1>6 DEF ProcStep

\* A process that takes no step is not disturbed by those that do.
LEMMA UndisturbedLocal ==
  ASSUME LocalsOK, RowsKept, NEW q \in Proc, SameLocals(q)
  PROVE  LocalOK(q)'
<1>1. AtRow \subseteq AtNode
  BY DEF AtRow, AtNode
<1> QED BY <1>1 DEF LocalsOK, LocalOK, RowsKept, SameLocals

\* Every step keeps the locals in order.
LEMMA LocalsStep ==
  ASSUME TypeOK, LocalsOK, [Next]_vars
  PROVE  LocalsOK'
<1> SUFFICES ASSUME NEW q \in Proc PROVE LocalOK(q)'
  BY DEF LocalsOK, LocalOK
<1>1. RowsKept
  BY ApprovalsStep
<1>2. ASSUME NEW p \in Proc, ProcStep(p) PROVE LocalOK(q)'
  BY <1>1, <1>2, Locality, UndisturbedLocal, RunStepLocal, OtherStepLocal
<1>3. CASE Archive \/ TimePasses \/ UNCHANGED vars
  BY <1>1, <1>3, UndisturbedLocal
  DEF Archive, TimePasses, vars, procVars, SameLocals
<1>4. CASE Crash
  <2>1. pc'[q] \in {"idle", "ready", "end"}
    BY <1>4 DEF Crash, AfterCrash
  <2> QED BY <2>1, AwayOK DEF AtNode
<1> QED BY <1>2, <1>3, <1>4, NextCases

\* The initial state has the types and the locals in order.
LEMMA InitTypes ==
  ASSUME Init
  PROVE  TypeOK /\ LocalsOK
<1>1. SharedTypeOK
  BY EmptySeq, MishapsAssumption
  DEF Init, SharedTypeOK, PlanStatuses, NodeStates
<1>2. LocalTypeOK
  BY DEF Init, LocalTypeOK, Points
<1>3. LocalsOK
  BY DEF Init, LocalsOK, AtNode, AtRow, AtVerdict
<1> QED BY <1>1, <1>2, <1>3 DEF TypeOK

\* Every variable keeps its type: no step takes a process to a node, a row or
\* a verdict that does not exist.
THEOREM TypeCorrect == Spec => []TypeOK
<1>1. Init => TypeOK /\ LocalsOK
  BY InitTypes
<1>2. TypeOK /\ LocalsOK /\ [Next]_vars => (TypeOK /\ LocalsOK)'
  BY TypeStep, LocalsStep
<1> QED BY <1>1, <1>2, PTL DEF Spec
=============================================================================
