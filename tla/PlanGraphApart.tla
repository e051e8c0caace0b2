--------------------------- MODULE PlanGraphApart ---------------------------
(***************************************************************************)
(* What a plan promises when its processes keep out of each other's way,   *)
(* proved for every graph, every set of requests and every number of       *)
(* restarts and refused statements.                                        *)
(*                                                                         *)
(* With one sweeper per tenant (orchestrator/sweeper_manager.go starts no  *)
(* second one) the retry budget of the wakeups is kept.  Between counting  *)
(* and judging, an open row may be one attempt over; a restart in between, *)
(* a failed look at the count or a refused dead-letter leaves it there,    *)
(* and nothing else does.                                                  *)
(*                                                                         *)
(* Runs overlap.  As long as no two of them hold one and the same node, a  *)
(* run keeps what it takes for granted: the snapshot it works through      *)
(* stays true, and every move it makes is legal.  Nothing in the code      *)
(* keeps two runs from holding the same node: what follows says that this  *)
(* is the one way in which work is repeated, a plan fails without a cause, *)
(* or an edge loses what its agent started on.                             *)
(***************************************************************************)
EXTENDS PlanGraphSafety

OneSweeper == \A s, u \in Sweepers : s = u

AtSweep == {"attempt", "budget", "dead", "check", "consume"}
Judging(p) == pc[p] \in {"budget", "dead"}

\* Only a sweeper is inside the sweep.
SweepersSweep == \A p \in Proc : pc[p] \in AtSweep => p \in Sweepers

Condemned(w) == IsOpen(w) /\ wakeups[w].attempts >= MaxAttempts

BudgetOK ==
  /\ AttemptsBounded
  /\ (\A p \in Proc : ~Judging(p)) =>
       \A w \in DOMAIN wakeups : IsOpen(w) => wakeups[w].attempts < MaxAttempts + mishaps
  /\ (\E p \in Proc : pc[p] = "dead") => \E w \in DOMAIN wakeups : Condemned(w)
  /\ DeadLetterEarned

BudgetInv == TypeOK /\ LocalsOK /\ SweepersSweep /\ BudgetOK
-----------------------------------------------------------------------------
(* Who moves where. *)

\* A step of a run, and of a request, stays outside counting and judging.
LEMMA RunStaysOut ==
  ASSUME TypeOK, LocalsOK, NEW p \in Proc, RunStep(p)
  PROVE  /\ pc[p] \notin AtSweep /\ pc'[p] \notin AtSweep \ {"consume"}
         /\ pc'[p] = "consume" => p \in Sweepers
         /\ UNCHANGED wakeups
<1> USE DEF AtSweep, TypeOK, LocalTypeOK
<1>r. ASSUME NEW ok \in BOOLEAN, Return(p, ok)
      PROVE  pc'[p] \notin AtSweep \ {"consume"} /\ (pc'[p] = "consume" => p \in Sweepers)
  BY <1>r, ProcAssumption DEF Return, Goto, AfterRun, Proc
<1>1. CASE Load(p)
  BY <1>r, <1>1 DEF Load, Goto, dbVars
<1>2. CASE Start(p) \/ Exec(p) \/ AgentReturns(p) \/ Request(p) \/ Insert(p) \/ Get(p)
  BY <1>2 DEF Start, Exec, AgentReturns, Request, Insert, Get, Goto, dbVars
<1>3. CASE List(p)
  BY <1>r, <1>3 DEF List, Goto, dbVars
<1>4. CASE Begin(p)
  BY <1>r, <1>4 DEF Begin, Goto
<1>5. CASE Block(p) \/ Done(p)
  BY <1>r, <1>5 DEF Block, Done, NextNode, Goto
<1>6. CASE Fail(p)
  BY <1>6 DEF Fail, NextNode, Goto
<1>7. CASE FailPlan(p) \/ Close(p)
  BY <1>r, <1>7 DEF FailPlan, Close
<1>8. CASE Settle(p)
  BY <1>r, <1>8 DEF Settle, Goto, dbVars
<1> QED
  BY <1>1, <1>2, <1>3, <1>4, <1>5, <1>6, <1>7, <1>8 DEF RunStep
LEMMA RequestStaysOut ==
  ASSUME TypeOK, LocalsOK, NEW p \in Proc,
         \/ BuildStart(p) \/ BuildReport(p) \/ HandlerError(p) \/ RunInterrupted(p)
         \/ Pick(p) \/ Resolve(p) \/ Wakeup(p)
  PROVE  /\ pc[p] \notin AtSweep /\ pc'[p] \notin AtSweep \ {"consume"}
         /\ pc'[p] = "consume" => p \in Sweepers
         /\ ~Wakeup(p) => UNCHANGED wakeups
<1> USE DEF AtSweep, TypeOK, LocalTypeOK
<1>r. ASSUME NEW ok \in BOOLEAN, Return(p, ok)
      PROVE  pc'[p] \notin AtSweep \ {"consume"} /\ (pc'[p] = "consume" => p \in Sweepers)
  BY <1>r, ProcAssumption DEF Return, Goto, AfterRun, Proc
<1>1. CASE BuildStart(p) \/ BuildReport(p) \/ HandlerError(p)
  BY <1>1 DEF BuildStart, BuildReport, HandlerError, Goto, dbVars
<1>2. CASE RunInterrupted(p)
  <2>1. (pc[p] \in {"closedone", "closefailed"}) \in BOOLEAN
    OBVIOUS
  <2> QED BY <1>r, <1>2, <2>1 DEF RunInterrupted, Running, RunPoints, dbVars
<1>3. CASE Pick(p)
  BY <1>3 DEF Pick, Goto, dbVars
<1>4. CASE Resolve(p)
  BY <1>r, <1>4 DEF Resolve, Goto
<1>5. CASE Wakeup(p)
  BY <1>5 DEF Wakeup, Goto
<1> QED
  BY <1>1, <1>2, <1>3, <1>4, <1>5

\* Only sweepers sweep, after every step.
LEMMA SweepersStep ==
  ASSUME TypeOK, LocalsOK, SweepersSweep, [Next]_vars
  PROVE  SweepersSweep'
<1>1. ASSUME NEW p \in Proc, ProcStep(p) PROVE SweepersSweep'
  <2>1. pc'[p] \in AtSweep => p \in Sweepers
    <3>1. CASE SweepStep(p)
      BY <3>1 DEF SweepStep, Collect, CountAttempt, CheckBudget, DeadLetter, CheckPlan, Consume,
                  SweepersSweep, AtSweep, Goto, TypeOK, LocalTypeOK
    <3>2. CASE ~SweepStep(p)
      BY <1>1, <3>2, RunStaysOut, RequestStaysOut DEF ProcStep, AtSweep
    <3> QED BY <3>1, <3>2
  <2>2. \A q \in Proc \ {p} : pc'[q] = pc[q]
    BY <1>1, Locality DEF SameLocals
  <2> QED BY <2>1, <2>2 DEF SweepersSweep
<1>2. CASE Archive \/ TimePasses \/ UNCHANGED vars
  BY <1>2 DEF Archive, TimePasses, vars, procVars, SweepersSweep
<1>3. CASE Crash
  BY <1>3 DEF Crash, AfterCrash, SweepersSweep, AtSweep
<1> QED BY <1>1, <1>2, <1>3, NextCases
-----------------------------------------------------------------------------
(* The budget. *)

\* A row is a record with a count.
LEMMA RowsTyped ==
  ASSUME TypeOK
  PROVE  /\ Len(wakeups) \in Nat /\ DOMAIN wakeups = 1 .. Len(wakeups)
         /\ \A w \in DOMAIN wakeups : wakeups[w] \in WakeupRow
BY ElementOfSeq, LenProperties DEF TypeOK, SharedTypeOK

\* A mishap more, an attempt more.
LEMMA RoomGrows ==
  ASSUME NEW a \in Nat, NEW b \in Nat, NEW m \in Nat, NEW k \in {m, m + 1}
  PROVE  /\ a <= b + m => a <= b + k
         /\ a < b + m => a < b + k
         /\ a <= b + m => a < b + (m + 1)
OBVIOUS

\* A step counts one mishap or none.
LEMMA MishapsStep ==
  ASSUME TypeOK, [Next]_vars
  PROVE  mishaps \in Nat /\ mishaps' \in {mishaps, mishaps + 1}
<1> USE DEF Refused, Mishap, Fine
<1>n. mishaps \in Nat
  BY MishapsAssumption DEF TypeOK, SharedTypeOK
<1>1. ASSUME NEW p \in Proc, ProcStep(p) PROVE mishaps' \in {mishaps, mishaps + 1}
  <2>1. CASE RunStep(p)
    BY <2>1 DEF RunStep, Load, Start, List, Begin, Exec, AgentReturns, Request, Insert, Get,
                Block, Done, Fail, FailPlan, Settle, Close, MarkFailed
  <2>2. CASE SweepStep(p)
    BY <2>2 DEF SweepStep, Collect, CountAttempt, CheckBudget, DeadLetter, CheckPlan, Consume
  <2>3. CASE ~RunStep(p) /\ ~SweepStep(p)
    BY <1>1, <2>3 DEF ProcStep, BuildStart, BuildReport, HandlerError, RunInterrupted, Pick,
                      Resolve, Wakeup
  <2> QED BY <2>1, <2>2, <2>3
<1>2. CASE Archive \/ TimePasses
  BY <1>n, <1>2 DEF Archive, TimePasses
<1>3. CASE Crash
  BY <1>n, <1>3 DEF Crash
<1>4. CASE UNCHANGED vars
  BY <1>n, <1>4 DEF vars
<1> QED BY <1>n, <1>1, <1>2, <1>3, <1>4, NextCases

\* Nobody starts or stops judging, and no row changes.
LEMMA BudgetUntouched ==
  ASSUME TypeOK, BudgetOK, UNCHANGED wakeups, mishaps' \in {mishaps, mishaps + 1},
         \A q \in Proc : /\ pc'[q] = "dead" <=> pc[q] = "dead"
                         /\ pc'[q] = "budget" <=> pc[q] = "budget"
  PROVE  BudgetOK'
<1>1. mishaps \in Nat /\ MaxAttempts \in Nat
  BY MishapsAssumption, BoundsAssumption DEF TypeOK, SharedTypeOK
<1>2. ASSUME NEW w \in DOMAIN wakeups
      PROVE  /\ wakeups[w].attempts <= MaxAttempts + mishaps
                  => wakeups[w].attempts <= MaxAttempts + mishaps'
             /\ wakeups[w].attempts < MaxAttempts + mishaps
                  => wakeups[w].attempts < MaxAttempts + mishaps'
  <2>1. wakeups[w].attempts \in Nat
    BY RowsTyped DEF WakeupRow
  <2> QED BY <1>1, <2>1, RoomGrows
<1>3. AttemptsBounded'
  BY <1>2 DEF BudgetOK, AttemptsBounded
<1>4. (\A q \in Proc : ~Judging(q)') =>
        \A w \in DOMAIN wakeups' : IsOpen(w)' => wakeups'[w].attempts < MaxAttempts + mishaps'
  BY <1>2 DEF BudgetOK, Judging, IsOpen
<1>5. (\E q \in Proc : pc'[q] = "dead") => \E w \in DOMAIN wakeups' : Condemned(w)'
  BY DEF BudgetOK, Condemned, IsOpen
<1> QED BY <1>3, <1>4, <1>5 DEF BudgetOK, DeadLetterEarned

\* A mishap makes up for an attempt, judged or not.
LEMMA BudgetForgiven ==
  ASSUME TypeOK, BudgetOK, UNCHANGED wakeups, mishaps' = mishaps + 1,
         \A q \in Proc : pc'[q] # "dead"
  PROVE  BudgetOK'
<1>1. mishaps \in Nat /\ MaxAttempts \in Nat
  BY MishapsAssumption, BoundsAssumption DEF TypeOK, SharedTypeOK
<1>2. ASSUME NEW w \in DOMAIN wakeups PROVE wakeups[w].attempts < MaxAttempts + mishaps'
  <2>1. wakeups[w].attempts \in Nat /\ wakeups[w].attempts <= MaxAttempts + mishaps
    BY RowsTyped DEF WakeupRow, BudgetOK, AttemptsBounded
  <2> QED BY <1>1, <2>1, RoomGrows
<1>3. ASSUME NEW w \in DOMAIN wakeups PROVE wakeups[w].attempts <= MaxAttempts + mishaps'
  <2>1. wakeups[w].attempts \in Nat
    BY RowsTyped DEF WakeupRow
  <2> QED BY <1>1, <1>2, <2>1
<1> QED BY <1>2, <1>3 DEF BudgetOK, AttemptsBounded, DeadLetterEarned

\* A new wakeup starts without attempts.
LEMMA BudgetWakeup ==
  ASSUME TypeOK, LocalsOK, BudgetOK, NEW p \in Proc, Wakeup(p)
  PROVE  BudgetOK'
<1>1. \A q \in Proc : /\ pc'[q] = "dead" <=> pc[q] = "dead"
                      /\ pc'[q] = "budget" <=> pc[q] = "budget"
  <2>1. pc[p] \notin AtSweep /\ pc'[p] \notin AtSweep \ {"consume"}
    BY RequestStaysOut
  <2>2. \A q \in Proc \ {p} : pc'[q] = pc[q]
    BY Locality DEF SameLocals, ProcStep
  <2> QED BY <2>1, <2>2 DEF AtSweep
<1>2. CASE UNCHANGED wakeups
  BY <1>1, <1>2, BudgetUntouched DEF Wakeup
<1>3. CASE wakeups' = Append(wakeups, [attempts |-> 0, state |-> "open"])
  <2> DEFINE k == Len(wakeups) + 1
  <2>1. /\ DOMAIN wakeups' = DOMAIN wakeups \cup {k} /\ k \notin DOMAIN wakeups
        /\ wakeups'[k] = [attempts |-> 0, state |-> "open"]
        /\ \A w \in DOMAIN wakeups : wakeups'[w] = wakeups[w]
    BY <1>3, RowsTyped DEF TypeOK, SharedTypeOK
  <2>2. mishaps' = mishaps /\ mishaps \in Nat /\ MaxAttempts \in Nat \ {0}
    BY BoundsAssumption, MishapsAssumption DEF Wakeup, TypeOK, SharedTypeOK
  <2> HIDE DEF k
  <2>3. AttemptsBounded'
    BY <2>1, <2>2 DEF BudgetOK, AttemptsBounded
  <2>4. (\A q \in Proc : ~Judging(q)') =>
          \A w \in DOMAIN wakeups' : IsOpen(w)' => wakeups'[w].attempts < MaxAttempts + mishaps'
    BY <1>1, <2>1, <2>2 DEF BudgetOK, Judging, IsOpen
  <2>5. (\E q \in Proc : pc'[q] = "dead") => \E w \in DOMAIN wakeups' : Condemned(w)'
    BY <1>1, <2>1 DEF BudgetOK, Condemned, IsOpen
  <2>6. DeadLetterEarned'
    BY <2>1 DEF BudgetOK, DeadLetterEarned
  <2> QED BY <2>3, <2>4, <2>5, <2>6 DEF BudgetOK
<1> QED BY <1>2, <1>3 DEF Wakeup

\* A sweep, as the only one.
LEMMA BudgetSweep ==
  ASSUME OneSweeper, TypeOK, LocalsOK, SweepersSweep, BudgetOK, NEW p \in Proc, SweepStep(p)
  PROVE  BudgetOK'
<1>1. mishaps \in Nat /\ MaxAttempts \in Nat \ {0}
  BY BoundsAssumption, MishapsAssumption DEF TypeOK, SharedTypeOK
<1>2. \A q \in Proc \ {p} : pc'[q] = pc[q]
  BY Locality DEF SameLocals, ProcStep
<1>3. pc[p] \in AtSweep => \A q \in Proc \ {p} : ~Judging(q) /\ ~Judging(q)'
  BY <1>2 DEF OneSweeper, SweepersSweep, AtSweep, Judging
<1>t. \A w \in DOMAIN wakeups : wakeups[w] \in WakeupRow
  BY RowsTyped
<1>p. pc \in [Proc -> Points]
  BY DEF TypeOK, LocalTypeOK
<1>4. CASE Collect(p)
  <2>1. ~Judging(p) /\ pc'[p] \notin {"budget", "dead"} /\ UNCHANGED <<wakeups, mishaps>>
    BY <1>4, <1>p DEF Collect, Goto, Judging, dbVars
  <2> QED BY <1>2, <2>1, BudgetUntouched DEF Judging
<1>5. ASSUME Refused, UNCHANGED wakeups, pc[p] \in AtSweep, pc'[p] # "dead" PROVE BudgetOK'
  <2>1. \A q \in Proc : pc'[q] # "dead"
    BY <1>3, <1>5 DEF Judging
  <2> QED BY <1>5, <2>1, BudgetForgiven DEF Refused, Mishap
<1>6. CASE CheckPlan(p)
  <2>1. /\ pc[p] = "check" /\ pc'[p] \notin {"budget", "dead"} /\ UNCHANGED wakeups
        /\ mishaps' \in {mishaps, mishaps + 1}
    BY <1>6, <1>p DEF CheckPlan, Goto, dbVars, Refused, Mishap, Fine
  <2> QED BY <1>2, <2>1, BudgetUntouched
<1>7. CASE CountAttempt(p)
  <2>1. /\ pc[p] = "attempt" /\ pc'[p] = "budget"
    BY <1>7, <1>p DEF CountAttempt, Goto
  <2>2. CASE Refused /\ UNCHANGED wakeups
    BY <1>5, <2>1, <2>2 DEF AtSweep
  <2>3. CASE ~(Refused /\ UNCHANGED wakeups)
    <3>1. /\ mishaps' = mishaps
          /\ wakeups' = [w \in DOMAIN wakeups |->
                           IF IsOpen(w) THEN [wakeups[w] EXCEPT !.attempts = @ + 1]
                                        ELSE wakeups[w]]
      BY <1>7, <2>3 DEF CountAttempt, Fine
    <3>2. \A q \in Proc : ~Judging(q)
      BY <1>3, <2>1 DEF AtSweep, Judging
    <3>3. /\ DOMAIN wakeups' = DOMAIN wakeups
          /\ \A w \in DOMAIN wakeups :
               /\ wakeups'[w].state = wakeups[w].state
               /\ wakeups'[w].attempts = IF IsOpen(w) THEN wakeups[w].attempts + 1
                                                       ELSE wakeups[w].attempts
      BY <1>t, <3>1 DEF WakeupRow
    <3>4. AttemptsBounded'
      BY <1>1, <1>t, <3>1, <3>2, <3>3 DEF BudgetOK, AttemptsBounded, WakeupRow
    <3>5. Judging(p)' /\ \A q \in Proc : pc'[q] # "dead"
      BY <1>2, <2>1, <3>2 DEF Judging
    <3>6. DeadLetterEarned'
      BY <3>3 DEF BudgetOK, DeadLetterEarned, IsOpen
    <3> QED BY <3>4, <3>5, <3>6 DEF BudgetOK
  <2> QED BY <2>2, <2>3
<1>8. CASE CheckBudget(p)
  <2>1. /\ pc[p] = "budget" /\ UNCHANGED wakeups
        /\ \/ /\ pc'[p] = IF \E w \in DOMAIN wakeups : OverBudget(w) THEN "dead" ELSE "check"
              /\ mishaps' = mishaps
           \/ Refused /\ pc'[p] = "check"
    BY <1>8, <1>p DEF CheckBudget, Goto, dbVars, Fine
  <2>2. CASE Refused /\ pc'[p] = "check"
    BY <1>5, <2>1, <2>2 DEF AtSweep
  <2>3. CASE \E w \in DOMAIN wakeups : OverBudget(w) /\ mishaps' = mishaps /\ pc'[p] = "dead"
    <3>1. Judging(p)' /\ \E w \in DOMAIN wakeups' : Condemned(w)'
      BY <2>1, <2>3 DEF OverBudget, Condemned, IsOpen, Judging
    <3>2. AttemptsBounded' /\ DeadLetterEarned'
      BY <1>1, <2>1, <2>3 DEF BudgetOK, AttemptsBounded, DeadLetterEarned
    <3> QED BY <3>1, <3>2 DEF BudgetOK
  <2>4. CASE ~(\E w \in DOMAIN wakeups : OverBudget(w)) /\ mishaps' = mishaps
    <3>1. \A q \in Proc : pc'[q] # "dead"
      BY <1>3, <2>1, <2>4 DEF AtSweep, Judging
    <3>2. \A w \in DOMAIN wakeups' : IsOpen(w)' => wakeups'[w].attempts < MaxAttempts + mishaps'
      BY <1>1, <1>t, <2>1, <2>4 DEF OverBudget, IsOpen, WakeupRow
    <3>3. AttemptsBounded' /\ DeadLetterEarned'
      BY <1>1, <2>1, <2>4 DEF BudgetOK, AttemptsBounded, DeadLetterEarned
    <3> QED BY <3>1, <3>2, <3>3 DEF BudgetOK
  <2> QED BY <2>1, <2>2, <2>3, <2>4
<1>9. CASE DeadLetter(p) \/ Consume(p)
  <2>1. /\ pc'[p] = "idle" /\ pc[p] \in AtSweep
        /\ \/ Refused /\ UNCHANGED wakeups
           \/ \E s \in {"dead", "consumed"} :
                SetOpenWakeups(s) /\ (s = "dead" => pc[p] = "dead") /\ mishaps' = mishaps
    BY <1>9, <1>p DEF DeadLetter, Consume, Goto, AtSweep, Fine
  <2>2. CASE Refused /\ UNCHANGED wakeups
    BY <1>5, <2>1, <2>2
  <2>3. ASSUME NEW s \in {"dead", "consumed"}, SetOpenWakeups(s), s = "dead" => pc[p] = "dead",
               mishaps' = mishaps
        PROVE  BudgetOK'
    <3>1. /\ DOMAIN wakeups' = DOMAIN wakeups
          /\ \A w \in DOMAIN wakeups :
               /\ wakeups'[w].state = IF IsOpen(w) THEN s ELSE wakeups[w].state
               /\ wakeups'[w].attempts = wakeups[w].attempts
      BY <1>t, <2>3 DEF SetOpenWakeups, WakeupRow
    <3>2. AttemptsBounded'
      BY <1>1, <2>3, <3>1 DEF BudgetOK, AttemptsBounded
    <3>3. \A w \in DOMAIN wakeups' : ~IsOpen(w)'
      BY <2>3, <3>1 DEF IsOpen
    <3>4. \A q \in Proc : pc'[q] # "dead"
      BY <1>3, <2>1 DEF Judging
    <3>5. DeadLetterEarned'
      <4>1. CASE s = "dead"
        <5>1. PICK v \in DOMAIN wakeups : Condemned(v)
          BY <2>3, <4>1 DEF BudgetOK
        <5> QED BY <3>1, <4>1, <5>1 DEF DeadLetterEarned, Condemned
      <4>2. CASE s = "consumed"
        BY <3>1, <4>2 DEF BudgetOK, DeadLetterEarned, IsOpen
      <4> QED BY <2>3, <4>1, <4>2
    <3> QED BY <3>2, <3>3, <3>4, <3>5 DEF BudgetOK
  <2> QED BY <2>1, <2>2, <2>3
<1> QED BY <1>4, <1>6, <1>7, <1>8, <1>9 DEF SweepStep

\* Every step keeps the budget.
LEMMA BudgetStep ==
  ASSUME OneSweeper, TypeOK, LocalsOK, SweepersSweep, BudgetOK, [Next]_vars
  PROVE  BudgetOK'
<1>m. mishaps' \in {mishaps, mishaps + 1}
  BY MishapsStep
<1>1. ASSUME NEW p \in Proc, ProcStep(p), ~SweepStep(p), ~Wakeup(p) PROVE BudgetOK'
  <2>1. /\ pc[p] \notin AtSweep /\ pc'[p] \notin AtSweep \ {"consume"}
        /\ UNCHANGED wakeups
    BY <1>1, RunStaysOut, RequestStaysOut DEF ProcStep
  <2>2. \A q \in Proc \ {p} : pc'[q] = pc[q]
    BY <1>1, Locality DEF SameLocals
  <2> QED BY <1>m, <2>1, <2>2, BudgetUntouched DEF AtSweep
<1>2. CASE Archive \/ TimePasses \/ UNCHANGED vars
  BY <1>2, <1>m, BudgetUntouched DEF Archive, TimePasses, vars, dbVars, procVars
<1>3. CASE Crash
  <2>1. UNCHANGED wakeups /\ mishaps' = mishaps + 1 /\ \A q \in Proc : pc'[q] # "dead"
    BY <1>3 DEF Crash, Mishap, AfterCrash, dbVars
  <2> QED BY <2>1, BudgetForgiven
<1> QED BY <1>1, <1>2, <1>3, BudgetWakeup, BudgetSweep, NextCases

\* The invariant holds throughout.
LEMMA BudgetInvariance == ASSUME OneSweeper PROVE Spec => []BudgetInv
<1>1. Init => BudgetInv
  <2> SUFFICES ASSUME Init PROVE BudgetInv
    OBVIOUS
  <2>1. SweepersSweep /\ DOMAIN wakeups = {} /\ \A p \in Proc : pc[p] # "dead"
    BY DEF Init, SweepersSweep, AtSweep
  <2> QED BY <2>1, InitTypes DEF BudgetInv, BudgetOK, AttemptsBounded, DeadLetterEarned
<1>2. BudgetInv /\ [Next]_vars => BudgetInv'
  BY TypeStep, LocalsStep, SweepersStep, BudgetStep DEF BudgetInv
<1> QED BY <1>1, <1>2, PTL DEF Spec
-----------------------------------------------------------------------------
(* The claims about the budget. *)

\* A wakeup is tried no more often than the budget and the restarts allow
\* (sweeper.go resumeOne).
THEOREM AttemptsStayBounded == ASSUME OneSweeper PROVE Spec => []AttemptsBounded
<1>1. BudgetInv => AttemptsBounded
  BY DEF BudgetInv, BudgetOK
<1> QED BY <1>1, BudgetInvariance, PTL

\* No wakeup is given up on before one of its group used up the budget
\* (sweeper.go resumeOne, deadLetter).
THEOREM DeadLettersEarned == ASSUME OneSweeper PROVE Spec => []DeadLetterEarned
<1>1. BudgetInv => DeadLetterEarned
  BY DEF BudgetInv, BudgetOK
<1> QED BY <1>1, BudgetInvariance, PTL
-----------------------------------------------------------------------------
(* No node in two hands. *)

\* What a run holds: the nodes of its snapshot it has still to visit, and the
\* one it works on.
InHand(p) == todo[p] \cup {n \in Node : pc[p] \in AtWork /\ cur[p] = n}

NodesApart == \A p, q \in Proc : p # q => InHand(p) \cap InHand(q) = {}

\* What a run may rely on while nobody else holds its nodes: its snapshot is
\* not stale, and the node it works on is running.
TurnOK(p) ==
  /\ ~Running(p) => todo[p] = {}
  /\ \A n \in todo[p] : nodeState[n] \in Resumable
  /\ pc[p] \in AtWork => nodeState[cur[p]] = "running"
  /\ pc[p] = "exec" => agentRuns[cur[p]] = 0
  /\ pc[p] = "insert" => DOMAIN approvals[cur[p]] = {}
  /\ pc[p] = "block" => Kind[cur[p]] = "human_feedback"
  /\ pc[p] = "failplan" =>
       nodeState[cur[p]] = "failed" \/ (mishaps > 0 /\ Deserted(cur[p]))
  /\ pc[p] = "closefailed" => AnyFailed

\* What such runs leave in the rows.
WorkOK ==
  /\ \A n \in Node : nodeState[n] \in Resumable \/ Kind[n] = "human_feedback"
                       => agentRuns[n] = 0
  /\ ExecOnce
  /\ \A n \in Node : DOMAIN approvals[n] \subseteq {1}
  /\ FailedHasCause

ApartInv == IInv /\ (\A p \in Proc : TurnOK(p)) /\ WorkOK
-----------------------------------------------------------------------------
(* Who runs. *)

\* A run ends where it returns.
LEMMA ReturnEnds ==
  ASSUME TypeOK, NEW p \in Proc, NEW ok \in BOOLEAN, Return(p, ok)
  PROVE  ~Running(p)' /\ todo'[p] = {}
<1>1. pc'[p] \in {"built", "unbuilt", "consume", "idle", "end"} /\ todo'[p] = {}
  BY ReturnTypes DEF TypeOK
<1> QED BY <1>1 DEF Running, RunPoints

\* A run is at work on the node it was at work on, or on one it just began.
LEMMA WorkEnters ==
  ASSUME TypeOK, LocalsOK, NEW p \in Proc, ProcStep(p), pc'[p] \in AtWork
  PROVE  \/ pc[p] \in AtWork /\ cur'[p] = cur[p]
         \/ cur'[p] \in todo[p]
<1> USE DEF AtWork, TypeOK, LocalTypeOK
<1>r. ASSUME NEW ok \in BOOLEAN, Return(p, ok) PROVE FALSE
  BY <1>r, ReturnEnds DEF Running, RunPoints
<1>1. CASE RunStep(p)
  <2>1. CASE Load(p) \/ List(p) \/ Settle(p) \/ FailPlan(p) \/ Close(p)
    BY <1>r, <2>1 DEF Load, List, Settle, FailPlan, Close, Goto
  <2>2. CASE Start(p) \/ Exec(p) \/ AgentReturns(p) \/ Request(p) \/ Insert(p) \/ Get(p)
    BY <2>2 DEF Start, Exec, AgentReturns, Request, Insert, Get, Goto
  <2>3. CASE Begin(p)
    BY <1>r, <2>3 DEF Begin
  <2>4. CASE Block(p) \/ Done(p) \/ Fail(p)
    BY <1>r, <2>4 DEF Block, Done, Fail, NextNode, Goto
  <2> QED BY <1>1, <2>1, <2>2, <2>3, <2>4 DEF RunStep
<1>2. CASE SweepStep(p)
  BY <1>2 DEF SweepStep, Collect, CountAttempt, CheckBudget, DeadLetter, CheckPlan, Consume, Goto
<1>3. CASE Resolve(p)
  BY <1>r, <1>3 DEF Resolve, Goto
<1>4. CASE RunInterrupted(p)
  <2>1. (pc[p] \in {"closedone", "closefailed"}) \in BOOLEAN
    OBVIOUS
  <2> QED BY <1>r, <1>4, <2>1 DEF RunInterrupted
<1>5. CASE BuildStart(p) \/ BuildReport(p) \/ HandlerError(p) \/ Pick(p) \/ Wakeup(p)
  BY <1>5 DEF BuildStart, BuildReport, HandlerError, Pick, Wakeup, Goto
<1> QED BY <1>1, <1>2, <1>3, <1>4, <1>5 DEF ProcStep

\* A node deserted stays so: a run takes up what is pending or blocked.
LEMMA DesertedStays ==
  ASSUME TypeOK, LocalsOK, \A p \in Proc : TurnOK(p), [Next]_vars,
         NEW n \in Node, Deserted(n)
  PROVE  Deserted(n)'
<1>1. nodeState[n] = "running" /\ \A p \in Proc : n \notin todo[p]
  BY DEF Deserted, TurnOK, Resumable
<1>t. \A p \in Proc : todo[p] \subseteq Node
  BY DEF TypeOK, LocalTypeOK
<1>2. nodeState'[n] = "running"
  <2>1. CASE nodeState' = nodeState
    BY <1>1, <2>1
  <2>2. ASSUME NEW p \in Proc, WritesNode(p) PROVE nodeState'[n] = "running"
    <3>1. PICK m \in Node, s \in {"failed", "running", "blocked", "done"} :
            UpdateNodeState(m, s) /\ (m \in todo[p] \/ (pc[p] \in AtWork /\ m = cur[p]))
      BY <1>t, <2>2 DEF WritesNode, Block, Done, Fail, AtWork
    <3>2. m # n
      BY <1>1, <3>1 DEF Deserted
    <3> QED BY <1>1, <3>1, <3>2, UpdateNodeStateEffect
  <2> QED BY <2>1, <2>2, NodeWrites
<1>3. ASSUME NEW q \in Proc, pc'[q] \in AtWork, cur'[q] = n PROVE FALSE
  <2>1. CASE SameLocals(q)
    BY <1>3, <2>1 DEF SameLocals, Deserted
  <2>2. ASSUME NEW p \in Proc, ProcStep(p) PROVE FALSE
    <3>1. CASE p = q
      BY <1>1, <1>3, <2>2, <3>1, WorkEnters DEF Deserted
    <3>2. CASE p # q
      BY <2>1, <2>2, <3>2, Locality
    <3> QED BY <3>1, <3>2
  <2>3. CASE Archive \/ TimePasses \/ UNCHANGED vars
    BY <2>1, <2>3 DEF Archive, TimePasses, vars, procVars, SameLocals
  <2>4. CASE Crash
    BY <1>3, <2>4 DEF Crash, AfterCrash, AtWork
  <2> QED BY <2>2, <2>3, <2>4, NextCases
<1> QED BY <1>2, <1>3 DEF Deserted

\* A cause, once there, stays.
LEMMA CauseStays ==
  ASSUME TypeOK, LocalsOK, \A p \in Proc : TurnOK(p), [Next]_vars
  PROVE  /\ AnyFailed => AnyFailed'
         /\ \A n \in Node : nodeState[n] = "failed" => nodeState'[n] = "failed"
         /\ \A n \in Node : mishaps > 0 /\ Deserted(n) => mishaps' > 0 /\ Deserted(n)'
<1>1. \A n \in Node : nodeState[n] = "failed" => nodeState'[n] = "failed"
  BY NodesStep DEF NodesKept, TerminalNodeStates
<1>2. mishaps > 0 => mishaps' > 0
  BY MishapsStep
<1> QED BY <1>1, <1>2, DesertedStays DEF AnyFailed
-----------------------------------------------------------------------------
(* A run's turn. *)

\* A process outside a run keeps its locals in order whatever the others do.
LEMMA AwayTurn ==
  ASSUME NEW q \in Proc, ~Running(q)', todo'[q] = {}
  PROVE  TurnOK(q)'
BY DEF TurnOK, Running, RunPoints, AtWork

\* The moves a run makes are legal: its nodes are where it takes them to be.
LEMMA LegalMoves ==
         /\ \A s \in Resumable : ValidNodeTransition(s, "running")
         /\ \A s \in {"done", "failed", "blocked"} : ValidNodeTransition("running", s)
         /\ "running" \notin Resumable
BY DEF Resumable, ValidNodeTransition, NodeMoves

\* A run that writes its node's state leaves the rest of its snapshot alone.
LEMMA SnapshotFresh ==
  ASSUME TypeOK, NEW p \in Proc, TurnOK(p), NEW n \in Node,
         NEW s, UpdateNodeState(n, s) \/ UNCHANGED nodeState,
         todo'[p] \subseteq todo[p] \ {n}
  PROVE  \A m \in todo'[p] : nodeState'[m] \in Resumable
<1>1. \A m \in Node \ {n} : nodeState'[m] = nodeState[m]
  BY UpdateNodeStateEffect
<1>2. todo[p] \subseteq Node
  BY DEF TypeOK, LocalTypeOK
<1> QED BY <1>1, <1>2 DEF TurnOK

\* Running nodes are not in a snapshot.
LEMMA WorkedNotListed ==
  ASSUME NEW p \in Proc, TurnOK(p), pc[p] \in AtWork
  PROVE  cur[p] \notin todo[p]
BY LegalMoves DEF TurnOK

\* After its node a run goes on with the next, of which its snapshot is true.
LEMMA NextNodeTurn ==
  ASSUME TypeOK, NEW p \in Proc, TurnOK(p), pc[p] \in AtWork, cur[p] \in Node,
         NEW s, UpdateNodeState(cur[p], s) \/ UNCHANGED nodeState, NextNode(p), todo' = todo
  PROVE  TurnOK(p)'
<1>1. pc'[p] \in {"list", "begin"}
  BY GotoAt DEF NextNode
<1>2. \A m \in todo'[p] : nodeState'[m] \in Resumable
  BY SnapshotFresh, WorkedNotListed
<1>3. Running(p)'
  BY <1>1 DEF Running, RunPoints
<1> QED BY <1>1, <1>2, <1>3 DEF TurnOK, AtWork

\* A run that only moves on.
LEMMA PlainTurn ==
  ASSUME NEW p \in Proc, TurnOK(p), UNCHANGED <<nodeState, todo, cur>>,
         pc[p] \in AtWork, pc'[p] \in AtWork \ {"exec", "insert", "block"}
  PROVE  TurnOK(p)'
<1>1. AtWork \subseteq RunPoints
  BY DEF AtWork, RunPoints
<1> QED BY <1>1 DEF TurnOK, Running, AtWork

\* A step of a run leaves its turn in order.
LEMMA TurnStep ==
  ASSUME ApartInv, NodesApart, [Next]_vars, NEW p \in Proc, RunStep(p)
  PROVE  TurnOK(p)'
<1> USE DEF ApartInv, IInv
<1>t. LocalTypeOK
  BY DEF TypeOK
<1>o. TurnOK(p) /\ RunOK(p)
  BY DEF RunsOK
<1>n. pc[p] \in AtNode => cur[p] \in Node
  BY AtNodeFacts
<1>r. ASSUME NEW ok \in BOOLEAN, Return(p, ok) PROVE TurnOK(p)'
  BY <1>r, ReturnEnds, AwayTurn
<1>w. AtWork \subseteq RunPoints /\ AtWork \subseteq AtNode
  BY DEF AtWork, RunPoints, AtNode
<1>1. CASE Load(p)
  <2>1. CASE planStatus \in Finished
    BY <1>1, <1>r, <2>1 DEF Load
  <2>2. CASE planStatus \notin Finished
    <3>1. /\ Goto(p, IF planStatus = "running" THEN "list" ELSE "start")
          /\ UNCHANGED <<todo, nodeState>>
      BY <1>1, <2>2 DEF Load, dbVars
    <3>2. pc'[p] \in {"list", "start"}
      BY <3>1, GotoAt
    <3> QED BY <1>o, <3>1, <3>2 DEF TurnOK, Running, RunPoints, AtWork
  <2> QED BY <2>1, <2>2
<1>2. CASE Start(p)
  <2>1. pc[p] = "start" /\ pc'[p] = "list" /\ UNCHANGED <<todo, nodeState>>
    BY <1>2, GotoAt DEF Start
  <2> QED BY <1>o, <2>1 DEF TurnOK, Running, RunPoints, AtWork
<1>3. CASE List(p)
  <2>1. CASE Return(p, FALSE)
    BY <1>r, <2>1
  <2>2. CASE ~Return(p, FALSE)
    <3>1. /\ \E point \in {"settle", "begin"} : Goto(p, point)
          /\ todo' = [todo EXCEPT ![p] = Runnable \ pausedInRun[p]]
          /\ UNCHANGED nodeState /\ pc[p] = "list"
      BY <1>3, <2>2 DEF List, dbVars
    <3>2. pc'[p] \in {"settle", "begin"}
      BY <3>1, GotoAt
    <3>3. \A m \in todo'[p] : nodeState'[m] \in Resumable
      BY <1>t, <3>1 DEF LocalTypeOK, Runnable
    <3> QED BY <1>o, <3>1, <3>2, <3>3 DEF TurnOK, Running, RunPoints, AtWork
  <2> QED BY <2>1, <2>2
<1>4. CASE Begin(p)
  <2>1. CASE Return(p, FALSE)
    BY <1>r, <2>1
  <2>2. CASE ~Return(p, FALSE)
    <3>1. PICK n \in todo[p] :
            /\ UpdateNodeState(n, "running")
            /\ Goto(p, IF Kind[n] = "human_feedback" THEN "request" ELSE "exec")
            /\ todo' = [todo EXCEPT ![p] = todo[p] \ {n}]
            /\ cur' = [cur EXCEPT ![p] = n]
            /\ pc[p] = "begin" /\ UNCHANGED agentRuns
      BY <1>4, <2>2 DEF Begin
    <3>2. n \in Node /\ cur'[p] = n /\ todo'[p] = todo[p] \ {n}
      BY <1>t, <3>1 DEF LocalTypeOK
    <3>3. pc'[p] \in {"request", "exec"}
      BY <3>1, GotoAt
    <3>4. nodeState[n] \in Resumable
      BY <1>o DEF TurnOK
    <3>5. nodeState'[n] = "running" /\ agentRuns'[n] = 0
      BY <3>1, <3>2, <3>4, LegalMoves, UpdateNodeStateEffect DEF WorkOK
    <3>6. \A m \in todo'[p] : nodeState'[m] \in Resumable
      BY <1>o, <3>1, <3>2, SnapshotFresh
    <3> QED BY <1>o, <3>1, <3>2, <3>3, <3>5, <3>6 DEF TurnOK, Running, RunPoints, AtWork
  <2> QED BY <2>1, <2>2
<1>5. CASE Exec(p) \/ AgentReturns(p) \/ Insert(p)
  <2>1. /\ pc[p] \in AtWork /\ UNCHANGED <<nodeState, todo, cur>>
        /\ \E point \in {"agent", "done", "get"} : Goto(p, point)
    BY <1>5 DEF Exec, AgentReturns, Insert, AtWork, dbVars
  <2>2. pc'[p] \in AtWork \ {"exec", "insert", "block"}
    BY <2>1, GotoAt DEF AtWork
  <2> QED BY <1>o, <2>1, <2>2, PlainTurn
<1>6. CASE Request(p)
  <2>1. /\ pc[p] = "request" /\ UNCHANGED <<nodeState, approvals, todo, cur>>
        /\ cur[p] \in Node
    BY <1>6, <1>n DEF Request, AtNode, dbVars
  <2>2. CASE approvals[cur[p]] = <<>>
    <3>1. pc'[p] = "insert"
      BY <1>6, <2>2, GotoAt DEF Request
    <3>2. DOMAIN approvals'[cur[p]] = {}
      BY <2>1, <2>2
    <3> QED BY <1>o, <2>1, <3>1, <3>2 DEF TurnOK, Running, RunPoints, AtWork
  <2>3. CASE approvals[cur[p]] # <<>>
    <3>1. pc'[p] = "get"
      BY <1>6, <2>3, GotoAt DEF Request
    <3> QED BY <1>o, <2>1, <3>1, PlainTurn DEF AtWork
  <2> QED BY <2>2, <2>3
<1>7. CASE Get(p)
  <2>1. /\ pc[p] = "get" /\ UNCHANGED <<nodeState, todo, cur>>
        /\ \E point \in {"block", "done"} : Goto(p, point)
    BY <1>7 DEF Get, dbVars
  <2>2. pc'[p] \in {"block", "done"}
    BY <2>1, GotoAt
  <2>3. Kind[cur[p]] = "human_feedback"
    BY <1>o, <2>1 DEF RunOK
  <2> QED BY <1>o, <2>1, <2>2, <2>3 DEF TurnOK, Running, RunPoints, AtWork
<1>8. CASE Block(p) \/ Done(p)
  <2>1. CASE Return(p, FALSE)
    BY <1>r, <2>1
  <2>2. CASE ~Return(p, FALSE)
    <3>1. /\ pc[p] \in AtWork /\ NextNode(p) /\ UNCHANGED todo
          /\ \E s \in {"blocked", "done"} : UpdateNodeState(cur[p], s)
      BY <1>8, <2>2 DEF Block, Done, AtWork
    <3> QED BY <1>n, <1>o, <1>w, <3>1, NextNodeTurn
  <2> QED BY <2>1, <2>2
<1>9. CASE Fail(p)
  <2>1. /\ pc[p] = "fail" /\ UNCHANGED todo /\ pc[p] \in AtWork /\ cur[p] \in Node
        /\ \/ UpdateNodeState(cur[p], "failed")
           \/ Refused /\ UNCHANGED nodeState
    BY <1>9, <1>n DEF Fail, MarkFailed, AtNode, AtWork
  <2>2. CASE NextNode(p)
    BY <1>o, <2>1, <2>2, NextNodeTurn
  <2>3. CASE ~NextNode(p)
    <3>1. pc'[p] = "failplan" /\ cur' = cur
      BY <1>9, <2>3, GotoAt DEF Fail
    <3>2. nodeState[cur[p]] = "running"
      BY <1>o, <2>1 DEF TurnOK
    <3>3. nodeState'[cur[p]] = "failed" \/ (mishaps' > 0 /\ Deserted(cur[p])')
      <4>1. CASE UpdateNodeState(cur[p], "failed")
        BY <2>1, <3>2, <4>1, LegalMoves, UpdateNodeStateEffect
      <4>2. CASE Refused /\ UNCHANGED nodeState
        <5>1. mishaps' > 0
          BY <4>2, MishapsStep DEF Refused, Mishap
        <5>2. ASSUME NEW q \in Proc, pc'[q] \in AtWork, cur'[q] = cur[p] PROVE FALSE
          <6>1. q # p
            BY <3>1, <5>2 DEF AtWork
          <6>2. SameLocals(q)
            BY <6>1, Locality DEF ProcStep
          <6>3. cur[p] \in InHand(p) /\ cur[p] \in InHand(q)
            BY <2>1, <5>2, <6>2 DEF SameLocals, InHand
          <6> QED BY <6>1, <6>3 DEF NodesApart
        <5>3. nodeState'[cur[p]] = "running"
          BY <3>2, <4>2
        <5> QED BY <3>1, <5>1, <5>2, <5>3 DEF Deserted
      <4> QED BY <2>1, <4>1, <4>2
    <3>4. \A m \in todo'[p] : nodeState'[m] \in Resumable
      BY <1>o, <2>1, SnapshotFresh, WorkedNotListed
    <3> QED BY <1>o, <2>1, <3>1, <3>3, <3>4 DEF TurnOK, Running, RunPoints, AtWork
  <2> QED BY <2>2, <2>3
<1>10. CASE FailPlan(p) \/ Close(p)
  BY <1>10, <1>r DEF FailPlan, Close
<1>11. CASE Settle(p)
  <2>1. CASE Return(p, TRUE)
    BY <1>r, <2>1
  <2>2. CASE ~Return(p, TRUE)
    <3>1. /\ pc[p] = "settle" /\ UNCHANGED <<nodeState, todo, cur>>
          /\ Goto(p, IF AnyFailed THEN "closefailed" ELSE "closedone")
      BY <1>11, <2>2 DEF Settle, dbVars
    <3>2. pc'[p] = IF AnyFailed THEN "closefailed" ELSE "closedone"
      BY <3>1, GotoAt
    <3>3. AnyFailed' <=> AnyFailed
      BY <3>1 DEF AnyFailed
    <3> QED BY <1>o, <3>1, <3>2, <3>3 DEF TurnOK, Running, RunPoints, AtWork
  <2> QED BY <2>1, <2>2
<1> QED BY <1>1, <1>2, <1>3, <1>4, <1>5, <1>6, <1>7, <1>8, <1>9, <1>10, <1>11 DEF RunStep

\* Outside a run no step writes a node or an agent run, or adds an approval row.
LEMMA OutsideWrites ==
  ASSUME TypeOK, LocalsOK, NEW p \in Proc, ProcStep(p), ~RunStep(p)
  PROVE  /\ UNCHANGED <<nodeState, agentRuns>>
         /\ \A n \in Node : DOMAIN approvals'[n] = DOMAIN approvals[n]
<1>1. CASE SweepStep(p)
  BY <1>1 DEF SweepStep, Collect, CountAttempt, CheckBudget, DeadLetter, CheckPlan, Consume, dbVars
<1>2. CASE Resolve(p)
  <2>1. UNCHANGED <<nodeState, agentRuns>>
    BY <1>2 DEF Resolve
  <2>2. CASE approvals' = approvals
    BY <2>1, <2>2
  <2>3. CASE approvals' # approvals
    BY <1>2, <2>1, <2>3, ResolveSets
  <2> QED BY <2>2, <2>3
<1>3. CASE ~SweepStep(p) /\ ~Resolve(p)
  BY <1>3 DEF ProcStep, BuildStart, BuildReport, HandlerError, RunInterrupted, Pick, Wakeup, dbVars
<1> QED BY <1>1, <1>2, <1>3

\* Before and after a run a process stands outside the work.
LEMMA OutsideTurn ==
  ASSUME NEW p \in Proc, todo'[p] = {}, pc'[p] \notin RunPoints \ {"load"}
  PROVE  TurnOK(p)'
BY DEF TurnOK, Running, RunPoints, AtWork

\* Any other step of a process leaves its turn in order too.
LEMMA OtherTurn ==
  ASSUME TypeOK, LocalsOK, NEW p \in Proc, TurnOK(p), ProcStep(p), ~RunStep(p)
  PROVE  TurnOK(p)'
<1>1. CASE HandlerError(p)
  <2>1. /\ pc[p] \in AtWork /\ Goto(p, "fail")
        /\ UNCHANGED <<nodeState, todo, cur>>
    BY <1>1 DEF HandlerError, AtWork, dbVars
  <2>2. pc'[p] = "fail"
    BY <2>1, GotoAt
  <2> QED BY <2>1, <2>2, PlainTurn DEF AtWork
<1>2. CASE RunInterrupted(p)
  <2>1. (pc[p] \in {"closedone", "closefailed"}) \in BOOLEAN
    OBVIOUS
  <2> QED BY <1>2, <2>1, ReturnEnds, AwayTurn DEF RunInterrupted
<1>3. CASE Resolve(p)
  <2>1. CASE Return(p, FALSE)
    BY <2>1, ReturnEnds, AwayTurn
  <2>2. CASE ~Return(p, FALSE)
    <3>1. pc[p] = "resolve" /\ Goto(p, "wakeup") /\ UNCHANGED todo
      BY <1>3, <2>2 DEF Resolve
    <3>2. pc'[p] = "wakeup"
      BY <3>1, GotoAt
    <3>3. ~Running(p)
      BY <3>1 DEF Running, RunPoints
    <3> QED BY <3>1, <3>2, <3>3, OutsideTurn DEF TurnOK, RunPoints
  <2> QED BY <2>1, <2>2
<1>4. CASE BuildStart(p) \/ BuildReport(p) \/ Pick(p) \/ Wakeup(p) \/ SweepStep(p)
  <2>1. /\ UNCHANGED todo
        /\ pc[p] \in {"ready", "built", "unbuilt", "wakeup", "idle", "attempt", "budget", "dead",
                      "check", "consume"}
    BY <1>4 DEF BuildStart, BuildReport, Pick, Wakeup, SweepStep, Collect, CountAttempt,
                CheckBudget, DeadLetter, CheckPlan, Consume
  <2>2. \E point \in {"load", "end", "resolve", "attempt", "budget", "dead", "check", "consume",
                      "idle"} : Goto(p, point)
    BY <1>4 DEF BuildStart, BuildReport, Pick, Wakeup, SweepStep, Collect, CountAttempt,
                CheckBudget, DeadLetter, CheckPlan, Consume
  <2>3. pc'[p] \in {"load", "end", "resolve", "attempt", "budget", "dead", "check", "consume",
                    "idle"}
    BY <2>2, GotoAt
  <2>4. ~Running(p)
    BY <2>1 DEF Running, RunPoints
  <2> QED BY <2>1, <2>3, <2>4, OutsideTurn DEF TurnOK, RunPoints
<1> QED BY <1>1, <1>2, <1>3, <1>4 DEF ProcStep

\* A step of a run writes only what it holds.
LEMMA RunWritesOwn ==
  ASSUME TypeOK, LocalsOK, NEW p \in Proc, RunStep(p), NEW n \in Node \ InHand(p)
  PROVE  /\ nodeState'[n] = nodeState[n] /\ agentRuns'[n] = agentRuns[n]
         /\ DOMAIN approvals'[n] = DOMAIN approvals[n]
<1>t. /\ agentRuns \in [Node -> 0..2] /\ todo[p] \subseteq Node
      /\ approvals \in [Node -> Seq(ApprovalStates)]
  BY DEF TypeOK, LocalTypeOK, SharedTypeOK
<1>n. pc[p] \in AtWork => cur[p] \in Node /\ n # cur[p]
  BY AtNodeFacts DEF InHand, AtWork, AtNode
<1>u. ASSUME NEW m \in Node, m # n, NEW s, UpdateNodeState(m, s)
      PROVE  nodeState'[n] = nodeState[n]
  BY <1>u, UpdateNodeStateEffect
<1>1. CASE Begin(p)
  <2>1. UNCHANGED <<agentRuns, approvals>>
    BY <1>1 DEF Begin
  <2>2. PICK m \in todo[p] :
          UpdateNodeState(m, "running") \/ UpdateNodeState(m, "failed") \/ UNCHANGED nodeState
    BY <1>1 DEF Begin, MarkFailed
  <2>3. m \in Node /\ m # n
    BY <1>t, <2>2 DEF InHand
  <2> QED BY <1>u, <2>1, <2>2, <2>3
<1>2. CASE Exec(p)
  <2>1. pc[p] \in AtWork /\ UNCHANGED <<nodeState, approvals>>
    BY <1>2 DEF Exec, AtWork, dbVars
  <2>2. agentRuns'[n] = agentRuns[n]
    BY <1>2, <1>n, <1>t, <2>1 DEF Exec
  <2> QED BY <2>1, <2>2
<1>3. CASE Insert(p)
  <2>1. pc[p] \in AtWork /\ UNCHANGED <<nodeState, agentRuns>>
    BY <1>3 DEF Insert, AtWork
  <2>2. approvals'[n] = approvals[n]
    BY <1>3, <1>n, <1>t, <2>1 DEF Insert
  <2> QED BY <2>1, <2>2
<1>4. CASE Block(p) \/ Done(p) \/ Fail(p)
  <2>1. pc[p] \in AtWork /\ UNCHANGED <<agentRuns, approvals>>
    BY <1>4 DEF Block, Done, Fail, AtWork
  <2>2. \/ \E s \in {"blocked", "done", "failed"} : UpdateNodeState(cur[p], s)
        \/ UNCHANGED nodeState
    BY <1>4 DEF Block, Done, Fail, MarkFailed
  <2> QED BY <1>n, <1>u, <2>1, <2>2
<1>5. CASE ~(Begin(p) \/ Exec(p) \/ Insert(p) \/ Block(p) \/ Done(p) \/ Fail(p))
  <2>1. UNCHANGED <<nodeState, agentRuns, approvals>>
    BY <1>5 DEF RunStep, Load, Start, List, AgentReturns, Request, Get, FailPlan, Settle, Close,
                dbVars
  <2> QED BY <2>1
<1> QED BY <1>1, <1>2, <1>3, <1>4, <1>5

\* A run whose locals and nodes a step leaves alone.
LEMMA UndisturbedTurn ==
  ASSUME ApartInv, [Next]_vars, NEW q \in Proc, SameLocals(q),
         \A n \in InHand(q) : /\ nodeState'[n] = nodeState[n] /\ agentRuns'[n] = agentRuns[n]
                              /\ DOMAIN approvals'[n] = DOMAIN approvals[n]
  PROVE  TurnOK(q)'
<1> USE DEF ApartInv, IInv
<1>o. TurnOK(q)
  OBVIOUS
<1>1. /\ pc[q] \in AtWork => cur[q] \in InHand(q)
      /\ pc[q] = "failplan" => cur[q] \in Node
  BY AtNodeFacts DEF AtNode, AtWork, InHand
<1>2. todo[q] \subseteq InHand(q)
  BY DEF InHand
<1>3. ~Running(q)' => todo'[q] = {}
  BY <1>o DEF TurnOK, SameLocals, Running
<1>4. \A n \in todo'[q] : nodeState'[n] \in Resumable
  BY <1>o, <1>2 DEF TurnOK, SameLocals
<1>5. pc'[q] \in AtWork => /\ nodeState'[cur'[q]] = "running"
                          /\ (pc'[q] = "exec" => agentRuns'[cur'[q]] = 0)
                          /\ (pc'[q] = "insert" => DOMAIN approvals'[cur'[q]] = {})
  BY <1>o, <1>1 DEF TurnOK, SameLocals
<1>6. pc'[q] = "block" => Kind[cur'[q]] = "human_feedback"
  BY <1>o DEF TurnOK, SameLocals
<1>7. pc'[q] = "failplan" =>
        nodeState'[cur'[q]] = "failed" \/ (mishaps' > 0 /\ Deserted(cur[q])')
  <2>1. SUFFICES ASSUME pc'[q] = "failplan"
                 PROVE  nodeState'[cur'[q]] = "failed" \/ (mishaps' > 0 /\ Deserted(cur[q])')
    OBVIOUS
  <2>2. PICK n \in Node : pc[q] = "failplan" /\ cur[q] = n /\ cur'[q] = n
    BY <1>1, <2>1 DEF SameLocals
  <2>3. nodeState[n] = "failed" \/ (mishaps > 0 /\ Deserted(n))
    BY <1>o, <2>2 DEF TurnOK
  <2>4. nodeState'[n] = "failed" \/ (mishaps' > 0 /\ Deserted(n)')
    BY <2>3, CauseStays
  <2> QED BY <2>2, <2>4 DEF Deserted
<1>8. pc'[q] = "closefailed" => AnyFailed'
  BY <1>o, CauseStays DEF TurnOK, SameLocals
<1>9. AtWork = {"exec", "agent", "request", "insert", "get", "block", "done", "fail"}
  BY DEF AtWork
<1> QED BY <1>3, <1>4, <1>5, <1>6, <1>7, <1>8, <1>9 DEF TurnOK

\* Every step leaves every turn in order.
LEMMA TurnsStep ==
  ASSUME ApartInv, NodesApart, [Next]_vars, NEW q \in Proc
  PROVE  TurnOK(q)'
<1> USE DEF ApartInv, IInv
<1>n. InHand(q) \subseteq Node
  BY DEF InHand, TypeOK, LocalTypeOK
<1>1. ASSUME NEW p \in Proc, RunStep(p) PROVE TurnOK(q)'
  <2>1. CASE q = p
    BY <1>1, <2>1, TurnStep
  <2>2. CASE q # p
    <3>1. SameLocals(q)
      BY <1>1, <2>2, Locality DEF ProcStep
    <3>2. InHand(q) \cap InHand(p) = {}
      BY <2>2 DEF NodesApart
    <3>3. \A n \in InHand(q) : n \in Node \ InHand(p)
      BY <1>n, <3>2
    <3> QED BY <1>1, <3>1, <3>3, RunWritesOwn, UndisturbedTurn
  <2> QED BY <2>1, <2>2
<1>2. ASSUME NEW p \in Proc, ProcStep(p), ~RunStep(p) PROVE TurnOK(q)'
  <2>1. CASE q = p
    BY <1>2, <2>1, OtherTurn
  <2>2. CASE q # p
    <3>1. SameLocals(q)
      BY <1>2, <2>2, Locality
    <3> QED BY <1>2, <1>n, <3>1, OutsideWrites, UndisturbedTurn
  <2> QED BY <2>1, <2>2
<1>3. CASE Archive \/ TimePasses \/ UNCHANGED vars
  <2>1. SameLocals(q) /\ UNCHANGED <<nodeState, agentRuns, approvals>>
    BY <1>3 DEF Archive, TimePasses, vars, dbVars, procVars, SameLocals
  <2> QED BY <2>1, UndisturbedTurn
<1>4. CASE Crash
  <2>1. pc'[q] \in {"idle", "ready", "end"} /\ todo'[q] = {}
    BY <1>4 DEF Crash, AfterCrash
  <2> QED BY <2>1, AwayTurn DEF Running, RunPoints
<1> QED BY <1>1, <1>2, <1>3, <1>4, NextCases
-----------------------------------------------------------------------------
(* The rows. *)

\* Who writes which status.
LEMMA StatusBy ==
  ASSUME [Next]_vars, planStatus' # planStatus
  PROVE  \/ planStatus' = "running"
         \/ planStatus' = "failed" /\ \E p \in Proc : pc[p] \in {"failplan", "closefailed"}
         \/ planStatus' = "done"
         \/ planStatus' = "archived" /\ "archive" \in Events
<1>1. ASSUME NEW p \in Proc, RunStep(p)
      PROVE  \/ planStatus' \in {"running", "done"}
             \/ planStatus' = "failed" /\ pc[p] \in {"failplan", "closefailed"}
  <2>1. CASE Start(p) \/ FailPlan(p)
    BY <2>1 DEF Start, FailPlan, UpdatePlanStatus
  <2>2. CASE Close(p)
    BY <2>2 DEF Close, UpdatePlanStatus
  <2>3. CASE ~(Start(p) \/ FailPlan(p) \/ Close(p))
    BY <1>1, <2>3
    DEF RunStep, Load, List, Begin, Exec, AgentReturns, Request, Insert, Get, Block, Done, Fail,
        Settle, dbVars
  <2> QED BY <2>1, <2>2, <2>3
<1>2. ASSUME NEW p \in Proc, ProcStep(p), ~RunStep(p) PROVE FALSE
  <2>1. CASE SweepStep(p)
    BY <2>1 DEF SweepStep, Collect, CountAttempt, CheckBudget, DeadLetter, CheckPlan, Consume,
                dbVars
  <2>2. CASE ~SweepStep(p)
    BY <1>2, <2>2 DEF ProcStep, BuildStart, BuildReport, HandlerError, RunInterrupted, Pick,
                      Resolve, Wakeup, dbVars
  <2> QED BY <2>1, <2>2
<1>3. CASE Archive
  BY <1>3 DEF Archive, UpdatePlanStatus
<1>4. CASE TimePasses \/ Crash \/ UNCHANGED vars
  BY <1>4 DEF TimePasses, Crash, vars, dbVars
<1> QED BY <1>1, <1>2, <1>3, <1>4, NextCases

\* A node becomes resumable again only as a gate that waits.
LEMMA BecomesResumable ==
  ASSUME ApartInv, [Next]_vars, NEW n \in Node,
         nodeState[n] \notin Resumable, nodeState'[n] \in Resumable
  PROVE  Kind[n] = "human_feedback"
<1> USE DEF ApartInv, IInv
<1>1. PICK p \in Proc : WritesNode(p)
  BY NodeWrites
<1>2. todo[p] \subseteq Node
  BY DEF TypeOK, LocalTypeOK
<1>3. ASSUME NEW m \in Node, NEW s \in {"failed", "running", "done"}, UpdateNodeState(m, s)
      PROVE  FALSE
  BY <1>3, UpdateNodeStateEffect DEF Resumable
<1>4. cur[p] \in Node /\ Block(p) /\ UpdateNodeState(cur[p], "blocked")
  BY <1>1, <1>2, <1>3 DEF WritesNode
<1>5. cur[p] = n
  BY <1>4, UpdateNodeStateEffect
<1> QED BY <1>4, <1>5 DEF Block, TurnOK

\* Every step keeps what one run at a time leaves in the rows.
LEMMA RowsStep ==
  ASSUME ApartInv, [Next]_vars
  PROVE  WorkOK'
<1> USE DEF ApartInv, IInv
<1>t. agentRuns \in [Node -> 0..2]
  BY DEF TypeOK, SharedTypeOK
<1>e. ASSUME NEW p \in Proc, Exec(p)
      PROVE  /\ cur[p] \in Node /\ agentRuns[cur[p]] = 0 /\ UNCHANGED nodeState
             /\ nodeState[cur[p]] = "running" /\ Kind[cur[p]] # "human_feedback"
             /\ agentRuns' = [agentRuns EXCEPT ![cur[p]] = 1]
  <2>1. /\ pc[p] = "exec" /\ UNCHANGED nodeState
        /\ agentRuns' = [agentRuns EXCEPT ![cur[p]] = IF @ = 2 THEN 2 ELSE @ + 1]
    BY <1>e DEF Exec, dbVars
  <2>2. cur[p] \in Node /\ nodeState[cur[p]] = "running" /\ agentRuns[cur[p]] = 0
    BY <2>1, AtNodeFacts DEF TurnOK, AtWork, AtNode
  <2>3. Kind[cur[p]] # "human_feedback"
    BY <2>1 DEF RunsOK, RunOK
  <2> QED BY <1>t, <2>1, <2>2, <2>3
<1>1. ASSUME NEW n \in Node, nodeState'[n] \in Resumable \/ Kind[n] = "human_feedback"
      PROVE  agentRuns'[n] = 0
  <2>1. nodeState[n] \in Resumable \/ Kind[n] = "human_feedback"
    BY <1>1, BecomesResumable
  <2>2. agentRuns[n] = 0
    BY <2>1 DEF WorkOK
  <2>3. CASE agentRuns' = agentRuns
    BY <2>2, <2>3
  <2>4. ASSUME NEW p \in Proc, Exec(p) PROVE agentRuns'[n] = 0
    <3>1. n # cur[p]
      BY <1>1, <1>e, <2>4, LegalMoves
    <3> QED BY <1>e, <1>t, <2>2, <2>4, <3>1
  <2> QED BY <2>3, <2>4, AgentWrites
<1>2. ExecOnce'
  <2>1. CASE agentRuns' = agentRuns
    BY <2>1 DEF WorkOK, ExecOnce
  <2>2. ASSUME NEW p \in Proc, Exec(p) PROVE ExecOnce'
    BY <1>e, <1>t, <2>2 DEF WorkOK, ExecOnce
  <2> QED BY <2>1, <2>2, AgentWrites
<1>3. ASSUME NEW n \in Node PROVE DOMAIN approvals'[n] \subseteq {1}
  <2>1. CASE approvals' = approvals
    BY <2>1 DEF WorkOK
  <2>2. ASSUME NEW p \in Proc, Insert(p), approvals' # approvals
        PROVE  DOMAIN approvals'[n] \subseteq {1}
    <3>1. /\ cur[p] \in Node /\ DOMAIN approvals[cur[p]] = {}
          /\ approvals' = [approvals EXCEPT ![cur[p]] = Append(@, "pending")]
      BY <2>2, InsertAppends DEF Insert, TurnOK
    <3>2. approvals[cur[p]] \in Seq(ApprovalStates) /\ "pending" \in ApprovalStates
      BY <3>1 DEF TypeOK, SharedTypeOK, ApprovalStates
    <3>3. Len(approvals[cur[p]]) = 0
      <4>1. Len(approvals[cur[p]]) \in Nat /\ 1 .. Len(approvals[cur[p]]) = {}
        BY <3>1, <3>2, LenProperties
      <4>2. ~(1 <= Len(approvals[cur[p]]))
        BY <4>1
      <4> QED BY <4>1, <4>2
    <3>4. DOMAIN Append(approvals[cur[p]], "pending") = {1}
      BY <3>2, <3>3, AppendProperties, LenProperties
    <3> QED BY <3>1, <3>4 DEF WorkOK, TypeOK, SharedTypeOK
  <2>3. ASSUME NEW p \in Proc, Resolve(p), approvals' # approvals
        PROVE  DOMAIN approvals'[n] \subseteq {1}
    BY <2>3, ResolveSets DEF WorkOK
  <2> QED BY <2>1, <2>2, <2>3, ApprovalWrites
<1>4. FailedHasCause'
  <2>1. ASSUME AnyFailed \/ (mishaps > 0 /\ \E n \in Node : Deserted(n)) PROVE FailedHasCause'
    <3>1. CASE AnyFailed
      BY <3>1, CauseStays DEF FailedHasCause
    <3>2. ASSUME mishaps > 0, NEW n \in Node, Deserted(n) PROVE FailedHasCause'
      <4>1. mishaps' > 0 /\ Deserted(n)'
        BY <3>2, CauseStays
      <4> QED BY <4>1 DEF FailedHasCause
    <3> QED BY <2>1, <3>1, <3>2
  <2>2. ASSUME NEW p \in Proc, pc[p] \in {"failplan", "closefailed"} PROVE FailedHasCause'
    <3>1. pc[p] = "failplan" => cur[p] \in Node
      BY AtNodeFacts DEF AtNode
    <3>2. \/ AnyFailed
          \/ mishaps > 0 /\ \E n \in Node : Deserted(n)
      BY <2>2, <3>1 DEF TurnOK, AnyFailed
    <3> QED BY <2>1, <3>2
  <2>3. CASE planStatus' = planStatus
    BY <2>1, <2>3 DEF WorkOK, FailedHasCause
  <2>4. CASE planStatus' # planStatus
    <3>1. CASE planStatus' = "failed"
      BY <2>2, <2>4, <3>1, StatusBy
    <3>2. CASE planStatus' # "failed"
      BY <3>2 DEF FailedHasCause
    <3> QED BY <3>1, <3>2
  <2> QED BY <2>3, <2>4
<1> QED BY <1>1, <1>2, <1>3, <1>4 DEF WorkOK
-----------------------------------------------------------------------------
\* The invariant holds throughout.
LEMMA ApartInvariance == Spec /\ []NodesApart => []ApartInv
<1>1. Init => ApartInv
  <2> SUFFICES ASSUME Init PROVE ApartInv
    OBVIOUS
  <2>1. \A p \in Proc : pc[p] \notin RunPoints /\ todo[p] = {}
    BY DEF Init, RunPoints
  <2>2. \A p \in Proc : TurnOK(p)
    BY <2>1 DEF TurnOK, Running, RunPoints, AtWork
  <2>3. WorkOK
    BY DEF Init, WorkOK, ExecOnce, FailedHasCause
  <2> QED BY <2>2, <2>3, InitInv DEF ApartInv
<1>2. ApartInv /\ NodesApart /\ [Next]_vars => ApartInv'
  BY NextInv, TurnsStep, RowsStep DEF ApartInv
<1> QED BY <1>1, <1>2, PTL DEF Spec

\* An agent works twice for a node only if two runs held one and the same node
\* at some time: runs that overlap otherwise, runs cut off, restarts, refused
\* statements and new sweeps are not enough (graph.go Run: a node left running
\* is not taken up again).
THEOREM WorkedOnce == Spec /\ []NodesApart => []ExecOnce
<1>1. ApartInv => ExecOnce
  BY DEF ApartInv, WorkOK
<1> QED BY <1>1, ApartInvariance, PTL

\* A plan that failed has a node that failed, or one deserted because the store
\* refused to hear that it failed; only runs that hold the same node can leave a
\* plan failed without either (graph.go failWithArtifacts, terminal assessment).
THEOREM FailureHasCause == Spec /\ []NodesApart => []FailedHasCause
<1>1. ApartInv => FailedHasCause
  BY DEF ApartInv, WorkOK
<1> QED BY <1>1, ApartInvariance, PTL

\* Whatever verdicts reviewers bring, a gate gets one, and an agent's edges are
\* and stay satisfied, unless two runs hold the same node (graph.go
\* edgeSatisfied; approvals/store.go Request).
THEOREM EdgesRespectedApart == Spec /\ []NodesApart => []EdgesRespected
<1>1. ApartInv => OneVerdict
  BY DEF ApartInv, WorkOK, OneVerdict, HasState
<1> QED BY <1>1, ApartInvariance, EdgesRespectedOneVerdict, PTL
=============================================================================
