---------------------------- MODULE TaskRuntime ----------------------------
(****************************************************************************)
(* Autonomous tasks: the rows of tasks (internal/tasks), the goroutine that *)
(* serves each agent's wakeups (agent/runtime.go), the worker it runs for a *)
(* task (gateway/task_worker.go), the coordinator that wakes a parent for   *)
(* synthesis (gateway/task_coordinator.go), the two recoveries of tasks     *)
(* nobody works on (gateway/recovery.go, tasks/store.go RecoverStale) and   *)
(* the requests of people (gateway/handlers_tasks*.go, handlers_runtime.go).*)
(*                                                                          *)
(* A step is one statement sent to the database.  Every task keeps its      *)
(* agent; a definition marked "Slip" is a plausible mistake in the one that *)
(* follows it, for the mutation runs.                                       *)
(****************************************************************************)
EXTENDS Naturals, Sequences, FiniteSets

CONSTANTS
  Tasks, Agents,
  AssignedTo,      \* the agent of each task
  Parent,          \* its parent task, or "none"
  Requests,        \* requests of people, each for one thing
  MayAsk,          \* what each may be for, a subset of AllKinds
  ManualWakes,     \* pairs <<agent, task>> somebody may wake by hand
  MaxIterations,   \* tasks.max_iterations; 0 is no cap
  MaxRetries,      \* taskMaxRetries
  QueueCap,        \* capacity of wakeupCh
  Events,          \* what else may happen, a subset of EventKinds
  MaxFaults        \* bound on the last five of them, together

EventKinds == {"agent_error", "many_tools",
               "stop", "budget", "crash", "db_error", "stale_recovery"}
AllKinds == {"transition", "wake", "dispatch", "flag", "suspend", "resume"}

ASSUME TasksAssumption ==
  /\ "none" \notin Tasks \cup Agents
  /\ AssignedTo \in [Tasks -> Agents]
  /\ Parent \in [Tasks -> Tasks \cup {"none"}]
  /\ ManualWakes \subseteq Agents \X Tasks /\ IsFiniteSet(Agents)
ASSUME BoundsAssumption ==
  /\ MaxIterations \in Nat /\ MaxRetries \in Nat \ {0}
  /\ QueueCap \in Nat \ {0} /\ MaxFaults \in Nat
ASSUME EventsAssumption == Events \subseteq EventKinds /\ MayAsk \in [Requests -> SUBSET AllKinds]

VARIABLES
  status,     \* tasks.status; "absent" before the row is inserted
  lease,      \* tasks.lease_expires: "none", "held" (ahead) or "expired"
  beating,    \* tasks with a last_heartbeat_at of the last thirty minutes
  flagged,    \* tasks whose cancelled column is set
  iterations, \* tasks.iteration_count
  synthesis,  \* tasks with a synthesis_triggered_at
  wakeups,    \* AgentRuntime.wakeupCh of each agent
  state,      \* AgentRuntime.state
  resume,     \* whether resumeCh holds its one token
  pc,         \* where each agent's goroutine is
  task,       \* the task it is working on
  goal,       \* the status it is moving the task to
  signal,     \* what the iteration's signalCh holds
  retries,    \* failed iterations in a row
  rpc,        \* where each request is
  rabout, rgoal, \* the task or agent it is about, and the status it asks for
  unsent,     \* rows inserted, by a person or an agent, whose wakeup is to be sent
  reclaimed,  \* the watchdog's list: rows taken back, whose wakeup is to be sent
  woken,      \* history: synthesis wakeups sent to each task, counted up to 2
  made,       \* history: iterations made of each task
  faults

rowVars == <<status, lease, beating, flagged, iterations, synthesis>>
runtimeVars == <<wakeups, state, resume>>
workerVars == <<task, goal, signal, retries>>
requestVars == <<rpc, rabout, rgoal, unsent, reclaimed>>
vars == <<rowVars, runtimeVars, pc, workerVars, requestVars, woken, made, faults>>
-----------------------------------------------------------------------------
Statuses == {"backlog", "assigned", "in_progress", "review", "blocked",
             "paused", "done", "cancelled"}
Final == {"done", "cancelled"}
\* What tasks_status_check lets a row hold: no migration added "paused".
Storable == Statuses \ {"paused"}
None == "none"

\* What each status may become.
Moves == [s \in Statuses |->
  CASE s = "backlog"     -> {"assigned", "cancelled"}
    [] s = "assigned"    -> {"in_progress", "backlog", "cancelled"}
    [] s = "in_progress" -> {"review", "done", "blocked", "paused", "cancelled"}
    [] s = "review"      -> {"done", "in_progress", "cancelled"}
    [] s \in {"blocked", "paused"} -> {"in_progress", "cancelled"}
    [] OTHER -> {}]
IsValidTransition(from, to) == from \in Statuses /\ to \in Moves[from]

Children(t) == {c \in Tasks : Parent[c] = t /\ status[c] # "absent"}

\* Where a goroutine may be; at Working a worker drives an iteration.
Points == {"select", "parked", "start", "turn", "claim", "step", "run", "tool",
           "handoff", "move", "write", "siblings", "parent", "cas", "return", "drain"}
Working == {"step", "run", "tool", "handoff"}
Worked(t) == \E a \in Agents : task[a] = t /\ pc[a] \in Working

Init ==
  /\ status = [t \in Tasks |-> "absent"]
  /\ lease = [t \in Tasks |-> "none"]
  /\ beating = {}
  /\ flagged = {}
  /\ iterations = [t \in Tasks |-> 0]
  /\ synthesis = {}
  /\ wakeups = [a \in Agents |-> <<>>]
  /\ state = [a \in Agents |-> "idle"]
  /\ resume = [a \in Agents |-> FALSE]
  /\ pc = [a \in Agents |-> "select"]
  /\ task = [a \in Agents |-> None]
  /\ goal = [a \in Agents |-> None]
  /\ signal = [a \in Agents |-> None]
  /\ retries = [a \in Agents |-> 0]
  /\ rpc = [r \in Requests |-> "ready"]
  /\ rabout = [r \in Requests |-> None]
  /\ rgoal = [r \in Requests |-> None]
  /\ unsent = {} /\ reclaimed = {}
  /\ woken = [t \in Tasks |-> 0] /\ made = [t \in Tasks |-> 0]
  /\ faults = 0

Goto(a, point) == pc' = [pc EXCEPT ![a] = point]
Is(a, point) == pc[a] = point
SetStatus(t, s) == status' = [status EXCEPT ![t] = s]
\* The bounded events: a STOP file, a budget spent, a crash, a sweep of
\* RecoverStale, a statement the database refuses.
Fault(kind) == kind \in Events /\ faults < MaxFaults /\ faults' = faults + 1
DbError == Fault("db_error")
NoError == UNCHANGED faults

\* WakeAgent: a full channel drops the signal.  Slip: it is dropped already
\* when the runtime is busy.
SendUnlessBusy(a, t) ==
  wakeups' = IF Len(wakeups[a]) < QueueCap /\ state[a] # "working"
             THEN [wakeups EXCEPT ![a] = Append(@, t)] ELSE wakeups
Send(a, t) ==
  wakeups' = IF Len(wakeups[a]) < QueueCap
             THEN [wakeups EXCEPT ![a] = Append(@, t)] ELSE wakeups
-----------------------------------------------------------------------------
(* AgentRuntime: receive a wakeup, wait while suspended, run, drain. *)

Receive(a) ==
  /\ Is(a, "select") /\ wakeups[a] # <<>>
  /\ task' = [task EXCEPT ![a] = Head(wakeups[a])]
  /\ wakeups' = [wakeups EXCEPT ![a] = Tail(@)]
  /\ Goto(a, IF state[a] = "suspended" THEN "parked" ELSE "start")
  /\ UNCHANGED <<rowVars, state, resume, goal, signal, retries, requestVars,
                 woken, made, faults>>

Unpark(a) ==
  /\ Is(a, "parked") /\ resume[a]
  /\ resume' = [resume EXCEPT ![a] = FALSE]
  /\ Goto(a, "start")
  /\ UNCHANGED <<rowVars, wakeups, state, workerVars, requestVars, woken, made,
                 faults>>

\* The state is read in Receive and written here, whatever it is by now.
StartRun(a) ==
  /\ Is(a, "start")
  /\ state' = [state EXCEPT ![a] = "working"]
  /\ Goto(a, "turn")
  /\ UNCHANGED <<rowVars, wakeups, resume, workerVars, requestVars, woken, made, faults>>

\* processTask returns, and its locals with it.  Slip: the count of failures
\* belongs to the runtime.
ReturnKeepsRetries(a) ==
  /\ Is(a, "return")
  /\ state' = [state EXCEPT ![a] = "idle"]
  /\ task' = [task EXCEPT ![a] = None]
  /\ goal' = [goal EXCEPT ![a] = None]
  /\ signal' = [signal EXCEPT ![a] = None]
  /\ Goto(a, "drain")
  /\ UNCHANGED <<rowVars, retries, wakeups, resume, requestVars, woken, made, faults>>
Return(a) ==
  /\ Is(a, "return")
  /\ state' = [state EXCEPT ![a] = "idle"]
  /\ task' = [task EXCEPT ![a] = None]
  /\ goal' = [goal EXCEPT ![a] = None]
  /\ signal' = [signal EXCEPT ![a] = None]
  /\ retries' = [retries EXCEPT ![a] = 0]
  /\ Goto(a, "drain")
  /\ UNCHANGED <<rowVars, wakeups, resume, requestVars, woken, made, faults>>

\* Signals that came meanwhile are run without a look at the state.
Drain(a) ==
  /\ Is(a, "drain")
  /\ \/ /\ wakeups[a] = <<>>
        /\ Goto(a, "select")
        /\ UNCHANGED <<wakeups, state, task>>
     \/ /\ wakeups[a] # <<>>
        /\ task' = [task EXCEPT ![a] = Head(wakeups[a])]
        /\ wakeups' = [wakeups EXCEPT ![a] = Tail(@)]
        /\ state' = [state EXCEPT ![a] = "working"]
        /\ Goto(a, "turn")
  /\ UNCHANGED <<rowVars, resume, goal, signal, retries, requestVars, woken, made, faults>>

-----------------------------------------------------------------------------
(* processTask: one turn of its loop. *)

HasParent(t) == Parent[t] # None

\* onTaskComplete starts with the siblings; a task without parent needs none.
Completed(t) == IF HasParent(t) THEN "siblings" ELSE "return"

\* Slip: the cap is exceeded before it stops anything.
AtCapLate(t) == MaxIterations > 0 /\ iterations[t] > MaxIterations
AtCap(t) == MaxIterations > 0 /\ iterations[t] >= MaxIterations

\* Where a worker that must not go on moves the task.
StopGoal(t) ==
  IF t \in flagged THEN "cancelled" ELSE IF AtCap(t) THEN "blocked" ELSE None

MoveTo(a, s) == Goto(a, "move") /\ goal' = [goal EXCEPT ![a] = s]

Turn(a) ==
  /\ Is(a, "turn")
  /\ LET t == task[a]
         open == status[t] \notin {"done", "cancelled", "blocked"}
     IN  \/ Fault("stop") /\ MoveTo(a, "cancelled")
         \/ DbError /\ Goto(a, "return") /\ UNCHANGED goal
         \/ /\ ~open /\ NoError
            /\ Goto(a, IF status[t] = "done" THEN Completed(t) ELSE "return")
            /\ UNCHANGED goal
         \/ open /\ StopGoal(t) # None /\ MoveTo(a, StopGoal(t)) /\ NoError
         \/ open /\ StopGoal(t) = None /\ Fault("budget") /\ MoveTo(a, "blocked")
         \/ open /\ StopGoal(t) = None /\ Goto(a, "claim") /\ UNCHANGED goal /\ NoError
  /\ UNCHANGED <<rowVars, runtimeVars, task, signal, retries, requestVars, woken, made>>

\* The status and the lease, in one statement that looks at neither.  Slip:
\* the lease is left to the heartbeat.
ClaimStatusOnly(a) ==
  /\ Is(a, "claim")
  /\ SetStatus(task[a], "in_progress")
  /\ Goto(a, "step")
  /\ UNCHANGED <<lease, beating, flagged, iterations, synthesis, runtimeVars,
                 workerVars, requestVars, woken, made, faults>>
Claim(a) ==
  /\ Is(a, "claim")
  /\ \/ /\ SetStatus(task[a], "in_progress")
        /\ lease' = [lease EXCEPT ![task[a]] = "held"] /\ NoError
     \/ DbError /\ UNCHANGED <<status, lease>>
  /\ Goto(a, "step")
  /\ UNCHANGED <<beating, flagged, iterations, synthesis, runtimeVars, workerVars,
                 requestVars, woken, made>>

\* IncrementIteration, and a new signal channel: an increment the database
\* refuses is only logged, and the iteration is made all the same.
Step(a) ==
  /\ Is(a, "step")
  /\ made' = [made EXCEPT ![task[a]] = @ + 1]
  /\ \/ iterations' = [iterations EXCEPT ![task[a]] = @ + 1] /\ NoError
     \/ DbError /\ UNCHANGED iterations
  /\ Goto(a, "run")
  /\ UNCHANGED <<status, lease, beating, flagged, synthesis, runtimeVars, workerVars,
                 requestVars, woken>>

\* last_heartbeat_at is kept only where RecoverStale reads it.
Beat(t) ==
  beating' = IF "stale_recovery" \in Events THEN beating \cup {t} ELSE beating

\* The heartbeat of an iteration; the row is not looked at.
Heartbeat(a) ==
  /\ pc[a] \in Working
  /\ lease' = [lease EXCEPT ![task[a]] = "held"]
  /\ Beat(task[a])
  /\ UNCHANGED <<status, flagged, iterations, synthesis, runtimeVars, pc, workerVars,
                 requestVars, woken, made, faults>>
-----------------------------------------------------------------------------
(* The agent's run of one iteration, and what its end leads to. *)

\* An agent that keeps to one lifecycle tool in an iteration, or does not.
MayReport(a) == Is(a, "run") /\ ("many_tools" \in Events \/ signal[a] = None)

\* A signal stays until the iteration ends: the channel has one slot.
Signal(a, s) ==
  signal' = [signal EXCEPT ![a] = IF @ = None THEN s ELSE @]

\* task_done writes whatever the row holds.
TaskDone(a) ==
  /\ MayReport(a)
  /\ SetStatus(task[a], "done")
  /\ Signal(a, "done")
  /\ UNCHANGED <<lease, beating, flagged, iterations, synthesis, runtimeVars, pc, task,
                 goal, retries, requestVars, woken, made, faults>>

\* task_blocked is a Transition, which reads and then writes.
TaskBlocked(a) ==
  /\ MayReport(a)
  /\ IsValidTransition(status[task[a]], "blocked")
  /\ Goto(a, "tool")
  /\ UNCHANGED <<rowVars, runtimeVars, workerVars, requestVars, woken, made, faults>>

ToolWrite(a) ==
  /\ Is(a, "tool")
  /\ SetStatus(task[a], "blocked")
  /\ Signal(a, "blocked")
  /\ Goto(a, "run")
  /\ UNCHANGED <<lease, beating, flagged, iterations, synthesis, runtimeVars, task, goal,
                 retries, requestVars, woken, made, faults>>

TaskContinue(a) ==
  /\ MayReport(a)
  /\ Beat(task[a])
  /\ Signal(a, "continue")
  /\ UNCHANGED <<status, lease, flagged, iterations, synthesis, runtimeVars, pc, task,
                 goal, retries, requestVars, woken, made, faults>>

\* A row is inserted and its wakeup sent after the answer; where that is lost,
\* the row is there and nobody is woken.
Insert(t) ==
  /\ status[t] = "absent" /\ SetStatus(t, "assigned")
  /\ \/ unsent' = unsent \cup {t} /\ NoError
     \/ DbError /\ UNCHANGED unsent
Announce(t) == t \in unsent /\ unsent' = unsent \ {t} /\ Send(AssignedTo[t], t)

\* delegate_task, in the agent's goroutine.
Delegate(a, c) ==
  /\ Is(a, "run") /\ Parent[c] = task[a]
  /\ Insert(c)
  /\ IF c \in unsent' THEN Goto(a, "handoff") ELSE UNCHANGED pc
  /\ UNCHANGED <<lease, beating, flagged, iterations, synthesis, runtimeVars, workerVars,
                 rpc, rabout, rgoal, reclaimed, woken, made>>
HandOff(a) ==
  /\ Is(a, "handoff")
  /\ \E c \in Tasks : Parent[c] = task[a] /\ Announce(c)
  /\ Goto(a, "run")
  /\ UNCHANGED <<rowVars, state, resume, workerVars, rpc, rabout, rgoal, reclaimed, woken,
                 made, faults>>

RunEnds(a) ==
  /\ Is(a, "run")
  /\ signal' = [signal EXCEPT ![a] = None]
  /\ retries' = [retries EXCEPT ![a] = 0]
  /\ Goto(a, CASE signal[a] = "done"    -> Completed(task[a])
               [] signal[a] = "blocked" -> "return"
               [] OTHER                 -> "turn")
  /\ UNCHANGED <<rowVars, runtimeVars, task, goal, requestVars, woken, made, faults>>

RunFails(a) ==
  /\ "agent_error" \in Events
  /\ Is(a, "run")
  /\ signal' = [signal EXCEPT ![a] = None]
  /\ retries' = [retries EXCEPT ![a] = @ + 1]
  /\ IF retries[a] + 1 >= MaxRetries
     THEN MoveTo(a, "blocked")
     ELSE Goto(a, "turn") /\ UNCHANGED goal
  /\ UNCHANGED <<rowVars, runtimeVars, task, requestVars, woken, made, faults>>

\* The Transition of a worker that stops; its error is dropped.
Move(a) ==
  /\ Is(a, "move")
  /\ \/ IsValidTransition(status[task[a]], goal[a]) /\ Goto(a, "write") /\ NoError
     \/ ~IsValidTransition(status[task[a]], goal[a]) /\ Goto(a, "return") /\ NoError
     \/ DbError /\ Goto(a, "return")
  /\ UNCHANGED <<rowVars, runtimeVars, workerVars, requestVars, woken, made>>

Write(a) ==
  /\ Is(a, "write")
  /\ \/ SetStatus(task[a], goal[a]) /\ NoError
     \/ DbError /\ UNCHANGED status
  /\ Goto(a, "return")
  /\ UNCHANGED <<lease, beating, flagged, iterations, synthesis, runtimeVars, workerVars,
                 requestVars, woken, made>>
-----------------------------------------------------------------------------
(* onTaskComplete: the last subtask to end wakes the parent's agent. *)

AllFinal(p) == \A c \in Children(p) : status[c] \in Final

Siblings(a) ==
  /\ Is(a, "siblings")
  /\ \/ AllFinal(Parent[task[a]]) /\ Goto(a, "parent") /\ NoError
     \/ ~AllFinal(Parent[task[a]]) /\ Goto(a, "return") /\ NoError
     \/ DbError /\ Goto(a, "return")
  /\ UNCHANGED <<rowVars, runtimeVars, workerVars, requestVars, woken, made>>

\* Slip: a parent that is done needs no synthesis.
ReadParentOpen(a) ==
  /\ Is(a, "parent")
  /\ LET p == Parent[task[a]]
     IN  Goto(a, IF p \in synthesis \/ status[p] = "done" THEN "return" ELSE "cas")
  /\ UNCHANGED <<rowVars, runtimeVars, workerVars, requestVars, woken, made, faults>>
ReadParent(a) ==
  /\ Is(a, "parent")
  /\ \/ Goto(a, IF Parent[task[a]] \in synthesis THEN "return" ELSE "cas") /\ NoError
     \/ DbError /\ Goto(a, "return")
  /\ UNCHANGED <<rowVars, runtimeVars, workerVars, requestVars, woken, made>>

\* The wakeup needs the subtasks' rows once more; an error there drops it.
WakeParent(p) ==
  \/ /\ Send(AssignedTo[p], p)
     /\ woken' = [woken EXCEPT ![p] = IF @ < 2 THEN @ + 1 ELSE @]
     /\ NoError
  \/ DbError /\ UNCHANGED <<wakeups, woken>>

\* Slip: the update does not ask for a NULL.
CasAlways(a) ==
  /\ Is(a, "cas")
  /\ LET p == Parent[task[a]] IN synthesis' = synthesis \cup {p} /\ WakeParent(p)
  /\ Goto(a, "return")
  /\ UNCHANGED <<status, lease, beating, flagged, iterations, state, resume, workerVars,
                 requestVars, made>>
Cas(a) ==
  /\ Is(a, "cas")
  /\ LET p == Parent[task[a]]
     IN  \/ p \in synthesis /\ UNCHANGED <<synthesis, wakeups, woken>> /\ NoError
         \/ p \notin synthesis /\ synthesis' = synthesis \cup {p} /\ WakeParent(p)
         \/ DbError /\ UNCHANGED <<synthesis, wakeups, woken>>
  /\ Goto(a, "return")
  /\ UNCHANGED <<status, lease, beating, flagged, iterations, state, resume, workerVars,
                 requestVars, made>>
-----------------------------------------------------------------------------
(* Time and the two recoveries. *)

\* A lease runs out when nobody beats for it, or the beats are refused.
Expire(t) ==
  /\ lease[t] = "held"
  /\ \/ (\A a \in Agents : task[a] # t \/ pc[a] \in {"parked", "start"}) /\ NoError
     \/ DbError
  /\ lease' = [lease EXCEPT ![t] = "expired"]
  /\ UNCHANGED <<status, beating, flagged, iterations, synthesis, runtimeVars, pc,
                 workerVars, requestVars, woken, made>>

\* Thirty minutes without a beat: the watchdog takes a task in progress first.
Age(t) ==
  /\ t \in beating /\ status[t] # "in_progress"
  /\ beating' = beating \ {t}
  /\ UNCHANGED <<status, lease, flagged, iterations, synthesis, runtimeVars, pc,
                 workerVars, requestVars, woken, made, faults>>

\* recoverInflightTasks, on boot and every minute: one UPDATE takes every task
\* back whose lease is dead, and a loop over the rows it returns wakes their
\* agents.  Where the answer is lost the rows are taken back all the same.
\* Slip: only a lease that was never claimed counts as dead.
DueNullOnly(t) == status[t] = "in_progress" /\ lease[t] = None
Due(t) == status[t] = "in_progress" /\ lease[t] \in {None, "expired"}
Watchdog ==
  /\ reclaimed = {} /\ \E t \in Tasks : Due(t)
  /\ status' = [t \in Tasks |-> IF Due(t) THEN "assigned" ELSE status[t]]
  /\ \/ reclaimed' = {t \in Tasks : Due(t)} /\ NoError
     \/ DbError /\ UNCHANGED reclaimed
  /\ UNCHANGED <<lease, beating, flagged, iterations, synthesis, runtimeVars, pc, workerVars,
                 rpc, rabout, rgoal, unsent, woken, made>>
Rewake(t) ==
  /\ t \in reclaimed /\ reclaimed' = reclaimed \ {t}
  /\ Send(AssignedTo[t], t)
  /\ UNCHANGED <<rowVars, state, resume, pc, workerVars, rpc, rabout, rgoal, unsent, woken,
                 made, faults>>

\* RecoverStale, every five minutes, wakes nobody.
RecoverStale(t) ==
  /\ Fault("stale_recovery")
  /\ status[t] = "in_progress" /\ t \notin beating
  /\ SetStatus(t, "assigned")
  /\ UNCHANGED <<lease, beating, flagged, iterations, synthesis, runtimeVars, pc,
                 workerVars, requestVars, woken, made>>
-----------------------------------------------------------------------------
(* People. *)

\* A task made by hand; a subtask is made by Delegate.
Create(t) ==
  /\ ~HasParent(t) /\ Insert(t)
  /\ UNCHANGED <<lease, beating, flagged, iterations, synthesis, runtimeVars, pc, workerVars,
                 rpc, rabout, rgoal, reclaimed, woken, made>>
Created(t) ==
  /\ ~HasParent(t) /\ Announce(t)
  /\ UNCHANGED <<rowVars, state, resume, pc, workerVars, rpc, rabout, rgoal, reclaimed, woken,
                 made, faults>>

\* A request that is granted at once, and one that has a second half.
Ask(r, kind, next) ==
  /\ rpc[r] = "ready" /\ kind \in MayAsk[r]
  /\ rpc' = [rpc EXCEPT ![r] = next]
AskOnce(r, kind) == Ask(r, kind, "ended") /\ UNCHANGED <<rabout, rgoal>>
About(r, x, s) ==
  rabout' = [rabout EXCEPT ![r] = x] /\ rgoal' = [rgoal EXCEPT ![r] = s]
Ends(r, half) ==
  /\ rpc[r] = half
  /\ rpc' = [rpc EXCEPT ![r] = "ended"]
  /\ About(r, None, None)
SetState(a, s) == state' = [state EXCEPT ![a] = s]
SetToken(a, b) == resume' = [resume EXCEPT ![a] = b]
RowsOnly == UNCHANGED <<runtimeVars, pc, workerVars, unsent, reclaimed, woken, made, faults>>
WakeOnly ==
  UNCHANGED <<rowVars, state, resume, pc, workerVars, unsent, reclaimed, woken, made, faults>>
RuntimeOnly ==
  UNCHANGED <<rowVars, wakeups, pc, workerVars, unsent, reclaimed, woken, made, faults>>

\* Pause, resume, cancel and PATCH status are each one Transition; the table
\* refuses a status it does not know.
RequestRead(r, t, s) ==
  /\ IsValidTransition(status[t], s)
  /\ Ask(r, "transition", "write") /\ About(r, t, s)
  /\ UNCHANGED rowVars /\ RowsOnly
RequestWrite(r) ==
  /\ IF rgoal[r] \in Storable THEN SetStatus(rabout[r], rgoal[r]) ELSE UNCHANGED status
  /\ Ends(r, "write")
  /\ UNCHANGED <<lease, beating, flagged, iterations, synthesis>> /\ RowsOnly

ManualWake(r, a, t) ==
  /\ <<a, t>> \in ManualWakes /\ status[t] # "absent"
  /\ AskOnce(r, "wake") /\ Send(a, t) /\ WakeOnly

\* buildDispatch wakes the agents of the tasks nobody started.
Dispatch(r, t) ==
  /\ status[t] \in {"backlog", "assigned"}
  /\ AskOnce(r, "dispatch") /\ Send(AssignedTo[t], t) /\ WakeOnly

\* The kill switch is set directly on the row.
Flag(r, t) ==
  /\ status[t] # "absent"
  /\ AskOnce(r, "flag")
  /\ flagged' = flagged \cup {t}
  /\ UNCHANGED <<status, lease, beating, iterations, synthesis>> /\ RowsOnly

\* Suspend takes a stale token away before it sets the state.
Suspend(r, a) ==
  /\ Ask(r, "suspend", "suspend") /\ About(r, a, None)
  /\ SetToken(a, FALSE) /\ UNCHANGED state /\ RuntimeOnly
Suspended(r) ==
  /\ Ends(r, "suspend")
  /\ SetState(rabout[r], "suspended") /\ UNCHANGED resume /\ RuntimeOnly

\* Resume reads the state, sets it, and then leaves the token.  Slip: the state
\* is asked for once more.
Resume(r, a) ==
  /\ state[a] = "suspended"
  /\ Ask(r, "resume", "resuming") /\ About(r, a, None)
  /\ UNCHANGED <<state, resume>> /\ RuntimeOnly
ResumeIdle(r) ==
  /\ rpc[r] = "resuming"
  /\ rpc' = [rpc EXCEPT ![r] = "resume"]
  /\ SetState(rabout[r], "idle")
  /\ UNCHANGED <<rabout, rgoal, resume>> /\ RuntimeOnly
ResumedIfSuspended(r) ==
  /\ Ends(r, "resume")
  /\ SetToken(rabout[r], resume[rabout[r]] \/ state[rabout[r]] = "suspended")
  /\ UNCHANGED state /\ RuntimeOnly
Resumed(r) ==
  /\ Ends(r, "resume")
  /\ SetToken(rabout[r], TRUE) /\ UNCHANGED state /\ RuntimeOnly

\* The rows stay; queues, goroutines and requests are gone.
Crash ==
  /\ Fault("crash")
  /\ wakeups' = [a \in Agents |-> <<>>]
  /\ state' = [a \in Agents |-> "idle"]
  /\ resume' = [a \in Agents |-> FALSE]
  /\ pc' = [a \in Agents |-> "select"]
  /\ task' = [a \in Agents |-> None]
  /\ goal' = [a \in Agents |-> None]
  /\ signal' = [a \in Agents |-> None]
  /\ retries' = [a \in Agents |-> 0]
  /\ rpc' = [r \in Requests |-> IF rpc[r] = "ready" THEN "ready" ELSE "ended"]
  /\ rabout' = [r \in Requests |-> None]
  /\ rgoal' = [r \in Requests |-> None]
  /\ unsent' = {} /\ reclaimed' = {}
  /\ UNCHANGED <<rowVars, woken, made>>
-----------------------------------------------------------------------------
\* What the goroutine of an agent does by itself, and what the agent may do.
Serve(a) ==
  \/ Receive(a) \/ Unpark(a) \/ StartRun(a) \/ Return(a) \/ Drain(a)
  \/ Turn(a) \/ Claim(a) \/ Step(a) \/ ToolWrite(a) \/ HandOff(a) \/ RunEnds(a)
  \/ Move(a) \/ Write(a) \/ Siblings(a) \/ ReadParent(a) \/ Cas(a)
Act(a) ==
  \/ TaskDone(a) \/ TaskBlocked(a) \/ TaskContinue(a) \/ RunFails(a) \/ Heartbeat(a)
  \/ \E c \in Tasks : Delegate(a, c)
Operate(r) ==
  \/ RequestWrite(r) \/ Suspended(r) \/ ResumeIdle(r) \/ Resumed(r)
  \/ \E t \in Tasks : \E s \in Statuses : RequestRead(r, t, s)
  \/ \E a \in Agents, t \in Tasks : ManualWake(r, a, t)
  \/ \E t \in Tasks : Dispatch(r, t) \/ Flag(r, t)
  \/ \E a \in Agents : Suspend(r, a) \/ Resume(r, a)
Recover(t) == Rewake(t) \/ RecoverStale(t) \/ Expire(t) \/ Age(t)

Next ==
  \/ \E a \in Agents : Serve(a) \/ Act(a)
  \/ \E t \in Tasks : Recover(t)
  \/ Watchdog
  \/ \E t \in Tasks : Create(t) \/ Created(t)
  \/ \E r \in Requests : Operate(r)
  \/ Crash

Spec == Init /\ [][Next]_vars

\* Goroutines run, iterations end (their context times out), time passes and
\* the watchdog ticks.  Nothing is owed by an agent or by people.
Fairness ==
  /\ \A a \in Agents : WF_vars(Serve(a))
  /\ \A t \in Tasks : WF_vars(Expire(t)) /\ WF_vars(Rewake(t))
  /\ WF_vars(Watchdog)
FairSpec == Spec /\ Fairness
=============================================================================
