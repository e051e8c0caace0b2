-------------------------- MODULE TaskRuntimeProps --------------------------
(***************************************************************************)
(* What the task worker, its coordinator and its recoveries promise.       *)
(***************************************************************************)
EXTENDS TaskRuntime

\* Rows, queues, goroutines and requests hold what the code can store in them.
RowTypes ==
  /\ status \in [Tasks -> Storable \cup {"absent"}]
  /\ lease \in [Tasks -> {None, "held", "expired"}]
  /\ flagged \subseteq Tasks /\ beating \subseteq Tasks /\ synthesis \subseteq Tasks
  /\ iterations \in [Tasks -> Nat] /\ made \in [Tasks -> Nat]
  /\ woken \in [Tasks -> 0 .. 2] /\ faults \in 0 .. MaxFaults
QueueTypes == wakeups \in [Agents -> Seq(Tasks)]
RuntimeTypes ==
  /\ state \in [Agents -> {"idle", "working", "suspended"}] /\ resume \in [Agents -> BOOLEAN]
  /\ pc \in [Agents -> Points]
WorkerTypes ==
  /\ task \in [Agents -> Tasks \cup {None}] /\ goal \in [Agents -> {None, "blocked", "cancelled"}]
  /\ signal \in [Agents -> {None, "done", "blocked", "continue"}]
  /\ retries \in [Agents -> 0 .. MaxRetries]
RequestTypes ==
  /\ rpc \in [Requests -> {"ready", "write", "suspend", "resuming", "resume", "ended"}]
  /\ rabout \in [Requests -> Tasks \cup Agents \cup {None}]
  /\ rgoal \in [Requests -> Statuses \cup {None}]
  /\ unsent \subseteq Tasks /\ reclaimed \subseteq Tasks
TypeOK == RowTypes /\ QueueTypes /\ RuntimeTypes /\ WorkerTypes /\ RequestTypes

\* However many subtasks end at once, their parent is woken for synthesis at
\* most once (the update that asks for a NULL synthesis_triggered_at).
SynthesisOnce == \A t \in Tasks : woken[t] <= 1

\* The agents a wakeup for a task can reach.
Workers(t) == {AssignedTo[t]} \cup {a \in Agents : <<a, t>> \in ManualWakes}

\* Restarts, retries and reclaims included, a task that has a cap is iterated no
\* more often than the cap allows; agents past the check at once add one each,
\* and each increment the database refuses may.
IterationsBounded ==
  MaxIterations > 0 =>
    \A t \in Tasks : made[t] <= MaxIterations + Cardinality(Workers(t)) - 1 + faults

\* A runtime that waits for its resume token is suspended, or has the token,
\* or a call that is halfway will see to it: no interleaving of Suspend and
\* Resume leaves the goroutine waiting for a token nobody owes.
ParkedCanWake ==
  \A a \in Agents : pc[a] = "parked" =>
    \/ state[a] = "suspended" \/ resume[a]
    \/ \E r \in Requests : rpc[r] \in {"suspend", "resuming", "resume"} /\ rabout[r] = a

\* What loses wakeups, or a subtask's part in its parent's synthesis.
Interfered == faults > 0 \/ \E r \in Requests : rpc[r] # "ready"

\* Unless something interfered, a task that waits for its agent, and may still
\* be iterated, has a wakeup to be sent, in the queue or in the hands of that
\* agent: none is lost on the way.
AssignedIsTended ==
  Interfered \/ \A t \in Tasks : status[t] = "assigned" /\ ~AtCap(t) =>
    \/ t \in unsent
    \/ \E i \in DOMAIN wakeups[AssignedTo[t]] : wakeups[AssignedTo[t]][i] = t
    \/ task[AssignedTo[t]] = t /\ pc[AssignedTo[t]] # "return"

\* The watchdog, which goes by the lease, never takes a task from a worker that
\* iterates it: the lease is claimed with the status.  (Where that statement
\* may be refused, it can.)
LiveWorkKept ==
  [][\A t \in Tasks :
       status[t] = "in_progress" /\ status'[t] = "assigned" /\ lease[t] # "held"
       => ~Worked(t)]_vars

\* A task never stays in progress for ever: its worker ends it, or it dies and
\* the watchdog takes it back.
NeverStuckInProgress ==
  \A t \in Tasks : status[t] = "in_progress" ~> status[t] # "in_progress"

\* Once all subtasks of a task are done its synthesis is triggered, whichever
\* order they end in and whatever interleaving their agents' checks take.
AwaitsSynthesis(t) ==
  Children(t) # {} /\ AllFinal(t) /\ t \notin synthesis /\ ~Interfered
SynthesisHappens == \A t \in Tasks : AwaitsSynthesis(t) ~> ~AwaitsSynthesis(t)

\* The coordinator triggers the parent's synthesis once all its subtasks are
\* terminal (its own comment), whatever becomes of the run that ended the last.
TriggeredOnceTerminal ==
  \A t \in Tasks : Children(t) # {} /\ AllFinal(t) ~> t \in synthesis \/ ~AllFinal(t)
=============================================================================
