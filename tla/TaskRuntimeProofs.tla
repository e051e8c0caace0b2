-------------------------- MODULE TaskRuntimeProofs --------------------------
(****************************************************************************)
(* The safety of the task worker, proved for every set of tasks, agents and *)
(* requests, every cap and every number of faults.                          *)
(*                                                                          *)
(* Each claim has its own strengthening: ControlOK says what a goroutine    *)
(* and a request hold at each point; ReachOK that a task comes only to the  *)
(* agents a wakeup can reach; IterationsOK counts the agents that have      *)
(* passed the check and not yet iterated; MadeOK the iterations that were   *)
(* not counted; WokenOK that a parent woken has its mark; LeaseOK that an   *)
(* iterated task has its lease; QuietOK what holds until somebody           *)
(* interferes.                                                              *)
(****************************************************************************)
EXTENDS TaskRuntimeProps, TLAPS, FiniteSetTheorems

\* What goroutines and requests hold at each point.
HoldsTask ==
  \A a \in Agents :
    /\ pc[a] \notin {"select", "drain"} => task[a] \in Tasks
    /\ pc[a] \in {"siblings", "parent", "cas"} => Parent[task[a]] \in Tasks
HoldsGoal == \A a \in Agents : pc[a] \in {"move", "write"} => goal[a] \in {"blocked", "cancelled"}
HoldsCount == \A a \in Agents : pc[a] \notin {"move", "write", "return"} => retries[a] < MaxRetries
HoldsAsked ==
  \A r \in Requests :
    /\ rpc[r] \in {"suspend", "resuming", "resume"} => rabout[r] \in Agents
    /\ rpc[r] = "write" => rabout[r] \in Tasks /\ rgoal[r] \in Statuses
ControlOK == HoldsTask /\ HoldsGoal /\ HoldsCount /\ HoldsAsked
CoreOK == TypeOK /\ ControlOK

\* The tasks a wakeup may bring an agent.
Reached(a) == {t \in Tasks : a \in Workers(t)}
ReachOK ==
  \A a \in Agents : wakeups[a] \in Seq(Reached(a)) /\ task[a] \in Reached(a) \cup {None}

\* The agents past the check of the cap that have not yet counted.
Owing(t) == {a \in Agents : task[a] = t /\ pc[a] \in {"claim", "step"}}
\* The iterations made are those counted, and those whose increment was refused.
MadeOK == \A t \in Tasks : made[t] <= iterations[t] + faults
IterationsOK ==
  \A t \in Tasks :
    iterations[t] + Cardinality(Owing(t)) <= MaxIterations + Cardinality(Workers(t)) - 1

WokenOK == \A t \in Tasks : woken[t] = 0 \/ (t \in synthesis /\ woken[t] = 1)

LeaseOK == \A a \in Agents : pc[a] \in Working => lease[task[a]] = "held"

USE TasksAssumption, BoundsAssumption, EventsAssumption
    DEF Goto, Is, SetStatus, Fault, DbError, NoError, None, rowVars, runtimeVars, workerVars,
        requestVars
-----------------------------------------------------------------------------
\* Queues: what a signal sent, and one taken, leave.
LEMMA Sent ==
  ASSUME QueueTypes, ReachOK, NEW a \in Agents, NEW t \in Reached(a), Send(a, t)
  PROVE  QueueTypes' /\ \A b \in Agents : wakeups'[b] \in Seq(Reached(b))
<1>1. Append(wakeups[a], t) \in Seq(Reached(a)) /\ Append(wakeups[a], t) \in Seq(Tasks)
  BY DEF ReachOK, QueueTypes, Reached
<1>2. CASE wakeups' = [wakeups EXCEPT ![a] = Append(@, t)]
  BY <1>1, <1>2 DEF QueueTypes, ReachOK
<1>3. CASE wakeups' = wakeups
  BY <1>3 DEF QueueTypes, ReachOK
<1> QED
  BY <1>2, <1>3 DEF Send
LEMMA Taken ==
  ASSUME QueueTypes, ReachOK, NEW a \in Agents, wakeups[a] # <<>>,
         wakeups' = [wakeups EXCEPT ![a] = Tail(@)]
  PROVE  /\ QueueTypes' /\ \A b \in Agents : wakeups'[b] \in Seq(Reached(b))
         /\ Head(wakeups[a]) \in Reached(a)
<1>1. wakeups[a] \in Seq(Reached(a)) /\ wakeups[a] \in Seq(Tasks)
  BY DEF QueueTypes, ReachOK
<1>2. Tail(wakeups[a]) \in Seq(Reached(a)) /\ Head(wakeups[a]) \in Reached(a)
  BY <1>1
<1>3. Tail(wakeups[a]) \in Seq(Tasks)
  BY <1>1
<1> QED
  BY <1>2, <1>3 DEF QueueTypes, ReachOK

\* The agent of a task can be reached for it.
LEMMA OwnAgent == \A t \in Tasks : AssignedTo[t] \in Agents /\ t \in Reached(AssignedTo[t])
  BY DEF Reached, Workers

\* Every write puts into a row what its columns can hold.
LEMMA RowTypesKept == CoreOK /\ [Next]_vars => RowTypes'
<1> SUFFICES ASSUME CoreOK, [Next]_vars PROVE RowTypes'
  OBVIOUS
<1> USE DEF CoreOK, TypeOK, ControlOK, RowTypes, RuntimeTypes, HoldsTask, HoldsGoal,
             HoldsAsked, Storable, Statuses
<1>1. ASSUME NEW a \in Agents, Receive(a) PROVE RowTypes'
  BY <1>1 DEF Receive
<1>2. ASSUME NEW a \in Agents, Unpark(a) PROVE RowTypes'
  BY <1>2 DEF Unpark
<1>3. ASSUME NEW a \in Agents, StartRun(a) PROVE RowTypes'
  BY <1>3 DEF StartRun
<1>4. ASSUME NEW a \in Agents, Return(a) PROVE RowTypes'
  BY <1>4 DEF Return
<1>5. ASSUME NEW a \in Agents, Drain(a) PROVE RowTypes'
  BY <1>5 DEF Drain
<1>6. ASSUME NEW a \in Agents, Turn(a) PROVE RowTypes'
  BY <1>6 DEF Turn, MoveTo, StopGoal, AtCap, Completed, HasParent
<1>7. ASSUME NEW a \in Agents, Claim(a) PROVE RowTypes'
  BY <1>7 DEF Claim
<1>8. ASSUME NEW a \in Agents, Step(a) PROVE RowTypes'
  BY <1>8 DEF Step
<1>9. ASSUME NEW a \in Agents, ToolWrite(a) PROVE RowTypes'
  BY <1>9 DEF ToolWrite, Signal
<1>10. ASSUME NEW a \in Agents, RunEnds(a) PROVE RowTypes'
  BY <1>10 DEF RunEnds, Completed, HasParent
<1>11. ASSUME NEW a \in Agents, Move(a) PROVE RowTypes'
  BY <1>11 DEF Move
<1>12. ASSUME NEW a \in Agents, Write(a) PROVE RowTypes'
  BY <1>12 DEF Write
<1>13. ASSUME NEW a \in Agents, Siblings(a) PROVE RowTypes'
  BY <1>13 DEF Siblings
<1>14. ASSUME NEW a \in Agents, ReadParent(a) PROVE RowTypes'
  BY <1>14 DEF ReadParent
<1>15. ASSUME NEW a \in Agents, Cas(a) PROVE RowTypes'
  <2>1. Parent[task[a]] \in Tasks
    BY <1>15 DEF Cas
  <2>0. synthesis' = synthesis \/ synthesis' = synthesis \cup {Parent[task[a]]}
    BY <1>15 DEF Cas
  <2>4. /\ UNCHANGED <<status, lease, beating, flagged, iterations, made>>
        /\ faults' \in 0 .. MaxFaults
    BY <1>15 DEF Cas, WakeParent
  <2>2. CASE woken' = woken
    BY <2>0, <2>1, <2>2, <2>4
  <2>3. CASE /\ Parent[task[a]] \notin synthesis /\ synthesis' = synthesis \cup {Parent[task[a]]}
             /\ WakeParent(Parent[task[a]])
    <3>1. CASE woken[Parent[task[a]]] < 2
      BY <2>0, <2>1, <2>3, <2>4, <3>1 DEF WakeParent
    <3>2. CASE ~(woken[Parent[task[a]]] < 2)
      BY <2>0, <2>1, <2>3, <2>4, <3>2 DEF WakeParent
    <3> QED
      BY <3>1, <3>2
  <2> QED
    BY <1>15, <2>2, <2>3 DEF Cas
<1>16. ASSUME NEW a \in Agents, TaskDone(a) PROVE RowTypes'
  BY <1>16 DEF TaskDone, MayReport, Signal
<1>17. ASSUME NEW a \in Agents, TaskBlocked(a) PROVE RowTypes'
  BY <1>17 DEF TaskBlocked, MayReport
<1>18. ASSUME NEW a \in Agents, TaskContinue(a) PROVE RowTypes'
  BY <1>18 DEF TaskContinue, Beat, MayReport, Signal
<1>19. ASSUME NEW a \in Agents, RunFails(a) PROVE RowTypes'
  BY <1>19 DEF RunFails, MoveTo
<1>20. ASSUME NEW a \in Agents, Heartbeat(a) PROVE RowTypes'
  <2>1. task[a] \in Tasks
    BY <1>20 DEF Heartbeat, Working
  <2>2. beating' \subseteq Tasks
    BY <1>20, <2>1 DEF Heartbeat, Beat
  <2> QED
    BY <1>20, <2>1, <2>2 DEF Heartbeat
<1>21. ASSUME NEW a \in Agents, NEW c \in Tasks, Delegate(a, c) PROVE RowTypes'
  BY <1>21 DEF Delegate, Insert
<1>22. ASSUME Watchdog PROVE RowTypes'
  BY <1>22 DEF Watchdog, Due
<1>23. ASSUME NEW t \in Tasks, RecoverStale(t) PROVE RowTypes'
  BY <1>23 DEF RecoverStale
<1>24. ASSUME NEW t \in Tasks, Expire(t) PROVE RowTypes'
  BY <1>24 DEF Expire
<1>25. ASSUME NEW t \in Tasks, Age(t) PROVE RowTypes'
  BY <1>25 DEF Age
<1>26. ASSUME NEW t \in Tasks, Create(t) PROVE RowTypes'
  BY <1>26 DEF Create, Insert
<1>27. ASSUME NEW r \in Requests, RequestWrite(r) PROVE RowTypes'
  BY <1>27 DEF RequestWrite, Ends, About, RowsOnly
<1>28. ASSUME NEW r \in Requests, Suspended(r) PROVE RowTypes'
  BY <1>28 DEF Suspended, Ends, About, SetState, SetToken, RuntimeOnly
<1>29. ASSUME NEW r \in Requests, Resumed(r) PROVE RowTypes'
  BY <1>29 DEF Resumed, Ends, About, SetState, SetToken, RuntimeOnly
<1>30. ASSUME NEW r \in Requests, NEW t \in Tasks, NEW s \in Statuses, RequestRead(r, t, s)
       PROVE RowTypes'
  BY <1>30 DEF RequestRead, Ask, About, RowsOnly
<1>31. ASSUME NEW r \in Requests, NEW a \in Agents, NEW t \in Tasks, ManualWake(r, a, t)
       PROVE RowTypes'
  BY <1>31 DEF ManualWake, AskOnce, Ask, WakeOnly, Send
<1>32. ASSUME NEW r \in Requests, NEW t \in Tasks, Dispatch(r, t) PROVE RowTypes'
  BY <1>32 DEF Dispatch, AskOnce, Ask, WakeOnly, Send
<1>33. ASSUME NEW r \in Requests, NEW t \in Tasks, Flag(r, t) PROVE RowTypes'
  BY <1>33 DEF Flag, AskOnce, Ask, RowsOnly
<1>34. ASSUME NEW r \in Requests, NEW a \in Agents, Suspend(r, a) PROVE RowTypes'
  BY <1>34 DEF Suspend, Ask, About, SetState, SetToken, RuntimeOnly
<1>35. ASSUME NEW r \in Requests, NEW a \in Agents, Resume(r, a) PROVE RowTypes'
  BY <1>35 DEF Resume, Ask, About, SetState, SetToken, RuntimeOnly
<1>36. ASSUME Crash PROVE RowTypes'
  BY <1>36 DEF Crash
<1>41. ASSUME NEW a \in Agents, HandOff(a) PROVE RowTypes'
  BY <1>41 DEF HandOff, Announce, Send
<1>42. ASSUME NEW t \in Tasks, Created(t) PROVE RowTypes'
  BY <1>42 DEF Created, Announce, Send
<1>43. ASSUME NEW t \in Tasks, Rewake(t) PROVE RowTypes'
  BY <1>43 DEF Rewake, Send
<1>44. ASSUME NEW r \in Requests, ResumeIdle(r) PROVE RowTypes'
  BY <1>44 DEF ResumeIdle, SetState, RuntimeOnly
<1>37. CASE UNCHANGED vars
  BY <1>37 DEF vars
<1> QED
  BY <1>1, <1>2, <1>3, <1>4, <1>5, <1>6, <1>7, <1>8, <1>9, <1>10, <1>11, <1>12, <1>13, <1>14,
     <1>15, <1>16, <1>17, <1>18, <1>19, <1>20, <1>21, <1>22, <1>23, <1>24, <1>25, <1>26, <1>27,
     <1>28, <1>29, <1>30, <1>31, <1>32, <1>33, <1>34, <1>35, <1>36, <1>37,
     <1>41, <1>42, <1>43, <1>44
  DEF Next, Serve, Act, Recover, Operate

\* Runtimes keep a state of the constants of agent/runtime.go and a token or none.
LEMMA RuntimeTypesKept == CoreOK /\ [Next]_vars => RuntimeTypes'
<1> SUFFICES ASSUME CoreOK, [Next]_vars PROVE RuntimeTypes'
  OBVIOUS
<1> USE DEF CoreOK, TypeOK, ControlOK, RuntimeTypes, HoldsAsked, Points
<1>1. ASSUME NEW a \in Agents, Receive(a) PROVE RuntimeTypes'
  BY <1>1 DEF Receive
<1>2. ASSUME NEW a \in Agents, Unpark(a) PROVE RuntimeTypes'
  BY <1>2 DEF Unpark
<1>3. ASSUME NEW a \in Agents, StartRun(a) PROVE RuntimeTypes'
  BY <1>3 DEF StartRun
<1>4. ASSUME NEW a \in Agents, Return(a) PROVE RuntimeTypes'
  BY <1>4 DEF Return
<1>5. ASSUME NEW a \in Agents, Drain(a) PROVE RuntimeTypes'
  BY <1>5 DEF Drain
<1>6. ASSUME NEW a \in Agents, Turn(a) PROVE RuntimeTypes'
  BY <1>6 DEF Turn, MoveTo, StopGoal, AtCap, Completed, HasParent
<1>7. ASSUME NEW a \in Agents, Claim(a) PROVE RuntimeTypes'
  BY <1>7 DEF Claim
<1>8. ASSUME NEW a \in Agents, Step(a) PROVE RuntimeTypes'
  BY <1>8 DEF Step
<1>9. ASSUME NEW a \in Agents, ToolWrite(a) PROVE RuntimeTypes'
  BY <1>9 DEF ToolWrite, Signal
<1>10. ASSUME NEW a \in Agents, RunEnds(a) PROVE RuntimeTypes'
  BY <1>10 DEF RunEnds, Completed, HasParent
<1>11. ASSUME NEW a \in Agents, Move(a) PROVE RuntimeTypes'
  BY <1>11 DEF Move
<1>12. ASSUME NEW a \in Agents, Write(a) PROVE RuntimeTypes'
  BY <1>12 DEF Write
<1>13. ASSUME NEW a \in Agents, Siblings(a) PROVE RuntimeTypes'
  BY <1>13 DEF Siblings
<1>14. ASSUME NEW a \in Agents, ReadParent(a) PROVE RuntimeTypes'
  BY <1>14 DEF ReadParent
<1>15. ASSUME NEW a \in Agents, Cas(a) PROVE RuntimeTypes'
  BY <1>15 DEF Cas, WakeParent, Send
<1>16. ASSUME NEW a \in Agents, TaskDone(a) PROVE RuntimeTypes'
  BY <1>16 DEF TaskDone, MayReport, Signal
<1>17. ASSUME NEW a \in Agents, TaskBlocked(a) PROVE RuntimeTypes'
  BY <1>17 DEF TaskBlocked, MayReport
<1>18. ASSUME NEW a \in Agents, TaskContinue(a) PROVE RuntimeTypes'
  BY <1>18 DEF TaskContinue, Beat, MayReport, Signal
<1>19. ASSUME NEW a \in Agents, RunFails(a) PROVE RuntimeTypes'
  BY <1>19 DEF RunFails, MoveTo
<1>20. ASSUME NEW a \in Agents, Heartbeat(a) PROVE RuntimeTypes'
  BY <1>20 DEF Heartbeat, Beat
<1>21. ASSUME NEW a \in Agents, NEW c \in Tasks, Delegate(a, c) PROVE RuntimeTypes'
  BY <1>21 DEF Delegate, Insert
<1>22. ASSUME Watchdog PROVE RuntimeTypes'
  BY <1>22 DEF Watchdog, Due
<1>23. ASSUME NEW t \in Tasks, RecoverStale(t) PROVE RuntimeTypes'
  BY <1>23 DEF RecoverStale
<1>24. ASSUME NEW t \in Tasks, Expire(t) PROVE RuntimeTypes'
  BY <1>24 DEF Expire
<1>25. ASSUME NEW t \in Tasks, Age(t) PROVE RuntimeTypes'
  BY <1>25 DEF Age
<1>26. ASSUME NEW t \in Tasks, Create(t) PROVE RuntimeTypes'
  BY <1>26 DEF Create, Insert
<1>27. ASSUME NEW r \in Requests, RequestWrite(r) PROVE RuntimeTypes'
  BY <1>27 DEF RequestWrite, Ends, About, RowsOnly
<1>28. ASSUME NEW r \in Requests, Suspended(r) PROVE RuntimeTypes'
  BY <1>28 DEF Suspended, Ends, About, SetState, SetToken, RuntimeOnly
<1>29. ASSUME NEW r \in Requests, Resumed(r) PROVE RuntimeTypes'
  BY <1>29 DEF Resumed, Ends, About, SetState, SetToken, RuntimeOnly
<1>30. ASSUME NEW r \in Requests, NEW t \in Tasks, NEW s \in Statuses, RequestRead(r, t, s)
       PROVE RuntimeTypes'
  BY <1>30 DEF RequestRead, Ask, About, RowsOnly
<1>31. ASSUME NEW r \in Requests, NEW a \in Agents, NEW t \in Tasks, ManualWake(r, a, t)
       PROVE RuntimeTypes'
  BY <1>31 DEF ManualWake, AskOnce, Ask, WakeOnly, Send
<1>32. ASSUME NEW r \in Requests, NEW t \in Tasks, Dispatch(r, t) PROVE RuntimeTypes'
  BY <1>32 DEF Dispatch, AskOnce, Ask, WakeOnly, Send
<1>33. ASSUME NEW r \in Requests, NEW t \in Tasks, Flag(r, t) PROVE RuntimeTypes'
  BY <1>33 DEF Flag, AskOnce, Ask, RowsOnly
<1>34. ASSUME NEW r \in Requests, NEW a \in Agents, Suspend(r, a) PROVE RuntimeTypes'
  BY <1>34 DEF Suspend, Ask, About, SetState, SetToken, RuntimeOnly
<1>35. ASSUME NEW r \in Requests, NEW a \in Agents, Resume(r, a) PROVE RuntimeTypes'
  BY <1>35 DEF Resume, Ask, About, SetState, SetToken, RuntimeOnly
<1>36. ASSUME Crash PROVE RuntimeTypes'
  BY <1>36 DEF Crash
<1>41. ASSUME NEW a \in Agents, HandOff(a) PROVE RuntimeTypes'
  BY <1>41 DEF HandOff, Announce, Send
<1>42. ASSUME NEW t \in Tasks, Created(t) PROVE RuntimeTypes'
  BY <1>42 DEF Created, Announce, Send
<1>43. ASSUME NEW t \in Tasks, Rewake(t) PROVE RuntimeTypes'
  BY <1>43 DEF Rewake, Send
<1>44. ASSUME NEW r \in Requests, ResumeIdle(r) PROVE RuntimeTypes'
  BY <1>44 DEF ResumeIdle, SetState, RuntimeOnly
<1>37. CASE UNCHANGED vars
  BY <1>37 DEF vars
<1> QED
  BY <1>1, <1>2, <1>3, <1>4, <1>5, <1>6, <1>7, <1>8, <1>9, <1>10, <1>11, <1>12, <1>13, <1>14,
     <1>15, <1>16, <1>17, <1>18, <1>19, <1>20, <1>21, <1>22, <1>23, <1>24, <1>25, <1>26, <1>27,
     <1>28, <1>29, <1>30, <1>31, <1>32, <1>33, <1>34, <1>35, <1>36, <1>37,
     <1>41, <1>42, <1>43, <1>44
  DEF Next, Serve, Act, Recover, Operate

\* Goroutines stay at a point of the worker's loop, with a task and a count.
LEMMA WorkerTypesKept == CoreOK /\ [Next]_vars => WorkerTypes'
<1> SUFFICES ASSUME CoreOK, [Next]_vars PROVE WorkerTypes'
  OBVIOUS
<1> USE DEF CoreOK, TypeOK, ControlOK, WorkerTypes, QueueTypes, RuntimeTypes, HoldsCount
<1>1. ASSUME NEW a \in Agents, Receive(a) PROVE WorkerTypes'
  BY <1>1 DEF Receive
<1>2. ASSUME NEW a \in Agents, Unpark(a) PROVE WorkerTypes'
  BY <1>2 DEF Unpark
<1>3. ASSUME NEW a \in Agents, StartRun(a) PROVE WorkerTypes'
  BY <1>3 DEF StartRun
<1>4. ASSUME NEW a \in Agents, Return(a) PROVE WorkerTypes'
  BY <1>4 DEF Return
<1>5. ASSUME NEW a \in Agents, Drain(a) PROVE WorkerTypes'
  BY <1>5 DEF Drain
<1>6. ASSUME NEW a \in Agents, Turn(a) PROVE WorkerTypes'
  BY <1>6 DEF Turn, MoveTo, StopGoal, AtCap, Completed, HasParent
<1>7. ASSUME NEW a \in Agents, Claim(a) PROVE WorkerTypes'
  BY <1>7 DEF Claim
<1>8. ASSUME NEW a \in Agents, Step(a) PROVE WorkerTypes'
  BY <1>8 DEF Step
<1>9. ASSUME NEW a \in Agents, ToolWrite(a) PROVE WorkerTypes'
  BY <1>9 DEF ToolWrite, Signal
<1>10. ASSUME NEW a \in Agents, RunEnds(a) PROVE WorkerTypes'
  BY <1>10 DEF RunEnds, Completed, HasParent
<1>11. ASSUME NEW a \in Agents, Move(a) PROVE WorkerTypes'
  BY <1>11 DEF Move
<1>12. ASSUME NEW a \in Agents, Write(a) PROVE WorkerTypes'
  BY <1>12 DEF Write
<1>13. ASSUME NEW a \in Agents, Siblings(a) PROVE WorkerTypes'
  BY <1>13 DEF Siblings
<1>14. ASSUME NEW a \in Agents, ReadParent(a) PROVE WorkerTypes'
  BY <1>14 DEF ReadParent
<1>15. ASSUME NEW a \in Agents, Cas(a) PROVE WorkerTypes'
  BY <1>15 DEF Cas, WakeParent, Send
<1>16. ASSUME NEW a \in Agents, TaskDone(a) PROVE WorkerTypes'
  BY <1>16 DEF TaskDone, MayReport, Signal
<1>17. ASSUME NEW a \in Agents, TaskBlocked(a) PROVE WorkerTypes'
  BY <1>17 DEF TaskBlocked, MayReport
<1>18. ASSUME NEW a \in Agents, TaskContinue(a) PROVE WorkerTypes'
  BY <1>18 DEF TaskContinue, Beat, MayReport, Signal
<1>19. ASSUME NEW a \in Agents, RunFails(a) PROVE WorkerTypes'
  <2>0. retries[a] \in 0 .. MaxRetries /\ retries[a] < MaxRetries
    BY <1>19 DEF RunFails
  <2>1. retries[a] + 1 \in 0 .. MaxRetries
    BY <2>0
  <2>2. signal' = [signal EXCEPT ![a] = "none"] /\ retries' = [retries EXCEPT ![a] = retries[a] + 1]
    BY <1>19 DEF RunFails
  <2>3. goal' = goal \/ goal' = [goal EXCEPT ![a] = "blocked"]
    BY <1>19 DEF RunFails, MoveTo
  <2>4. task' = task
    BY <1>19 DEF RunFails
  <2> QED
    BY <2>1, <2>2, <2>3, <2>4
<1>20. ASSUME NEW a \in Agents, Heartbeat(a) PROVE WorkerTypes'
  BY <1>20 DEF Heartbeat, Beat
<1>21. ASSUME NEW a \in Agents, NEW c \in Tasks, Delegate(a, c) PROVE WorkerTypes'
  BY <1>21 DEF Delegate, Insert
<1>22. ASSUME Watchdog PROVE WorkerTypes'
  BY <1>22 DEF Watchdog, Due
<1>23. ASSUME NEW t \in Tasks, RecoverStale(t) PROVE WorkerTypes'
  BY <1>23 DEF RecoverStale
<1>24. ASSUME NEW t \in Tasks, Expire(t) PROVE WorkerTypes'
  BY <1>24 DEF Expire
<1>25. ASSUME NEW t \in Tasks, Age(t) PROVE WorkerTypes'
  BY <1>25 DEF Age
<1>26. ASSUME NEW t \in Tasks, Create(t) PROVE WorkerTypes'
  BY <1>26 DEF Create, Insert
<1>27. ASSUME NEW r \in Requests, RequestWrite(r) PROVE WorkerTypes'
  BY <1>27 DEF RequestWrite, Ends, About, RowsOnly
<1>28. ASSUME NEW r \in Requests, Suspended(r) PROVE WorkerTypes'
  BY <1>28 DEF Suspended, Ends, About, SetState, SetToken, RuntimeOnly
<1>29. ASSUME NEW r \in Requests, Resumed(r) PROVE WorkerTypes'
  BY <1>29 DEF Resumed, Ends, About, SetState, SetToken, RuntimeOnly
<1>30. ASSUME NEW r \in Requests, NEW t \in Tasks, NEW s \in Statuses, RequestRead(r, t, s)
       PROVE WorkerTypes'
  BY <1>30 DEF RequestRead, Ask, About, RowsOnly
<1>31. ASSUME NEW r \in Requests, NEW a \in Agents, NEW t \in Tasks, ManualWake(r, a, t)
       PROVE WorkerTypes'
  BY <1>31 DEF ManualWake, AskOnce, Ask, WakeOnly, Send
<1>32. ASSUME NEW r \in Requests, NEW t \in Tasks, Dispatch(r, t) PROVE WorkerTypes'
  BY <1>32 DEF Dispatch, AskOnce, Ask, WakeOnly, Send
<1>33. ASSUME NEW r \in Requests, NEW t \in Tasks, Flag(r, t) PROVE WorkerTypes'
  BY <1>33 DEF Flag, AskOnce, Ask, RowsOnly
<1>34. ASSUME NEW r \in Requests, NEW a \in Agents, Suspend(r, a) PROVE WorkerTypes'
  BY <1>34 DEF Suspend, Ask, About, SetState, SetToken, RuntimeOnly
<1>35. ASSUME NEW r \in Requests, NEW a \in Agents, Resume(r, a) PROVE WorkerTypes'
  BY <1>35 DEF Resume, Ask, About, SetState, SetToken, RuntimeOnly
<1>36. ASSUME Crash PROVE WorkerTypes'
  BY <1>36 DEF Crash
<1>41. ASSUME NEW a \in Agents, HandOff(a) PROVE WorkerTypes'
  BY <1>41 DEF HandOff, Announce, Send
<1>42. ASSUME NEW t \in Tasks, Created(t) PROVE WorkerTypes'
  BY <1>42 DEF Created, Announce, Send
<1>43. ASSUME NEW t \in Tasks, Rewake(t) PROVE WorkerTypes'
  BY <1>43 DEF Rewake, Send
<1>44. ASSUME NEW r \in Requests, ResumeIdle(r) PROVE WorkerTypes'
  BY <1>44 DEF ResumeIdle, SetState, RuntimeOnly
<1>37. CASE UNCHANGED vars
  BY <1>37 DEF vars
<1> QED
  BY <1>1, <1>2, <1>3, <1>4, <1>5, <1>6, <1>7, <1>8, <1>9, <1>10, <1>11, <1>12, <1>13, <1>14,
     <1>15, <1>16, <1>17, <1>18, <1>19, <1>20, <1>21, <1>22, <1>23, <1>24, <1>25, <1>26, <1>27,
     <1>28, <1>29, <1>30, <1>31, <1>32, <1>33, <1>34, <1>35, <1>36, <1>37,
     <1>41, <1>42, <1>43, <1>44
  DEF Next, Serve, Act, Recover, Operate

\* Requests stay at a point of their endpoint.
LEMMA RequestTypesKept == CoreOK /\ [Next]_vars => RequestTypes'
<1> SUFFICES ASSUME CoreOK, [Next]_vars PROVE RequestTypes'
  OBVIOUS
<1> USE DEF CoreOK, TypeOK, ControlOK, RequestTypes
<1>1. ASSUME NEW a \in Agents, Receive(a) PROVE RequestTypes'
  BY <1>1 DEF Receive
<1>2. ASSUME NEW a \in Agents, Unpark(a) PROVE RequestTypes'
  BY <1>2 DEF Unpark
<1>3. ASSUME NEW a \in Agents, StartRun(a) PROVE RequestTypes'
  BY <1>3 DEF StartRun
<1>4. ASSUME NEW a \in Agents, Return(a) PROVE RequestTypes'
  BY <1>4 DEF Return
<1>5. ASSUME NEW a \in Agents, Drain(a) PROVE RequestTypes'
  BY <1>5 DEF Drain
<1>6. ASSUME NEW a \in Agents, Turn(a) PROVE RequestTypes'
  BY <1>6 DEF Turn, MoveTo, StopGoal, AtCap, Completed, HasParent
<1>7. ASSUME NEW a \in Agents, Claim(a) PROVE RequestTypes'
  BY <1>7 DEF Claim
<1>8. ASSUME NEW a \in Agents, Step(a) PROVE RequestTypes'
  BY <1>8 DEF Step
<1>9. ASSUME NEW a \in Agents, ToolWrite(a) PROVE RequestTypes'
  BY <1>9 DEF ToolWrite, Signal
<1>10. ASSUME NEW a \in Agents, RunEnds(a) PROVE RequestTypes'
  BY <1>10 DEF RunEnds, Completed, HasParent
<1>11. ASSUME NEW a \in Agents, Move(a) PROVE RequestTypes'
  BY <1>11 DEF Move
<1>12. ASSUME NEW a \in Agents, Write(a) PROVE RequestTypes'
  BY <1>12 DEF Write
<1>13. ASSUME NEW a \in Agents, Siblings(a) PROVE RequestTypes'
  BY <1>13 DEF Siblings
<1>14. ASSUME NEW a \in Agents, ReadParent(a) PROVE RequestTypes'
  BY <1>14 DEF ReadParent
<1>15. ASSUME NEW a \in Agents, Cas(a) PROVE RequestTypes'
  BY <1>15 DEF Cas, WakeParent, Send
<1>16. ASSUME NEW a \in Agents, TaskDone(a) PROVE RequestTypes'
  BY <1>16 DEF TaskDone, MayReport, Signal
<1>17. ASSUME NEW a \in Agents, TaskBlocked(a) PROVE RequestTypes'
  BY <1>17 DEF TaskBlocked, MayReport
<1>18. ASSUME NEW a \in Agents, TaskContinue(a) PROVE RequestTypes'
  BY <1>18 DEF TaskContinue, Beat, MayReport, Signal
<1>19. ASSUME NEW a \in Agents, RunFails(a) PROVE RequestTypes'
  BY <1>19 DEF RunFails, MoveTo
<1>20. ASSUME NEW a \in Agents, Heartbeat(a) PROVE RequestTypes'
  BY <1>20 DEF Heartbeat, Beat
<1>21. ASSUME NEW a \in Agents, NEW c \in Tasks, Delegate(a, c) PROVE RequestTypes'
  BY <1>21 DEF Delegate, Insert
<1>22. ASSUME Watchdog PROVE RequestTypes'
  BY <1>22 DEF Watchdog, Due
<1>23. ASSUME NEW t \in Tasks, RecoverStale(t) PROVE RequestTypes'
  BY <1>23 DEF RecoverStale
<1>24. ASSUME NEW t \in Tasks, Expire(t) PROVE RequestTypes'
  BY <1>24 DEF Expire
<1>25. ASSUME NEW t \in Tasks, Age(t) PROVE RequestTypes'
  BY <1>25 DEF Age
<1>26. ASSUME NEW t \in Tasks, Create(t) PROVE RequestTypes'
  BY <1>26 DEF Create, Insert
<1>27. ASSUME NEW r \in Requests, RequestWrite(r) PROVE RequestTypes'
  BY <1>27 DEF RequestWrite, Ends, About, RowsOnly
<1>28. ASSUME NEW r \in Requests, Suspended(r) PROVE RequestTypes'
  BY <1>28 DEF Suspended, Ends, About, SetState, SetToken, RuntimeOnly
<1>29. ASSUME NEW r \in Requests, Resumed(r) PROVE RequestTypes'
  BY <1>29 DEF Resumed, Ends, About, SetState, SetToken, RuntimeOnly
<1>30. ASSUME NEW r \in Requests, NEW t \in Tasks, NEW s \in Statuses, RequestRead(r, t, s)
       PROVE RequestTypes'
  BY <1>30 DEF RequestRead, Ask, About, RowsOnly
<1>31. ASSUME NEW r \in Requests, NEW a \in Agents, NEW t \in Tasks, ManualWake(r, a, t)
       PROVE RequestTypes'
  BY <1>31 DEF ManualWake, AskOnce, Ask, WakeOnly, Send
<1>32. ASSUME NEW r \in Requests, NEW t \in Tasks, Dispatch(r, t) PROVE RequestTypes'
  BY <1>32 DEF Dispatch, AskOnce, Ask, WakeOnly, Send
<1>33. ASSUME NEW r \in Requests, NEW t \in Tasks, Flag(r, t) PROVE RequestTypes'
  BY <1>33 DEF Flag, AskOnce, Ask, RowsOnly
<1>34. ASSUME NEW r \in Requests, NEW a \in Agents, Suspend(r, a) PROVE RequestTypes'
  BY <1>34 DEF Suspend, Ask, About, SetState, SetToken, RuntimeOnly
<1>35. ASSUME NEW r \in Requests, NEW a \in Agents, Resume(r, a) PROVE RequestTypes'
  BY <1>35 DEF Resume, Ask, About, SetState, SetToken, RuntimeOnly
<1>36. ASSUME Crash PROVE RequestTypes'
  BY <1>36 DEF Crash
<1>41. ASSUME NEW a \in Agents, HandOff(a) PROVE RequestTypes'
  BY <1>41 DEF HandOff, Announce, Send
<1>42. ASSUME NEW t \in Tasks, Created(t) PROVE RequestTypes'
  BY <1>42 DEF Created, Announce, Send
<1>43. ASSUME NEW t \in Tasks, Rewake(t) PROVE RequestTypes'
  BY <1>43 DEF Rewake, Send
<1>44. ASSUME NEW r \in Requests, ResumeIdle(r) PROVE RequestTypes'
  BY <1>44 DEF ResumeIdle, SetState, RuntimeOnly
<1>37. CASE UNCHANGED vars
  BY <1>37 DEF vars
<1> QED
  BY <1>1, <1>2, <1>3, <1>4, <1>5, <1>6, <1>7, <1>8, <1>9, <1>10, <1>11, <1>12, <1>13, <1>14,
     <1>15, <1>16, <1>17, <1>18, <1>19, <1>20, <1>21, <1>22, <1>23, <1>24, <1>25, <1>26, <1>27,
     <1>28, <1>29, <1>30, <1>31, <1>32, <1>33, <1>34, <1>35, <1>36, <1>37,
     <1>41, <1>42, <1>43, <1>44
  DEF Next, Serve, Act, Recover, Operate

\* A goroutine past its select holds a task, and one in the coordinator a subtask.
LEMMA HoldsTaskKept == CoreOK /\ [Next]_vars => HoldsTask'
<1> SUFFICES ASSUME CoreOK, [Next]_vars PROVE HoldsTask'
  OBVIOUS
<1> USE DEF CoreOK, TypeOK, ControlOK, RuntimeTypes, WorkerTypes, QueueTypes, HoldsTask
<1>1. ASSUME NEW a \in Agents, Receive(a) PROVE HoldsTask'
  BY <1>1 DEF Receive
<1>2. ASSUME NEW a \in Agents, Unpark(a) PROVE HoldsTask'
  BY <1>2 DEF Unpark
<1>3. ASSUME NEW a \in Agents, StartRun(a) PROVE HoldsTask'
  BY <1>3 DEF StartRun
<1>4. ASSUME NEW a \in Agents, Return(a) PROVE HoldsTask'
  BY <1>4 DEF Return
<1>5. ASSUME NEW a \in Agents, Drain(a) PROVE HoldsTask'
  BY <1>5 DEF Drain
<1>6. ASSUME NEW a \in Agents, Turn(a) PROVE HoldsTask'
  BY <1>6 DEF Turn, MoveTo, StopGoal, AtCap, Completed, HasParent
<1>7. ASSUME NEW a \in Agents, Claim(a) PROVE HoldsTask'
  BY <1>7 DEF Claim
<1>8. ASSUME NEW a \in Agents, Step(a) PROVE HoldsTask'
  BY <1>8 DEF Step
<1>9. ASSUME NEW a \in Agents, ToolWrite(a) PROVE HoldsTask'
  BY <1>9 DEF ToolWrite, Signal
<1>10. ASSUME NEW a \in Agents, RunEnds(a) PROVE HoldsTask'
  BY <1>10 DEF RunEnds, Completed, HasParent
<1>11. ASSUME NEW a \in Agents, Move(a) PROVE HoldsTask'
  <2>1. \/ pc' = [pc EXCEPT ![a] = "write"]
        \/ pc' = [pc EXCEPT ![a] = "return"]
    BY <1>11 DEF Move
  <2>2. task' = task /\ task[a] \in Tasks
    BY <1>11 DEF Move
  <2> QED
    BY <2>1, <2>2
<1>12. ASSUME NEW a \in Agents, Write(a) PROVE HoldsTask'
  BY <1>12 DEF Write
<1>13. ASSUME NEW a \in Agents, Siblings(a) PROVE HoldsTask'
  BY <1>13 DEF Siblings
<1>14. ASSUME NEW a \in Agents, ReadParent(a) PROVE HoldsTask'
  BY <1>14 DEF ReadParent
<1>15. ASSUME NEW a \in Agents, Cas(a) PROVE HoldsTask'
  BY <1>15 DEF Cas, WakeParent, Send
<1>16. ASSUME NEW a \in Agents, TaskDone(a) PROVE HoldsTask'
  BY <1>16 DEF TaskDone, MayReport, Signal
<1>17. ASSUME NEW a \in Agents, TaskBlocked(a) PROVE HoldsTask'
  BY <1>17 DEF TaskBlocked, MayReport
<1>18. ASSUME NEW a \in Agents, TaskContinue(a) PROVE HoldsTask'
  BY <1>18 DEF TaskContinue, Beat, MayReport, Signal
<1>19. ASSUME NEW a \in Agents, RunFails(a) PROVE HoldsTask'
  <2>1. \/ pc' = [pc EXCEPT ![a] = "move"]
        \/ pc' = [pc EXCEPT ![a] = "turn"]
    BY <1>19 DEF RunFails, MoveTo
  <2>2. task' = task /\ task[a] \in Tasks
    BY <1>19 DEF RunFails
  <2> QED
    BY <2>1, <2>2
<1>20. ASSUME NEW a \in Agents, Heartbeat(a) PROVE HoldsTask'
  BY <1>20 DEF Heartbeat, Beat
<1>21. ASSUME NEW a \in Agents, NEW c \in Tasks, Delegate(a, c) PROVE HoldsTask'
  <2>1. /\ task' = task /\ pc[a] = "run"
        /\ pc' = pc \/ pc' = [pc EXCEPT ![a] = "handoff"]
    BY <1>21 DEF Delegate
  <2> QED
    BY <2>1
<1>22. ASSUME Watchdog PROVE HoldsTask'
  BY <1>22 DEF Watchdog, Due
<1>23. ASSUME NEW t \in Tasks, RecoverStale(t) PROVE HoldsTask'
  BY <1>23 DEF RecoverStale
<1>24. ASSUME NEW t \in Tasks, Expire(t) PROVE HoldsTask'
  BY <1>24 DEF Expire
<1>25. ASSUME NEW t \in Tasks, Age(t) PROVE HoldsTask'
  BY <1>25 DEF Age
<1>26. ASSUME NEW t \in Tasks, Create(t) PROVE HoldsTask'
  BY <1>26 DEF Create, Insert
<1>27. ASSUME NEW r \in Requests, RequestWrite(r) PROVE HoldsTask'
  BY <1>27 DEF RequestWrite, Ends, About, RowsOnly
<1>28. ASSUME NEW r \in Requests, Suspended(r) PROVE HoldsTask'
  BY <1>28 DEF Suspended, Ends, About, SetState, SetToken, RuntimeOnly
<1>29. ASSUME NEW r \in Requests, Resumed(r) PROVE HoldsTask'
  BY <1>29 DEF Resumed, Ends, About, SetState, SetToken, RuntimeOnly
<1>30. ASSUME NEW r \in Requests, NEW t \in Tasks, NEW s \in Statuses, RequestRead(r, t, s)
       PROVE HoldsTask'
  BY <1>30 DEF RequestRead, Ask, About, RowsOnly
<1>31. ASSUME NEW r \in Requests, NEW a \in Agents, NEW t \in Tasks, ManualWake(r, a, t)
       PROVE HoldsTask'
  BY <1>31 DEF ManualWake, AskOnce, Ask, WakeOnly, Send
<1>32. ASSUME NEW r \in Requests, NEW t \in Tasks, Dispatch(r, t) PROVE HoldsTask'
  BY <1>32 DEF Dispatch, AskOnce, Ask, WakeOnly, Send
<1>33. ASSUME NEW r \in Requests, NEW t \in Tasks, Flag(r, t) PROVE HoldsTask'
  BY <1>33 DEF Flag, AskOnce, Ask, RowsOnly
<1>34. ASSUME NEW r \in Requests, NEW a \in Agents, Suspend(r, a) PROVE HoldsTask'
  BY <1>34 DEF Suspend, Ask, About, SetState, SetToken, RuntimeOnly
<1>35. ASSUME NEW r \in Requests, NEW a \in Agents, Resume(r, a) PROVE HoldsTask'
  BY <1>35 DEF Resume, Ask, About, SetState, SetToken, RuntimeOnly
<1>36. ASSUME Crash PROVE HoldsTask'
  BY <1>36 DEF Crash
<1>41. ASSUME NEW a \in Agents, HandOff(a) PROVE HoldsTask'
  BY <1>41 DEF HandOff, Announce, Send
<1>42. ASSUME NEW t \in Tasks, Created(t) PROVE HoldsTask'
  BY <1>42 DEF Created, Announce, Send
<1>43. ASSUME NEW t \in Tasks, Rewake(t) PROVE HoldsTask'
  BY <1>43 DEF Rewake, Send
<1>44. ASSUME NEW r \in Requests, ResumeIdle(r) PROVE HoldsTask'
  BY <1>44 DEF ResumeIdle, SetState, RuntimeOnly
<1>37. CASE UNCHANGED vars
  BY <1>37 DEF vars
<1> QED
  BY <1>1, <1>2, <1>3, <1>4, <1>5, <1>6, <1>7, <1>8, <1>9, <1>10, <1>11, <1>12, <1>13, <1>14,
     <1>15, <1>16, <1>17, <1>18, <1>19, <1>20, <1>21, <1>22, <1>23, <1>24, <1>25, <1>26, <1>27,
     <1>28, <1>29, <1>30, <1>31, <1>32, <1>33, <1>34, <1>35, <1>36, <1>37,
     <1>41, <1>42, <1>43, <1>44
  DEF Next, Serve, Act, Recover, Operate

\* A goroutine about to write a terminal status has decided on one.
LEMMA HoldsGoalKept == CoreOK /\ [Next]_vars => HoldsGoal'
<1> SUFFICES ASSUME CoreOK, [Next]_vars PROVE HoldsGoal'
  OBVIOUS
<1> USE DEF CoreOK, TypeOK, ControlOK, RuntimeTypes, WorkerTypes, HoldsGoal
<1>1. ASSUME NEW a \in Agents, Receive(a) PROVE HoldsGoal'
  BY <1>1 DEF Receive
<1>2. ASSUME NEW a \in Agents, Unpark(a) PROVE HoldsGoal'
  BY <1>2 DEF Unpark
<1>3. ASSUME NEW a \in Agents, StartRun(a) PROVE HoldsGoal'
  BY <1>3 DEF StartRun
<1>4. ASSUME NEW a \in Agents, Return(a) PROVE HoldsGoal'
  BY <1>4 DEF Return
<1>5. ASSUME NEW a \in Agents, Drain(a) PROVE HoldsGoal'
  BY <1>5 DEF Drain
<1>6. ASSUME NEW a \in Agents, Turn(a) PROVE HoldsGoal'
  BY <1>6 DEF Turn, MoveTo, StopGoal, AtCap, Completed, HasParent
<1>7. ASSUME NEW a \in Agents, Claim(a) PROVE HoldsGoal'
  BY <1>7 DEF Claim
<1>8. ASSUME NEW a \in Agents, Step(a) PROVE HoldsGoal'
  BY <1>8 DEF Step
<1>9. ASSUME NEW a \in Agents, ToolWrite(a) PROVE HoldsGoal'
  BY <1>9 DEF ToolWrite, Signal
<1>10. ASSUME NEW a \in Agents, RunEnds(a) PROVE HoldsGoal'
  BY <1>10 DEF RunEnds, Completed, HasParent
<1>11. ASSUME NEW a \in Agents, Move(a) PROVE HoldsGoal'
  BY <1>11 DEF Move
<1>12. ASSUME NEW a \in Agents, Write(a) PROVE HoldsGoal'
  BY <1>12 DEF Write
<1>13. ASSUME NEW a \in Agents, Siblings(a) PROVE HoldsGoal'
  BY <1>13 DEF Siblings
<1>14. ASSUME NEW a \in Agents, ReadParent(a) PROVE HoldsGoal'
  BY <1>14 DEF ReadParent
<1>15. ASSUME NEW a \in Agents, Cas(a) PROVE HoldsGoal'
  BY <1>15 DEF Cas, WakeParent, Send
<1>16. ASSUME NEW a \in Agents, TaskDone(a) PROVE HoldsGoal'
  BY <1>16 DEF TaskDone, MayReport, Signal
<1>17. ASSUME NEW a \in Agents, TaskBlocked(a) PROVE HoldsGoal'
  BY <1>17 DEF TaskBlocked, MayReport
<1>18. ASSUME NEW a \in Agents, TaskContinue(a) PROVE HoldsGoal'
  BY <1>18 DEF TaskContinue, Beat, MayReport, Signal
<1>19. ASSUME NEW a \in Agents, RunFails(a) PROVE HoldsGoal'
  BY <1>19 DEF RunFails, MoveTo
<1>20. ASSUME NEW a \in Agents, Heartbeat(a) PROVE HoldsGoal'
  BY <1>20 DEF Heartbeat, Beat
<1>21. ASSUME NEW a \in Agents, NEW c \in Tasks, Delegate(a, c) PROVE HoldsGoal'
  BY <1>21 DEF Delegate, Insert
<1>22. ASSUME Watchdog PROVE HoldsGoal'
  BY <1>22 DEF Watchdog, Due
<1>23. ASSUME NEW t \in Tasks, RecoverStale(t) PROVE HoldsGoal'
  BY <1>23 DEF RecoverStale
<1>24. ASSUME NEW t \in Tasks, Expire(t) PROVE HoldsGoal'
  BY <1>24 DEF Expire
<1>25. ASSUME NEW t \in Tasks, Age(t) PROVE HoldsGoal'
  BY <1>25 DEF Age
<1>26. ASSUME NEW t \in Tasks, Create(t) PROVE HoldsGoal'
  BY <1>26 DEF Create, Insert
<1>27. ASSUME NEW r \in Requests, RequestWrite(r) PROVE HoldsGoal'
  BY <1>27 DEF RequestWrite, Ends, About, RowsOnly
<1>28. ASSUME NEW r \in Requests, Suspended(r) PROVE HoldsGoal'
  BY <1>28 DEF Suspended, Ends, About, SetState, SetToken, RuntimeOnly
<1>29. ASSUME NEW r \in Requests, Resumed(r) PROVE HoldsGoal'
  BY <1>29 DEF Resumed, Ends, About, SetState, SetToken, RuntimeOnly
<1>30. ASSUME NEW r \in Requests, NEW t \in Tasks, NEW s \in Statuses, RequestRead(r, t, s)
       PROVE HoldsGoal'
  BY <1>30 DEF RequestRead, Ask, About, RowsOnly
<1>31. ASSUME NEW r \in Requests, NEW a \in Agents, NEW t \in Tasks, ManualWake(r, a, t)
       PROVE HoldsGoal'
  BY <1>31 DEF ManualWake, AskOnce, Ask, WakeOnly, Send
<1>32. ASSUME NEW r \in Requests, NEW t \in Tasks, Dispatch(r, t) PROVE HoldsGoal'
  BY <1>32 DEF Dispatch, AskOnce, Ask, WakeOnly, Send
<1>33. ASSUME NEW r \in Requests, NEW t \in Tasks, Flag(r, t) PROVE HoldsGoal'
  BY <1>33 DEF Flag, AskOnce, Ask, RowsOnly
<1>34. ASSUME NEW r \in Requests, NEW a \in Agents, Suspend(r, a) PROVE HoldsGoal'
  BY <1>34 DEF Suspend, Ask, About, SetState, SetToken, RuntimeOnly
<1>35. ASSUME NEW r \in Requests, NEW a \in Agents, Resume(r, a) PROVE HoldsGoal'
  BY <1>35 DEF Resume, Ask, About, SetState, SetToken, RuntimeOnly
<1>36. ASSUME Crash PROVE HoldsGoal'
  BY <1>36 DEF Crash
<1>41. ASSUME NEW a \in Agents, HandOff(a) PROVE HoldsGoal'
  BY <1>41 DEF HandOff, Announce, Send
<1>42. ASSUME NEW t \in Tasks, Created(t) PROVE HoldsGoal'
  BY <1>42 DEF Created, Announce, Send
<1>43. ASSUME NEW t \in Tasks, Rewake(t) PROVE HoldsGoal'
  BY <1>43 DEF Rewake, Send
<1>44. ASSUME NEW r \in Requests, ResumeIdle(r) PROVE HoldsGoal'
  BY <1>44 DEF ResumeIdle, SetState, RuntimeOnly
<1>37. CASE UNCHANGED vars
  BY <1>37 DEF vars
<1> QED
  BY <1>1, <1>2, <1>3, <1>4, <1>5, <1>6, <1>7, <1>8, <1>9, <1>10, <1>11, <1>12, <1>13, <1>14,
     <1>15, <1>16, <1>17, <1>18, <1>19, <1>20, <1>21, <1>22, <1>23, <1>24, <1>25, <1>26, <1>27,
     <1>28, <1>29, <1>30, <1>31, <1>32, <1>33, <1>34, <1>35, <1>36, <1>37,
     <1>41, <1>42, <1>43, <1>44
  DEF Next, Serve, Act, Recover, Operate

\* A goroutine at its task has retries left; the last failure ends the run.
LEMMA HoldsCountKept == CoreOK /\ [Next]_vars => HoldsCount'
<1> SUFFICES ASSUME CoreOK, [Next]_vars PROVE HoldsCount'
  OBVIOUS
<1> USE DEF CoreOK, TypeOK, ControlOK, RuntimeTypes, WorkerTypes, HoldsCount
<1>1. ASSUME NEW a \in Agents, Receive(a) PROVE HoldsCount'
  BY <1>1 DEF Receive
<1>2. ASSUME NEW a \in Agents, Unpark(a) PROVE HoldsCount'
  BY <1>2 DEF Unpark
<1>3. ASSUME NEW a \in Agents, StartRun(a) PROVE HoldsCount'
  BY <1>3 DEF StartRun
<1>4. ASSUME NEW a \in Agents, Return(a) PROVE HoldsCount'
  BY <1>4 DEF Return
<1>5. ASSUME NEW a \in Agents, Drain(a) PROVE HoldsCount'
  BY <1>5 DEF Drain
<1>6. ASSUME NEW a \in Agents, Turn(a) PROVE HoldsCount'
  BY <1>6 DEF Turn, MoveTo, StopGoal, AtCap, Completed, HasParent
<1>7. ASSUME NEW a \in Agents, Claim(a) PROVE HoldsCount'
  BY <1>7 DEF Claim
<1>8. ASSUME NEW a \in Agents, Step(a) PROVE HoldsCount'
  BY <1>8 DEF Step
<1>9. ASSUME NEW a \in Agents, ToolWrite(a) PROVE HoldsCount'
  BY <1>9 DEF ToolWrite, Signal
<1>10. ASSUME NEW a \in Agents, RunEnds(a) PROVE HoldsCount'
  BY <1>10 DEF RunEnds, Completed, HasParent
<1>11. ASSUME NEW a \in Agents, Move(a) PROVE HoldsCount'
  BY <1>11 DEF Move
<1>12. ASSUME NEW a \in Agents, Write(a) PROVE HoldsCount'
  BY <1>12 DEF Write
<1>13. ASSUME NEW a \in Agents, Siblings(a) PROVE HoldsCount'
  BY <1>13 DEF Siblings
<1>14. ASSUME NEW a \in Agents, ReadParent(a) PROVE HoldsCount'
  BY <1>14 DEF ReadParent
<1>15. ASSUME NEW a \in Agents, Cas(a) PROVE HoldsCount'
  BY <1>15 DEF Cas, WakeParent, Send
<1>16. ASSUME NEW a \in Agents, TaskDone(a) PROVE HoldsCount'
  BY <1>16 DEF TaskDone, MayReport, Signal
<1>17. ASSUME NEW a \in Agents, TaskBlocked(a) PROVE HoldsCount'
  BY <1>17 DEF TaskBlocked, MayReport
<1>18. ASSUME NEW a \in Agents, TaskContinue(a) PROVE HoldsCount'
  BY <1>18 DEF TaskContinue, Beat, MayReport, Signal
<1>19. ASSUME NEW a \in Agents, RunFails(a) PROVE HoldsCount'
  BY <1>19 DEF RunFails, MoveTo
<1>20. ASSUME NEW a \in Agents, Heartbeat(a) PROVE HoldsCount'
  BY <1>20 DEF Heartbeat, Beat
<1>21. ASSUME NEW a \in Agents, NEW c \in Tasks, Delegate(a, c) PROVE HoldsCount'
  BY <1>21 DEF Delegate, Insert
<1>22. ASSUME Watchdog PROVE HoldsCount'
  BY <1>22 DEF Watchdog, Due
<1>23. ASSUME NEW t \in Tasks, RecoverStale(t) PROVE HoldsCount'
  BY <1>23 DEF RecoverStale
<1>24. ASSUME NEW t \in Tasks, Expire(t) PROVE HoldsCount'
  BY <1>24 DEF Expire
<1>25. ASSUME NEW t \in Tasks, Age(t) PROVE HoldsCount'
  BY <1>25 DEF Age
<1>26. ASSUME NEW t \in Tasks, Create(t) PROVE HoldsCount'
  BY <1>26 DEF Create, Insert
<1>27. ASSUME NEW r \in Requests, RequestWrite(r) PROVE HoldsCount'
  BY <1>27 DEF RequestWrite, Ends, About, RowsOnly
<1>28. ASSUME NEW r \in Requests, Suspended(r) PROVE HoldsCount'
  BY <1>28 DEF Suspended, Ends, About, SetState, SetToken, RuntimeOnly
<1>29. ASSUME NEW r \in Requests, Resumed(r) PROVE HoldsCount'
  BY <1>29 DEF Resumed, Ends, About, SetState, SetToken, RuntimeOnly
<1>30. ASSUME NEW r \in Requests, NEW t \in Tasks, NEW s \in Statuses, RequestRead(r, t, s)
       PROVE HoldsCount'
  BY <1>30 DEF RequestRead, Ask, About, RowsOnly
<1>31. ASSUME NEW r \in Requests, NEW a \in Agents, NEW t \in Tasks, ManualWake(r, a, t)
       PROVE HoldsCount'
  BY <1>31 DEF ManualWake, AskOnce, Ask, WakeOnly, Send
<1>32. ASSUME NEW r \in Requests, NEW t \in Tasks, Dispatch(r, t) PROVE HoldsCount'
  BY <1>32 DEF Dispatch, AskOnce, Ask, WakeOnly, Send
<1>33. ASSUME NEW r \in Requests, NEW t \in Tasks, Flag(r, t) PROVE HoldsCount'
  BY <1>33 DEF Flag, AskOnce, Ask, RowsOnly
<1>34. ASSUME NEW r \in Requests, NEW a \in Agents, Suspend(r, a) PROVE HoldsCount'
  BY <1>34 DEF Suspend, Ask, About, SetState, SetToken, RuntimeOnly
<1>35. ASSUME NEW r \in Requests, NEW a \in Agents, Resume(r, a) PROVE HoldsCount'
  BY <1>35 DEF Resume, Ask, About, SetState, SetToken, RuntimeOnly
<1>36. ASSUME Crash PROVE HoldsCount'
  BY <1>36 DEF Crash
<1>41. ASSUME NEW a \in Agents, HandOff(a) PROVE HoldsCount'
  BY <1>41 DEF HandOff, Announce, Send
<1>42. ASSUME NEW t \in Tasks, Created(t) PROVE HoldsCount'
  BY <1>42 DEF Created, Announce, Send
<1>43. ASSUME NEW t \in Tasks, Rewake(t) PROVE HoldsCount'
  BY <1>43 DEF Rewake, Send
<1>44. ASSUME NEW r \in Requests, ResumeIdle(r) PROVE HoldsCount'
  BY <1>44 DEF ResumeIdle, SetState, RuntimeOnly
<1>37. CASE UNCHANGED vars
  BY <1>37 DEF vars
<1> QED
  BY <1>1, <1>2, <1>3, <1>4, <1>5, <1>6, <1>7, <1>8, <1>9, <1>10, <1>11, <1>12, <1>13, <1>14,
     <1>15, <1>16, <1>17, <1>18, <1>19, <1>20, <1>21, <1>22, <1>23, <1>24, <1>25, <1>26, <1>27,
     <1>28, <1>29, <1>30, <1>31, <1>32, <1>33, <1>34, <1>35, <1>36, <1>37,
     <1>41, <1>42, <1>43, <1>44
  DEF Next, Serve, Act, Recover, Operate

\* A request carries what its next statement is about.
LEMMA HoldsAskedKept == CoreOK /\ [Next]_vars => HoldsAsked'
<1> SUFFICES ASSUME CoreOK, [Next]_vars PROVE HoldsAsked'
  OBVIOUS
<1> USE DEF CoreOK, TypeOK, ControlOK, RequestTypes, HoldsAsked
<1>1. ASSUME NEW a \in Agents, Receive(a) PROVE HoldsAsked'
  BY <1>1 DEF Receive
<1>2. ASSUME NEW a \in Agents, Unpark(a) PROVE HoldsAsked'
  BY <1>2 DEF Unpark
<1>3. ASSUME NEW a \in Agents, StartRun(a) PROVE HoldsAsked'
  BY <1>3 DEF StartRun
<1>4. ASSUME NEW a \in Agents, Return(a) PROVE HoldsAsked'
  BY <1>4 DEF Return
<1>5. ASSUME NEW a \in Agents, Drain(a) PROVE HoldsAsked'
  BY <1>5 DEF Drain
<1>6. ASSUME NEW a \in Agents, Turn(a) PROVE HoldsAsked'
  BY <1>6 DEF Turn, MoveTo, StopGoal, AtCap, Completed, HasParent
<1>7. ASSUME NEW a \in Agents, Claim(a) PROVE HoldsAsked'
  BY <1>7 DEF Claim
<1>8. ASSUME NEW a \in Agents, Step(a) PROVE HoldsAsked'
  BY <1>8 DEF Step
<1>9. ASSUME NEW a \in Agents, ToolWrite(a) PROVE HoldsAsked'
  BY <1>9 DEF ToolWrite, Signal
<1>10. ASSUME NEW a \in Agents, RunEnds(a) PROVE HoldsAsked'
  BY <1>10 DEF RunEnds, Completed, HasParent
<1>11. ASSUME NEW a \in Agents, Move(a) PROVE HoldsAsked'
  BY <1>11 DEF Move
<1>12. ASSUME NEW a \in Agents, Write(a) PROVE HoldsAsked'
  BY <1>12 DEF Write
<1>13. ASSUME NEW a \in Agents, Siblings(a) PROVE HoldsAsked'
  BY <1>13 DEF Siblings
<1>14. ASSUME NEW a \in Agents, ReadParent(a) PROVE HoldsAsked'
  BY <1>14 DEF ReadParent
<1>15. ASSUME NEW a \in Agents, Cas(a) PROVE HoldsAsked'
  BY <1>15 DEF Cas, WakeParent, Send
<1>16. ASSUME NEW a \in Agents, TaskDone(a) PROVE HoldsAsked'
  BY <1>16 DEF TaskDone, MayReport, Signal
<1>17. ASSUME NEW a \in Agents, TaskBlocked(a) PROVE HoldsAsked'
  BY <1>17 DEF TaskBlocked, MayReport
<1>18. ASSUME NEW a \in Agents, TaskContinue(a) PROVE HoldsAsked'
  BY <1>18 DEF TaskContinue, Beat, MayReport, Signal
<1>19. ASSUME NEW a \in Agents, RunFails(a) PROVE HoldsAsked'
  BY <1>19 DEF RunFails, MoveTo
<1>20. ASSUME NEW a \in Agents, Heartbeat(a) PROVE HoldsAsked'
  BY <1>20 DEF Heartbeat, Beat
<1>21. ASSUME NEW a \in Agents, NEW c \in Tasks, Delegate(a, c) PROVE HoldsAsked'
  BY <1>21 DEF Delegate, Insert
<1>22. ASSUME Watchdog PROVE HoldsAsked'
  BY <1>22 DEF Watchdog, Due
<1>23. ASSUME NEW t \in Tasks, RecoverStale(t) PROVE HoldsAsked'
  BY <1>23 DEF RecoverStale
<1>24. ASSUME NEW t \in Tasks, Expire(t) PROVE HoldsAsked'
  BY <1>24 DEF Expire
<1>25. ASSUME NEW t \in Tasks, Age(t) PROVE HoldsAsked'
  BY <1>25 DEF Age
<1>26. ASSUME NEW t \in Tasks, Create(t) PROVE HoldsAsked'
  BY <1>26 DEF Create, Insert
<1>27. ASSUME NEW r \in Requests, RequestWrite(r) PROVE HoldsAsked'
  BY <1>27 DEF RequestWrite, Ends, About, RowsOnly
<1>28. ASSUME NEW r \in Requests, Suspended(r) PROVE HoldsAsked'
  BY <1>28 DEF Suspended, Ends, About, SetState, SetToken, RuntimeOnly
<1>29. ASSUME NEW r \in Requests, Resumed(r) PROVE HoldsAsked'
  BY <1>29 DEF Resumed, Ends, About, SetState, SetToken, RuntimeOnly
<1>30. ASSUME NEW r \in Requests, NEW t \in Tasks, NEW s \in Statuses, RequestRead(r, t, s)
       PROVE HoldsAsked'
  BY <1>30 DEF RequestRead, Ask, About, RowsOnly
<1>31. ASSUME NEW r \in Requests, NEW a \in Agents, NEW t \in Tasks, ManualWake(r, a, t)
       PROVE HoldsAsked'
  BY <1>31 DEF ManualWake, AskOnce, Ask, WakeOnly, Send
<1>32. ASSUME NEW r \in Requests, NEW t \in Tasks, Dispatch(r, t) PROVE HoldsAsked'
  BY <1>32 DEF Dispatch, AskOnce, Ask, WakeOnly, Send
<1>33. ASSUME NEW r \in Requests, NEW t \in Tasks, Flag(r, t) PROVE HoldsAsked'
  BY <1>33 DEF Flag, AskOnce, Ask, RowsOnly
<1>34. ASSUME NEW r \in Requests, NEW a \in Agents, Suspend(r, a) PROVE HoldsAsked'
  BY <1>34 DEF Suspend, Ask, About, SetState, SetToken, RuntimeOnly
<1>35. ASSUME NEW r \in Requests, NEW a \in Agents, Resume(r, a) PROVE HoldsAsked'
  BY <1>35 DEF Resume, Ask, About, SetState, SetToken, RuntimeOnly
<1>36. ASSUME Crash PROVE HoldsAsked'
  BY <1>36 DEF Crash
<1>41. ASSUME NEW a \in Agents, HandOff(a) PROVE HoldsAsked'
  BY <1>41 DEF HandOff, Announce, Send
<1>42. ASSUME NEW t \in Tasks, Created(t) PROVE HoldsAsked'
  BY <1>42 DEF Created, Announce, Send
<1>43. ASSUME NEW t \in Tasks, Rewake(t) PROVE HoldsAsked'
  BY <1>43 DEF Rewake, Send
<1>44. ASSUME NEW r \in Requests, ResumeIdle(r) PROVE HoldsAsked'
  BY <1>44 DEF ResumeIdle, SetState, RuntimeOnly
<1>37. CASE UNCHANGED vars
  BY <1>37 DEF vars
<1> QED
  BY <1>1, <1>2, <1>3, <1>4, <1>5, <1>6, <1>7, <1>8, <1>9, <1>10, <1>11, <1>12, <1>13, <1>14,
     <1>15, <1>16, <1>17, <1>18, <1>19, <1>20, <1>21, <1>22, <1>23, <1>24, <1>25, <1>26, <1>27,
     <1>28, <1>29, <1>30, <1>31, <1>32, <1>33, <1>34, <1>35, <1>36, <1>37,
     <1>41, <1>42, <1>43, <1>44
  DEF Next, Serve, Act, Recover, Operate

\* The empty queue is a queue of whatever one likes.
LEMMA EmptySeq == \A S : <<>> \in Seq(S)
  OBVIOUS

\* Queues are of tasks, which come to their agents only.
LEMMA ReachKept == CoreOK /\ ReachOK /\ [Next]_vars => (QueueTypes /\ ReachOK)'
<1> SUFFICES ASSUME CoreOK /\ ReachOK, [Next]_vars PROVE (QueueTypes /\ ReachOK)'
  OBVIOUS
<1> USE DEF CoreOK, TypeOK, WorkerTypes
<1>1. ASSUME NEW a \in Agents, Receive(a) PROVE (QueueTypes /\ ReachOK)'
  <2>1. CASE wakeups[a] # <<>> /\ wakeups' = [wakeups EXCEPT ![a] = Tail(@)]
    <3>1. task' = [task EXCEPT ![a] = Head(wakeups[a])]
      BY <1>1, <2>1 DEF Drain, Receive
    <3> QED
      BY <2>1, <3>1, Taken DEF ReachOK, WorkerTypes
  <2>2. CASE UNCHANGED <<wakeups, task>>
    BY <2>2 DEF QueueTypes, ReachOK, Reached, Workers
  <2> QED
    BY <1>1, <2>1, <2>2 DEF Drain, Receive
<1>2. ASSUME NEW a \in Agents, Unpark(a) PROVE (QueueTypes /\ ReachOK)'
  BY <1>2 DEF Unpark, QueueTypes, ReachOK
<1>3. ASSUME NEW a \in Agents, StartRun(a) PROVE (QueueTypes /\ ReachOK)'
  BY <1>3 DEF StartRun, QueueTypes, ReachOK
<1>4. ASSUME NEW a \in Agents, Return(a) PROVE (QueueTypes /\ ReachOK)'
  BY <1>4, EmptySeq DEF Return, QueueTypes, ReachOK, WorkerTypes
<1>5. ASSUME NEW a \in Agents, Drain(a) PROVE (QueueTypes /\ ReachOK)'
  <2>1. CASE wakeups[a] # <<>> /\ wakeups' = [wakeups EXCEPT ![a] = Tail(@)]
    <3>1. task' = [task EXCEPT ![a] = Head(wakeups[a])]
      BY <1>5, <2>1 DEF Drain, Receive
    <3> QED
      BY <2>1, <3>1, Taken DEF ReachOK, WorkerTypes
  <2>2. CASE UNCHANGED <<wakeups, task>>
    BY <2>2 DEF QueueTypes, ReachOK, Reached, Workers
  <2> QED
    BY <1>5, <2>1, <2>2 DEF Drain, Receive
<1>6. ASSUME NEW a \in Agents, Turn(a) PROVE (QueueTypes /\ ReachOK)'
  BY <1>6 DEF Turn, MoveTo, StopGoal, AtCap, Completed, HasParent, QueueTypes, ReachOK
<1>7. ASSUME NEW a \in Agents, Claim(a) PROVE (QueueTypes /\ ReachOK)'
  BY <1>7 DEF Claim, QueueTypes, ReachOK
<1>8. ASSUME NEW a \in Agents, Step(a) PROVE (QueueTypes /\ ReachOK)'
  BY <1>8 DEF Step, QueueTypes, ReachOK
<1>9. ASSUME NEW a \in Agents, ToolWrite(a) PROVE (QueueTypes /\ ReachOK)'
  BY <1>9 DEF ToolWrite, Signal, QueueTypes, ReachOK
<1>10. ASSUME NEW a \in Agents, RunEnds(a) PROVE (QueueTypes /\ ReachOK)'
  BY <1>10 DEF RunEnds, Completed, HasParent, QueueTypes, ReachOK
<1>11. ASSUME NEW a \in Agents, Move(a) PROVE (QueueTypes /\ ReachOK)'
  BY <1>11 DEF Move, QueueTypes, ReachOK
<1>12. ASSUME NEW a \in Agents, Write(a) PROVE (QueueTypes /\ ReachOK)'
  BY <1>12 DEF Write, QueueTypes, ReachOK
<1>13. ASSUME NEW a \in Agents, Siblings(a) PROVE (QueueTypes /\ ReachOK)'
  BY <1>13 DEF Siblings, QueueTypes, ReachOK
<1>14. ASSUME NEW a \in Agents, ReadParent(a) PROVE (QueueTypes /\ ReachOK)'
  BY <1>14 DEF ReadParent, QueueTypes, ReachOK
<1>15. ASSUME NEW a \in Agents, Cas(a) PROVE (QueueTypes /\ ReachOK)'
  <2>1. LET p == Parent[task[a]] IN p \in Reached(AssignedTo[p]) /\ AssignedTo[p] \in Agents
    BY <1>15, OwnAgent DEF Cas, CoreOK, ControlOK, HoldsTask
  <2>2. task' = task
    BY <1>15 DEF Cas
  <2>3. CASE UNCHANGED wakeups
    BY <2>2, <2>3 DEF QueueTypes, ReachOK
  <2>4. CASE Send(AssignedTo[Parent[task[a]]], Parent[task[a]])
    BY <2>1, <2>2, <2>4, Sent DEF ReachOK
  <2> QED
    BY <1>15, <2>3, <2>4 DEF Cas, WakeParent
<1>16. ASSUME NEW a \in Agents, TaskDone(a) PROVE (QueueTypes /\ ReachOK)'
  BY <1>16 DEF TaskDone, MayReport, Signal, QueueTypes, ReachOK
<1>17. ASSUME NEW a \in Agents, TaskBlocked(a) PROVE (QueueTypes /\ ReachOK)'
  BY <1>17 DEF TaskBlocked, MayReport, QueueTypes, ReachOK
<1>18. ASSUME NEW a \in Agents, TaskContinue(a) PROVE (QueueTypes /\ ReachOK)'
  BY <1>18 DEF TaskContinue, Beat, MayReport, Signal, QueueTypes, ReachOK
<1>19. ASSUME NEW a \in Agents, RunFails(a) PROVE (QueueTypes /\ ReachOK)'
  BY <1>19 DEF RunFails, MoveTo, QueueTypes, ReachOK
<1>20. ASSUME NEW a \in Agents, Heartbeat(a) PROVE (QueueTypes /\ ReachOK)'
  BY <1>20 DEF Heartbeat, Beat, QueueTypes, ReachOK
<1>21. ASSUME NEW a \in Agents, NEW c \in Tasks, Delegate(a, c) PROVE (QueueTypes /\ ReachOK)'
  BY <1>21 DEF Delegate, Insert, QueueTypes, ReachOK
<1>22. ASSUME Watchdog PROVE (QueueTypes /\ ReachOK)'
  BY <1>22 DEF Watchdog, Due, QueueTypes, ReachOK
<1>23. ASSUME NEW t \in Tasks, RecoverStale(t) PROVE (QueueTypes /\ ReachOK)'
  BY <1>23 DEF RecoverStale, QueueTypes, ReachOK
<1>24. ASSUME NEW t \in Tasks, Expire(t) PROVE (QueueTypes /\ ReachOK)'
  BY <1>24 DEF Expire, QueueTypes, ReachOK
<1>25. ASSUME NEW t \in Tasks, Age(t) PROVE (QueueTypes /\ ReachOK)'
  BY <1>25 DEF Age, QueueTypes, ReachOK
<1>26. ASSUME NEW t \in Tasks, Create(t) PROVE (QueueTypes /\ ReachOK)'
  BY <1>26 DEF Create, Insert, QueueTypes, ReachOK
<1>27. ASSUME NEW r \in Requests, RequestWrite(r) PROVE (QueueTypes /\ ReachOK)'
  BY <1>27 DEF RequestWrite, Ends, About, RowsOnly, QueueTypes, ReachOK
<1>28. ASSUME NEW r \in Requests, Suspended(r) PROVE (QueueTypes /\ ReachOK)'
  BY <1>28 DEF Suspended, Ends, About, SetState, SetToken, RuntimeOnly, QueueTypes, ReachOK
<1>29. ASSUME NEW r \in Requests, Resumed(r) PROVE (QueueTypes /\ ReachOK)'
  BY <1>29 DEF Resumed, Ends, About, SetState, SetToken, RuntimeOnly, QueueTypes, ReachOK
<1>30. ASSUME NEW r \in Requests, NEW t \in Tasks, NEW s \in Statuses, RequestRead(r, t, s)
       PROVE (QueueTypes /\ ReachOK)'
  BY <1>30 DEF RequestRead, Ask, About, RowsOnly, QueueTypes, ReachOK
<1>31. ASSUME NEW r \in Requests, NEW a \in Agents, NEW t \in Tasks, ManualWake(r, a, t)
       PROVE (QueueTypes /\ ReachOK)'
  <2>1. t \in Reached(a) /\ a \in Agents
    BY <1>31, OwnAgent DEF ManualWake, AskOnce, Ask, WakeOnly, Reached, Workers
  <2>2. Send(a, t)
    BY <1>31 DEF ManualWake, AskOnce, Ask, WakeOnly, Reached, Workers
  <2>3. task' = task
    BY <1>31 DEF ManualWake, AskOnce, Ask, WakeOnly, Reached, Workers
  <2> QED
    BY <2>1, <2>2, <2>3, Sent DEF ReachOK
<1>32. ASSUME NEW r \in Requests, NEW t \in Tasks, Dispatch(r, t) PROVE (QueueTypes /\ ReachOK)'
  <2>1. t \in Reached(AssignedTo[t]) /\ AssignedTo[t] \in Agents
    BY <1>32, OwnAgent DEF Dispatch, AskOnce, Ask, WakeOnly
  <2>2. Send(AssignedTo[t], t)
    BY <1>32 DEF Dispatch, AskOnce, Ask, WakeOnly
  <2>3. task' = task
    BY <1>32 DEF Dispatch, AskOnce, Ask, WakeOnly
  <2> QED
    BY <2>1, <2>2, <2>3, Sent DEF ReachOK
<1>33. ASSUME NEW r \in Requests, NEW t \in Tasks, Flag(r, t) PROVE (QueueTypes /\ ReachOK)'
  BY <1>33 DEF Flag, AskOnce, Ask, RowsOnly, QueueTypes, ReachOK
<1>34. ASSUME NEW r \in Requests, NEW a \in Agents, Suspend(r, a) PROVE (QueueTypes /\ ReachOK)'
  BY <1>34 DEF Suspend, Ask, About, SetState, SetToken, RuntimeOnly, QueueTypes, ReachOK
<1>35. ASSUME NEW r \in Requests, NEW a \in Agents, Resume(r, a) PROVE (QueueTypes /\ ReachOK)'
  BY <1>35 DEF Resume, Ask, About, SetState, SetToken, RuntimeOnly, QueueTypes, ReachOK
<1>36. ASSUME Crash PROVE (QueueTypes /\ ReachOK)'
  BY <1>36, EmptySeq DEF Crash, QueueTypes, ReachOK, WorkerTypes
<1>41. ASSUME NEW a \in Agents, HandOff(a) PROVE (QueueTypes /\ ReachOK)'
  <2>0. PICK c \in Tasks : Send(AssignedTo[c], c)
    BY <1>41 DEF HandOff, Announce
  <2>1. c \in Reached(AssignedTo[c]) /\ AssignedTo[c] \in Agents
    BY OwnAgent
  <2>2. Send(AssignedTo[c], c)
    BY <2>0
  <2>3. task' = task
    BY <1>41 DEF HandOff
  <2> QED
    BY <2>1, <2>2, <2>3, Sent DEF ReachOK
<1>42. ASSUME NEW t \in Tasks, Created(t) PROVE (QueueTypes /\ ReachOK)'
  <2>1. t \in Reached(AssignedTo[t]) /\ AssignedTo[t] \in Agents
    BY OwnAgent
  <2>2. Send(AssignedTo[t], t)
    BY <1>42 DEF Created, Announce
  <2>3. task' = task
    BY <1>42 DEF Created
  <2> QED
    BY <2>1, <2>2, <2>3, Sent DEF ReachOK
<1>43. ASSUME NEW t \in Tasks, Rewake(t) PROVE (QueueTypes /\ ReachOK)'
  <2>1. t \in Reached(AssignedTo[t]) /\ AssignedTo[t] \in Agents
    BY OwnAgent
  <2>2. Send(AssignedTo[t], t)
    BY <1>43 DEF Rewake
  <2>3. task' = task
    BY <1>43 DEF Rewake
  <2> QED
    BY <2>1, <2>2, <2>3, Sent DEF ReachOK
<1>44. ASSUME NEW r \in Requests, ResumeIdle(r) PROVE (QueueTypes /\ ReachOK)'
  BY <1>44 DEF ResumeIdle, SetState, RuntimeOnly, QueueTypes, ReachOK
<1>37. CASE UNCHANGED vars
  BY <1>37 DEF vars, QueueTypes, ReachOK
<1> QED
  BY <1>1, <1>2, <1>3, <1>4, <1>5, <1>6, <1>7, <1>8, <1>9, <1>10, <1>11, <1>12, <1>13, <1>14,
     <1>15, <1>16, <1>17, <1>18, <1>19, <1>20, <1>21, <1>22, <1>23, <1>24, <1>25, <1>26, <1>27,
     <1>28, <1>29, <1>30, <1>31, <1>32, <1>33, <1>34, <1>35, <1>36, <1>37,
     <1>41, <1>42, <1>43, <1>44
  DEF Next, Serve, Act, Recover, Operate

\* A parent woken is marked.
LEMMA WokenKept == CoreOK /\ WokenOK /\ [Next]_vars => WokenOK'
<1> SUFFICES ASSUME CoreOK /\ WokenOK, [Next]_vars PROVE WokenOK'
  OBVIOUS
<1> USE DEF CoreOK, TypeOK, ControlOK, RowTypes, WokenOK, HoldsTask
<1>1. ASSUME NEW a \in Agents, Receive(a) PROVE WokenOK'
  BY <1>1 DEF Receive
<1>2. ASSUME NEW a \in Agents, Unpark(a) PROVE WokenOK'
  BY <1>2 DEF Unpark
<1>3. ASSUME NEW a \in Agents, StartRun(a) PROVE WokenOK'
  BY <1>3 DEF StartRun
<1>4. ASSUME NEW a \in Agents, Return(a) PROVE WokenOK'
  BY <1>4 DEF Return
<1>5. ASSUME NEW a \in Agents, Drain(a) PROVE WokenOK'
  BY <1>5 DEF Drain
<1>6. ASSUME NEW a \in Agents, Turn(a) PROVE WokenOK'
  BY <1>6 DEF Turn, MoveTo, StopGoal, AtCap, Completed, HasParent
<1>7. ASSUME NEW a \in Agents, Claim(a) PROVE WokenOK'
  BY <1>7 DEF Claim
<1>8. ASSUME NEW a \in Agents, Step(a) PROVE WokenOK'
  BY <1>8 DEF Step
<1>9. ASSUME NEW a \in Agents, ToolWrite(a) PROVE WokenOK'
  BY <1>9 DEF ToolWrite, Signal
<1>10. ASSUME NEW a \in Agents, RunEnds(a) PROVE WokenOK'
  BY <1>10 DEF RunEnds, Completed, HasParent
<1>11. ASSUME NEW a \in Agents, Move(a) PROVE WokenOK'
  BY <1>11 DEF Move
<1>12. ASSUME NEW a \in Agents, Write(a) PROVE WokenOK'
  BY <1>12 DEF Write
<1>13. ASSUME NEW a \in Agents, Siblings(a) PROVE WokenOK'
  BY <1>13 DEF Siblings
<1>14. ASSUME NEW a \in Agents, ReadParent(a) PROVE WokenOK'
  BY <1>14 DEF ReadParent
<1>15. ASSUME NEW a \in Agents, Cas(a) PROVE WokenOK'
  <2>1. Parent[task[a]] \in Tasks
    BY <1>15 DEF Cas
  <2>0. synthesis' = synthesis \/ synthesis' = synthesis \cup {Parent[task[a]]}
    BY <1>15 DEF Cas
  <2>4. /\ UNCHANGED <<status, lease, beating, flagged, iterations, made>>
        /\ faults' \in 0 .. MaxFaults
    BY <1>15 DEF Cas, WakeParent
  <2>2. CASE woken' = woken
    BY <2>0, <2>1, <2>2, <2>4
  <2>3. CASE /\ Parent[task[a]] \notin synthesis /\ synthesis' = synthesis \cup {Parent[task[a]]}
             /\ WakeParent(Parent[task[a]])
    <3>1. CASE woken[Parent[task[a]]] < 2
      BY <2>0, <2>1, <2>3, <2>4, <3>1 DEF WakeParent
    <3>2. CASE ~(woken[Parent[task[a]]] < 2)
      BY <2>0, <2>1, <2>3, <2>4, <3>2 DEF WakeParent
    <3> QED
      BY <3>1, <3>2
  <2> QED
    BY <1>15, <2>2, <2>3 DEF Cas
<1>16. ASSUME NEW a \in Agents, TaskDone(a) PROVE WokenOK'
  BY <1>16 DEF TaskDone, MayReport, Signal
<1>17. ASSUME NEW a \in Agents, TaskBlocked(a) PROVE WokenOK'
  BY <1>17 DEF TaskBlocked, MayReport
<1>18. ASSUME NEW a \in Agents, TaskContinue(a) PROVE WokenOK'
  BY <1>18 DEF TaskContinue, Beat, MayReport, Signal
<1>19. ASSUME NEW a \in Agents, RunFails(a) PROVE WokenOK'
  BY <1>19 DEF RunFails, MoveTo
<1>20. ASSUME NEW a \in Agents, Heartbeat(a) PROVE WokenOK'
  BY <1>20 DEF Heartbeat, Beat
<1>21. ASSUME NEW a \in Agents, NEW c \in Tasks, Delegate(a, c) PROVE WokenOK'
  BY <1>21 DEF Delegate, Insert
<1>22. ASSUME Watchdog PROVE WokenOK'
  BY <1>22 DEF Watchdog, Due
<1>23. ASSUME NEW t \in Tasks, RecoverStale(t) PROVE WokenOK'
  BY <1>23 DEF RecoverStale
<1>24. ASSUME NEW t \in Tasks, Expire(t) PROVE WokenOK'
  BY <1>24 DEF Expire
<1>25. ASSUME NEW t \in Tasks, Age(t) PROVE WokenOK'
  BY <1>25 DEF Age
<1>26. ASSUME NEW t \in Tasks, Create(t) PROVE WokenOK'
  BY <1>26 DEF Create, Insert
<1>27. ASSUME NEW r \in Requests, RequestWrite(r) PROVE WokenOK'
  BY <1>27 DEF RequestWrite, Ends, About, RowsOnly
<1>28. ASSUME NEW r \in Requests, Suspended(r) PROVE WokenOK'
  BY <1>28 DEF Suspended, Ends, About, SetState, SetToken, RuntimeOnly
<1>29. ASSUME NEW r \in Requests, Resumed(r) PROVE WokenOK'
  BY <1>29 DEF Resumed, Ends, About, SetState, SetToken, RuntimeOnly
<1>30. ASSUME NEW r \in Requests, NEW t \in Tasks, NEW s \in Statuses, RequestRead(r, t, s)
      PROVE WokenOK'
  BY <1>30 DEF RequestRead, Ask, About, RowsOnly
<1>31. ASSUME NEW r \in Requests, NEW a \in Agents, NEW t \in Tasks, ManualWake(r, a, t)
       PROVE WokenOK'
  BY <1>31 DEF ManualWake, AskOnce, Ask, WakeOnly, Send
<1>32. ASSUME NEW r \in Requests, NEW t \in Tasks, Dispatch(r, t) PROVE WokenOK'
  BY <1>32 DEF Dispatch, AskOnce, Ask, WakeOnly, Send
<1>33. ASSUME NEW r \in Requests, NEW t \in Tasks, Flag(r, t) PROVE WokenOK'
  BY <1>33 DEF Flag, AskOnce, Ask, RowsOnly
<1>34. ASSUME NEW r \in Requests, NEW a \in Agents, Suspend(r, a) PROVE WokenOK'
  BY <1>34 DEF Suspend, Ask, About, SetState, SetToken, RuntimeOnly
<1>35. ASSUME NEW r \in Requests, NEW a \in Agents, Resume(r, a) PROVE WokenOK'
  BY <1>35 DEF Resume, Ask, About, SetState, SetToken, RuntimeOnly
<1>36. ASSUME Crash PROVE WokenOK'
  BY <1>36 DEF Crash
<1>41. ASSUME NEW a \in Agents, HandOff(a) PROVE WokenOK'
  BY <1>41 DEF HandOff, Announce, Send
<1>42. ASSUME NEW t \in Tasks, Created(t) PROVE WokenOK'
  BY <1>42 DEF Created, Announce, Send
<1>43. ASSUME NEW t \in Tasks, Rewake(t) PROVE WokenOK'
  BY <1>43 DEF Rewake, Send
<1>44. ASSUME NEW r \in Requests, ResumeIdle(r) PROVE WokenOK'
  BY <1>44 DEF ResumeIdle, SetState, RuntimeOnly
<1>37. CASE UNCHANGED vars
  BY <1>37 DEF vars
<1> QED
  BY <1>1, <1>2, <1>3, <1>4, <1>5, <1>6, <1>7, <1>8, <1>9, <1>10, <1>11, <1>12, <1>13, <1>14,
     <1>15, <1>16, <1>17, <1>18, <1>19, <1>20, <1>21, <1>22, <1>23, <1>24, <1>25, <1>26, <1>27,
     <1>28, <1>29, <1>30, <1>31, <1>32, <1>33, <1>34, <1>35, <1>36, <1>37,
     <1>41, <1>42, <1>43, <1>44
  DEF Next, Serve, Act, Recover, Operate

\* A parked runtime is owed its token.
LEMMA ParkedKept == CoreOK /\ ParkedCanWake /\ [Next]_vars => ParkedCanWake'
<1> SUFFICES ASSUME CoreOK /\ ParkedCanWake, [Next]_vars PROVE ParkedCanWake'
  OBVIOUS
<1> USE DEF CoreOK, TypeOK, ControlOK, RuntimeTypes, RequestTypes, HoldsAsked, ParkedCanWake
<1>1. ASSUME NEW a \in Agents, Receive(a) PROVE ParkedCanWake'
  BY <1>1 DEF Receive
<1>2. ASSUME NEW a \in Agents, Unpark(a) PROVE ParkedCanWake'
  BY <1>2 DEF Unpark
<1>3. ASSUME NEW a \in Agents, StartRun(a) PROVE ParkedCanWake'
  BY <1>3 DEF StartRun
<1>4. ASSUME NEW a \in Agents, Return(a) PROVE ParkedCanWake'
  BY <1>4 DEF Return
<1>5. ASSUME NEW a \in Agents, Drain(a) PROVE ParkedCanWake'
  BY <1>5 DEF Drain
<1>6. ASSUME NEW a \in Agents, Turn(a) PROVE ParkedCanWake'
  BY <1>6 DEF Turn, MoveTo, StopGoal, AtCap, Completed, HasParent
<1>7. ASSUME NEW a \in Agents, Claim(a) PROVE ParkedCanWake'
  BY <1>7 DEF Claim
<1>8. ASSUME NEW a \in Agents, Step(a) PROVE ParkedCanWake'
  BY <1>8 DEF Step
<1>9. ASSUME NEW a \in Agents, ToolWrite(a) PROVE ParkedCanWake'
  BY <1>9 DEF ToolWrite, Signal
<1>10. ASSUME NEW a \in Agents, RunEnds(a) PROVE ParkedCanWake'
  BY <1>10 DEF RunEnds, Completed, HasParent
<1>11. ASSUME NEW a \in Agents, Move(a) PROVE ParkedCanWake'
  BY <1>11 DEF Move
<1>12. ASSUME NEW a \in Agents, Write(a) PROVE ParkedCanWake'
  BY <1>12 DEF Write
<1>13. ASSUME NEW a \in Agents, Siblings(a) PROVE ParkedCanWake'
  BY <1>13 DEF Siblings
<1>14. ASSUME NEW a \in Agents, ReadParent(a) PROVE ParkedCanWake'
  BY <1>14 DEF ReadParent
<1>15. ASSUME NEW a \in Agents, Cas(a) PROVE ParkedCanWake'
  BY <1>15 DEF Cas, WakeParent, Send
<1>16. ASSUME NEW a \in Agents, TaskDone(a) PROVE ParkedCanWake'
  BY <1>16 DEF TaskDone, MayReport, Signal
<1>17. ASSUME NEW a \in Agents, TaskBlocked(a) PROVE ParkedCanWake'
  BY <1>17 DEF TaskBlocked, MayReport
<1>18. ASSUME NEW a \in Agents, TaskContinue(a) PROVE ParkedCanWake'
  BY <1>18 DEF TaskContinue, Beat, MayReport, Signal
<1>19. ASSUME NEW a \in Agents, RunFails(a) PROVE ParkedCanWake'
  BY <1>19 DEF RunFails, MoveTo
<1>20. ASSUME NEW a \in Agents, Heartbeat(a) PROVE ParkedCanWake'
  BY <1>20 DEF Heartbeat, Beat
<1>21. ASSUME NEW a \in Agents, NEW c \in Tasks, Delegate(a, c) PROVE ParkedCanWake'
  BY <1>21 DEF Delegate, Insert
<1>22. ASSUME Watchdog PROVE ParkedCanWake'
  BY <1>22 DEF Watchdog, Due
<1>23. ASSUME NEW t \in Tasks, RecoverStale(t) PROVE ParkedCanWake'
  BY <1>23 DEF RecoverStale
<1>24. ASSUME NEW t \in Tasks, Expire(t) PROVE ParkedCanWake'
  BY <1>24 DEF Expire
<1>25. ASSUME NEW t \in Tasks, Age(t) PROVE ParkedCanWake'
  BY <1>25 DEF Age
<1>26. ASSUME NEW t \in Tasks, Create(t) PROVE ParkedCanWake'
  BY <1>26 DEF Create, Insert
<1>27. ASSUME NEW r \in Requests, RequestWrite(r) PROVE ParkedCanWake'
  BY <1>27 DEF RequestWrite, Ends, About, RowsOnly
<1>28. ASSUME NEW r \in Requests, Suspended(r) PROVE ParkedCanWake'
  BY <1>28 DEF Suspended, Ends, About, SetState, SetToken, RuntimeOnly
<1>29. ASSUME NEW r \in Requests, Resumed(r) PROVE ParkedCanWake'
  BY <1>29 DEF Resumed, Ends, About, SetState, SetToken, RuntimeOnly
<1>30. ASSUME NEW r \in Requests, NEW t \in Tasks, NEW s \in Statuses, RequestRead(r, t, s)
       PROVE ParkedCanWake'
  BY <1>30 DEF RequestRead, Ask, About, RowsOnly
<1>31. ASSUME NEW r \in Requests, NEW a \in Agents, NEW t \in Tasks, ManualWake(r, a, t)
       PROVE ParkedCanWake'
  BY <1>31 DEF ManualWake, AskOnce, Ask, WakeOnly, Send
<1>32. ASSUME NEW r \in Requests, NEW t \in Tasks, Dispatch(r, t) PROVE ParkedCanWake'
  BY <1>32 DEF Dispatch, AskOnce, Ask, WakeOnly, Send
<1>33. ASSUME NEW r \in Requests, NEW t \in Tasks, Flag(r, t) PROVE ParkedCanWake'
  BY <1>33 DEF Flag, AskOnce, Ask, RowsOnly
<1>34. ASSUME NEW r \in Requests, NEW a \in Agents, Suspend(r, a) PROVE ParkedCanWake'
  BY <1>34 DEF Suspend, Ask, About, SetState, SetToken, RuntimeOnly
<1>35. ASSUME NEW r \in Requests, NEW a \in Agents, Resume(r, a) PROVE ParkedCanWake'
  BY <1>35 DEF Resume, Ask, About, SetState, SetToken, RuntimeOnly
<1>36. ASSUME Crash PROVE ParkedCanWake'
  BY <1>36 DEF Crash
<1>41. ASSUME NEW a \in Agents, HandOff(a) PROVE ParkedCanWake'
  BY <1>41 DEF HandOff, Announce, Send
<1>42. ASSUME NEW t \in Tasks, Created(t) PROVE ParkedCanWake'
  BY <1>42 DEF Created, Announce, Send
<1>43. ASSUME NEW t \in Tasks, Rewake(t) PROVE ParkedCanWake'
  BY <1>43 DEF Rewake, Send
<1>44. ASSUME NEW r \in Requests, ResumeIdle(r) PROVE ParkedCanWake'
  BY <1>44 DEF ResumeIdle, SetState, RuntimeOnly
<1>37. CASE UNCHANGED vars
  BY <1>37 DEF vars
<1> QED
  BY <1>1, <1>2, <1>3, <1>4, <1>5, <1>6, <1>7, <1>8, <1>9, <1>10, <1>11, <1>12, <1>13, <1>14,
     <1>15, <1>16, <1>17, <1>18, <1>19, <1>20, <1>21, <1>22, <1>23, <1>24, <1>25, <1>26, <1>27,
     <1>28, <1>29, <1>30, <1>31, <1>32, <1>33, <1>34, <1>35, <1>36, <1>37,
     <1>41, <1>42, <1>43, <1>44
  DEF Next, Serve, Act, Recover, Operate

\* Where no statement is refused, an iterated task has its lease.
LEMMA LeaseKept == CoreOK /\ ("db_error" \notin Events) /\ LeaseOK /\ [Next]_vars => LeaseOK'
<1> SUFFICES ASSUME CoreOK /\ ("db_error" \notin Events) /\ LeaseOK, [Next]_vars PROVE LeaseOK'
  OBVIOUS
<1> USE DEF CoreOK, TypeOK, ControlOK, RowTypes, RuntimeTypes, WorkerTypes,
             HoldsTask, LeaseOK, Working
<1>1. ASSUME NEW a \in Agents, Receive(a) PROVE LeaseOK'
  BY <1>1 DEF Receive
<1>2. ASSUME NEW a \in Agents, Unpark(a) PROVE LeaseOK'
  BY <1>2 DEF Unpark
<1>3. ASSUME NEW a \in Agents, StartRun(a) PROVE LeaseOK'
  BY <1>3 DEF StartRun
<1>4. ASSUME NEW a \in Agents, Return(a) PROVE LeaseOK'
  BY <1>4 DEF Return
<1>5. ASSUME NEW a \in Agents, Drain(a) PROVE LeaseOK'
  BY <1>5 DEF Drain
<1>6. ASSUME NEW a \in Agents, Turn(a) PROVE LeaseOK'
  BY <1>6 DEF Turn, MoveTo, StopGoal, AtCap, Completed, HasParent
<1>7. ASSUME NEW a \in Agents, Claim(a) PROVE LeaseOK'
  BY <1>7 DEF Claim
<1>8. ASSUME NEW a \in Agents, Step(a) PROVE LeaseOK'
  BY <1>8 DEF Step
<1>9. ASSUME NEW a \in Agents, ToolWrite(a) PROVE LeaseOK'
  BY <1>9 DEF ToolWrite, Signal
<1>10. ASSUME NEW a \in Agents, RunEnds(a) PROVE LeaseOK'
  BY <1>10 DEF RunEnds, Completed, HasParent
<1>11. ASSUME NEW a \in Agents, Move(a) PROVE LeaseOK'
  BY <1>11 DEF Move
<1>12. ASSUME NEW a \in Agents, Write(a) PROVE LeaseOK'
  BY <1>12 DEF Write
<1>13. ASSUME NEW a \in Agents, Siblings(a) PROVE LeaseOK'
  BY <1>13 DEF Siblings
<1>14. ASSUME NEW a \in Agents, ReadParent(a) PROVE LeaseOK'
  BY <1>14 DEF ReadParent
<1>15. ASSUME NEW a \in Agents, Cas(a) PROVE LeaseOK'
  BY <1>15 DEF Cas, WakeParent, Send
<1>16. ASSUME NEW a \in Agents, TaskDone(a) PROVE LeaseOK'
  BY <1>16 DEF TaskDone, MayReport, Signal
<1>17. ASSUME NEW a \in Agents, TaskBlocked(a) PROVE LeaseOK'
  BY <1>17 DEF TaskBlocked, MayReport
<1>18. ASSUME NEW a \in Agents, TaskContinue(a) PROVE LeaseOK'
  BY <1>18 DEF TaskContinue, Beat, MayReport, Signal
<1>19. ASSUME NEW a \in Agents, RunFails(a) PROVE LeaseOK'
  BY <1>19 DEF RunFails, MoveTo
<1>20. ASSUME NEW a \in Agents, Heartbeat(a) PROVE LeaseOK'
  BY <1>20 DEF Heartbeat, Beat
<1>21. ASSUME NEW a \in Agents, NEW c \in Tasks, Delegate(a, c) PROVE LeaseOK'
  BY <1>21 DEF Delegate, Insert
<1>22. ASSUME Watchdog PROVE LeaseOK'
  BY <1>22 DEF Watchdog, Due
<1>23. ASSUME NEW t \in Tasks, RecoverStale(t) PROVE LeaseOK'
  BY <1>23 DEF RecoverStale
<1>24. ASSUME NEW t \in Tasks, Expire(t) PROVE LeaseOK'
  BY <1>24 DEF Expire
<1>25. ASSUME NEW t \in Tasks, Age(t) PROVE LeaseOK'
  BY <1>25 DEF Age
<1>26. ASSUME NEW t \in Tasks, Create(t) PROVE LeaseOK'
  BY <1>26 DEF Create, Insert
<1>27. ASSUME NEW r \in Requests, RequestWrite(r) PROVE LeaseOK'
  BY <1>27 DEF RequestWrite, Ends, About, RowsOnly
<1>28. ASSUME NEW r \in Requests, Suspended(r) PROVE LeaseOK'
  BY <1>28 DEF Suspended, Ends, About, SetState, SetToken, RuntimeOnly
<1>29. ASSUME NEW r \in Requests, Resumed(r) PROVE LeaseOK'
  BY <1>29 DEF Resumed, Ends, About, SetState, SetToken, RuntimeOnly
<1>30. ASSUME NEW r \in Requests, NEW t \in Tasks, NEW s \in Statuses, RequestRead(r, t, s)
      PROVE LeaseOK'
  BY <1>30 DEF RequestRead, Ask, About, RowsOnly
<1>31. ASSUME NEW r \in Requests, NEW a \in Agents, NEW t \in Tasks, ManualWake(r, a, t)
       PROVE LeaseOK'
  BY <1>31 DEF ManualWake, AskOnce, Ask, WakeOnly, Send
<1>32. ASSUME NEW r \in Requests, NEW t \in Tasks, Dispatch(r, t) PROVE LeaseOK'
  BY <1>32 DEF Dispatch, AskOnce, Ask, WakeOnly, Send
<1>33. ASSUME NEW r \in Requests, NEW t \in Tasks, Flag(r, t) PROVE LeaseOK'
  BY <1>33 DEF Flag, AskOnce, Ask, RowsOnly
<1>34. ASSUME NEW r \in Requests, NEW a \in Agents, Suspend(r, a) PROVE LeaseOK'
  BY <1>34 DEF Suspend, Ask, About, SetState, SetToken, RuntimeOnly
<1>35. ASSUME NEW r \in Requests, NEW a \in Agents, Resume(r, a) PROVE LeaseOK'
  BY <1>35 DEF Resume, Ask, About, SetState, SetToken, RuntimeOnly
<1>36. ASSUME Crash PROVE LeaseOK'
  BY <1>36 DEF Crash
<1>41. ASSUME NEW a \in Agents, HandOff(a) PROVE LeaseOK'
  BY <1>41 DEF HandOff, Announce, Send
<1>42. ASSUME NEW t \in Tasks, Created(t) PROVE LeaseOK'
  BY <1>42 DEF Created, Announce, Send
<1>43. ASSUME NEW t \in Tasks, Rewake(t) PROVE LeaseOK'
  BY <1>43 DEF Rewake, Send
<1>44. ASSUME NEW r \in Requests, ResumeIdle(r) PROVE LeaseOK'
  BY <1>44 DEF ResumeIdle, SetState, RuntimeOnly
<1>37. CASE UNCHANGED vars
  BY <1>37 DEF vars
<1> QED
  BY <1>1, <1>2, <1>3, <1>4, <1>5, <1>6, <1>7, <1>8, <1>9, <1>10, <1>11, <1>12, <1>13, <1>14,
     <1>15, <1>16, <1>17, <1>18, <1>19, <1>20, <1>21, <1>22, <1>23, <1>24, <1>25, <1>26, <1>27,
     <1>28, <1>29, <1>30, <1>31, <1>32, <1>33, <1>34, <1>35, <1>36, <1>37,
     <1>41, <1>42, <1>43, <1>44
  DEF Next, Serve, Act, Recover, Operate

\* The agents that owe an iteration can be counted.
LEMMA OwingFinite == \A t \in Tasks : /\ IsFiniteSet(Owing(t)) /\ Cardinality(Owing(t)) \in Nat
                                      /\ IsFiniteSet(Workers(t)) /\ Cardinality(Workers(t)) \in Nat
<1>1. \A t \in Tasks : Owing(t) \subseteq Agents /\ Workers(t) \subseteq Agents
  BY DEF Owing, Workers
<1> QED
  BY <1>1, FS_Subset, FS_CardinalityType

\* Fewer agents owe an iteration, and none was counted.
LEMMA FewerOwing ==
  ASSUME RowTypes, IterationsOK, UNCHANGED iterations, \A t \in Tasks : Owing(t)' \subseteq Owing(t)
  PROVE  IterationsOK'
<1> SUFFICES ASSUME NEW t \in Tasks
             PROVE  iterations[t] + Cardinality(Owing(t)')
                      <= MaxIterations + Cardinality(Workers(t)) - 1
  BY DEF IterationsOK, Workers
<1>1. Cardinality(Owing(t)') \in Nat /\ Cardinality(Owing(t)') <= Cardinality(Owing(t))
  BY OwingFinite, FS_Subset, FS_CardinalityType
<1>2. iterations[t] \in Nat /\ Cardinality(Owing(t)) \in Nat /\ Cardinality(Workers(t)) \in Nat
  BY OwingFinite DEF RowTypes
<1>3. iterations[t] + Cardinality(Owing(t)) <= MaxIterations + Cardinality(Workers(t)) - 1
  BY DEF IterationsOK
<1> QED
  BY <1>1, <1>2, <1>3

\* Agents past the check are counted.
LEMMA IterationsKept ==
  MaxIterations > 0 /\ CoreOK /\ ReachOK /\ ReachOK' /\ IterationsOK /\ [Next]_vars
  => IterationsOK'
<1> SUFFICES ASSUME MaxIterations > 0, CoreOK, ReachOK, ReachOK', IterationsOK, [Next]_vars
             PROVE  IterationsOK'
  OBVIOUS
<1> USE DEF CoreOK, TypeOK, ControlOK
<1> DEFINE Quiet == UNCHANGED iterations /\ \A u \in Tasks : Owing(u)' \subseteq Owing(u)
<1>1. ASSUME NEW a \in Agents, Receive(a) PROVE Quiet
  BY <1>1 DEF Receive, Owing, RuntimeTypes, WorkerTypes
<1>2. ASSUME NEW a \in Agents, Unpark(a) PROVE Quiet
  BY <1>2 DEF Unpark, Owing, RuntimeTypes, WorkerTypes
<1>3. ASSUME NEW a \in Agents, StartRun(a) PROVE Quiet
  BY <1>3 DEF StartRun, Owing, RuntimeTypes, WorkerTypes
<1>4. ASSUME NEW a \in Agents, Return(a) PROVE Quiet
  BY <1>4 DEF Return, Owing, RuntimeTypes, WorkerTypes
<1>5. ASSUME NEW a \in Agents, Drain(a) PROVE Quiet
  BY <1>5 DEF Drain, Owing, RuntimeTypes, WorkerTypes
<1>6. ASSUME NEW a \in Agents, Turn(a) PROVE IterationsOK'
  <2>1. task[a] \in Tasks /\ task' = task /\ iterations' = iterations
    BY <1>6 DEF Turn, HoldsTask
  <2>2. CASE pc' = [pc EXCEPT ![a] = "claim"] /\ ~AtCap(task[a])
    <3> SUFFICES ASSUME NEW t \in Tasks
                 PROVE  iterations[t] + Cardinality(Owing(t)')
                          <= MaxIterations + Cardinality(Workers(t)) - 1
      BY <2>1 DEF IterationsOK, Workers
    <3>1. CASE t # task[a]
      <4>1. Owing(t)' = Owing(t)
        BY <2>1, <2>2, <3>1 DEF Owing, RuntimeTypes
      <4> QED
        BY <4>1 DEF IterationsOK
    <3>2. CASE t = task[a]
      <4>1. Owing(t)' \subseteq Workers(t)
        BY DEF Owing, ReachOK, Reached
      <4>2. /\ Cardinality(Owing(t)') <= Cardinality(Workers(t))
            /\ Cardinality(Owing(t)') \in Nat /\ Cardinality(Workers(t)) \in Nat
        BY <4>1, OwingFinite, FS_Subset, FS_CardinalityType
      <4>3. iterations[t] \in Nat /\ iterations[t] < MaxIterations
        BY <2>2, <3>2 DEF AtCap, RowTypes
      <4> QED
        BY <4>2, <4>3
    <3> QED
      BY <3>1, <3>2
  <2>3. CASE pc' = [pc EXCEPT ![a] = "move"] \/ pc' = [pc EXCEPT ![a] = "return"]
             \/ pc' = [pc EXCEPT ![a] = "siblings"]
    BY <2>1, <2>3, FewerOwing DEF Owing, RuntimeTypes
  <2>4. Turn(a) => (pc' = [pc EXCEPT ![a] = "claim"] /\ ~AtCap(task[a]))
                   \/ pc' = [pc EXCEPT ![a] = "move"] \/ pc' = [pc EXCEPT ![a] = "return"]
                   \/ pc' = [pc EXCEPT ![a] = "siblings"]
    BY DEF Turn, MoveTo, StopGoal, Completed
  <2> QED
    BY <1>6, <2>2, <2>3, <2>4
<1>7. ASSUME NEW a \in Agents, Claim(a) PROVE Quiet
  BY <1>7 DEF Claim, Owing, RuntimeTypes, WorkerTypes
<1>8. ASSUME NEW a \in Agents, Step(a) PROVE IterationsOK'
  <2>1. /\ task[a] \in Tasks /\ task' = task /\ pc[a] = "step" /\ pc' = [pc EXCEPT ![a] = "run"]
        /\ \/ iterations' = iterations
           \/ iterations' = [iterations EXCEPT ![task[a]] = @ + 1]
    BY <1>8 DEF Step, HoldsTask
  <2>2. \A t \in Tasks : Owing(t)' = Owing(t) \ {a}
    BY <2>1 DEF Owing, RuntimeTypes
  <2>3. CASE iterations' = iterations
    BY <2>2, <2>3, FewerOwing
  <2>4. CASE iterations' = [iterations EXCEPT ![task[a]] = @ + 1]
    <3> SUFFICES ASSUME NEW t \in Tasks
                 PROVE  iterations'[t] + Cardinality(Owing(t)')
                          <= MaxIterations + Cardinality(Workers(t)) - 1
      BY DEF IterationsOK, Workers
    <3>1. /\ iterations[t] + Cardinality(Owing(t)) <= MaxIterations + Cardinality(Workers(t)) - 1
          /\ iterations[t] \in Nat /\ Cardinality(Owing(t)) \in Nat
          /\ Cardinality(Workers(t)) \in Nat
      BY OwingFinite DEF IterationsOK, RowTypes
    <3>2. CASE t = task[a]
      <4>1. a \in Owing(t)
        BY <2>1, <3>2 DEF Owing
      <4>2. Cardinality(Owing(t)') = Cardinality(Owing(t)) - 1
        BY <2>2, <4>1, OwingFinite, FS_RemoveElement
      <4>3. iterations'[t] = iterations[t] + 1
        BY <2>4, <3>2 DEF RowTypes
      <4> QED
        BY <3>1, <4>2, <4>3
    <3>3. CASE t # task[a]
      <4>1. a \notin Owing(t)
        BY <3>3 DEF Owing
      <4>2. Owing(t)' = Owing(t)
        <5>1. Owing(t)' = Owing(t) \ {a}
          BY <2>2
        <5> QED
          BY <4>1, <5>1
      <4>3. iterations'[t] = iterations[t]
        BY <2>4, <3>3 DEF RowTypes
      <4> QED
        BY <3>1, <4>2, <4>3
    <3> QED
      BY <3>2, <3>3
  <2> QED
    BY <2>1, <2>3, <2>4
<1>9. ASSUME NEW a \in Agents, ToolWrite(a) PROVE Quiet
  BY <1>9 DEF ToolWrite, Signal, Owing, RuntimeTypes, WorkerTypes
<1>10. ASSUME NEW a \in Agents, RunEnds(a) PROVE Quiet
  BY <1>10 DEF RunEnds, Completed, HasParent, Owing, RuntimeTypes, WorkerTypes
<1>11. ASSUME NEW a \in Agents, Move(a) PROVE Quiet
  BY <1>11 DEF Move, Owing, RuntimeTypes, WorkerTypes
<1>12. ASSUME NEW a \in Agents, Write(a) PROVE Quiet
  BY <1>12 DEF Write, Owing, RuntimeTypes, WorkerTypes
<1>13. ASSUME NEW a \in Agents, Siblings(a) PROVE Quiet
  BY <1>13 DEF Siblings, Owing, RuntimeTypes, WorkerTypes
<1>14. ASSUME NEW a \in Agents, ReadParent(a) PROVE Quiet
  BY <1>14 DEF ReadParent, Owing, RuntimeTypes, WorkerTypes
<1>15. ASSUME NEW a \in Agents, Cas(a) PROVE Quiet
  BY <1>15 DEF Cas, WakeParent, Send, Owing, RuntimeTypes, WorkerTypes
<1>16. ASSUME NEW a \in Agents, TaskDone(a) PROVE Quiet
  BY <1>16 DEF TaskDone, MayReport, Signal, Owing, RuntimeTypes, WorkerTypes
<1>17. ASSUME NEW a \in Agents, TaskBlocked(a) PROVE Quiet
  BY <1>17 DEF TaskBlocked, MayReport, Owing, RuntimeTypes, WorkerTypes
<1>18. ASSUME NEW a \in Agents, TaskContinue(a) PROVE Quiet
  BY <1>18 DEF TaskContinue, Beat, MayReport, Signal, Owing, RuntimeTypes, WorkerTypes
<1>19. ASSUME NEW a \in Agents, RunFails(a) PROVE Quiet
  BY <1>19 DEF RunFails, MoveTo, Owing, RuntimeTypes, WorkerTypes
<1>20. ASSUME NEW a \in Agents, Heartbeat(a) PROVE Quiet
  BY <1>20 DEF Heartbeat, Beat, Owing, RuntimeTypes, WorkerTypes
<1>21. ASSUME NEW a \in Agents, NEW c \in Tasks, Delegate(a, c) PROVE Quiet
  BY <1>21 DEF Delegate, Insert, Owing, RuntimeTypes, WorkerTypes
<1>22. ASSUME Watchdog PROVE Quiet
  BY <1>22 DEF Watchdog, Due, Owing, RuntimeTypes, WorkerTypes
<1>23. ASSUME NEW t \in Tasks, RecoverStale(t) PROVE Quiet
  BY <1>23 DEF RecoverStale, Owing, RuntimeTypes, WorkerTypes
<1>24. ASSUME NEW t \in Tasks, Expire(t) PROVE Quiet
  BY <1>24 DEF Expire, Owing, RuntimeTypes, WorkerTypes
<1>25. ASSUME NEW t \in Tasks, Age(t) PROVE Quiet
  BY <1>25 DEF Age, Owing, RuntimeTypes, WorkerTypes
<1>26. ASSUME NEW t \in Tasks, Create(t) PROVE Quiet
  BY <1>26 DEF Create, Insert, Owing, RuntimeTypes, WorkerTypes
<1>27. ASSUME NEW r \in Requests, RequestWrite(r) PROVE Quiet
  BY <1>27 DEF RequestWrite, Ends, About, RowsOnly, Owing, RuntimeTypes, WorkerTypes
<1>28. ASSUME NEW r \in Requests, Suspended(r) PROVE Quiet
  BY <1>28 DEF Suspended, Ends, About, SetState, SetToken, RuntimeOnly, Owing, RuntimeTypes,
     WorkerTypes
<1>29. ASSUME NEW r \in Requests, Resumed(r) PROVE Quiet
  BY <1>29 DEF Resumed, Ends, About, SetState, SetToken, RuntimeOnly, Owing, RuntimeTypes,
     WorkerTypes
<1>30. ASSUME NEW r \in Requests, NEW t \in Tasks, NEW s \in Statuses, RequestRead(r, t, s)
      PROVE Quiet
  BY <1>30 DEF RequestRead, Ask, About, RowsOnly, Owing, RuntimeTypes, WorkerTypes
<1>31. ASSUME NEW r \in Requests, NEW a \in Agents, NEW t \in Tasks, ManualWake(r, a, t) PROVE Quiet
  BY <1>31 DEF ManualWake, AskOnce, Ask, WakeOnly, Send, Owing, RuntimeTypes, WorkerTypes
<1>32. ASSUME NEW r \in Requests, NEW t \in Tasks, Dispatch(r, t) PROVE Quiet
  BY <1>32 DEF Dispatch, AskOnce, Ask, WakeOnly, Send, Owing, RuntimeTypes, WorkerTypes
<1>33. ASSUME NEW r \in Requests, NEW t \in Tasks, Flag(r, t) PROVE Quiet
  BY <1>33 DEF Flag, AskOnce, Ask, RowsOnly, Owing, RuntimeTypes, WorkerTypes
<1>34. ASSUME NEW r \in Requests, NEW a \in Agents, Suspend(r, a) PROVE Quiet
  BY <1>34 DEF Suspend, Ask, About, SetState, SetToken, RuntimeOnly, Owing, RuntimeTypes,
     WorkerTypes
<1>35. ASSUME NEW r \in Requests, NEW a \in Agents, Resume(r, a) PROVE Quiet
  BY <1>35 DEF Resume, Ask, About, SetState, SetToken, RuntimeOnly, Owing, RuntimeTypes,
     WorkerTypes
<1>36. ASSUME Crash PROVE Quiet
  BY <1>36 DEF Crash, Owing, RuntimeTypes, WorkerTypes
<1>41. ASSUME NEW a \in Agents, HandOff(a) PROVE Quiet
  BY <1>41 DEF HandOff, Announce, Send, Owing, RuntimeTypes, WorkerTypes
<1>42. ASSUME NEW t \in Tasks, Created(t) PROVE Quiet
  BY <1>42 DEF Created, Announce, Send, Owing, RuntimeTypes, WorkerTypes
<1>43. ASSUME NEW t \in Tasks, Rewake(t) PROVE Quiet
  BY <1>43 DEF Rewake, Send, Owing, RuntimeTypes, WorkerTypes
<1>44. ASSUME NEW r \in Requests, ResumeIdle(r) PROVE Quiet
  BY <1>44 DEF ResumeIdle, SetState, RuntimeOnly, Owing, RuntimeTypes, WorkerTypes
<1>37. CASE UNCHANGED vars
  BY <1>37, FewerOwing DEF vars, Owing
<1>38. CASE Quiet
  BY <1>38, FewerOwing
<1> HIDE DEF Quiet
<1> QED
  BY <1>1, <1>2, <1>3, <1>4, <1>5, <1>6, <1>7, <1>8, <1>9, <1>10, <1>11, <1>12, <1>13, <1>14,
     <1>15, <1>16, <1>17, <1>18, <1>19, <1>20, <1>21, <1>22, <1>23, <1>24, <1>25, <1>26, <1>27,
     <1>28, <1>29, <1>30, <1>31, <1>32, <1>33, <1>34, <1>35, <1>36, <1>37, <1>38,
     <1>41, <1>42, <1>43, <1>44
  DEF Next, Serve, Act, Recover, Operate

LEMMA CountGrows ==
  ASSUME NEW m \in Nat, NEW n \in Nat, NEW f \in Nat, NEW g \in Nat, m <= n + f, f <= g
  PROVE  m <= n + g /\ m + 1 <= n + 1 + g /\ m + 1 <= n + (f + 1)
  OBVIOUS

\* An iteration is counted, or cost a fault.
LEMMA MadeKept == CoreOK /\ MadeOK /\ [Next]_vars => MadeOK'
<1> SUFFICES ASSUME CoreOK, MadeOK, [Next]_vars, NEW t \in Tasks
             PROVE  made'[t] <= iterations'[t] + faults'
  BY DEF MadeOK
<1> USE DEF CoreOK, TypeOK, RowTypes
<1>0. made[t] \in Nat /\ iterations[t] \in Nat /\ faults \in Nat
      /\ made[t] <= iterations[t] + faults
  BY DEF MadeOK
<1>1. ASSUME NEW a \in Agents, Step(a) PROVE made'[t] <= iterations'[t] + faults'
  <2>1. CASE t = task[a]
    <3>1. made'[t] = made[t] + 1
      BY <1>1, <2>1 DEF Step
    <3>2. \/ iterations'[t] = iterations[t] + 1 /\ faults' = faults
          \/ iterations'[t] = iterations[t] /\ faults' = faults + 1
      BY <1>1, <2>1 DEF Step
    <3> QED
      BY <1>0, <3>1, <3>2, CountGrows
  <2>2. CASE t # task[a]
    <3>1. made'[t] = made[t] /\ iterations'[t] = iterations[t]
      BY <1>1, <2>2 DEF Step
    <3>2. faults' = faults \/ faults' = faults + 1
      BY <1>1 DEF Step
    <3> QED
      BY <1>0, <3>1, <3>2, CountGrows
  <2> QED
    BY <2>1, <2>2
<1>2. CASE UNCHANGED <<made, iterations>> /\ (faults' = faults \/ faults' = faults + 1)
  BY <1>0, <1>2, CountGrows
<1>3. ASSUME NEW a \in Agents, Serve(a), ~Step(a)
      PROVE  UNCHANGED <<made, iterations>> /\ (faults' = faults \/ faults' = faults + 1)
  BY <1>3 DEF Serve, Receive, Unpark, StartRun, Return, Drain, Turn, Claim, ToolWrite, HandOff,
              RunEnds, Move, Write, Siblings, ReadParent, Cas, WakeParent
<1>4. ASSUME NEW a \in Agents, Act(a)
      PROVE  UNCHANGED <<made, iterations>> /\ (faults' = faults \/ faults' = faults + 1)
  <2>1. CASE \E c \in Tasks : Delegate(a, c)
    BY <2>1 DEF Delegate, Insert
  <2>2. CASE ~(\E c \in Tasks : Delegate(a, c))
    BY <1>4, <2>2 DEF Act, TaskDone, TaskBlocked, TaskContinue, RunFails, Heartbeat
  <2> QED
    BY <2>1, <2>2
<1>5. ASSUME NEW u \in Tasks, Recover(u) \/ Create(u) \/ Created(u) \/ Watchdog \/ Crash
      PROVE  UNCHANGED <<made, iterations>> /\ (faults' = faults \/ faults' = faults + 1)
  BY <1>5 DEF Recover, Rewake, RecoverStale, Expire, Age, Create, Insert, Created, Watchdog, Crash
<1>6. ASSUME NEW q \in Requests, Operate(q) PROVE UNCHANGED <<made, iterations, faults>>
  BY <1>6 DEF Operate, RequestRead, RequestWrite, ManualWake, Dispatch, Flag, Suspend, Suspended,
              Resume, ResumeIdle, Resumed, RowsOnly, WakeOnly, RuntimeOnly
<1>7. CASE UNCHANGED vars
  BY <1>2, <1>7 DEF vars
<1> QED
  BY <1>1, <1>2, <1>3, <1>4, <1>5, <1>6, <1>7 DEF Next
-----------------------------------------------------------------------------
(* The claims. *)

LEMMA CoreKept == CoreOK /\ ReachOK /\ [Next]_vars => (CoreOK /\ ReachOK)'
  BY RowTypesKept, RuntimeTypesKept, WorkerTypesKept, RequestTypesKept, ReachKept, HoldsTaskKept,
     HoldsGoalKept, HoldsCountKept, HoldsAskedKept DEF CoreOK, TypeOK, ControlOK

LEMMA CoreInit == Init => CoreOK /\ ReachOK
<1> SUFFICES ASSUME Init PROVE CoreOK /\ ReachOK
  OBVIOUS
<1>1. RowTypes /\ RuntimeTypes /\ WorkerTypes /\ RequestTypes
  BY DEF Init, RowTypes, RuntimeTypes, WorkerTypes, RequestTypes, Points
<1>2. QueueTypes /\ ReachOK
  BY EmptySeq DEF Init, QueueTypes, ReachOK
<1>3. ControlOK
  BY DEF Init, ControlOK, HoldsTask, HoldsGoal, HoldsCount, HoldsAsked
<1> QED
  BY <1>1, <1>2, <1>3 DEF CoreOK, TypeOK

\* Rows, queues, goroutines and requests hold what the code can store in them,
\* whatever stale decision writes a row (gateway/task_worker.go).
THEOREM TasksTypeCorrect == Spec => []TypeOK
<1>1. CoreOK => TypeOK
  BY DEF CoreOK
<1> QED
  BY <1>1, CoreInit, CoreKept, PTL DEF Spec

\* No interleaving of Suspend and Resume leaves a runtime waiting for a token
\* nobody owes (agent/runtime.go).
THEOREM ParkedOwedToken == Spec => []ParkedCanWake
<1>1. Init => ParkedCanWake
  BY DEF Init, ParkedCanWake
<1> QED
  BY <1>1, CoreInit, CoreKept, ParkedKept, PTL DEF Spec

\* A parent is woken for synthesis at most once (gateway/task_coordinator.go).
THEOREM SynthesizedOnce == Spec => []SynthesisOnce
<1>1. Init => WokenOK
  BY DEF Init, WokenOK
<1>2. CoreOK /\ WokenOK => SynthesisOnce
  BY DEF CoreOK, TypeOK, RowTypes, WokenOK, SynthesisOnce
<1> QED
  BY <1>1, <1>2, CoreInit, CoreKept, WokenKept, PTL DEF Spec

\* A task is iterated no more often than its cap, the agents that may be past
\* the check at once and the increments the database refused allow (processTask,
\* IncrementIteration).
THEOREM IterationsStayBounded == Spec => []IterationsBounded
<1>1. Init => IterationsOK /\ MadeOK
  <2> SUFFICES ASSUME Init, NEW t \in Tasks
               PROVE  /\ iterations[t] + Cardinality(Owing(t))
                           <= MaxIterations + Cardinality(Workers(t)) - 1
                      /\ made[t] <= iterations[t] + faults
    BY DEF IterationsOK, MadeOK
  <2>1. Owing(t) = {} /\ iterations[t] = 0 /\ made[t] = 0 /\ faults = 0
    BY DEF Init, Owing
  <2>2. Cardinality(Workers(t)) \in Nat /\ Cardinality(Workers(t)) # 0
    <3>1. AssignedTo[t] \in Workers(t)
      BY DEF Workers
    <3>2. IsFiniteSet(Workers(t)) /\ Workers(t) # {}
      BY <3>1, OwingFinite
    <3> QED
      BY <3>2, OwingFinite, FS_EmptySet
  <2> QED
    BY <2>1, <2>2, FS_EmptySet
<1>2. CoreOK /\ IterationsOK /\ MadeOK => IterationsBounded
  <2> SUFFICES ASSUME CoreOK, IterationsOK, MadeOK, NEW t \in Tasks
               PROVE  made[t] <= MaxIterations + Cardinality(Workers(t)) - 1 + faults
    BY DEF IterationsBounded
  <2>1. /\ iterations[t] \in Nat /\ Cardinality(Owing(t)) \in Nat
        /\ Cardinality(Workers(t)) \in Nat /\ made[t] \in Nat /\ faults \in Nat
    BY OwingFinite DEF CoreOK, TypeOK, RowTypes
  <2>2. /\ iterations[t] + Cardinality(Owing(t)) <= MaxIterations + Cardinality(Workers(t)) - 1
        /\ made[t] <= iterations[t] + faults
    BY DEF IterationsOK, MadeOK
  <2> QED
    BY <2>1, <2>2
<1>3. CASE MaxIterations > 0
  BY <1>1, <1>2, <1>3, CoreInit, CoreKept, IterationsKept, MadeKept, PTL DEF Spec
<1>4. CASE ~(MaxIterations > 0)
  <2>1. IterationsBounded
    BY <1>4 DEF IterationsBounded
  <2> QED
    BY <2>1, PTL
<1> QED
  BY <1>3, <1>4

\* Where the database refuses nothing, the watchdog takes a task from no worker
\* that iterates it (recoverInflightTasks).
THEOREM ReclaimsOnlyDead == ASSUME "db_error" \notin Events PROVE Spec => LiveWorkKept
<1>1. Init => LeaseOK
  BY DEF Init, LeaseOK, Working
<1>2. CoreOK /\ LeaseOK =>
        [\A t \in Tasks :
           status[t] = "in_progress" /\ status'[t] = "assigned" /\ lease[t] # "held"
           => ~Worked(t)]_vars
  BY DEF LeaseOK, Worked
<1> QED
  BY <1>1, <1>2, CoreInit, CoreKept, LeaseKept, PTL DEF Spec, LiveWorkKept
-----------------------------------------------------------------------------
(* While nobody interferes, no wakeup is lost. *)

Calm == faults = 0 /\ \A r \in Requests : rpc[r] = "ready"
Own(a) == {t \in Tasks : AssignedTo[t] = a}
Queued(a) == {wakeups[a][i] : i \in 1 .. Len(wakeups[a])}

\* Runtimes serve their own tasks, and none was suspended.
RuntimesOK ==
  /\ flagged = {} /\ reclaimed = {}
  /\ \A a \in Agents :
       /\ state[a] # "suspended" /\ pc[a] # "parked"
       /\ task[a] \in Own(a) \cup {None} /\ Queued(a) \subseteq Own(a)
\* What a worker knows of its task's row: nobody else writes it.
TurnsOK ==
  \A a \in Agents :
    /\ pc[a] \in {"move", "write"} => goal[a] = "blocked"
    /\ signal[a] # None => pc[a] \in {"run", "tool", "handoff"}
    /\ signal[a] \in {"done", "blocked"} => status[task[a]] \in {"done", "blocked"}
    /\ pc[a] \in Working => status[task[a]] \in {"in_progress", "done", "blocked"}
\* A task in progress has its worker, and its lease.
HeldOK ==
  \A t \in Tasks : status[t] = "in_progress" =>
    /\ lease[t] = "held" /\ task[AssignedTo[t]] = t
    /\ pc[AssignedTo[t]] \in {"turn", "claim", "move", "write"} \cup Working
\* A task assigned is in the queue, or with an agent that has not decided yet.
TendedOK ==
  \A t \in Tasks : status[t] = "assigned" /\ ~AtCap(t) =>
    \/ t \in unsent \/ t \in Queued(AssignedTo[t])
    \/ task[AssignedTo[t]] = t /\ pc[AssignedTo[t]] \in {"start", "turn", "claim"}
QuietOK == Calm => RuntimesOK /\ TurnsOK /\ HeldOK /\ TendedOK

\* Tasks with subtasks, and the room a queue needs: until a task is announced, and
\* until it is triggered, a wakeup for it may be still to come.
Parents == {p \in Tasks : \E c \in Tasks : Parent[c] = p}
RoomOK ==
  \A t \in Tasks : status[t] = "absent" \/ t \in unsent \/ t \in Parents \ synthesis
                   => Len(wakeups[AssignedTo[t]]) < QueueCap

\* The steps nobody interferes with.
QuietNext ==
  \/ \E a \in Agents : Serve(a) \/ Act(a)
  \/ Watchdog
  \/ \E t \in Tasks : Rewake(t) \/ Expire(t) \/ Age(t) \/ Create(t) \/ Created(t)

\* An interference is never undone.
LEMMA CalmBefore == CoreOK /\ [Next]_vars /\ Calm' => Calm /\ (QuietNext \/ UNCHANGED vars)
<1> SUFFICES ASSUME CoreOK, [Next]_vars, Calm' PROVE Calm /\ (QuietNext \/ UNCHANGED vars)
  OBVIOUS
<1> USE DEF Calm, CoreOK, TypeOK, RowTypes, RequestTypes
<1>1. CASE UNCHANGED vars
  BY <1>1 DEF vars
<1>2. CASE QuietNext
  <2>1. rpc' = rpc
    BY <1>2 DEF QuietNext, Serve, Act, Receive, Unpark, StartRun, Return, Drain, Turn, Claim, Step,
                ToolWrite, RunEnds, Move, Write, Siblings, ReadParent, Cas, TaskDone, TaskBlocked,
                TaskContinue, RunFails, Heartbeat, Delegate, Insert, HandOff, Watchdog, Rewake,
                Expire, Age, Create, Created
  <2>2. faults' = faults \/ faults' = faults + 1
    <3>1. CASE \E a \in Agents : Serve(a)
      BY <3>1 DEF Serve, Receive, Unpark, StartRun, Return, Drain, Turn, Claim, Step, ToolWrite,
                  HandOff, RunEnds, Move, Write, Siblings, ReadParent, Cas, WakeParent
    <3>2. CASE \E a \in Agents : \E c \in Tasks : Delegate(a, c)
      BY <3>2 DEF Delegate, Insert
    <3>3. CASE \E a \in Agents : Act(a) /\ ~(\E c \in Tasks : Delegate(a, c))
      BY <3>3 DEF Act, TaskDone, TaskBlocked, TaskContinue, RunFails, Heartbeat
    <3>4. CASE Watchdog \/ \E t \in Tasks : Rewake(t) \/ Expire(t) \/ Age(t) \/ Create(t)
                                           \/ Created(t)
      BY <3>4 DEF Watchdog, Rewake, Expire, Age, Create, Insert, Created
    <3> QED
      BY <1>2, <3>1, <3>2, <3>3, <3>4 DEF QuietNext
  <2> QED
    BY <1>2, <2>1, <2>2
<1>3. ASSUME NEW r \in Requests, Operate(r) PROVE FALSE
  <2>1. rpc'[r] # "ready"
    BY <1>3 DEF Operate, RequestWrite, Suspended, ResumeIdle, Resumed, RequestRead, ManualWake,
                Dispatch, Flag, Suspend, Resume, Ends, AskOnce, Ask
  <2> QED
    BY <2>1
<1>4. ASSUME NEW t \in Tasks, RecoverStale(t) PROVE FALSE
  BY <1>4 DEF RecoverStale
<1>5. ASSUME Crash PROVE FALSE
  BY <1>5 DEF Crash
<1> QED
  BY <1>1, <1>2, <1>3, <1>4, <1>5 DEF Next, Recover, QuietNext

\* A queue with a signal more, where there was room, and with one fewer.
LEMMA SentOn ==
  ASSUME QueueTypes, NEW a \in Agents, NEW t \in Tasks, Send(a, t)
  PROVE  /\ Queued(a) \subseteq Queued(a)' /\ Queued(a)' \subseteq Queued(a) \cup {t}
         /\ Len(wakeups[a]) < QueueCap => t \in Queued(a)'
         /\ Len(wakeups'[a]) <= Len(wakeups[a]) + 1
         /\ \A b \in Agents \ {a} : wakeups'[b] = wakeups[b] /\ Queued(b)' = Queued(b)
<1>0. wakeups[a] \in Seq(Tasks) /\ Len(wakeups[a]) \in Nat
  BY DEF QueueTypes
<1>1. CASE Len(wakeups[a]) < QueueCap /\ wakeups' = [wakeups EXCEPT ![a] = Append(@, t)]
  <2>1. wakeups'[a] = Append(wakeups[a], t)
    BY <1>1 DEF QueueTypes
  <2>2. /\ Len(wakeups'[a]) = Len(wakeups[a]) + 1 /\ wakeups'[a][Len(wakeups[a]) + 1] = t
        /\ \A i \in 1 .. Len(wakeups[a]) : wakeups'[a][i] = wakeups[a][i]
    BY <1>0, <2>1
  <2>3. Queued(a) \subseteq Queued(a)' /\ t \in Queued(a)'
    <3>1. Len(wakeups[a]) + 1 \in 1 .. Len(wakeups'[a])
      BY <1>0, <2>2
    <3>2. t \in Queued(a)'
      BY <2>2, <3>1 DEF Queued
    <3>3. ASSUME NEW i \in 1 .. Len(wakeups[a]) PROVE wakeups[a][i] \in Queued(a)'
      <4>1. i \in 1 .. Len(wakeups'[a]) /\ wakeups'[a][i] = wakeups[a][i]
        BY <1>0, <2>2
      <4> QED
        BY <4>1 DEF Queued
    <3> QED
      BY <3>2, <3>3 DEF Queued
  <2>4. Queued(a)' \subseteq Queued(a) \cup {t}
    <3> SUFFICES ASSUME NEW i \in 1 .. Len(wakeups'[a])
                 PROVE  wakeups'[a][i] \in Queued(a) \cup {t}
      BY DEF Queued
    <3>1. i \in 1 .. Len(wakeups[a]) \/ i = Len(wakeups[a]) + 1
      BY <1>0, <2>2
    <3> QED
      BY <2>2, <3>1 DEF Queued
  <2>5. \A b \in Agents \ {a} : wakeups'[b] = wakeups[b] /\ Queued(b)' = Queued(b)
    BY <1>1 DEF Queued, QueueTypes
  <2> QED
    BY <1>0, <2>2, <2>3, <2>4, <2>5
<1>2. CASE ~(Len(wakeups[a]) < QueueCap) /\ wakeups' = wakeups
  BY <1>0, <1>2 DEF Queued
<1> QED
  BY <1>1, <1>2 DEF Send
LEMMA TakenOff ==
  ASSUME QueueTypes, NEW a \in Agents, wakeups[a] # <<>>,
         wakeups' = [wakeups EXCEPT ![a] = Tail(@)]
  PROVE  /\ Queued(a)' \subseteq Queued(a) /\ Queued(a) \subseteq Queued(a)' \cup {Head(wakeups[a])}
         /\ Head(wakeups[a]) \in Queued(a)
         /\ Len(wakeups'[a]) <= Len(wakeups[a])
         /\ \A b \in Agents \ {a} : wakeups'[b] = wakeups[b] /\ Queued(b)' = Queued(b)
<1>0. wakeups[a] \in Seq(Tasks) /\ Len(wakeups[a]) \in Nat /\ Len(wakeups[a]) # 0
  BY DEF QueueTypes
<1>1. wakeups'[a] = Tail(wakeups[a])
  BY DEF QueueTypes
<1>2. /\ Len(wakeups'[a]) = Len(wakeups[a]) - 1 /\ Head(wakeups[a]) = wakeups[a][1]
      /\ \A i \in 1 .. Len(wakeups[a]) - 1 : wakeups'[a][i] = wakeups[a][i + 1]
  <2>1. Len(Tail(wakeups[a])) = Len(wakeups[a]) - 1
    BY <1>0
  <2>2. Head(wakeups[a]) = wakeups[a][1]
    BY <1>0
  <2>3. \A i \in 1 .. Len(wakeups[a]) - 1 : Tail(wakeups[a])[i] = wakeups[a][i + 1]
    BY <1>0
  <2> QED
    BY <1>1, <2>1, <2>2, <2>3
<1>3. \A i \in 1 .. Len(wakeups[a]) : i = 1 \/ i - 1 \in 1 .. Len(wakeups[a]) - 1
  BY <1>0
<1>4. \A x \in Queued(a) : x \in Queued(a)' \/ x = Head(wakeups[a])
  <2> SUFFICES ASSUME NEW i \in 1 .. Len(wakeups[a])
               PROVE  wakeups[a][i] \in Queued(a)' \/ wakeups[a][i] = Head(wakeups[a])
    BY DEF Queued
  <2>1. CASE i = 1
    BY <1>2, <2>1
  <2>2. CASE i - 1 \in 1 .. Len(wakeups[a]) - 1
    <3>1. wakeups'[a][i - 1] = wakeups[a][i]
      BY <1>0, <1>2, <2>2
    <3> QED
      BY <1>2, <2>2, <3>1 DEF Queued
  <2> QED
    BY <1>3, <2>1, <2>2
<1>5. Queued(a)' \subseteq Queued(a)
  <2> SUFFICES ASSUME NEW i \in 1 .. Len(wakeups'[a]) PROVE wakeups'[a][i] \in Queued(a)
    BY DEF Queued
  <2>1. i + 1 \in 1 .. Len(wakeups[a]) /\ wakeups'[a][i] = wakeups[a][i + 1]
    BY <1>0, <1>2
  <2> QED
    BY <2>1 DEF Queued
<1>6. Head(wakeups[a]) \in Queued(a)
  BY <1>0, <1>2 DEF Queued
<1>7. \A b \in Agents \ {a} : wakeups'[b] = wakeups[b] /\ Queued(b)' = Queued(b)
  BY DEF Queued, QueueTypes
<1> QED
  BY <1>0, <1>2, <1>4, <1>5, <1>6, <1>7

LEMMA QueuesLeft ==
  ASSUME UNCHANGED wakeups PROVE \A b \in Agents : Queued(b)' = Queued(b)
  BY DEF Queued

LEMMA OwnTask == \A t \in Tasks : t \in Own(AssignedTo[t])
  BY DEF Own

\* A wakeup sent to its agent leaves the others of that agent, and comes to it
\* where there is room.
LEMMA SentHome ==
  ASSUME QueueTypes, NEW t \in Tasks, Send(AssignedTo[t], t)
  PROVE  /\ \A b \in Agents :
              Queued(b) \subseteq Queued(b)' /\ Queued(b)' \subseteq Queued(b) \cup Own(b)
         /\ Len(wakeups[AssignedTo[t]]) < QueueCap => t \in Queued(AssignedTo[t])'
<1> DEFINE a == AssignedTo[t]
<1>1. a \in Agents /\ t \in Own(a) /\ Send(a, t)
  BY OwnAgent, OwnTask
<1> HIDE DEF a
<1>2. /\ Queued(a) \subseteq Queued(a)' /\ Queued(a)' \subseteq Queued(a) \cup {t}
      /\ Len(wakeups[a]) < QueueCap => t \in Queued(a)'
      /\ \A b \in Agents \ {a} : Queued(b)' = Queued(b)
  BY <1>1, SentOn
<1>3. ASSUME NEW b \in Agents
      PROVE  Queued(b) \subseteq Queued(b)' /\ Queued(b)' \subseteq Queued(b) \cup Own(b)
  <2>1. CASE b = a
    BY <1>1, <1>2, <2>1
  <2>2. CASE b # a
    BY <1>2, <2>2
  <2> QED
    BY <2>1, <2>2
<1> QED
  BY <1>2, <1>3 DEF a
\* The claim of a parent sends no wakeup but the parent's.
LEMMA CasSends ==
  ASSUME QueueTypes, HoldsTask, NEW a \in Agents, Cas(a)
  PROVE  \A b \in Agents :
           Queued(b) \subseteq Queued(b)' /\ Queued(b)' \subseteq Queued(b) \cup Own(b)
<1>1. Parent[task[a]] \in Tasks
  BY DEF Cas, HoldsTask
<1>2. wakeups' = wakeups \/ Send(AssignedTo[Parent[task[a]]], Parent[task[a]])
  BY DEF Cas, WakeParent
<1>3. CASE wakeups' = wakeups
  BY <1>3, QueuesLeft
<1>4. CASE Send(AssignedTo[Parent[task[a]]], Parent[task[a]])
  BY <1>1, <1>4, SentHome
<1> QED
  BY <1>2, <1>3, <1>4
\* A task in progress may be blocked.
LEMMA MayBlock == IsValidTransition("in_progress", "blocked")
  BY DEF IsValidTransition, Moves, Statuses

\* Runtimes serve their own tasks, and none is suspended.
LEMMA RuntimesKept ==
  ASSUME CoreOK, Calm, Calm', RuntimesOK, HeldOK, QuietNext
  PROVE  RuntimesOK'
<1>0. QueueTypes /\ HoldsTask /\ RuntimesOK /\ \A b \in Agents : Queued(b) \subseteq Own(b)
  BY DEF CoreOK, TypeOK, ControlOK, RuntimesOK
<1> USE DEF CoreOK, TypeOK, ControlOK, HoldsTask, RowTypes, RuntimeTypes, WorkerTypes, Calm,
            RuntimesOK
<1>1. ASSUME NEW a \in Agents, Receive(a) PROVE RuntimesOK'
  <2>1. /\ Queued(a)' \subseteq Queued(a) /\ Head(wakeups[a]) \in Queued(a)
        /\ \A b \in Agents \ {a} : Queued(b)' = Queued(b)
    BY <1>1, <1>0, TakenOff DEF Receive
  <2> QED
    BY <1>1, <2>1 DEF Receive
<1>2. ASSUME NEW a \in Agents, Unpark(a) PROVE RuntimesOK'
  BY <1>2, QueuesLeft DEF Unpark
<1>3. ASSUME NEW a \in Agents, StartRun(a) PROVE RuntimesOK'
  BY <1>3, QueuesLeft DEF StartRun
<1>4. ASSUME NEW a \in Agents, Return(a) PROVE RuntimesOK'
  BY <1>4, QueuesLeft DEF Return
<1>5. ASSUME NEW a \in Agents, Drain(a) PROVE RuntimesOK'
  <2>1. CASE wakeups[a] = <<>>
    BY <1>5, <2>1, QueuesLeft DEF Drain
  <2>2. CASE wakeups[a] # <<>>
    <3>1. /\ Queued(a)' \subseteq Queued(a) /\ Head(wakeups[a]) \in Queued(a)
          /\ \A b \in Agents \ {a} : Queued(b)' = Queued(b)
      <4>1. wakeups' = [wakeups EXCEPT ![a] = Tail(@)]
        BY <1>5, <2>2 DEF Drain
      <4> QED
        BY <1>0, <2>2, <4>1, TakenOff
    <3>2. /\ task' = [task EXCEPT ![a] = Head(wakeups[a])] /\ flagged' = flagged
          /\ state' = [state EXCEPT ![a] = "working"] /\ pc' = [pc EXCEPT ![a] = "turn"]
          /\ reclaimed' = reclaimed
      BY <1>5, <2>2 DEF Drain
    <3> QED
      BY <3>1, <3>2
  <2> QED
    BY <2>1, <2>2
<1>6. ASSUME NEW a \in Agents, Turn(a) PROVE RuntimesOK'
  BY <1>6, QueuesLeft DEF Turn, MoveTo, StopGoal, AtCap, Completed, HasParent
<1>7. ASSUME NEW a \in Agents, Claim(a) PROVE RuntimesOK'
  BY <1>7, QueuesLeft DEF Claim
<1>8. ASSUME NEW a \in Agents, Step(a) PROVE RuntimesOK'
  BY <1>8, QueuesLeft DEF Step
<1>9. ASSUME NEW a \in Agents, ToolWrite(a) PROVE RuntimesOK'
  BY <1>9, QueuesLeft DEF ToolWrite, Signal
<1>10. ASSUME NEW a \in Agents, RunEnds(a) PROVE RuntimesOK'
  BY <1>10, QueuesLeft DEF RunEnds, Completed, HasParent
<1>11. ASSUME NEW a \in Agents, Move(a) PROVE RuntimesOK'
  BY <1>11, QueuesLeft DEF Move
<1>12. ASSUME NEW a \in Agents, Write(a) PROVE RuntimesOK'
  BY <1>12, QueuesLeft DEF Write
<1>13. ASSUME NEW a \in Agents, Siblings(a) PROVE RuntimesOK'
  BY <1>13, QueuesLeft DEF Siblings
<1>14. ASSUME NEW a \in Agents, ReadParent(a) PROVE RuntimesOK'
  BY <1>14, QueuesLeft DEF ReadParent
<1>15. ASSUME NEW a \in Agents, Cas(a) PROVE RuntimesOK'
  <2>1. \A b \in Agents : Queued(b)' \subseteq Own(b)
    BY <1>0, <1>15, CasSends
  <2>2. UNCHANGED <<state, task, flagged, reclaimed>> /\ pc' = [pc EXCEPT ![a] = "return"]
    BY <1>15 DEF Cas
  <2> QED
    BY <2>1, <2>2
<1>16. ASSUME NEW a \in Agents, TaskDone(a) PROVE RuntimesOK'
  BY <1>16, QueuesLeft DEF TaskDone, MayReport, Signal
<1>17. ASSUME NEW a \in Agents, TaskBlocked(a) PROVE RuntimesOK'
  BY <1>17, QueuesLeft DEF TaskBlocked, MayReport
<1>18. ASSUME NEW a \in Agents, TaskContinue(a) PROVE RuntimesOK'
  BY <1>18, QueuesLeft DEF TaskContinue, Beat, MayReport, Signal
<1>19. ASSUME NEW a \in Agents, RunFails(a) PROVE RuntimesOK'
  BY <1>19, QueuesLeft DEF RunFails, MoveTo
<1>20. ASSUME NEW a \in Agents, Heartbeat(a) PROVE RuntimesOK'
  BY <1>20, QueuesLeft DEF Heartbeat, Beat
<1>21. ASSUME NEW a \in Agents, NEW c \in Tasks, Delegate(a, c) PROVE RuntimesOK'
  BY <1>21, QueuesLeft DEF Delegate, Insert
<1>22. ASSUME Watchdog PROVE RuntimesOK'
  BY <1>22 DEF Watchdog, Due, HeldOK
<1>23. ASSUME NEW t \in Tasks, Expire(t) PROVE RuntimesOK'
  BY <1>23, QueuesLeft DEF Expire
<1>24. ASSUME NEW t \in Tasks, Age(t) PROVE RuntimesOK'
  BY <1>24, QueuesLeft DEF Age
<1>25. ASSUME NEW t \in Tasks, Create(t) PROVE RuntimesOK'
  BY <1>25, QueuesLeft DEF Create, Insert
<1>41. ASSUME NEW a \in Agents, HandOff(a) PROVE RuntimesOK'
  <2>1. PICK c \in Tasks : Send(AssignedTo[c], c)
    BY <1>41 DEF HandOff, Announce
  <2>2. \A b \in Agents : Queued(b)' \subseteq Own(b)
    BY <1>0, <2>1, SentHome
  <2> QED
    BY <1>41, <2>2 DEF HandOff
<1>42. ASSUME NEW t \in Tasks, Created(t) PROVE RuntimesOK'
  <2>1. PICK c \in Tasks : Send(AssignedTo[c], c)
    BY <1>42 DEF Created, Announce
  <2>2. \A b \in Agents : Queued(b)' \subseteq Own(b)
    BY <1>0, <2>1, SentHome
  <2> QED
    BY <1>42, <2>2 DEF Created
<1>43. ASSUME NEW t \in Tasks, Rewake(t) PROVE RuntimesOK'
  BY <1>43, QueuesLeft DEF Rewake
<1> QED
  BY <1>1, <1>2, <1>3, <1>4, <1>5, <1>6, <1>7, <1>8, <1>9, <1>10, <1>11, <1>12, <1>13,
     <1>14, <1>15, <1>16, <1>17, <1>18, <1>19, <1>20, <1>21, <1>22, <1>23, <1>24, <1>25,
     <1>41, <1>42, <1>43
  DEF QuietNext, Serve, Act

\* What a worker knows of its task's row.
LEMMA TurnsKept ==
  ASSUME CoreOK, Calm, Calm', RuntimesOK, TurnsOK, HeldOK, QuietNext
  PROVE  TurnsOK'
<1>0. QueueTypes
  BY DEF CoreOK, TypeOK
<1> USE DEF CoreOK, TypeOK, ControlOK, HoldsTask, RowTypes, RuntimeTypes, WorkerTypes, Calm,
            RuntimesOK, TurnsOK, HeldOK, Own, Working
<1>1. ASSUME NEW a \in Agents, Receive(a) PROVE TurnsOK'
  BY <1>1, QueuesLeft DEF Receive
<1>2. ASSUME NEW a \in Agents, Unpark(a) PROVE TurnsOK'
  BY <1>2, QueuesLeft DEF Unpark
<1>3. ASSUME NEW a \in Agents, StartRun(a) PROVE TurnsOK'
  BY <1>3, QueuesLeft DEF StartRun
<1>4. ASSUME NEW a \in Agents, Return(a) PROVE TurnsOK'
  BY <1>4, QueuesLeft DEF Return
<1>5. ASSUME NEW a \in Agents, Drain(a) PROVE TurnsOK'
  <2>1. CASE wakeups[a] = <<>>
    BY <1>5, <2>1 DEF Drain
  <2>2. CASE wakeups[a] # <<>>
    <3>1. /\ task' = [task EXCEPT ![a] = Head(wakeups[a])] /\ UNCHANGED <<goal, signal, status>>
          /\ pc' = [pc EXCEPT ![a] = "turn"] /\ pc[a] = "drain"
      BY <1>5, <2>2 DEF Drain
    <3> QED
      BY <3>1
  <2> QED
    BY <2>1, <2>2
<1>6. ASSUME NEW a \in Agents, Turn(a) PROVE TurnsOK'
  BY <1>6, QueuesLeft DEF Turn, MoveTo, StopGoal, AtCap, Completed, HasParent
<1>7. ASSUME NEW a \in Agents, Claim(a) PROVE TurnsOK'
  BY <1>7, QueuesLeft DEF Claim
<1>8. ASSUME NEW a \in Agents, Step(a) PROVE TurnsOK'
  BY <1>8, QueuesLeft DEF Step
<1>9. ASSUME NEW a \in Agents, ToolWrite(a) PROVE TurnsOK'
  BY <1>9, QueuesLeft DEF ToolWrite, Signal
<1>10. ASSUME NEW a \in Agents, RunEnds(a) PROVE TurnsOK'
  BY <1>10, QueuesLeft DEF RunEnds, Completed, HasParent
<1>11. ASSUME NEW a \in Agents, Move(a) PROVE TurnsOK'
  BY <1>11, QueuesLeft DEF Move
<1>12. ASSUME NEW a \in Agents, Write(a) PROVE TurnsOK'
  BY <1>12, QueuesLeft DEF Write
<1>13. ASSUME NEW a \in Agents, Siblings(a) PROVE TurnsOK'
  BY <1>13, QueuesLeft DEF Siblings
<1>14. ASSUME NEW a \in Agents, ReadParent(a) PROVE TurnsOK'
  BY <1>14, QueuesLeft DEF ReadParent
<1>15. ASSUME NEW a \in Agents, Cas(a) PROVE TurnsOK'
  BY <1>15, QueuesLeft DEF Cas
<1>16. ASSUME NEW a \in Agents, TaskDone(a) PROVE TurnsOK'
  BY <1>16, QueuesLeft DEF TaskDone, MayReport, Signal
<1>17. ASSUME NEW a \in Agents, TaskBlocked(a) PROVE TurnsOK'
  BY <1>17, QueuesLeft DEF TaskBlocked, MayReport
<1>18. ASSUME NEW a \in Agents, TaskContinue(a) PROVE TurnsOK'
  BY <1>18, QueuesLeft DEF TaskContinue, Beat, MayReport, Signal
<1>19. ASSUME NEW a \in Agents, RunFails(a) PROVE TurnsOK'
  BY <1>19, QueuesLeft DEF RunFails, MoveTo
<1>20. ASSUME NEW a \in Agents, Heartbeat(a) PROVE TurnsOK'
  BY <1>20, QueuesLeft DEF Heartbeat, Beat
<1>21. ASSUME NEW a \in Agents, NEW c \in Tasks, Delegate(a, c) PROVE TurnsOK'
  BY <1>21, QueuesLeft DEF Delegate, Insert
<1>22. ASSUME Watchdog PROVE TurnsOK'
  BY <1>22, QueuesLeft DEF Watchdog, Due
<1>23. ASSUME NEW t \in Tasks, Expire(t) PROVE TurnsOK'
  BY <1>23, QueuesLeft DEF Expire
<1>24. ASSUME NEW t \in Tasks, Age(t) PROVE TurnsOK'
  BY <1>24, QueuesLeft DEF Age
<1>25. ASSUME NEW t \in Tasks, Create(t) PROVE TurnsOK'
  BY <1>25, QueuesLeft DEF Create, Insert
<1>41. ASSUME NEW a \in Agents, HandOff(a) PROVE TurnsOK'
  BY <1>41, QueuesLeft DEF HandOff, Announce, Send
<1>42. ASSUME NEW t \in Tasks, Created(t) PROVE TurnsOK'
  BY <1>42, QueuesLeft DEF Created, Announce, Send
<1>43. ASSUME NEW t \in Tasks, Rewake(t) PROVE TurnsOK'
  BY <1>43, QueuesLeft DEF Rewake
<1> QED
  BY <1>1, <1>2, <1>3, <1>4, <1>5, <1>6, <1>7, <1>8, <1>9, <1>10, <1>11, <1>12, <1>13,
     <1>14, <1>15, <1>16, <1>17, <1>18, <1>19, <1>20, <1>21, <1>22, <1>23, <1>24, <1>25,
     <1>41, <1>42, <1>43
  DEF QuietNext, Serve, Act

\* A task in progress keeps its worker.
LEMMA HeldKept ==
  ASSUME CoreOK, Calm, Calm', RuntimesOK, TurnsOK, HeldOK, QuietNext
  PROVE  HeldOK'
<1>0. QueueTypes
  BY DEF CoreOK, TypeOK
<1> USE DEF CoreOK, TypeOK, ControlOK, HoldsTask, RowTypes, RuntimeTypes, WorkerTypes, Calm,
            RuntimesOK, TurnsOK, HeldOK, Own, Working
<1>1. ASSUME NEW a \in Agents, Receive(a) PROVE HeldOK'
  BY <1>1, QueuesLeft DEF Receive
<1>2. ASSUME NEW a \in Agents, Unpark(a) PROVE HeldOK'
  BY <1>2, QueuesLeft DEF Unpark
<1>3. ASSUME NEW a \in Agents, StartRun(a) PROVE HeldOK'
  BY <1>3, QueuesLeft DEF StartRun
<1>4. ASSUME NEW a \in Agents, Return(a) PROVE HeldOK'
  BY <1>4, QueuesLeft DEF Return
<1>5. ASSUME NEW a \in Agents, Drain(a) PROVE HeldOK'
  <2>1. /\ UNCHANGED <<status, lease>> /\ pc[a] = "drain"
        /\ \A b \in Agents \ {a} : pc'[b] = pc[b] /\ task'[b] = task[b]
    BY <1>5 DEF Drain
  <2>2. \A t \in Tasks : status[t] = "in_progress" => AssignedTo[t] # a
    BY <2>1
  <2> QED
    BY <2>1, <2>2
<1>6. ASSUME NEW a \in Agents, Turn(a) PROVE HeldOK'
  BY <1>6, QueuesLeft DEF Turn, MoveTo, StopGoal, AtCap, Completed, HasParent
<1>7. ASSUME NEW a \in Agents, Claim(a) PROVE HeldOK'
  BY <1>7, QueuesLeft DEF Claim
<1>8. ASSUME NEW a \in Agents, Step(a) PROVE HeldOK'
  BY <1>8, QueuesLeft DEF Step
<1>9. ASSUME NEW a \in Agents, ToolWrite(a) PROVE HeldOK'
  BY <1>9, QueuesLeft DEF ToolWrite, Signal
<1>10. ASSUME NEW a \in Agents, RunEnds(a) PROVE HeldOK'
  BY <1>10, QueuesLeft DEF RunEnds, Completed, HasParent
<1>11. ASSUME NEW a \in Agents, Move(a) PROVE HeldOK'
  <2>1. status[task[a]] = "in_progress" => pc' = [pc EXCEPT ![a] = "write"]
    BY <1>11, MayBlock DEF Move
  <2> QED
    BY <1>11, <2>1 DEF Move
<1>12. ASSUME NEW a \in Agents, Write(a) PROVE HeldOK'
  BY <1>12, QueuesLeft DEF Write
<1>13. ASSUME NEW a \in Agents, Siblings(a) PROVE HeldOK'
  BY <1>13, QueuesLeft DEF Siblings
<1>14. ASSUME NEW a \in Agents, ReadParent(a) PROVE HeldOK'
  BY <1>14, QueuesLeft DEF ReadParent
<1>15. ASSUME NEW a \in Agents, Cas(a) PROVE HeldOK'
  BY <1>15, QueuesLeft DEF Cas
<1>16. ASSUME NEW a \in Agents, TaskDone(a) PROVE HeldOK'
  BY <1>16, QueuesLeft DEF TaskDone, MayReport, Signal
<1>17. ASSUME NEW a \in Agents, TaskBlocked(a) PROVE HeldOK'
  BY <1>17, QueuesLeft DEF TaskBlocked, MayReport
<1>18. ASSUME NEW a \in Agents, TaskContinue(a) PROVE HeldOK'
  BY <1>18, QueuesLeft DEF TaskContinue, Beat, MayReport, Signal
<1>19. ASSUME NEW a \in Agents, RunFails(a) PROVE HeldOK'
  BY <1>19, QueuesLeft DEF RunFails, MoveTo
<1>20. ASSUME NEW a \in Agents, Heartbeat(a) PROVE HeldOK'
  BY <1>20, QueuesLeft DEF Heartbeat, Beat
<1>21. ASSUME NEW a \in Agents, NEW c \in Tasks, Delegate(a, c) PROVE HeldOK'
  BY <1>21, QueuesLeft DEF Delegate, Insert
<1>22. ASSUME Watchdog PROVE HeldOK'
  BY <1>22, QueuesLeft DEF Watchdog, Due
<1>23. ASSUME NEW t \in Tasks, Expire(t) PROVE HeldOK'
  BY <1>23, QueuesLeft DEF Expire
<1>24. ASSUME NEW t \in Tasks, Age(t) PROVE HeldOK'
  BY <1>24, QueuesLeft DEF Age
<1>25. ASSUME NEW t \in Tasks, Create(t) PROVE HeldOK'
  BY <1>25, QueuesLeft DEF Create, Insert
<1>41. ASSUME NEW a \in Agents, HandOff(a) PROVE HeldOK'
  BY <1>41, QueuesLeft DEF HandOff, Announce, Send
<1>42. ASSUME NEW t \in Tasks, Created(t) PROVE HeldOK'
  BY <1>42, QueuesLeft DEF Created, Announce, Send
<1>43. ASSUME NEW t \in Tasks, Rewake(t) PROVE HeldOK'
  BY <1>43, QueuesLeft DEF Rewake
<1> QED
  BY <1>1, <1>2, <1>3, <1>4, <1>5, <1>6, <1>7, <1>8, <1>9, <1>10, <1>11, <1>12, <1>13,
     <1>14, <1>15, <1>16, <1>17, <1>18, <1>19, <1>20, <1>21, <1>22, <1>23, <1>24, <1>25,
     <1>41, <1>42, <1>43
  DEF QuietNext, Serve, Act

\* A task assigned keeps its wakeup, or its agent.
LEMMA TendedKept ==
  ASSUME CoreOK, Calm, Calm', RuntimesOK, HeldOK, TendedOK, RoomOK, QuietNext
  PROVE  TendedOK'
<1>0. QueueTypes /\ HoldsTask
  BY DEF CoreOK, TypeOK, ControlOK
<1> USE DEF CoreOK, TypeOK, ControlOK, HoldsTask, RowTypes, RuntimeTypes, WorkerTypes, Calm,
            RuntimesOK, HeldOK, TendedOK, Own, Working, AtCap
<1>1. ASSUME NEW a \in Agents, Receive(a) PROVE TendedOK'
  <2>2. wakeups[a] # <<>> /\ pc[a] = "select" /\ state[a] # "suspended"
    BY <1>1 DEF Receive
  <2> QED
    <3>1. wakeups' = [wakeups EXCEPT ![a] = Tail(@)] /\ wakeups[a] # <<>>
      BY <1>1, <2>2 DEF Receive
    <3>2. /\ Queued(a) \subseteq Queued(a)' \cup {Head(wakeups[a])}
          /\ \A b \in Agents \ {a} : Queued(b)' = Queued(b)
      BY <1>0, <3>1, TakenOff
    <3>3. /\ task' = [task EXCEPT ![a] = Head(wakeups[a])]
          /\ UNCHANGED <<status, iterations, unsent>> /\ pc[a] \in {"select", "drain"}
          /\ pc' = [pc EXCEPT ![a] = IF pc[a] = "select" THEN "start" ELSE "turn"]
      BY <1>1, <2>2 DEF Receive
    <3> QED
      BY <3>2, <3>3
<1>2. ASSUME NEW a \in Agents, Unpark(a) PROVE TendedOK'
  BY <1>2, QueuesLeft DEF Unpark
<1>3. ASSUME NEW a \in Agents, StartRun(a) PROVE TendedOK'
  BY <1>3, QueuesLeft DEF StartRun
<1>4. ASSUME NEW a \in Agents, Return(a) PROVE TendedOK'
  BY <1>4, QueuesLeft DEF Return
<1>5. ASSUME NEW a \in Agents, Drain(a) PROVE TendedOK'
  <2>1. CASE wakeups[a] = <<>>
    <3>1. /\ UNCHANGED <<wakeups, task, status, iterations, unsent>> /\ pc[a] = "drain"
          /\ pc' = [pc EXCEPT ![a] = "select"]
      BY <1>5, <2>1 DEF Drain
    <3> QED
      BY <3>1, QueuesLeft
  <2>2. CASE wakeups[a] # <<>>
    <3>1. wakeups' = [wakeups EXCEPT ![a] = Tail(@)] /\ wakeups[a] # <<>>
      BY <1>5, <2>2 DEF Drain
    <3>2. /\ Queued(a) \subseteq Queued(a)' \cup {Head(wakeups[a])}
          /\ \A b \in Agents \ {a} : Queued(b)' = Queued(b)
      BY <1>0, <3>1, TakenOff
    <3>3. /\ task' = [task EXCEPT ![a] = Head(wakeups[a])]
          /\ UNCHANGED <<status, iterations, unsent>> /\ pc[a] \in {"select", "drain"}
          /\ pc' = [pc EXCEPT ![a] = IF pc[a] = "select" THEN "start" ELSE "turn"]
      BY <1>5, <2>2 DEF Drain
    <3> QED
      BY <3>2, <3>3
  <2> QED
    BY <2>1, <2>2
<1>6. ASSUME NEW a \in Agents, Turn(a) PROVE TendedOK'
  BY <1>6, QueuesLeft DEF Turn, MoveTo, StopGoal, AtCap, Completed, HasParent
<1>7. ASSUME NEW a \in Agents, Claim(a) PROVE TendedOK'
  BY <1>7, QueuesLeft DEF Claim
<1>8. ASSUME NEW a \in Agents, Step(a) PROVE TendedOK'
  BY <1>8, QueuesLeft DEF Step
<1>9. ASSUME NEW a \in Agents, ToolWrite(a) PROVE TendedOK'
  BY <1>9, QueuesLeft DEF ToolWrite, Signal
<1>10. ASSUME NEW a \in Agents, RunEnds(a) PROVE TendedOK'
  BY <1>10, QueuesLeft DEF RunEnds, Completed, HasParent
<1>11. ASSUME NEW a \in Agents, Move(a) PROVE TendedOK'
  BY <1>11, QueuesLeft DEF Move
<1>12. ASSUME NEW a \in Agents, Write(a) PROVE TendedOK'
  <2>1. /\ pc[a] = "write" /\ pc' = [pc EXCEPT ![a] = "return"] /\ task[a] \in Tasks
        /\ UNCHANGED <<task, wakeups, iterations, unsent>>
        /\ goal[a] # "assigned"
        /\ status' = [status EXCEPT ![task[a]] = goal[a]] \/ status' = status
    BY <1>12 DEF Write, HoldsGoal
  <2>2. \A t \in Tasks : status'[t] = "assigned" => status[t] = "assigned"
    BY <2>1
  <2> QED
    BY <2>1, <2>2, QueuesLeft
<1>13. ASSUME NEW a \in Agents, Siblings(a) PROVE TendedOK'
  BY <1>13, QueuesLeft DEF Siblings
<1>14. ASSUME NEW a \in Agents, ReadParent(a) PROVE TendedOK'
  BY <1>14, QueuesLeft DEF ReadParent
<1>15. ASSUME NEW a \in Agents, Cas(a) PROVE TendedOK'
  <2>1. \A b \in Agents : Queued(b) \subseteq Queued(b)'
    BY <1>0, <1>15, CasSends
  <2>2. /\ UNCHANGED <<status, task, iterations, unsent>> /\ pc[a] = "cas"
        /\ pc' = [pc EXCEPT ![a] = "return"]
    BY <1>15 DEF Cas
  <2> QED
    BY <2>1, <2>2
<1>16. ASSUME NEW a \in Agents, TaskDone(a) PROVE TendedOK'
  BY <1>16, QueuesLeft DEF TaskDone, MayReport, Signal
<1>17. ASSUME NEW a \in Agents, TaskBlocked(a) PROVE TendedOK'
  BY <1>17, QueuesLeft DEF TaskBlocked, MayReport
<1>18. ASSUME NEW a \in Agents, TaskContinue(a) PROVE TendedOK'
  BY <1>18, QueuesLeft DEF TaskContinue, Beat, MayReport, Signal
<1>19. ASSUME NEW a \in Agents, RunFails(a) PROVE TendedOK'
  BY <1>19, QueuesLeft DEF RunFails, MoveTo
<1>20. ASSUME NEW a \in Agents, Heartbeat(a) PROVE TendedOK'
  BY <1>20, QueuesLeft DEF Heartbeat, Beat
<1>21. ASSUME NEW a \in Agents, NEW c \in Tasks, Delegate(a, c) PROVE TendedOK'
  BY <1>21, QueuesLeft DEF Delegate, Insert
<1>22. ASSUME Watchdog PROVE TendedOK'
  BY <1>22, QueuesLeft DEF Watchdog, Due
<1>23. ASSUME NEW t \in Tasks, Expire(t) PROVE TendedOK'
  BY <1>23, QueuesLeft DEF Expire
<1>24. ASSUME NEW t \in Tasks, Age(t) PROVE TendedOK'
  BY <1>24, QueuesLeft DEF Age
<1>25. ASSUME NEW t \in Tasks, Create(t) PROVE TendedOK'
  BY <1>25, QueuesLeft DEF Create, Insert
<1>41. ASSUME NEW a \in Agents, HandOff(a) PROVE TendedOK'
  <2>1. PICK c \in Tasks : Announce(c)
    BY <1>41 DEF HandOff
  <2>2. /\ Send(AssignedTo[c], c) /\ Len(wakeups[AssignedTo[c]]) < QueueCap
        /\ unsent' = unsent \ {c} /\ UNCHANGED <<status, task, iterations>>
    BY <1>41, <2>1 DEF HandOff, Announce, RoomOK
  <2>3. c \in Queued(AssignedTo[c])' /\ \A b \in Agents : Queued(b) \subseteq Queued(b)'
    BY <1>0, <2>2, SentHome
  <2>4. \A b \in Agents : pc[b] \in {"start", "turn", "claim"} => pc'[b] = pc[b]
    BY <1>41 DEF HandOff
  <2> QED
    BY <2>2, <2>3, <2>4
<1>42. ASSUME NEW t \in Tasks, Created(t) PROVE TendedOK'
  <2>1. PICK c \in Tasks : Announce(c)
    BY <1>42 DEF Created
  <2>2. /\ Send(AssignedTo[c], c) /\ Len(wakeups[AssignedTo[c]]) < QueueCap
        /\ unsent' = unsent \ {c} /\ UNCHANGED <<status, task, iterations>>
    BY <1>42, <2>1 DEF Created, Announce, RoomOK
  <2>3. c \in Queued(AssignedTo[c])' /\ \A b \in Agents : Queued(b) \subseteq Queued(b)'
    BY <1>0, <2>2, SentHome
  <2>4. \A b \in Agents : pc[b] \in {"start", "turn", "claim"} => pc'[b] = pc[b]
    BY <1>42 DEF Created
  <2> QED
    BY <2>2, <2>3, <2>4
<1>43. ASSUME NEW t \in Tasks, Rewake(t) PROVE TendedOK'
  BY <1>43, QueuesLeft DEF Rewake
<1> QED
  BY <1>1, <1>2, <1>3, <1>4, <1>5, <1>6, <1>7, <1>8, <1>9, <1>10, <1>11, <1>12, <1>13,
     <1>14, <1>15, <1>16, <1>17, <1>18, <1>19, <1>20, <1>21, <1>22, <1>23, <1>24, <1>25,
     <1>41, <1>42, <1>43
  DEF QuietNext, Serve, Act

LEMMA QuietInit == Init => QuietOK
<1> SUFFICES ASSUME Init PROVE QuietOK
  OBVIOUS
<1>1. \A a \in Agents : Queued(a) = {}
  BY DEF Init, Queued
<1>2. RuntimesOK
  BY <1>1 DEF Init, RuntimesOK
<1>3. TurnsOK /\ HeldOK /\ TendedOK
  BY DEF Init, TurnsOK, HeldOK, TendedOK, Working
<1> QED
  BY <1>2, <1>3 DEF QuietOK

\* As long as the queues have the room they need, no calm step loses a task.
LEMMA QuietKept == CoreOK /\ QuietOK /\ RoomOK /\ [Next]_vars => QuietOK'
<1> SUFFICES ASSUME CoreOK, QuietOK, RoomOK, [Next]_vars, Calm'
             PROVE  (RuntimesOK /\ TurnsOK /\ HeldOK /\ TendedOK)'
  BY DEF QuietOK
<1>1. Calm /\ RuntimesOK /\ TurnsOK /\ HeldOK /\ TendedOK /\ (QuietNext \/ UNCHANGED vars)
  BY CalmBefore DEF QuietOK
<1>2. CASE QuietNext
  BY <1>1, <1>2, RuntimesKept, TurnsKept, HeldKept, TendedKept
<1>3. CASE UNCHANGED vars
  BY <1>1, <1>3, QueuesLeft DEF vars, RuntimesOK, TurnsOK, HeldOK, TendedOK, AtCap
<1> QED
  BY <1>1, <1>2, <1>3

\* In a calm state a task assigned has its wakeup queued, or its agent.
LEMMA QuietTends == CoreOK /\ QuietOK => AssignedIsTended
<1> SUFFICES ASSUME CoreOK, QuietOK, ~Interfered, NEW t \in Tasks,
                    status[t] = "assigned" /\ ~AtCap(t)
             PROVE  \/ t \in unsent
                    \/ \E i \in DOMAIN wakeups[AssignedTo[t]] : wakeups[AssignedTo[t]][i] = t
                    \/ task[AssignedTo[t]] = t /\ pc[AssignedTo[t]] # "return"
  BY DEF AssignedIsTended
<1>1. Calm
  BY DEF Interfered, Calm, CoreOK, TypeOK, RowTypes
<1>2. wakeups[AssignedTo[t]] \in Seq(Tasks)
  BY OwnAgent DEF CoreOK, TypeOK, QueueTypes
<1>3. DOMAIN wakeups[AssignedTo[t]] = 1 .. Len(wakeups[AssignedTo[t]])
  BY <1>2
<1> QED
  BY <1>1, <1>3 DEF QuietOK, TendedOK, Queued

\* Whatever agents, iterations and delegations do, and until somebody
\* interferes, a task assigned has its wakeup in the queue or its agent at it,
\* as long as a queue has room for the wakeups still to come (WakeAgent drops
\* a signal for a full channel).
THEOREM AssignedTended == Spec /\ []RoomOK => []AssignedIsTended
  BY CoreInit, CoreKept, QuietInit, QuietKept, QuietTends, PTL DEF Spec
=============================================================================
