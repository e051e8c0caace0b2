------------------------ MODULE SessionCancelProofs ------------------------
(****************************************************************************)
(* What SessionCancelProps claims of the registry, proved for every number  *)
(* of sessions, submits and aborts.                                         *)
(*                                                                          *)
(* IInv adds to the claims what keeps them: an installed entry belongs to a *)
(* turn of its session that is not over, a won swap makes its winner the    *)
(* only one to tag and invoke, and where submits come one by one a submit   *)
(* past its swap has nothing in its way that is not cancelled.              *)
(****************************************************************************)
EXTENDS SessionCancelProps, TLAPS

\* x won the swap of its target and has not invoked it yet.
Holds(x) == pc[x] \in {"tag", "invoke"}

TargetsOK ==
  /\ \A x \in Callers : pc[x] \in {"cancel", "tag", "invoke"} => target[x] \in Submits
  /\ \A x \in Callers : pc[x] # "ready" => session[x] \in Sessions

EntriesOK ==
  \A n \in Sessions : entries[n] # None =>
    /\ session[entries[n]] = n
    /\ pc[entries[n]] \in {"turn", "done", "failed", "unwind", "release"}

HoldersOK ==
  /\ \A x \in Callers : Holds(x) => target[x] \in cancelled
  /\ \A x, y \in Callers : Holds(x) /\ Holds(y) /\ target[x] = target[y] => x = y
  /\ \A x \in Callers : Is(x, "invoke") => code[target[x]] = CodeOf(x)

AnswersOK ==
  /\ AbortsOnce
  /\ \A a \in Aborts : aborted[a] # None =>
       /\ aborted[a] \in cancelled
       /\ \A x \in Callers : Holds(x) => target[x] # aborted[a]

EventsOK ==
  /\ EventEarned
  /\ \A s \in Submits : code[s] \in {"none", "preempted", "user_abort"}
  /\ \A s \in Submits : context[s] = "canceled" /\ pc[s] \notin {"release", "end"}
                          => s \in cancelled

\* A turn that was cancelled and goes on is in the hands of its canceller.
CancelledOK ==
  \A s \in Submits : s \in cancelled /\ context[s] = "live" =>
    \E x \in Callers : Holds(x) /\ target[x] = s

SerialOK ==
  \A x \in Submits : Registering(x) /\ session[x] \in Serial =>
    /\ \A y \in Submits : Registering(y) /\ session[y] = session[x] => y = x
    /\ Is(x, "cancel") => entries[session[x]] \in {None, target[x]}
    /\ pc[x] \in {"tag", "invoke", "install"}
         => entries[session[x]] = None \/ entries[session[x]] \in cancelled

IInv == /\ TypeOK /\ TargetsOK /\ EntriesOK /\ HoldersOK /\ AnswersOK /\ EventsOK
        /\ CancelledOK /\ SerialOK /\ AbortReaches

USE SessionsAssumption DEF Callers, Codes, None, Is, Goto, CodeOf, Holds
-----------------------------------------------------------------------------
LEMMA InitIInv == Init => IInv
<1> SUFFICES ASSUME Init PROVE IInv
  OBVIOUS
<1>1. TypeOK /\ TargetsOK /\ EntriesOK
  BY DEF Init, TypeOK, TargetsOK, EntriesOK
<1>2. HoldersOK /\ AnswersOK /\ EventsOK
  BY DEF Init, HoldersOK, AnswersOK, AbortsOnce, EventsOK, EventEarned
<1>3. CancelledOK /\ SerialOK /\ AbortReaches
  BY DEF Init, CancelledOK, SerialOK, Registering, AbortReaches, Active
<1> QED
  BY <1>1, <1>2, <1>3 DEF IInv

\* The types are kept.
LEMMA TypesKept == IInv /\ [Next]_sessionVars => TypeOK'
<1> SUFFICES ASSUME IInv, [Next]_sessionVars PROVE TypeOK'
  OBVIOUS
<1> USE DEF IInv, TypeOK, TargetsOK
<1>1. ASSUME NEW x \in Callers, CancelOnce(x) PROVE TypeOK'
  BY <1>1 DEF CancelOnce, Leave
<1>2. ASSUME NEW x \in Callers, Tag(x) PROVE TypeOK'
  BY <1>2 DEF Tag
<1>3. ASSUME NEW x \in Callers, Invoke(x) PROVE TypeOK'
  BY <1>3 DEF Invoke, Leave, Stop
<1>4. ASSUME NEW s \in Submits, Install(s) PROVE TypeOK'
  BY <1>4 DEF Install
<1>5. ASSUME NEW s \in Submits, Report(s) PROVE TypeOK'
  BY <1>5 DEF Report, Lookup
<1>6. ASSUME NEW s \in Submits, Unwind(s) PROVE TypeOK'
  BY <1>6 DEF Unwind, Stop
<1>7. ASSUME NEW s \in Submits, Release(s) PROVE TypeOK'
  BY <1>7 DEF Release
<1>8. ASSUME NEW s \in Submits, Deadline(s) PROVE TypeOK'
  BY <1>8 DEF Deadline, Stop
<1>9. ASSUME NEW s \in Submits, NEW how \in {"done", "failed"}, TurnEnds(s, how) PROVE TypeOK'
  BY <1>9 DEF TurnEnds, Active
<1>10. ASSUME NEW s \in Submits, NEW n \in Sessions, Register(s, n) PROVE TypeOK'
  BY <1>10 DEF Register
<1>11. ASSUME NEW a \in Aborts, NEW n \in Sessions, Abort(a, n) PROVE TypeOK'
  BY <1>11 DEF Abort
<1>12. CASE UNCHANGED sessionVars
  BY <1>12 DEF sessionVars
<1> QED
  BY <1>1, <1>2, <1>3, <1>4, <1>5, <1>6, <1>7, <1>8, <1>9, <1>10, <1>11, <1>12
     DEF Next, Cancelling, Turn

\* Callers keep their targets and sessions.
LEMMA TargetsKept == IInv /\ [Next]_sessionVars => TargetsOK'
<1> SUFFICES ASSUME IInv, [Next]_sessionVars PROVE TargetsOK'
  OBVIOUS
<1> USE DEF IInv, TypeOK, TargetsOK, EntriesOK
<1>1. ASSUME NEW x \in Callers, CancelOnce(x) PROVE TargetsOK'
  BY <1>1 DEF CancelOnce, Leave
<1>2. ASSUME NEW x \in Callers, Tag(x) PROVE TargetsOK'
  BY <1>2 DEF Tag
<1>3. ASSUME NEW x \in Callers, Invoke(x) PROVE TargetsOK'
  BY <1>3 DEF Invoke, Leave, Stop
<1>4. ASSUME NEW s \in Submits, Install(s) PROVE TargetsOK'
  BY <1>4 DEF Install
<1>5. ASSUME NEW s \in Submits, Report(s) PROVE TargetsOK'
  BY <1>5 DEF Report, Lookup
<1>6. ASSUME NEW s \in Submits, Unwind(s) PROVE TargetsOK'
  BY <1>6 DEF Unwind, Stop
<1>7. ASSUME NEW s \in Submits, Release(s) PROVE TargetsOK'
  BY <1>7 DEF Release
<1>8. ASSUME NEW s \in Submits, Deadline(s) PROVE TargetsOK'
  BY <1>8 DEF Deadline, Stop
<1>9. ASSUME NEW s \in Submits, NEW how \in {"done", "failed"}, TurnEnds(s, how) PROVE TargetsOK'
  BY <1>9 DEF TurnEnds, Active
<1>10. ASSUME NEW s \in Submits, NEW n \in Sessions, Register(s, n) PROVE TargetsOK'
  BY <1>10 DEF Register
<1>11. ASSUME NEW a \in Aborts, NEW n \in Sessions, Abort(a, n) PROVE TargetsOK'
  BY <1>11 DEF Abort
<1>12. CASE UNCHANGED sessionVars
  BY <1>12 DEF sessionVars
<1> QED
  BY <1>1, <1>2, <1>3, <1>4, <1>5, <1>6, <1>7, <1>8, <1>9, <1>10, <1>11, <1>12
     DEF Next, Cancelling, Turn

\* Entries keep belonging to turns that are not over.
LEMMA EntriesKept == IInv /\ [Next]_sessionVars => EntriesOK'
<1> SUFFICES ASSUME IInv, [Next]_sessionVars PROVE EntriesOK'
  OBVIOUS
<1> USE DEF IInv, TypeOK, TargetsOK, EntriesOK
<1>1. ASSUME NEW x \in Callers, CancelOnce(x) PROVE EntriesOK'
  BY <1>1 DEF CancelOnce, Leave
<1>2. ASSUME NEW x \in Callers, Tag(x) PROVE EntriesOK'
  BY <1>2 DEF Tag
<1>3. ASSUME NEW x \in Callers, Invoke(x) PROVE EntriesOK'
  BY <1>3 DEF Invoke, Leave, Stop
<1>4. ASSUME NEW s \in Submits, Install(s) PROVE EntriesOK'
  BY <1>4 DEF Install
<1>5. ASSUME NEW s \in Submits, Report(s) PROVE EntriesOK'
  BY <1>5 DEF Report, Lookup
<1>6. ASSUME NEW s \in Submits, Unwind(s) PROVE EntriesOK'
  BY <1>6 DEF Unwind, Stop
<1>7. ASSUME NEW s \in Submits, Release(s) PROVE EntriesOK'
  BY <1>7 DEF Release
<1>8. ASSUME NEW s \in Submits, Deadline(s) PROVE EntriesOK'
  BY <1>8 DEF Deadline, Stop
<1>9. ASSUME NEW s \in Submits, NEW how \in {"done", "failed"}, TurnEnds(s, how) PROVE EntriesOK'
  BY <1>9 DEF TurnEnds, Active
<1>10. ASSUME NEW s \in Submits, NEW n \in Sessions, Register(s, n) PROVE EntriesOK'
  BY <1>10 DEF Register
<1>11. ASSUME NEW a \in Aborts, NEW n \in Sessions, Abort(a, n) PROVE EntriesOK'
  BY <1>11 DEF Abort
<1>12. CASE UNCHANGED sessionVars
  BY <1>12 DEF sessionVars
<1> QED
  BY <1>1, <1>2, <1>3, <1>4, <1>5, <1>6, <1>7, <1>8, <1>9, <1>10, <1>11, <1>12
     DEF Next, Cancelling, Turn

\* A swap keeps having one winner.
LEMMA HoldersKept == IInv /\ [Next]_sessionVars => HoldersOK'
<1> SUFFICES ASSUME IInv, [Next]_sessionVars PROVE HoldersOK'
  OBVIOUS
<1> USE DEF IInv, TypeOK, TargetsOK, HoldersOK
<1>1. ASSUME NEW x \in Callers, CancelOnce(x) PROVE HoldersOK'
  BY <1>1 DEF CancelOnce, Leave
<1>2. ASSUME NEW x \in Callers, Tag(x) PROVE HoldersOK'
  BY <1>2 DEF Tag
<1>3. ASSUME NEW x \in Callers, Invoke(x) PROVE HoldersOK'
  BY <1>3 DEF Invoke, Leave, Stop
<1>4. ASSUME NEW s \in Submits, Install(s) PROVE HoldersOK'
  BY <1>4 DEF Install
<1>5. ASSUME NEW s \in Submits, Report(s) PROVE HoldersOK'
  BY <1>5 DEF Report, Lookup
<1>6. ASSUME NEW s \in Submits, Unwind(s) PROVE HoldersOK'
  BY <1>6 DEF Unwind, Stop
<1>7. ASSUME NEW s \in Submits, Release(s) PROVE HoldersOK'
  BY <1>7 DEF Release
<1>8. ASSUME NEW s \in Submits, Deadline(s) PROVE HoldersOK'
  BY <1>8 DEF Deadline, Stop
<1>9. ASSUME NEW s \in Submits, NEW how \in {"done", "failed"}, TurnEnds(s, how) PROVE HoldersOK'
  BY <1>9 DEF TurnEnds, Active
<1>10. ASSUME NEW s \in Submits, NEW n \in Sessions, Register(s, n) PROVE HoldersOK'
  BY <1>10 DEF Register
<1>11. ASSUME NEW a \in Aborts, NEW n \in Sessions, Abort(a, n) PROVE HoldersOK'
  BY <1>11 DEF Abort
<1>12. CASE UNCHANGED sessionVars
  BY <1>12 DEF sessionVars
<1> QED
  BY <1>1, <1>2, <1>3, <1>4, <1>5, <1>6, <1>7, <1>8, <1>9, <1>10, <1>11, <1>12
     DEF Next, Cancelling, Turn

\* What aborts were told stays true.
LEMMA AnswersKept == IInv /\ [Next]_sessionVars => AnswersOK'
<1> SUFFICES ASSUME IInv, [Next]_sessionVars PROVE AnswersOK'
  OBVIOUS
<1> USE DEF IInv, TypeOK, TargetsOK, HoldersOK, AnswersOK, AbortsOnce
<1>1. ASSUME NEW x \in Callers, CancelOnce(x) PROVE AnswersOK'
  BY <1>1 DEF CancelOnce, Leave
<1>2. ASSUME NEW x \in Callers, Tag(x) PROVE AnswersOK'
  BY <1>2 DEF Tag
<1>3. ASSUME NEW x \in Callers, Invoke(x) PROVE AnswersOK'
  BY <1>3 DEF Invoke, Leave, Stop
<1>4. ASSUME NEW s \in Submits, Install(s) PROVE AnswersOK'
  BY <1>4 DEF Install
<1>5. ASSUME NEW s \in Submits, Report(s) PROVE AnswersOK'
  BY <1>5 DEF Report, Lookup
<1>6. ASSUME NEW s \in Submits, Unwind(s) PROVE AnswersOK'
  BY <1>6 DEF Unwind, Stop
<1>7. ASSUME NEW s \in Submits, Release(s) PROVE AnswersOK'
  BY <1>7 DEF Release
<1>8. ASSUME NEW s \in Submits, Deadline(s) PROVE AnswersOK'
  BY <1>8 DEF Deadline, Stop
<1>9. ASSUME NEW s \in Submits, NEW how \in {"done", "failed"}, TurnEnds(s, how) PROVE AnswersOK'
  BY <1>9 DEF TurnEnds, Active
<1>10. ASSUME NEW s \in Submits, NEW n \in Sessions, Register(s, n) PROVE AnswersOK'
  BY <1>10 DEF Register
<1>11. ASSUME NEW a \in Aborts, NEW n \in Sessions, Abort(a, n) PROVE AnswersOK'
  BY <1>11 DEF Abort
<1>12. CASE UNCHANGED sessionVars
  BY <1>12 DEF sessionVars
<1> QED
  BY <1>1, <1>2, <1>3, <1>4, <1>5, <1>6, <1>7, <1>8, <1>9, <1>10, <1>11, <1>12
     DEF Next, Cancelling, Turn

\* Events stay earned.
LEMMA EventsKept == IInv /\ [Next]_sessionVars => EventsOK'
<1> SUFFICES ASSUME IInv, [Next]_sessionVars PROVE EventsOK'
  OBVIOUS
<1> USE DEF IInv, TypeOK, TargetsOK, HoldersOK, EventsOK, EventEarned, EntriesOK
<1>1. ASSUME NEW x \in Callers, CancelOnce(x) PROVE EventsOK'
  BY <1>1 DEF CancelOnce, Leave
<1>2. ASSUME NEW x \in Callers, Tag(x) PROVE EventsOK'
  BY <1>2 DEF Tag
<1>3. ASSUME NEW x \in Callers, Invoke(x) PROVE EventsOK'
  BY <1>3 DEF Invoke, Leave, Stop
<1>4. ASSUME NEW s \in Submits, Install(s) PROVE EventsOK'
  BY <1>4 DEF Install
<1>5. ASSUME NEW s \in Submits, Report(s) PROVE EventsOK'
  BY <1>5 DEF Report, Lookup
<1>6. ASSUME NEW s \in Submits, Unwind(s) PROVE EventsOK'
  BY <1>6 DEF Unwind, Stop
<1>7. ASSUME NEW s \in Submits, Release(s) PROVE EventsOK'
  BY <1>7 DEF Release
<1>8. ASSUME NEW s \in Submits, Deadline(s) PROVE EventsOK'
  BY <1>8 DEF Deadline, Stop
<1>9. ASSUME NEW s \in Submits, NEW how \in {"done", "failed"}, TurnEnds(s, how) PROVE EventsOK'
  BY <1>9 DEF TurnEnds, Active
<1>10. ASSUME NEW s \in Submits, NEW n \in Sessions, Register(s, n) PROVE EventsOK'
  BY <1>10 DEF Register
<1>11. ASSUME NEW a \in Aborts, NEW n \in Sessions, Abort(a, n) PROVE EventsOK'
  BY <1>11 DEF Abort
<1>12. CASE UNCHANGED sessionVars
  BY <1>12 DEF sessionVars
<1> QED
  BY <1>1, <1>2, <1>3, <1>4, <1>5, <1>6, <1>7, <1>8, <1>9, <1>10, <1>11, <1>12
     DEF Next, Cancelling, Turn

\* Cancelled turns stay in hand.
LEMMA CancelledKept == IInv /\ [Next]_sessionVars => CancelledOK'
<1> SUFFICES ASSUME IInv, [Next]_sessionVars PROVE CancelledOK'
  OBVIOUS
<1> USE DEF IInv, TypeOK, TargetsOK, HoldersOK, CancelledOK
<1>1. ASSUME NEW x \in Callers, CancelOnce(x) PROVE CancelledOK'
  BY <1>1 DEF CancelOnce, Leave
<1>2. ASSUME NEW x \in Callers, Tag(x) PROVE CancelledOK'
  BY <1>2 DEF Tag
<1>3. ASSUME NEW x \in Callers, Invoke(x) PROVE CancelledOK'
  BY <1>3 DEF Invoke, Leave, Stop
<1>4. ASSUME NEW s \in Submits, Install(s) PROVE CancelledOK'
  BY <1>4 DEF Install
<1>5. ASSUME NEW s \in Submits, Report(s) PROVE CancelledOK'
  BY <1>5 DEF Report, Lookup
<1>6. ASSUME NEW s \in Submits, Unwind(s) PROVE CancelledOK'
  BY <1>6 DEF Unwind, Stop
<1>7. ASSUME NEW s \in Submits, Release(s) PROVE CancelledOK'
  BY <1>7 DEF Release
<1>8. ASSUME NEW s \in Submits, Deadline(s) PROVE CancelledOK'
  BY <1>8 DEF Deadline, Stop
<1>9. ASSUME NEW s \in Submits, NEW how \in {"done", "failed"}, TurnEnds(s, how) PROVE CancelledOK'
  BY <1>9 DEF TurnEnds, Active
<1>10. ASSUME NEW s \in Submits, NEW n \in Sessions, Register(s, n) PROVE CancelledOK'
  BY <1>10 DEF Register
<1>11. ASSUME NEW a \in Aborts, NEW n \in Sessions, Abort(a, n) PROVE CancelledOK'
  BY <1>11 DEF Abort
<1>12. CASE UNCHANGED sessionVars
  BY <1>12 DEF sessionVars
<1> QED
  BY <1>1, <1>2, <1>3, <1>4, <1>5, <1>6, <1>7, <1>8, <1>9, <1>10, <1>11, <1>12
     DEF Next, Cancelling, Turn

\* The way of a submit stays clear.
LEMMA SerialKept == IInv /\ [Next]_sessionVars => SerialOK'
<1> SUFFICES ASSUME IInv, [Next]_sessionVars PROVE SerialOK'
  OBVIOUS
<1> USE DEF IInv, TypeOK, TargetsOK, EntriesOK, HoldersOK, SerialOK, Registering
<1>1. ASSUME NEW x \in Callers, CancelOnce(x) PROVE SerialOK'
  BY <1>1 DEF CancelOnce, Leave
<1>2. ASSUME NEW x \in Callers, Tag(x) PROVE SerialOK'
  BY <1>2 DEF Tag
<1>3. ASSUME NEW x \in Callers, Invoke(x) PROVE SerialOK'
  BY <1>3 DEF Invoke, Leave, Stop
<1>4. ASSUME NEW s \in Submits, Install(s) PROVE SerialOK'
  BY <1>4 DEF Install
<1>5. ASSUME NEW s \in Submits, Report(s) PROVE SerialOK'
  BY <1>5 DEF Report, Lookup
<1>6. ASSUME NEW s \in Submits, Unwind(s) PROVE SerialOK'
  BY <1>6 DEF Unwind, Stop
<1>7. ASSUME NEW s \in Submits, Release(s) PROVE SerialOK'
  BY <1>7 DEF Release
<1>8. ASSUME NEW s \in Submits, Deadline(s) PROVE SerialOK'
  BY <1>8 DEF Deadline, Stop
<1>9. ASSUME NEW s \in Submits, NEW how \in {"done", "failed"}, TurnEnds(s, how) PROVE SerialOK'
  BY <1>9 DEF TurnEnds, Active
<1>10. ASSUME NEW s \in Submits, NEW n \in Sessions, Register(s, n) PROVE SerialOK'
  BY <1>10 DEF Register
<1>11. ASSUME NEW a \in Aborts, NEW n \in Sessions, Abort(a, n) PROVE SerialOK'
  BY <1>11 DEF Abort
<1>12. CASE UNCHANGED sessionVars
  BY <1>12 DEF sessionVars
<1> QED
  BY <1>1, <1>2, <1>3, <1>4, <1>5, <1>6, <1>7, <1>8, <1>9, <1>10, <1>11, <1>12
     DEF Next, Cancelling, Turn

\* The turn that runs stays within reach of an abort.
LEMMA ReachKept == IInv /\ [Next]_sessionVars => AbortReaches'
<1> SUFFICES ASSUME IInv, [Next]_sessionVars PROVE AbortReaches'
  OBVIOUS
<1> USE DEF IInv, TypeOK, TargetsOK, EntriesOK, CancelledOK, SerialOK, Registering,
             AbortReaches, Active, BeingCancelled
<1>1. ASSUME NEW x \in Callers, CancelOnce(x) PROVE AbortReaches'
  BY <1>1 DEF CancelOnce, Leave
<1>2. ASSUME NEW x \in Callers, Tag(x) PROVE AbortReaches'
  BY <1>2 DEF Tag
<1>3. ASSUME NEW x \in Callers, Invoke(x) PROVE AbortReaches'
  BY <1>3 DEF Invoke, Leave, Stop
<1>4. ASSUME NEW s \in Submits, Install(s) PROVE AbortReaches'
  BY <1>4 DEF Install
<1>5. ASSUME NEW s \in Submits, Report(s) PROVE AbortReaches'
  BY <1>5 DEF Report, Lookup
<1>6. ASSUME NEW s \in Submits, Unwind(s) PROVE AbortReaches'
  BY <1>6 DEF Unwind, Stop
<1>7. ASSUME NEW s \in Submits, Release(s) PROVE AbortReaches'
  BY <1>7 DEF Release
<1>8. ASSUME NEW s \in Submits, Deadline(s) PROVE AbortReaches'
  BY <1>8 DEF Deadline, Stop
<1>9. ASSUME NEW s \in Submits, NEW how \in {"done", "failed"}, TurnEnds(s, how) PROVE AbortReaches'
  BY <1>9 DEF TurnEnds, Active
<1>10. ASSUME NEW s \in Submits, NEW n \in Sessions, Register(s, n) PROVE AbortReaches'
  BY <1>10 DEF Register
<1>11. ASSUME NEW a \in Aborts, NEW n \in Sessions, Abort(a, n) PROVE AbortReaches'
  BY <1>11 DEF Abort
<1>12. CASE UNCHANGED sessionVars
  BY <1>12 DEF sessionVars
<1> QED
  BY <1>1, <1>2, <1>3, <1>4, <1>5, <1>6, <1>7, <1>8, <1>9, <1>10, <1>11, <1>12
     DEF Next, Cancelling, Turn

\* Every step keeps the invariant.
LEMMA IInvKept == IInv /\ [Next]_sessionVars => IInv'
  BY TypesKept, TargetsKept, EntriesKept, HoldersKept, AnswersKept, EventsKept,
     CancelledKept, SerialKept, ReachKept DEF IInv

\* The invariant holds throughout.
LEMMA Invariance == Spec => []IInv
<1>1. Init => IInv
  BY InitIInv
<1>2. IInv /\ [Next]_sessionVars => IInv'
  BY IInvKept
<1> QED
  BY <1>1, <1>2, PTL DEF Spec
-----------------------------------------------------------------------------
(* The claims. *)

\* Registry, callers and turns keep their types (api/sessioncancel/registry.go,
\* gateway/protocol.go).
THEOREM RegistryTypeCorrect == Spec => []TypeOK
<1>1. IInv => TypeOK
  BY DEF IInv
<1> QED
  BY <1>1, Invariance, PTL

\* Where submits register one after the other, no order of submits, aborts and
\* releases puts a turn that runs out of an abort's reach (Registry.Register).
THEOREM AbortsReach == Spec => []AbortReaches
<1>1. IInv => AbortReaches
  BY DEF IInv
<1> QED
  BY <1>1, Invariance, PTL

\* A turn that is over leaves no entry (the release that Registry.Register
\* returns).
THEOREM RegistryDrained == Spec => []RegistryDrains
<1>1. IInv => RegistryDrains
  BY DEF IInv, EntriesOK, RegistryDrains
<1> QED
  BY <1>1, Invariance, PTL

\* One abort at most is told that it cancelled a turn, and the turn carries its
\* tag (cancelOnce).
THEOREM OneAbortHeard == Spec => []AbortsOnce
<1>1. IInv => AbortsOnce
  BY DEF IInv, AnswersOK
<1> QED
  BY <1>1, Invariance, PTL

\* A turn is reported cancelled or timed out only if it was (protocolSubmit).
THEOREM EventsEarned == Spec => []EventEarned
<1>1. IInv => EventEarned
  BY DEF IInv, EventsOK
<1> QED
  BY <1>1, Invariance, PTL
=============================================================================
