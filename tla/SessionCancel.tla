--------------------------- MODULE SessionCancel ---------------------------
(****************************************************************************)
(* Cancelling the turns of a session: the registry of cancel functions      *)
(* (api/sessioncancel/registry.go), the submit that runs a turn and says    *)
(* how it ended (gateway/protocol.go protocolSubmit), and the abort command.*)
(* A registry entry is named after the submit it was made for.              *)
(*                                                                          *)
(* A step is one critical section of the registry, one atomic operation or  *)
(* one write of an entry.  "Slip" marks a plausible mistake in the          *)
(* definition that follows.                                                 *)
(****************************************************************************)
EXTENDS Naturals

CONSTANTS
  Sessions,
  Submits,    \* submits of a prompt, each with the goroutine of its turn
  Aborts,     \* abort commands
  Serial      \* sessions whose submits are registered one after the other

ASSUME SessionsAssumption ==
  /\ "none" \notin Sessions \cup Submits \cup Aborts
  /\ Submits \cap Aborts = {}
  /\ Serial \subseteq Sessions

VARIABLES
  entries,   \* the registry: the entry installed for each session
  cancelled, \* entries whose cancelled flag is set
  code,      \* Entry.Code
  context,   \* the context of each turn: "live", "canceled" or "deadline"
  session,   \* the session of each submit and abort
  pc,        \* where each submit and abort is
  target,    \* the entry it is cancelling
  event,     \* the last event of each turn
  aborted    \* what each abort answered: the entry it cancelled

sessionVars == <<entries, cancelled, code, context, session, pc, target, event, aborted>>
-----------------------------------------------------------------------------
Callers == Submits \cup Aborts
Codes == {"none", "preempted", "user_abort", "timeout"}
None == "none"
\* The code each caller of cancelOnce tags an entry with.
CodeOf(x) == IF x \in Submits THEN "preempted" ELSE "user_abort"
Is(x, point) == pc[x] = point
Goto(x, point) == pc' = [pc EXCEPT ![x] = point]
\* A submit that has not installed its entry yet, past its first look.
Registering(s) == s \in Submits /\ pc[s] \in {"cancel", "tag", "invoke", "install"}
\* The agent loop of the turn has not returned.
Active(s) == Is(s, "turn")

Init ==
  /\ entries = [n \in Sessions |-> None]
  /\ cancelled = {}
  /\ code = [s \in Submits |-> None]
  /\ context = [s \in Submits |-> "live"]
  /\ session = [x \in Callers |-> None]
  /\ pc = [x \in Callers |-> "ready"]
  /\ target = [x \in Callers |-> None]
  /\ event = [s \in Submits |-> None]
  /\ aborted = [a \in Aborts |-> None]

-----------------------------------------------------------------------------
(* Registry. *)

\* Register, its first critical section: an entry in the way is cancelled
\* outside the lock.  Slip: it is only replaced.
RegisterReplaces(s, n) ==
  /\ Is(s, "ready") /\ s \in Submits
  /\ n \in Serial => \A x \in Submits : ~Registering(x) \/ session[x] # n
  /\ session' = [session EXCEPT ![s] = n]
  /\ Goto(s, "turn") /\ entries' = [entries EXCEPT ![n] = s] /\ UNCHANGED target
  /\ UNCHANGED <<cancelled, code, context, event, aborted>>
Register(s, n) ==
  /\ Is(s, "ready") /\ s \in Submits
  /\ n \in Serial => \A x \in Submits : ~Registering(x) \/ session[x] # n
  /\ session' = [session EXCEPT ![s] = n]
  /\ IF entries[n] = None
     THEN Goto(s, "turn") /\ entries' = [entries EXCEPT ![n] = s] /\ UNCHANGED target
     ELSE Goto(s, "cancel") /\ target' = [target EXCEPT ![s] = entries[n]] /\ UNCHANGED entries
  /\ UNCHANGED <<cancelled, code, context, event, aborted>>

\* Its second one: the new entry is installed whatever is there by now.
Install(s) ==
  /\ Is(s, "install")
  /\ entries' = [entries EXCEPT ![session[s]] = s]
  /\ Goto(s, "turn")
  /\ UNCHANGED <<cancelled, code, context, session, target, event, aborted>>

\* cancelOnce returns.
Leave(x) ==
  /\ Goto(x, IF x \in Submits THEN "install" ELSE "end")
  /\ target' = [target EXCEPT ![x] = None]

\* cancelOnce: the swap decides who goes on.  Slip: a plain read does.
CancelOnceUnchecked(x) ==
  /\ Is(x, "cancel")
  /\ cancelled' = cancelled \cup {target[x]}
  /\ Goto(x, "tag")
  /\ UNCHANGED <<entries, code, context, session, target, event, aborted>>
CancelOnce(x) ==
  /\ Is(x, "cancel")
  /\ cancelled' = cancelled \cup {target[x]}
  /\ IF target[x] \in cancelled THEN Leave(x) ELSE Goto(x, "tag") /\ UNCHANGED target
  /\ UNCHANGED <<entries, code, context, session, event, aborted>>

\* The tags are written outside the lock that Lookup reads them under.
Tag(x) ==
  /\ Is(x, "tag")
  /\ code' = [code EXCEPT ![target[x]] = CodeOf(x)]
  /\ Goto(x, "invoke")
  /\ UNCHANGED <<entries, cancelled, context, session, target, event, aborted>>

Stop(s, how) == context' = [context EXCEPT ![s] = IF @ = "live" THEN how ELSE @]

\* The cancel function; an abort then answers true.
Invoke(x) ==
  /\ Is(x, "invoke")
  /\ Stop(target[x], "canceled")
  /\ aborted' = IF x \in Aborts THEN [aborted EXCEPT ![x] = target[x]] ELSE aborted
  /\ Leave(x)
  /\ UNCHANGED <<entries, cancelled, code, session, event>>

\* The abort command looks the entry up and cancels it outside the lock.
\* Slip: also when there is none.
AbortMissing(a, n) ==
  /\ Is(a, "ready") /\ a \in Aborts
  /\ session' = [session EXCEPT ![a] = n]
  /\ target' = [target EXCEPT ![a] = entries[n]]
  /\ Goto(a, "cancel")
  /\ UNCHANGED <<entries, cancelled, code, context, event, aborted>>
Abort(a, n) ==
  /\ Is(a, "ready") /\ a \in Aborts
  /\ session' = [session EXCEPT ![a] = n]
  /\ target' = [target EXCEPT ![a] = entries[n]]
  /\ Goto(a, IF entries[n] = None THEN "end" ELSE "cancel")
  /\ UNCHANGED <<entries, cancelled, code, context, event, aborted>>
-----------------------------------------------------------------------------
(* The turn. *)

\* submitHardTimeout, which may also pass between the loop's return and the
\* look at the context.
Deadline(s) ==
  /\ pc[s] \in {"turn", "done", "failed"} /\ context[s] = "live"
  /\ Stop(s, "deadline")
  /\ UNCHANGED <<entries, cancelled, code, session, pc, target, event, aborted>>

\* The agent loop returns; its error is known, its cause is not.
TurnEnds(s, how) ==
  /\ Active(s) /\ how \in {"done", "failed"} /\ Goto(s, how)
  /\ UNCHANGED <<entries, cancelled, code, context, session, target, event, aborted>>

\* The event by the error and the context's cause.  Slip: by the error alone.
Lookup(s) ==
  LET e == entries[session[s]]
  IN  IF e = None \/ code[e] = None THEN "user_abort" ELSE code[e]
ReportAnyFailure(s) ==
  /\ pc[s] \in {"done", "failed"} /\ Goto(s, "unwind")
  /\ event' = [event EXCEPT ![s] = IF Is(s, "done") THEN "idle" ELSE Lookup(s)]
  /\ UNCHANGED <<entries, cancelled, code, context, session, target, aborted>>
Report(s) ==
  /\ pc[s] \in {"done", "failed"} /\ Goto(s, "unwind")
  /\ event' = [event EXCEPT ![s] =
       IF Is(s, "done") THEN "idle"
       ELSE IF context[s] = "canceled" THEN Lookup(s)
       ELSE IF context[s] = "deadline" THEN "timeout"
       ELSE "error"]
  /\ UNCHANGED <<entries, cancelled, code, context, session, target, aborted>>

\* The deferred cancel, then the deferred release, which removes only its own
\* entry.  Slip: not one that was cancelled.
Unwind(s) ==
  /\ Is(s, "unwind") /\ Goto(s, "release")
  /\ Stop(s, "canceled")
  /\ UNCHANGED <<entries, cancelled, code, session, target, event, aborted>>
ReleaseUncancelled(s) ==
  /\ Is(s, "release") /\ Goto(s, "end")
  /\ entries' = [entries EXCEPT ![session[s]] = IF @ = s /\ s \notin cancelled THEN None ELSE @]
  /\ UNCHANGED <<cancelled, code, context, session, target, event, aborted>>
Release(s) ==
  /\ Is(s, "release") /\ Goto(s, "end")
  /\ entries' = [entries EXCEPT ![session[s]] = IF @ = s THEN None ELSE @]
  /\ UNCHANGED <<cancelled, code, context, session, target, event, aborted>>

Cancelling(x) == CancelOnce(x) \/ Tag(x) \/ Invoke(x)
Turn(s) == Install(s) \/ Report(s) \/ Unwind(s) \/ Release(s)
Next ==
  \/ \E x \in Callers : Cancelling(x)
  \/ \E s \in Submits :
       Turn(s) \/ Deadline(s) \/ TurnEnds(s, "done") \/ TurnEnds(s, "failed")
  \/ \E s \in Submits, n \in Sessions : Register(s, n)
  \/ \E a \in Aborts, n \in Sessions : Abort(a, n)

Spec == Init /\ [][Next]_sessionVars
=============================================================================
