------------------------- MODULE SessionCancelProps -------------------------
(***************************************************************************)
(* What the registry and the turns promise.                                *)
(***************************************************************************)
EXTENDS SessionCancel

\* Entries, callers and turns hold what the code can store in them; whoever
\* cancels has an entry in hand.
TypeOK ==
  /\ entries \in [Sessions -> Submits \cup {None}]
  /\ cancelled \subseteq Submits
  /\ code \in [Submits -> Codes]
  /\ context \in [Submits -> {"live", "canceled", "deadline"}]
  /\ session \in [Callers -> Sessions \cup {None}]
  /\ pc \in [Callers -> {"ready", "cancel", "tag", "invoke", "install", "turn",
                         "done", "failed", "unwind", "release", "end"}]
  /\ target \in [Callers -> Submits \cup {None}]
  /\ event \in [Submits -> Codes \cup {"idle", "error"}]
  /\ aborted \in [Aborts -> Submits \cup {None}]

\* Whoever cancels s right now.
BeingCancelled(s) ==
  \E x \in Callers : target[x] = s /\ pc[x] \in {"cancel", "tag", "invoke"}

\* Where submits register one after the other, a turn that runs on is the one
\* an abort of its session would stop, or it is being stopped: no order of
\* submits, aborts and releases loses its entry.
AbortReaches ==
  \A s \in Submits : session[s] \in Serial /\ Active(s) /\ context[s] = "live" =>
    entries[session[s]] = s \/ BeingCancelled(s)

\* A turn that is over leaves no entry behind, however it ended.
RegistryDrains ==
  \A s \in Submits : pc[s] = "end" => \A n \in Sessions : entries[n] # s

\* At most one abort is told that it cancelled a turn; the turn carries the tag
\* of that abort and its context is done.
AbortsOnce ==
  \A a, b \in Aborts : aborted[a] # None =>
    /\ aborted[a] = aborted[b] => a = b
    /\ code[aborted[a]] = CodeOf(a)
    /\ context[aborted[a]] # "live"

\* A turn is reported cancelled only if somebody cancelled it, and timed out
\* only if its deadline passed; an error of its own is reported as an error.
EventEarned ==
  \A s \in Submits :
    /\ event[s] \in {"user_abort", "preempted"} => s \in cancelled
    /\ event[s] = "timeout" => context[s] = "deadline"
=============================================================================
