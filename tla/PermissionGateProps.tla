------------------------ MODULE PermissionGateProps ------------------------
(***************************************************************************)
(* What is claimed of the permission gate (module PermissionGate).         *)
(***************************************************************************)
EXTENDS PermissionGate

\* The type invariant.
TypeOK ==
  /\ row \in [Calls -> {"absent", "pending", "allowed", "denied", "expired"}]
  /\ hold \in [Calls -> {"absent", "pending", "approved", "denied"}]
  /\ policy \in [Holders -> Scopes \cup {None}]
  /\ transient \in [Holders -> {None, "session", "timed"}]
  /\ listening \subseteq Calls
  /\ channel \in [Calls -> Answers \cup {None}]
  /\ pc \in [Calls -> CallPoints]
  /\ rpc \in [Requests -> RequestPoints]
  /\ repliedBy \in [Calls -> {UserOf[r] : r \in Requests} \cup {None}]
  /\ target \in [Requests -> Calls \cup {None}]
  /\ decision \in [Requests -> Decisions \cup {None}]
  /\ unread \subseteq Calls
  /\ mishaps \in 0..MaxMishaps

\* A prompted call runs only if its row says so: no timeout, late reply,
\* second reply or restart lets a tool run whose request is not allowed
\* (gate.go Reply, wait; wrap.go Execute).
RanOnlyIfAllowed ==
  \A c \in Calls : pc[c] = "ran" /\ row[c] # "absent" => row[c] = "allowed"

\* What waits in the channel is what the row says (gate.go 500-510).
ChannelMatchesRow ==
  \A c \in Calls : channel[c] # None => channel[c] = row[c]

\* Blocked takes precedence: a call of an agent blocked from the start and left
\* so never runs, whatever is granted workspace-wide, save in two ways the code
\* leaves open: the look for the blocking policy failed, or the call is one
\* without a user, and somebody allowed it (gate.go 397-402 and 125).
BlockedNeverRuns ==
  \A c \in Calls :
    (/\ CallKind[c] # "hold"
     /\ AgentOf[c] \notin Edited /\ InitialPolicy[AgentOf[c]] = "blocked")
      => (pc[c] = "ran" => \/ CallKind[c] = "tool" /\ c \in unread
                           \/ CallKind[c] = "unowned" /\ row[c] = "allowed")

\* Nothing is granted beyond a call but by an answer that was accepted: a reply
\* that lost to another leaves no policy and no grant behind
\* (plan_handlers.go 387-430).
GrantsEarned ==
  (policy["any"] = "auto_approved" /\ InitialPolicy["any"] # "auto_approved")
    \/ transient["any"] # None
      => \E r \in Cards : /\ UserOf[r] = Owner
                          /\ target[r] \in Calls /\ row[target[r]] = "allowed"
                          /\ decision[r] \notin {"allow", "deny"}

\* An answer, or its absence, is final, whoever answers again and however
\* late the timeout is (gate.go 470-478, 535-542).
AnswersFinal ==
  [][\A c \in Calls : row[c] \in {"allowed", "denied", "expired"}
                        => row'[c] = row[c]]_vars

\* What the contract of module GateContract speaks of.
Outcome(c) == IF pc[c] \in Ended THEN pc[c] ELSE "open"
Waives(h) == policy[h] = "auto_approved" \/ transient[h] # None

Contract == INSTANCE GateContract WITH
  Holds <- {c \in Calls : CallKind[c] # "tool"},
  InitiallyWaived <- {h \in Holders : InitialPolicy[h] = "auto_approved"},
  verdict <- row, outcome <- [c \in Calls |-> Outcome(c)],
  waived <- {h \in Holders : Waives(h)}

\* Whatever the interleaving of timers, replies, edits and restarts, the gate
\* keeps the contract of module GateContract: no call is run but by its own
\* verdict or a waiver of the moment, and no verdict is ever taken back
\* (gate.go 390-560, plan_handlers.go 387-430).
KeepsGateContract == Contract!ContractSpec

\* Every call gets its answer: nobody need reply for it to end.
EveryCallEnds == <>(\A c \in Calls : pc[c] \in Ended)
=============================================================================
