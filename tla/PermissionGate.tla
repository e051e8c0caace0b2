--------------------------- MODULE PermissionGate ---------------------------
(****************************************************************************)
(* The human-in-the-loop gate of tool calls (internal/permissions), its     *)
(* reply endpoint (gateway/plan_handlers.go) and the governance holds built *)
(* on it (gateway/governance_wire.go, governance/approval.go), for one      *)
(* tenant, the agents of one user, and one tool.                            *)
(*                                                                          *)
(* A call is an agent's goroutine that wants to run the tool: "tool" is a   *)
(* call of a gated tool for a user, "unowned" one made for no user (a task  *)
(* worker's), "hold" a governance hold.  It writes a row of                 *)
(* permission_requests, registers a channel and waits.  A request is an     *)
(* HTTP request that answers it: from the card in the chat, or from the     *)
(* governance inbox.  A definition marked "Slip" is a plausible mistake in  *)
(* the one that follows it, for the mutation runs.                          *)
(****************************************************************************)
EXTENDS Mishaps

CONSTANTS
  Calls, CallKind, AgentOf,      \* the calls, their kinds and their agents
  Agents,
  Cards, Inboxes,                \* requests of the reply and decide endpoints
  UserOf, Owner,                 \* who sends each request, whose agents these are
  Edited,                        \* agents whose policy may be edited
  InitialPolicy,                 \* policies when the gateway starts
  DefaultScope,                  \* of the tool, in the agents' role profile
  Offered, EditScopes            \* what cards decide, what policies are edited to

Requests == Cards \cup Inboxes

Scopes == {"auto_approved", "ask_first", "blocked"}
Decisions == {"allow", "allow_always", "allow_session", "allow_1h", "deny"}
Answers == {"allowed", "denied"}

\* Policies and grants are kept per agent, and workspace-wide under "any".
Holders == Agents \cup {"any"}

ASSUME CallsAssumption ==
  /\ \A c \in Calls : CallKind[c] \in {"tool", "unowned", "hold"} /\ AgentOf[c] \in Agents
  /\ "any" \notin Agents
ASSUME RequestsAssumption == Cards \cap Inboxes = {} /\ "none" \notin Calls
ASSUME PolicyAssumption ==
  /\ Edited \subseteq Agents
  /\ \A h \in Holders : InitialPolicy[h] \in Scopes \cup {"none"}
  /\ DefaultScope \in Scopes /\ EditScopes \subseteq Scopes
  /\ Offered \subseteq Decisions

VARIABLES
  row,        \* permission_requests.state of the call's row
  repliedBy,  \* permission_requests.replied_by
  hold,       \* approval_requests.status of the hold's row
  policy,     \* permission_policies.scope
  transient,  \* Gate.transient: "session", "timed" or "none" (also: run out)
  listening,  \* calls with a channel in Gate.pending
  channel,    \* what the channel's one slot holds
  pc,         \* where each call is
  rpc,        \* where each request is
  target,     \* the call a request is about
  decision,   \* what it decides
  unread      \* history: calls whose look for a blocking policy failed

rows == <<row, repliedBy, hold, policy>>
memory == <<transient, listening, channel>>
requestVars == <<rpc, target, decision>>
vars == <<rows, memory, pc, requestVars, unread, mishaps>>

None == "none"
CallPoints == {"blocked?", "auto?", "transient?", "insert", "install",
               "create", "wait", "expire", "ran", "refused", "lost"}
RequestPoints == {"ready", "reply", "signal", "close", "grant", "end"}
Ended == {"ran", "refused", "lost"}

\* Gate.Request starts with its short-circuits; a hold, and a call for no user,
\* with the request itself.
FirstPoint(c) == IF CallKind[c] = "tool" THEN "blocked?" ELSE "insert"

Init ==
  /\ row = [c \in Calls |-> "absent"]
  /\ repliedBy = [c \in Calls |-> None]
  /\ hold = [c \in Calls |-> "absent"]
  /\ policy = [h \in Holders |-> InitialPolicy[h]]
  /\ transient = [h \in Holders |-> None]
  /\ listening = {}
  /\ channel = [c \in Calls |-> None]
  /\ pc = [c \in Calls |-> FirstPoint(c)]
  /\ rpc = [r \in Requests |-> "ready"]
  /\ target = [r \in Requests |-> None]
  /\ decision = [r \in Requests |-> None]
  /\ unread = {}
  /\ mishaps = 0

Goto(c, point) == pc' = [pc EXCEPT ![c] = point]
RGoto(r, point) == rpc' = [rpc EXCEPT ![r] = point]
-----------------------------------------------------------------------------
(* Gate.Request: the short-circuits, each a query of its own. *)

HasPolicyForAgent(a, scope) == policy[a] = scope \/ policy["any"] = scope
HasTransientAllow(a) == transient[a] # None

\* Slip: the two checks the other way round.
CheckAutoFirst(c) ==
  /\ pc[c] = "blocked?"
  /\ Goto(c, IF HasPolicyForAgent(AgentOf[c], "auto_approved") THEN "ran"
             ELSE IF HasPolicyForAgent(AgentOf[c], "blocked") THEN "refused"
             ELSE "auto?")
  /\ UNCHANGED <<rows, memory, requestVars, unread>> /\ Fine

\* A query for a policy that fails finds none: the call goes on.
CheckBlocked(c) ==
  /\ pc[c] = "blocked?"
  /\ \/ /\ Goto(c, IF HasPolicyForAgent(AgentOf[c], "blocked") THEN "refused"
                                                               ELSE "auto?")
        /\ UNCHANGED unread /\ Fine
     \/ /\ Goto(c, "auto?") /\ Mishap
        /\ unread' = unread \cup {c}
  /\ UNCHANGED <<rows, memory, requestVars>>

CheckAuto(c) ==
  /\ pc[c] = "auto?"
  /\ \/ /\ Goto(c, IF HasPolicyForAgent(AgentOf[c], "auto_approved") THEN "ran"
                                                                     ELSE "transient?")
        /\ Fine
     \/ Goto(c, "transient?") /\ Mishap
  /\ UNCHANGED <<rows, memory, requestVars, unread>>

CheckTransient(c) ==
  /\ pc[c] = "transient?"
  /\ Goto(c, IF HasTransientAllow(AgentOf[c]) THEN "ran" ELSE "insert")
  /\ UNCHANGED <<rows, memory, requestVars, unread, mishaps>>
-----------------------------------------------------------------------------
(* Gate.NewPending and its wait. *)

Insert(c) ==
  /\ pc[c] = "insert"
  /\ \/ row' = [row EXCEPT ![c] = "pending"] /\ Goto(c, "install") /\ Fine
     \/ Goto(c, "refused") /\ UNCHANGED row /\ Mishap
  /\ UNCHANGED <<repliedBy, hold, policy, memory, requestVars, unread>>

\* The channel is installed before the event, but after the row is there.
Install(c) ==
  /\ pc[c] = "install"
  /\ listening' = listening \cup {c}
  /\ Goto(c, IF CallKind[c] = "hold" THEN "create" ELSE "wait")
  /\ UNCHANGED <<rows, transient, channel, requestVars, unread, mishaps>>

\* RequestApproval writes the hold's own row; its error is logged only.
Create(c) ==
  /\ pc[c] = "create"
  /\ \/ hold' = [hold EXCEPT ![c] = "pending"] /\ Fine
     \/ UNCHANGED hold /\ Mishap
  /\ Goto(c, "wait")
  /\ UNCHANGED <<row, repliedBy, policy, memory, requestVars, unread>>

Deregister(c) ==
  /\ listening' = listening \ {c}
  /\ channel' = [channel EXCEPT ![c] = None]

\* A reply is in the channel, whether or not the timer has fired too.
Hear(c) ==
  /\ pc[c] = "wait" /\ channel[c] # None
  /\ Goto(c, IF channel[c] = "allowed" THEN "ran" ELSE "refused")
  /\ Deregister(c)
  /\ UNCHANGED <<rows, transient, requestVars, unread, mishaps>>

\* The gate's default timeout is for every call.  Slip: a hold, which sets no
\* timeout of its own, has none.
NoTimerOnHolds(c) == CallKind[c] # "hold"
HasTimer(c) == TRUE

\* The timer fires, or the caller's context ends: the answer is deny, whatever
\* becomes of the row.
TimeOut(c) ==
  /\ pc[c] = "wait"
  /\ HasTimer(c)
  /\ Goto(c, "expire")
  /\ UNCHANGED <<rows, memory, requestVars, unread, mishaps>>

Cancel(c) ==
  /\ pc[c] = "wait"
  /\ Goto(c, "expire")
  /\ UNCHANGED <<rows, memory, requestVars, unread, mishaps>>

\* Slip: the UPDATE without its state = 'pending'.
MayExpireAny(c) == TRUE
MayExpire(c) == row[c] = "pending"

Expire(c) ==
  /\ pc[c] = "expire"
  /\ \/ /\ row' = IF MayExpire(c) THEN [row EXCEPT ![c] = "expired"] ELSE row
        /\ Fine
     \/ UNCHANGED row /\ Mishap
  /\ Goto(c, "refused")
  /\ Deregister(c)
  /\ UNCHANGED <<repliedBy, hold, policy, transient, requestVars, unread>>
-----------------------------------------------------------------------------
(* Gate.Reply and the two endpoints that call it. *)

\* Slip: the lasting decisions are not reduced to allow.
AnswerAsGiven(d) == IF d = "deny" THEN "denied" ELSE d
Answer(d) == IF d = "deny" THEN "denied" ELSE "allowed"

\* The card: any request row can be answered, also one already resolved.
OpenCard(r) ==
  /\ r \in Cards /\ rpc[r] = "ready"
  /\ \E c \in Calls, d \in Offered :
       /\ row[c] # "absent"
       /\ target' = [target EXCEPT ![r] = c]
       /\ decision' = [decision EXCEPT ![r] = d]
  /\ RGoto(r, "reply")
  /\ UNCHANGED <<rows, memory, pc, unread, mishaps>>

\* The inbox: the hold is decided if it is still pending, and the linked
\* request is answered either way.
Decide(r) ==
  /\ r \in Inboxes /\ rpc[r] = "ready"
  /\ \E c \in Calls, d \in {"allow", "deny"} :
       /\ hold[c] # "absent"
       /\ hold' = IF hold[c] = "pending"
                  THEN [hold EXCEPT ![c] = IF d = "allow" THEN "approved"
                                                          ELSE "denied"]
                  ELSE hold
       /\ target' = [target EXCEPT ![r] = c]
       /\ decision' = [decision EXCEPT ![r] = d]
  /\ RGoto(r, "reply")
  /\ UNCHANGED <<row, repliedBy, policy, memory, pc, unread, mishaps>>

\* Slip: conflicting answers are let through.
MayReplyUnless(c, answer) == row[c] # answer
MayReply(c, answer) == row[c] = "pending"

IsRepeat(r, c, answer) == row[c] = answer /\ repliedBy[c] = UserOf[r]

AfterReply(r) == IF r \in Cards THEN "close" ELSE "end"

\* Slip: the card's handler goes on after an error.
AfterConflictIgnored(r) == AfterReply(r)
AfterConflict(r) == "end"

\* The transaction: a repeat of the same user's answer succeeds and wakes no
\* one, any other answer to a resolved request is an error.  Or a statement
\* fails, the last one perhaps after the answer is committed.
Reply(r) ==
  /\ rpc[r] = "reply"
  /\ LET c == target[r]
         answer == Answer(decision[r])
         Accepted == /\ ~IsRepeat(r, c, answer) /\ MayReply(c, answer)
                     /\ row' = [row EXCEPT ![c] = answer]
                     /\ repliedBy' = [repliedBy EXCEPT ![c] = UserOf[r]]
     IN  \/ /\ IsRepeat(r, c, answer)
            /\ RGoto(r, AfterReply(r))
            /\ UNCHANGED <<row, repliedBy>> /\ Fine
         \/ Accepted /\ RGoto(r, "signal") /\ Fine
         \/ /\ ~IsRepeat(r, c, answer) /\ ~MayReply(c, answer)
            /\ RGoto(r, AfterConflict(r))
            /\ UNCHANGED <<row, repliedBy>> /\ Fine
         \/ /\ RGoto(r, "end") /\ Mishap
            /\ Accepted \/ UNCHANGED <<row, repliedBy>>
  /\ UNCHANGED <<hold, policy, memory, pc, target, decision, unread>>

\* Signal the goroutine, if it listens and its channel's slot is free.
Signal(r) ==
  /\ rpc[r] = "signal"
  /\ LET c == target[r]
     IN  channel' = IF c \in listening /\ channel[c] = None
                    THEN [channel EXCEPT ![c] = Answer(decision[r])]
                    ELSE channel
  /\ RGoto(r, AfterReply(r))
  /\ UNCHANGED <<rows, transient, listening, pc, target, decision, unread, mishaps>>

\* The card closes the governance hold behind the request, if it finds one;
\* an error is dropped.
CloseHold(r) ==
  /\ rpc[r] = "close"
  /\ LET c == target[r]
     IN  \/ /\ hold' = IF hold[c] = "pending"
                       THEN [hold EXCEPT ![c] = IF decision[r] = "deny"
                                                THEN "denied" ELSE "approved"]
                       ELSE hold
            /\ Fine
         \/ UNCHANGED hold /\ Mishap
  /\ RGoto(r, "grant")
  /\ UNCHANGED <<row, repliedBy, policy, memory, pc, target, decision, unread>>

\* What the decision grants beyond this call goes to whoever answered, and is
\* stored without an agent; a policy that cannot be written is dropped.
Granted(r) == IF UserOf[r] = Owner THEN decision[r] ELSE None

Grant(r) ==
  /\ rpc[r] = "grant"
  /\ \/ /\ policy' = IF Granted(r) = "allow_always"
                     THEN [policy EXCEPT !["any"] = "auto_approved"] ELSE policy
        /\ Fine
     \/ Granted(r) = "allow_always" /\ UNCHANGED policy /\ Mishap
  /\ transient' = CASE Granted(r) = "allow_session" ->
                         [transient EXCEPT !["any"] = "session"]
                    [] Granted(r) = "allow_1h" ->
                         [transient EXCEPT !["any"] = "timed"]
                    [] OTHER -> transient
  /\ RGoto(r, "end")
  /\ UNCHANGED <<row, repliedBy, hold, listening, channel, pc, target,
                 decision, unread>>
-----------------------------------------------------------------------------
(* Policies are edited, profiles loaded, timed grants run out. *)

SetPolicyScoped(a) ==
  /\ \E scope \in EditScopes \ {policy[a]} : policy' = [policy EXCEPT ![a] = scope]
  /\ UNCHANGED <<row, repliedBy, hold, memory, pc, requestVars, unread, mishaps>>

RevokePolicy(a) ==
  /\ policy[a] # None
  /\ policy' = [policy EXCEPT ![a] = None]
  /\ UNCHANGED <<row, repliedBy, hold, memory, pc, requestVars, unread, mishaps>>

LoadDefaults(a) ==
  /\ policy[a] = None
  /\ policy' = [policy EXCEPT ![a] = DefaultScope]
  /\ UNCHANGED <<row, repliedBy, hold, memory, pc, requestVars, unread, mishaps>>

GrantRunsOut ==
  /\ \E h \in Holders : /\ transient[h] = "timed"
                        /\ transient' = [transient EXCEPT ![h] = None]
  /\ UNCHANGED <<rows, listening, channel, pc, requestVars, unread, mishaps>>

\* The gateway restarts: calls, requests and everything in memory are gone;
\* rows stay as they are.  Calls and requests not begun may still come.
NotBegun(c) == pc[c] = FirstPoint(c)

Crash ==
  /\ Mishap
  /\ pc' = [c \in Calls |-> IF pc[c] \in Ended \/ NotBegun(c) THEN pc[c] ELSE "lost"]
  /\ rpc' = [r \in Requests |-> IF rpc[r] = "ready" THEN "ready" ELSE "end"]
  /\ transient' = [h \in Holders |-> None]
  /\ listening' = {}
  /\ channel' = [c \in Calls |-> None]
  /\ UNCHANGED <<rows, target, decision, unread>>
-----------------------------------------------------------------------------
CallStep(c) == \/ CheckBlocked(c) \/ CheckAuto(c) \/ CheckTransient(c)
               \/ Insert(c) \/ Install(c) \/ Create(c)
               \/ Hear(c) \/ TimeOut(c) \/ Expire(c)

RequestStep(r) == Reply(r) \/ Signal(r) \/ CloseHold(r) \/ Grant(r)

Next ==
  \/ \E c \in Calls : CallStep(c) \/ Cancel(c)
  \/ \E r \in Requests : OpenCard(r) \/ Decide(r) \/ RequestStep(r)
  \/ \E a \in Edited : SetPolicyScoped(a) \/ RevokePolicy(a)
  \/ \E a \in Agents : LoadDefaults(a)
  \/ GrantRunsOut \/ Crash

Spec == Init /\ [][Next]_vars

\* Goroutines of calls that can run do, and timers fire.  Nobody need ever
\* answer, and a reply need not come to its end.
FairSpec == Spec /\ \A c \in Calls : WF_vars(CallStep(c))
=============================================================================
