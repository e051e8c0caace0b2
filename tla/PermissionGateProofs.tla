------------------------ MODULE PermissionGateProofs ------------------------
(****************************************************************************)
(* What PermissionGateProps claims of the permission gate, proved for every *)
(* number of calls, requests, agents and restarts.                          *)
(*                                                                          *)
(* IInv adds to the claims what keeps them: a call that has not asked yet   *)
(* has no row, what is no call for a user skips the short-circuits, a       *)
(* request past Gate.Reply finds its answer in the row, and the policy that *)
(* blocks an agent stays.                                                   *)
(****************************************************************************)
EXTENDS PermissionGateProps, TLAPS

NotAskedYet ==
  \A c \in Calls : pc[c] \in {"blocked?", "auto?", "transient?", "insert"}
                     => row[c] = "absent"

HoldsAsk ==
  \A c \in Calls : CallKind[c] # "tool" =>
    /\ pc[c] \notin {"blocked?", "auto?", "transient?"}
    /\ pc[c] = "ran" => row[c] = "allowed"

TargetsOK ==
  \A r \in Requests :
    /\ rpc[r] = "ready" => target[r] = None
    /\ rpc[r] \in {"reply", "signal", "close", "grant"}
         => target[r] \in Calls /\ decision[r] \in Decisions
    /\ rpc[r] \in {"close", "grant"} => r \in Cards

RepliesStand ==
  \A r \in Requests : rpc[r] \in {"signal", "close", "grant"}
                        => row[target[r]] = Answer(decision[r])

Blocked(c) == /\ CallKind[c] # "hold"
              /\ AgentOf[c] \notin Edited /\ InitialPolicy[AgentOf[c]] = "blocked"

BlockedStays ==
  \A c \in Calls : Blocked(c) =>
    /\ policy[AgentOf[c]] = "blocked"
    /\ CallKind[c] = "tool" /\ c \notin unread
         => pc[c] \in {"blocked?", "refused", "lost"}

IInv == /\ TypeOK /\ NotAskedYet /\ HoldsAsk /\ TargetsOK
        /\ RanOnlyIfAllowed /\ ChannelMatchesRow /\ RepliesStand
        /\ GrantsEarned /\ BlockedStays

USE DEF None, Fine, Mishap
-----------------------------------------------------------------------------
(* The parts, one after the other. *)

\* The initial state satisfies the invariant.
LEMMA InitIInv == Init => IInv
<1> SUFFICES ASSUME Init PROVE IInv
  OBVIOUS
<1> USE CallsAssumption, RequestsAssumption, PolicyAssumption, MishapsAssumption
<1>1. TypeOK
  BY DEF Init, FirstPoint, TypeOK, Holders, CallPoints, RequestPoints
<1>2. NotAskedYet /\ HoldsAsk /\ RanOnlyIfAllowed /\ ChannelMatchesRow
  BY DEF Init, FirstPoint, NotAskedYet, HoldsAsk, RanOnlyIfAllowed,
         ChannelMatchesRow
<1>3. TargetsOK /\ RepliesStand
  BY DEF Init, TargetsOK, RepliesStand
<1>4. GrantsEarned
  BY DEF Init, GrantsEarned, Holders
<1>5. BlockedStays
  BY DEF Init, FirstPoint, BlockedStays, Blocked, Holders
<1> QED
  BY <1>1, <1>2, <1>3, <1>4, <1>5 DEF IInv

\* A step of a call keeps the types.
LEMMA CallTypes ==
  ASSUME TypeOK, NEW c \in Calls, CallStep(c) \/ Cancel(c)
  PROVE  TypeOK'
<1> USE CallsAssumption, MishapsAssumption DEF TypeOK, rows, memory, requestVars, Goto, CallPoints
<1>1. CASE CheckBlocked(c)
  BY <1>1 DEF CheckBlocked
<1>2. CASE CheckAuto(c)
  BY <1>2 DEF CheckAuto
<1>3. CASE CheckTransient(c)
  BY <1>3 DEF CheckTransient
<1>4. CASE Insert(c)
  BY <1>4 DEF Insert
<1>5. CASE Install(c)
  BY <1>5 DEF Install
<1>6. CASE Create(c)
  BY <1>6 DEF Create
<1>7. CASE Hear(c)
  BY <1>7 DEF Hear, Deregister
<1>8. CASE TimeOut(c)
  BY <1>8 DEF TimeOut
<1>9. CASE Expire(c)
  BY <1>9 DEF Expire, Deregister
<1>10. CASE Cancel(c)
  BY <1>10 DEF Cancel
<1> QED
  BY <1>1, <1>2, <1>3, <1>4, <1>5, <1>6, <1>7, <1>8, <1>9, <1>10 DEF CallStep

\* A step of a request keeps the types.
LEMMA RequestTypes ==
  ASSUME TypeOK, TargetsOK, NEW r \in Requests,
         OpenCard(r) \/ Decide(r) \/ RequestStep(r)
  PROVE  TypeOK'
<1> USE PolicyAssumption, MishapsAssumption
    DEF TypeOK, rows, memory, RGoto, RequestPoints, AfterReply,
            AfterConflict, Answer, Answers, Decisions
<1>1. CASE OpenCard(r)
  BY <1>1 DEF OpenCard
<1>2. CASE Decide(r)
  BY <1>2 DEF Decide
<1>3. CASE Reply(r)
  <2>1. target[r] \in Calls /\ Answer(decision[r]) \in Answers
    BY <1>3 DEF Reply, TargetsOK
  <2>2. row' \in [Calls -> {"absent", "pending", "allowed", "denied", "expired"}]
    BY <1>3, <2>1 DEF Reply
  <2>3. repliedBy' \in [Calls -> {UserOf[q] : q \in Requests} \cup {None}]
    BY <1>3, <2>1 DEF Reply
  <2>4. rpc' \in [Requests -> RequestPoints]
    BY <1>3 DEF Reply
  <2> QED
    BY <1>3, <2>2, <2>3, <2>4 DEF Reply
<1>4. CASE Signal(r)
  BY <1>4 DEF Signal, TargetsOK
<1>5. CASE CloseHold(r)
  BY <1>5 DEF CloseHold, TargetsOK
<1>6. CASE Grant(r)
  <2>1. /\ policy' \in [Holders -> Scopes \cup {None}]
        /\ transient' \in [Holders -> {None, "session", "timed"}]
    BY <1>6 DEF Grant, Holders, Scopes
  <2> QED
    BY <1>6, <2>1 DEF Grant
<1> QED
  BY <1>1, <1>2, <1>3, <1>4, <1>5, <1>6 DEF RequestStep

\* Edits, profiles, grants that run out and restarts keep the types.
LEMMA OtherTypes ==
  ASSUME TypeOK,
         \/ \E a \in Edited : SetPolicyScoped(a) \/ RevokePolicy(a)
         \/ \E a \in Agents : LoadDefaults(a)
         \/ GrantRunsOut \/ Crash
  PROVE  TypeOK'
<1> USE PolicyAssumption, MishapsAssumption
    DEF TypeOK, rows, memory, requestVars, Holders
<1>1. CASE \E a \in Edited : SetPolicyScoped(a) \/ RevokePolicy(a)
  BY <1>1 DEF SetPolicyScoped, RevokePolicy
<1>2. CASE \E a \in Agents : LoadDefaults(a)
  BY <1>2 DEF LoadDefaults
<1>3. CASE GrantRunsOut
  BY <1>3 DEF GrantRunsOut
<1>4. CASE Crash
  BY <1>4 DEF Crash, CallPoints, RequestPoints
<1> QED
  BY <1>1, <1>2, <1>3, <1>4

\* The rows only move forward: asked for, then answered or expired.
RowsAdvance ==
  \A c \in Calls :
    \/ row'[c] = row[c]
    \/ row[c] = "absent" /\ row'[c] = "pending" /\ pc[c] = "insert"
         /\ pc'[c] = "install"
    \/ row[c] = "pending" /\ row'[c] \in {"allowed", "denied", "expired"}

\* Insert, Expire and Reply are all that writes a row, and only forward.
LEMMA RowSteps == ASSUME TypeOK, NotAskedYet, TargetsOK, Next PROVE RowsAdvance
<1> USE DEF RowsAdvance, TypeOK
<1>1. ASSUME NEW c \in Calls, Insert(c) PROVE RowsAdvance
  BY <1>1 DEF Insert, Goto, NotAskedYet
<1>2. ASSUME NEW c \in Calls, Expire(c) PROVE RowsAdvance
  BY <1>2 DEF Expire, MayExpire
<1>3. ASSUME NEW r \in Requests, Reply(r) PROVE RowsAdvance
  <2>1. target[r] \in Calls /\ Answer(decision[r]) \in {"allowed", "denied"}
    BY <1>3 DEF Reply, TargetsOK, Answer
  <2> QED
    BY <1>3, <2>1 DEF Reply, MayReply
<1>4. CASE UNCHANGED row
  BY <1>4
<1> QED
  BY <1>1, <1>2, <1>3, <1>4
  DEF Next, CallStep, RequestStep, rows, CheckBlocked, CheckAuto,
      CheckTransient, Install, Create, Hear, TimeOut, Cancel, OpenCard, Decide,
      Signal, CloseHold, Grant, SetPolicyScoped, RevokePolicy, LoadDefaults,
      GrantRunsOut, Crash

\* Where a call goes in one step.
CallsAdvance ==
  \A c \in Calls :
    \/ pc'[c] = pc[c]
    \/ pc'[c] \in {"refused", "lost"}
    \/ pc[c] \in {"install", "create", "wait"}
         /\ pc'[c] \in {"expire", "wait", "create"}
    \/ pc'[c] = "install" /\ pc[c] = "insert" /\ row'[c] = "pending"
    \/ /\ row'[c] = row[c]
       /\ \/ /\ pc[c] = "blocked?" /\ pc'[c] = "auto?"
             /\ policy[AgentOf[c]] # "blocked" \/ c \in unread'
          \/ pc[c] = "auto?" /\ pc'[c] \in {"transient?", "ran"}
          \/ pc[c] = "transient?" /\ pc'[c] \in {"insert", "ran"}
          \/ pc[c] = "wait" /\ pc'[c] = "ran" /\ channel[c] = "allowed"

\* Every step moves a call as CallsAdvance says.
LEMMA CallSteps == ASSUME TypeOK, Next PROVE CallsAdvance
<1> USE DEF CallsAdvance, TypeOK, Goto
<1>1. ASSUME NEW c \in Calls, CallStep(c) \/ Cancel(c) PROVE CallsAdvance
  <2>1. CASE CheckBlocked(c) \/ CheckAuto(c) \/ CheckTransient(c)
    BY <2>1 DEF CheckBlocked, CheckAuto, CheckTransient, rows, HasPolicyForAgent
  <2>2. CASE Insert(c) \/ Install(c) \/ Create(c)
    BY <2>2 DEF Insert, Install, Create, rows
  <2>3. CASE Hear(c)
    BY <2>3 DEF Hear, rows
  <2>4. CASE TimeOut(c) \/ Cancel(c) \/ Expire(c)
    BY <2>4 DEF TimeOut, Cancel, Expire
  <2> QED
    BY <1>1, <2>1, <2>2, <2>3, <2>4 DEF CallStep
<1>2. CASE Crash
  BY <1>2 DEF Crash
<1>3. CASE UNCHANGED pc
  BY <1>3
<1> QED
  BY <1>1, <1>2, <1>3
  DEF Next, RequestStep, OpenCard, Decide, Reply, Signal, CloseHold, Grant,
      SetPolicyScoped, RevokePolicy, LoadDefaults, GrantRunsOut

\* The first check turns a blocked agent's call away.
LEMMA BlockedCalls ==
  ASSUME TypeOK, Next, NEW c \in Calls, CallKind[c] = "tool",
         policy[AgentOf[c]] = "blocked",
         c \notin unread, c \notin unread',
         pc[c] \in {"blocked?", "refused", "lost"}
  PROVE  pc'[c] \in {"blocked?", "refused", "lost"}
<1>1. CallsAdvance
  BY CallSteps
<1>2. CASE pc[c] = "blocked?"
  BY <1>1, <1>2 DEF CallsAdvance
<1>3. CASE pc[c] # "blocked?"
  BY <1>1, <1>3 DEF CallsAdvance
<1> QED
  BY <1>2, <1>3

\* A failed look is not forgotten.
LEMMA UnreadGrows == ASSUME Next PROVE unread \subseteq unread'
<1>1. ASSUME NEW c \in Calls, CheckBlocked(c) PROVE unread \subseteq unread'
  BY <1>1 DEF CheckBlocked
<1>2. CASE UNCHANGED unread
  BY <1>2
<1> QED
  BY <1>1, <1>2
  DEF Next, CallStep, RequestStep, CheckAuto, CheckTransient, Insert, Install,
      Create, Hear, TimeOut, Expire, Cancel, OpenCard, Decide, Reply, Signal,
      CloseHold, Grant, SetPolicyScoped, RevokePolicy, LoadDefaults,
      GrantRunsOut, Crash

\* A channel is filled with an answer that stands, emptied, or left alone.
LEMMA ChannelSteps ==
  ASSUME TypeOK, TargetsOK, RepliesStand, Next
  PROVE  \A c \in Calls : \/ channel'[c] \in {channel[c], None}
                          \/ row[c] = channel'[c] /\ row'[c] = row[c]
<1> DEFINE Goal == \A c \in Calls : \/ channel'[c] \in {channel[c], None}
                                    \/ row[c] = channel'[c] /\ row'[c] = row[c]
<1> SUFFICES Goal
  OBVIOUS
<1> USE DEF TypeOK
<1>1. ASSUME NEW r \in Requests, Signal(r) PROVE Goal
  BY <1>1 DEF Signal, rows, TargetsOK, RepliesStand
<1>2. ASSUME NEW c \in Calls, Hear(c) \/ Expire(c) PROVE Goal
  BY <1>2 DEF Hear, Expire, Deregister
<1>3. CASE Crash
  BY <1>3 DEF Crash
<1>4. CASE UNCHANGED channel
  BY <1>4
<1> QED
  BY <1>1, <1>2, <1>3, <1>4
  DEF Next, CallStep, RequestStep, memory, CheckBlocked, CheckAuto,
      CheckTransient, Insert, Install, Create, TimeOut, Cancel, OpenCard, Decide,
      Reply, CloseHold, Grant, SetPolicyScoped, RevokePolicy, LoadDefaults,
      GrantRunsOut

\* What a request does to itself; nothing else moves it but a restart.
RequestsAdvance ==
  \A r \in Requests :
    \/ /\ target'[r] = target[r] /\ decision'[r] = decision[r]
       /\ \/ rpc'[r] \in {rpc[r], "end"}
          \/ /\ rpc[r] = "reply" /\ rpc'[r] \in {"signal", "close"}
             /\ rpc'[r] = "close" => r \in Cards
             /\ row'[target[r]] = Answer(decision[r])
          \/ rpc[r] = "signal" /\ rpc'[r] = "close" /\ r \in Cards
          \/ rpc[r] = "close" /\ rpc'[r] = "grant"
    \/ /\ rpc[r] = "ready" /\ rpc'[r] = "reply"
       /\ target'[r] \in Calls /\ decision'[r] \in Decisions

\* Every step moves a request as RequestsAdvance says.
LEMMA RequestSteps == ASSUME TypeOK, TargetsOK, Next PROVE RequestsAdvance
<1> USE DEF RequestsAdvance, TypeOK, RGoto
<1>1. ASSUME NEW r \in Requests, OpenCard(r) \/ Decide(r) PROVE RequestsAdvance
  BY <1>1, PolicyAssumption DEF OpenCard, Decide, Decisions
<1>2. ASSUME NEW r \in Requests, Reply(r) PROVE RequestsAdvance
  <2>1. target[r] \in Calls
    BY <1>2 DEF Reply, TargetsOK
  <2> QED
    BY <1>2, <2>1 DEF Reply, AfterReply, AfterConflict, IsRepeat
<1>3. ASSUME NEW r \in Requests, Signal(r) PROVE RequestsAdvance
  BY <1>3 DEF Signal, AfterReply
<1>4. ASSUME NEW r \in Requests, CloseHold(r) \/ Grant(r) PROVE RequestsAdvance
  <2>1. /\ UNCHANGED <<target, decision>>
        /\ \/ rpc[r] = "close" /\ rpc' = [rpc EXCEPT ![r] = "grant"]
           \/ rpc' = [rpc EXCEPT ![r] = "end"]
    BY <1>4 DEF CloseHold, Grant
  <2> QED
    BY <2>1
<1>5. CASE Crash
  BY <1>5 DEF Crash
<1>6. CASE UNCHANGED requestVars
  BY <1>6 DEF requestVars
<1> QED
  BY <1>1, <1>2, <1>3, <1>4, <1>5, <1>6
  DEF Next, CallStep, RequestStep, CheckBlocked, CheckAuto,
      CheckTransient, Insert, Install, Create, Hear, TimeOut, Expire, Cancel,
      SetPolicyScoped, RevokePolicy, LoadDefaults, GrantRunsOut

\* What is granted, and to whom.
GrantsAdvance ==
  /\ policy'["any"] = policy["any"] \/ \E r \in Requests :
       /\ rpc[r] = "grant" /\ UserOf[r] = Owner /\ decision[r] = "allow_always"
  /\ transient'["any"] \in {transient["any"], None} \/ \E r \in Requests :
       /\ rpc[r] = "grant" /\ UserOf[r] = Owner
       /\ decision[r] \in {"allow_session", "allow_1h"}
  /\ \A a \in Agents \ Edited : policy[a] # None => policy'[a] = policy[a]

\* Every step changes policies and grants as GrantsAdvance says.
LEMMA GrantSteps == ASSUME TypeOK, Next PROVE GrantsAdvance
<1> USE CallsAssumption, PolicyAssumption DEF GrantsAdvance, TypeOK, Holders
<1>1. ASSUME NEW r \in Requests, Grant(r) PROVE GrantsAdvance
  <2>1. \/ policy' = policy
        \/ /\ policy' = [policy EXCEPT !["any"] = "auto_approved"]
           /\ UserOf[r] = Owner /\ decision[r] = "allow_always"
    BY <1>1, Zenon DEF Grant, Granted
  <2>2. \/ transient' = transient
        \/ Granted(r) \in {"allow_session", "allow_1h"}
    BY <1>1 DEF Grant
  <2>3. rpc[r] = "grant"
    BY <1>1 DEF Grant
  <2> QED
    BY <2>1, <2>2, <2>3 DEF Granted
<1>2. ASSUME NEW a \in Edited, SetPolicyScoped(a) \/ RevokePolicy(a)
      PROVE  GrantsAdvance
  BY <1>2 DEF SetPolicyScoped, RevokePolicy, memory
<1>3. ASSUME NEW a \in Agents, LoadDefaults(a) PROVE GrantsAdvance
  BY <1>3 DEF LoadDefaults, memory
<1>4. CASE GrantRunsOut \/ Crash
  BY <1>4 DEF GrantRunsOut, Crash, rows
<1>5. CASE UNCHANGED <<policy, transient>>
  BY <1>5
<1> QED
  BY <1>1, <1>2, <1>3, <1>4, <1>5
  DEF Next, CallStep, RequestStep, rows, memory, CheckBlocked, CheckAuto,
      CheckTransient, Insert, Install, Create, Hear, TimeOut, Expire, Cancel,
      OpenCard, Decide, Reply, Signal, CloseHold
-----------------------------------------------------------------------------
(* The invariant is inductive. *)

\* Every step keeps the types.
LEMMA TypeStep == ASSUME TypeOK, TargetsOK, [Next]_vars PROVE TypeOK'
<1>1. CASE UNCHANGED vars
  BY <1>1 DEF vars, rows, memory, requestVars, TypeOK
<1>2. CASE Next
  BY <1>2, CallTypes, RequestTypes, OtherTypes DEF Next
<1> QED
  BY <1>1, <1>2

\* Every step keeps the invariant.
LEMMA Inductive == ASSUME IInv, [Next]_vars PROVE IInv'
<1>1. CASE UNCHANGED vars
  <2> USE <1>1 DEF IInv, vars, rows, memory, requestVars
  <2>1. TypeOK'
    BY TypeStep
  <2>2. (NotAskedYet /\ HoldsAsk /\ RanOnlyIfAllowed /\ ChannelMatchesRow)'
    BY DEF NotAskedYet, HoldsAsk, RanOnlyIfAllowed, ChannelMatchesRow
  <2>3. (TargetsOK /\ RepliesStand)'
    BY DEF TargetsOK, RepliesStand
  <2>4. (GrantsEarned /\ BlockedStays)'
    BY DEF GrantsEarned, BlockedStays, Blocked
  <2> QED
    BY <2>1, <2>2, <2>3, <2>4
<1>2. CASE Next
  <2>1. /\ TypeOK /\ TypeOK' /\ TargetsOK
        /\ RowsAdvance /\ CallsAdvance /\ RequestsAdvance /\ GrantsAdvance
    BY <1>2, TypeStep, RowSteps, CallSteps, RequestSteps, GrantSteps DEF IInv
  <2>2. NotAskedYet' /\ HoldsAsk'
    <3>1. NotAskedYet'
      BY <2>1 DEF IInv, NotAskedYet, RowsAdvance, CallsAdvance
    <3>2. ASSUME NEW c \in Calls, CallKind[c] # "tool"
          PROVE  /\ pc'[c] \notin {"blocked?", "auto?", "transient?"}
                 /\ pc'[c] = "ran" => row'[c] = "allowed"
      <4>1. /\ pc[c] \notin {"blocked?", "auto?", "transient?"}
            /\ pc[c] = "ran" => row[c] = "allowed"
            /\ channel[c] = "allowed" => row[c] = "allowed"
        BY <3>2 DEF IInv, HoldsAsk, ChannelMatchesRow
      <4> QED
        BY <2>1, <4>1 DEF RowsAdvance, CallsAdvance
    <3> QED
      BY <3>1, <3>2 DEF HoldsAsk
  <2>3. RanOnlyIfAllowed'
    BY <2>1 DEF IInv, NotAskedYet, RanOnlyIfAllowed, ChannelMatchesRow,
                RowsAdvance, CallsAdvance
  <2>4. ChannelMatchesRow'
    <3>1. ASSUME NEW c \in Calls, channel'[c] # None
          PROVE  channel'[c] = row'[c]
      <4>1. CASE channel'[c] = channel[c]
        <5>1. channel[c] \in {"allowed", "denied"} /\ row[c] = channel[c]
          BY <2>1, <3>1, <4>1 DEF IInv, TypeOK, ChannelMatchesRow, Answers
        <5> QED
          BY <2>1, <4>1, <5>1 DEF RowsAdvance
      <4>2. CASE channel'[c] # channel[c]
        BY <1>2, <3>1, <4>2, ChannelSteps DEF IInv
      <4> QED
        BY <4>1, <4>2
    <3> QED
      BY <3>1 DEF ChannelMatchesRow
  <2>5. TargetsOK'
    <3>1. ASSUME NEW r \in Requests
          PROVE  /\ rpc'[r] = "ready" => target'[r] = None
                 /\ rpc'[r] \in {"reply", "signal", "close", "grant"}
                      => target'[r] \in Calls /\ decision'[r] \in Decisions
                 /\ rpc'[r] \in {"close", "grant"} => r \in Cards
      BY <2>1 DEF TargetsOK, RequestsAdvance
    <3> QED
      BY <3>1 DEF TargetsOK
  <2>6. RepliesStand'
    <3>1. ASSUME NEW r \in Requests, rpc'[r] \in {"signal", "close", "grant"}
          PROVE  row'[target'[r]] = Answer(decision'[r])
      <4>1. target'[r] = target[r] /\ decision'[r] = decision[r]
        BY <2>1, <3>1 DEF RequestsAdvance
      <4>2. CASE rpc[r] = "reply"
        BY <2>1, <3>1, <4>1, <4>2 DEF RequestsAdvance
      <4>3. CASE rpc[r] \in {"signal", "close", "grant"}
        <5>1. /\ target[r] \in Calls
              /\ row[target[r]] = Answer(decision[r])
              /\ Answer(decision[r]) \in {"allowed", "denied"}
          BY <2>1, <4>3 DEF IInv, RepliesStand, TargetsOK, Answer
        <5> QED
          BY <2>1, <4>1, <5>1 DEF RowsAdvance
      <4> QED
        BY <2>1, <3>1, <4>2, <4>3 DEF RequestsAdvance
    <3> QED
      BY <3>1 DEF RepliesStand
  <2>7. GrantsEarned'
    <3> DEFINE Earns(r) == /\ UserOf[r] = Owner
                           /\ target[r] \in Calls /\ row[target[r]] = "allowed"
                           /\ decision[r] \notin {"allow", "deny"}
    <3>1. ASSUME NEW r \in Cards, Earns(r)
          PROVE  /\ target'[r] = target[r] /\ decision'[r] = decision[r]
                 /\ row'[target'[r]] = "allowed"
      <4>1. r \in Requests /\ rpc[r] # "ready"
        BY <2>1, <3>1, RequestsAssumption DEF TargetsOK, Requests
      <4>2. target'[r] = target[r] /\ decision'[r] = decision[r]
        BY <2>1, <4>1 DEF RequestsAdvance
      <4> QED
        BY <2>1, <3>1, <4>2 DEF RowsAdvance
    <3>2. ASSUME NEW r \in Requests, rpc[r] = "grant", UserOf[r] = Owner,
                 decision[r] \in {"allow_always", "allow_session", "allow_1h"}
          PROVE  r \in Cards /\ Earns(r)
      <4>1. Answer(decision[r]) = "allowed"
        BY <3>2 DEF Answer
      <4> QED
        BY <2>1, <3>2, <4>1 DEF IInv, TargetsOK, RepliesStand
    <3>3. ASSUME \E r \in Cards : Earns(r)
          PROVE  GrantsEarned'
      BY <3>1, <3>3 DEF GrantsEarned
    <3>4. CASE /\ policy'["any"] = policy["any"]
               /\ transient'["any"] \in {transient["any"], None}
      <4>1. CASE \E r \in Cards : Earns(r)
        BY <3>3, <4>1
      <4>2. CASE ~\E r \in Cards : Earns(r)
        BY <3>4, <4>2 DEF IInv, GrantsEarned
      <4> QED
        BY <4>1, <4>2
    <3> QED
      BY <2>1, <3>2, <3>3, <3>4 DEF GrantsAdvance
  <2>8. BlockedStays'
    <3>1. ASSUME NEW c \in Calls, Blocked(c)
          PROVE  policy'[AgentOf[c]] = "blocked"
      <4>1. AgentOf[c] \in Agents \ Edited /\ policy[AgentOf[c]] = "blocked"
        BY <3>1, CallsAssumption DEF IInv, BlockedStays, Blocked
      <4> QED
        BY <2>1, <4>1 DEF GrantsAdvance
    <3>2. ASSUME NEW c \in Calls, Blocked(c), CallKind[c] = "tool",
                 c \notin unread'
          PROVE  pc'[c] \in {"blocked?", "refused", "lost"}
      <4>1. c \notin unread
        BY <1>2, <3>2, UnreadGrows
      <4>2. /\ policy[AgentOf[c]] = "blocked"
            /\ pc[c] \in {"blocked?", "refused", "lost"}
        BY <3>2, <4>1 DEF IInv, BlockedStays
      <4> QED
        BY <1>2, <3>2, <4>1, <4>2, BlockedCalls DEF IInv
    <3> QED
      BY <3>1, <3>2 DEF BlockedStays, Blocked
  <2> QED
    BY <2>1, <2>2, <2>3, <2>4, <2>5, <2>6, <2>7, <2>8 DEF IInv
<1> QED
  BY <1>1, <1>2

\* IInv holds in every reachable state.
THEOREM Invariant == Spec => []IInv
<1>1. IInv /\ [Next]_vars => IInv'
  BY Inductive
<1> QED
  BY InitIInv, <1>1, PTL DEF Spec
-----------------------------------------------------------------------------
(* What follows. *)

\* Every variable keeps its type.
THEOREM GateTypeCorrect == Spec => []TypeOK
<1>1. IInv => TypeOK
  BY DEF IInv
<1> QED
  BY Invariant, <1>1, PTL

\* A prompted call runs only if its row says allowed.
THEOREM OnlyAllowedRun == Spec => []RanOnlyIfAllowed
<1>1. IInv => RanOnlyIfAllowed
  BY DEF IInv
<1> QED
  BY Invariant, <1>1, PTL

\* What waits in a channel is what the row says.
THEOREM ChannelsTruthful == Spec => []ChannelMatchesRow
<1>1. IInv => ChannelMatchesRow
  BY DEF IInv
<1> QED
  BY Invariant, <1>1, PTL

\* Nothing is granted but by an accepted answer.
THEOREM NothingUnearned == Spec => []GrantsEarned
<1>1. IInv => GrantsEarned
  BY DEF IInv
<1> QED
  BY Invariant, <1>1, PTL

\* A blocked agent's call runs only if the look for its policy failed, or if it
\* is for no user and somebody allowed it.
THEOREM BlockedStayBlocked == Spec => []BlockedNeverRuns
<1>1. IInv => BlockedNeverRuns
  BY CallsAssumption DEF IInv, BlockedStays, Blocked, HoldsAsk, BlockedNeverRuns
<1> QED
  BY Invariant, <1>1, PTL

\* An answer is final, whoever answers again and however late the timer is.
THEOREM AnswersStayFinal == Spec => AnswersFinal
<1>1. IInv /\ [Next]_vars =>
        [\A c \in Calls : row[c] \in {"allowed", "denied", "expired"}
                            => row'[c] = row[c]]_vars
  BY RowSteps DEF IInv, RowsAdvance
<1> QED
  BY Invariant, <1>1, PTL DEF Spec, AnswersFinal
-----------------------------------------------------------------------------
(* The gate keeps its contract: every step of it is one of the contract, or *)
(* changes nothing the contract speaks of.                                  *)

Outcomes == [c \in Calls |-> Outcome(c)]
Waivers == {h \in Holders : Waives(h)}

\* The initial states map to the contract's.
LEMMA ContractInitially == ASSUME Init PROVE Contract!ContractInit
<1>1. row = [c \in Calls |-> "absent"]
  BY DEF Init
<1>2. Outcomes = [c \in Calls |-> "open"]
  BY DEF Init, Outcomes, Outcome, FirstPoint, Ended
<1>3. Waivers = {h \in Holders : InitialPolicy[h] = "auto_approved"}
  BY DEF Init, Waivers, Waives
<1> QED
  BY <1>1, <1>2, <1>3 DEF Contract!ContractInit, Outcomes, Waivers

\* A call that goes on without ending leaves every outcome as it is.
LEMMA OutcomesStay ==
  ASSUME TypeOK, NEW c \in Calls, NEW point \in CallPoints \ Ended,
         pc[c] \notin Ended, Goto(c, point)
  PROVE  Outcomes' = Outcomes
BY DEF TypeOK, Goto, Outcomes, Outcome

\* A call that ends takes its outcome, and no other call's changes.
LEMMA OutcomeDecided ==
  ASSUME TypeOK, NEW c \in Calls, NEW how \in {"ran", "refused"},
         pc[c] \notin Ended, Goto(c, how)
  PROVE  Contract!Finish(c, how)
<1>1. Outcomes[c] = "open"
  BY DEF Outcomes, Outcome
<1>2. Outcomes' = [Outcomes EXCEPT ![c] = how]
  BY DEF TypeOK, Goto, Outcomes, Outcome, Ended
<1> QED
  BY <1>1, <1>2 DEF Contract!Finish, Outcomes

\* While policies and grants stay, so do the waivers.
LEMMA WaiversStay ==
  ASSUME UNCHANGED <<policy, transient>> PROVE Waivers' = Waivers
BY DEF Waivers, Waives

\* The short-circuits: a call goes on, is refused, or runs on a waiver.
LEMMA ShortCircuitsKeep ==
  ASSUME IInv, NEW c \in Calls,
         CheckBlocked(c) \/ CheckAuto(c) \/ CheckTransient(c)
  PROVE  [Contract!ContractNext]_(Contract!contractVars)
<1>1. /\ row' = row /\ policy' = policy /\ transient' = transient
      /\ pc[c] \in {"blocked?", "auto?", "transient?"}
  BY DEF CheckBlocked, CheckAuto, CheckTransient, rows, memory
<1>2. /\ row[c] = "absent" /\ CallKind[c] = "tool" /\ pc[c] \notin Ended
      /\ AgentOf[c] \in Holders /\ "any" \in Holders
  BY <1>1, CallsAssumption DEF IInv, NotAskedYet, HoldsAsk, Ended, Holders
<1>3. Waivers' = Waivers
  BY <1>1, WaiversStay
<1>4. CASE \E point \in {"auto?", "transient?", "insert"} : Goto(c, point)
  <2>1. Outcomes' = Outcomes
    BY <1>2, <1>4, OutcomesStay DEF IInv, CallPoints, Ended
  <2> QED
    BY <1>1, <1>3, <2>1 DEF Contract!contractVars, Outcomes, Waivers
<1>5. CASE Goto(c, "refused")
  <2>1. Contract!Finish(c, "refused")
    BY <1>2, <1>5, OutcomeDecided DEF IInv
  <2> QED
    BY <1>1, <1>3, <2>1 DEF Contract!ContractNext, Contract!Refuse, Waivers
<1>6. CASE Goto(c, "ran")
  <2>1. pc'[c] = "ran"
    BY <1>6 DEF IInv, TypeOK, Goto
  <2>2. \/ HasPolicyForAgent(AgentOf[c], "auto_approved")
        \/ HasTransientAllow(AgentOf[c])
    <3>1. CASE CheckBlocked(c)
      BY <2>1, <3>1 DEF IInv, TypeOK, CheckBlocked, Goto
    <3>2. CASE CheckAuto(c)
      BY <2>1, <3>2 DEF IInv, TypeOK, CheckAuto, Goto
    <3>3. CASE CheckTransient(c)
      BY <2>1, <3>3 DEF IInv, TypeOK, CheckTransient, Goto
    <3> QED
      BY <3>1, <3>2, <3>3
  <2>3. AgentOf[c] \in Waivers \/ "any" \in Waivers
    BY <1>2, <2>2 DEF Waivers, Waives, HasPolicyForAgent, HasTransientAllow
  <2>4. Contract!Finish(c, "ran")
    BY <1>2, <1>6, OutcomeDecided DEF IInv
  <2>5. Contract!RunWaived(c)
    BY <1>1, <1>2, <1>3, <2>3, <2>4 DEF Contract!RunWaived, Waivers
  <2> QED
    BY <2>5 DEF Contract!ContractNext
<1> QED
  BY <1>4, <1>5, <1>6 DEF CheckBlocked, CheckAuto, CheckTransient

\* Asking and waiting: a call asks, runs on its own verdict, or is refused.
LEMMA PromptKeeps ==
  ASSUME IInv, NEW c \in Calls,
         \/ Insert(c) \/ Install(c) \/ Create(c) \/ Hear(c) \/ TimeOut(c)
         \/ Cancel(c) \/ Expire(c)
  PROVE  [Contract!ContractNext]_(Contract!contractVars)
<1>1. policy' = policy /\ transient' = transient
  BY DEF Insert, Install, Create, Hear, TimeOut, Cancel, Expire, rows, memory
<1>2. Waivers' = Waivers
  BY <1>1, WaiversStay
<1>3. pc[c] \notin Ended
  BY DEF Insert, Install, Create, Hear, TimeOut, Cancel, Expire, Ended
<1>4. CASE Insert(c)
  <2>1. row[c] = "absent"
    BY <1>4 DEF Insert, IInv, NotAskedYet
  <2>2. CASE row' = [row EXCEPT ![c] = "pending"] /\ Goto(c, "install")
    <3>1. Outcomes' = Outcomes
      BY <1>3, <2>2, OutcomesStay DEF IInv, CallPoints, Ended
    <3>2. Outcomes[c] = "open"
      BY <1>3 DEF Outcomes, Outcome
    <3>3. Contract!Ask(c)
      BY <1>2, <2>1, <2>2, <3>1, <3>2 DEF Contract!Ask, Outcomes, Waivers
    <3> QED
      BY <3>3 DEF Contract!ContractNext
  <2>3. CASE row' = row /\ Goto(c, "refused")
    <3>1. Contract!Finish(c, "refused")
      BY <1>3, <2>3, OutcomeDecided DEF IInv
    <3> QED
      BY <1>2, <2>3, <3>1 DEF Contract!ContractNext, Contract!Refuse, Waivers
  <2> QED
    BY <1>4, <2>2, <2>3 DEF Insert
<1>5. CASE Install(c) \/ Create(c) \/ TimeOut(c) \/ Cancel(c)
  <2>1. \E point \in {"create", "wait", "expire"} : Goto(c, point)
    BY <1>5 DEF Install, Create, TimeOut, Cancel
  <2>2. Outcomes' = Outcomes
    BY <1>3, <2>1, OutcomesStay DEF IInv, CallPoints, Ended
  <2>3. row' = row
    BY <1>5 DEF Install, Create, TimeOut, Cancel, rows
  <2> QED
    BY <1>2, <2>2, <2>3 DEF Contract!contractVars, Outcomes, Waivers
<1>6. CASE Hear(c)
  <2>1. row' = row /\ channel[c] = row[c]
    BY <1>6 DEF Hear, rows, IInv, ChannelMatchesRow
  <2>2. CASE channel[c] = "allowed"
    <3>1. Contract!Finish(c, "ran")
      BY <1>3, <1>6, <2>2, OutcomeDecided DEF IInv, Hear
    <3>2. Contract!RunAllowed(c)
      BY <1>2, <2>1, <2>2, <3>1 DEF Contract!RunAllowed, Waivers
    <3> QED
      BY <3>2 DEF Contract!ContractNext
  <2>3. CASE channel[c] # "allowed"
    <3>1. Contract!Finish(c, "refused")
      BY <1>3, <1>6, <2>3, OutcomeDecided DEF IInv, Hear
    <3> QED
      BY <1>2, <2>1, <3>1 DEF Contract!ContractNext, Contract!Refuse, Waivers
  <2> QED
    BY <2>2, <2>3
<1>7. CASE Expire(c)
  <2>1. Contract!Finish(c, "refused")
    BY <1>3, <1>7, OutcomeDecided DEF IInv, Expire
  <2>2. \/ row' = row
        \/ row[c] = "pending" /\ row' = [row EXCEPT ![c] = "expired"]
    BY <1>7 DEF Expire, MayExpire
  <2> QED
    BY <1>2, <2>1, <2>2 DEF Contract!ContractNext, Contract!Refuse, Waivers
<1> QED
  BY <1>4, <1>5, <1>6, <1>7

\* Requests: one rules on a call, or waives for all what an allowed call's card
\* grants, or changes nothing the contract speaks of.
LEMMA RequestsKeep ==
  ASSUME IInv, NEW r \in Requests,
         OpenCard(r) \/ Decide(r) \/ RequestStep(r)
  PROVE  [Contract!ContractNext]_(Contract!contractVars)
<1>1. Outcomes' = Outcomes
  <2>1. pc' = pc
    BY DEF RequestStep, OpenCard, Decide, Reply, Signal, CloseHold, Grant
  <2> QED
    BY <2>1 DEF Outcomes, Outcome
<1>2. CASE OpenCard(r) \/ Decide(r) \/ Signal(r) \/ CloseHold(r)
  <2>1. row' = row /\ policy' = policy /\ transient' = transient
    BY <1>2 DEF OpenCard, Decide, Signal, CloseHold, rows, memory
  <2> QED
    BY <1>1, <2>1, WaiversStay DEF Contract!contractVars, Outcomes, Waivers
<1>3. CASE Reply(r)
  <2>1. Waivers' = Waivers
    BY <1>3, WaiversStay DEF Reply, memory
  <2>2. CASE row' = row
    BY <1>1, <2>1, <2>2 DEF Contract!contractVars, Outcomes, Waivers
  <2>3. CASE row' # row
    <3>1. /\ target[r] \in Calls /\ row[target[r]] = "pending"
          /\ row' = [row EXCEPT ![target[r]] = Answer(decision[r])]
      BY <1>3, <2>3 DEF Reply, MayReply, IInv, TargetsOK
    <3>2. Contract!Rule(target[r])
      BY <1>1, <2>1, <3>1 DEF Contract!Rule, Answer, Outcomes, Waivers
    <3> QED
      BY <3>1, <3>2 DEF Contract!ContractNext
  <2> QED
    BY <2>2, <2>3
<1>4. CASE Grant(r)
  <2>1. row' = row
    BY <1>4 DEF Grant
  <2>2. CASE /\ Granted(r) \in {"allow_always", "allow_session", "allow_1h"}
             /\ <<policy, transient>>' # <<policy, transient>>
    <3>1. decision[r] = Granted(r) /\ target[r] \in Calls
      BY <1>4, <2>2 DEF Grant, Granted, IInv, TargetsOK
    <3>2. row[target[r]] = "allowed"
      BY <1>4, <2>2, <3>1 DEF Grant, Answer, IInv, RepliesStand
    <3>3. Waivers' = Waivers \cup {"any"}
      <4>1. CASE Granted(r) = "allow_always"
        BY <1>4, <2>2, <4>1 DEF Grant, Waivers, Waives, Holders, IInv, TypeOK
      <4>2. CASE Granted(r) = "allow_session"
        BY <1>4, <4>2 DEF Grant, Waivers, Waives, Holders, IInv, TypeOK
      <4>3. CASE Granted(r) = "allow_1h"
        BY <1>4, <4>3 DEF Grant, Waivers, Waives, Holders, IInv, TypeOK
      <4> QED
        BY <2>2, <4>1, <4>2, <4>3
    <3>4. Contract!WaiveForAll
      BY <1>1, <2>1, <3>1, <3>2, <3>3
      DEF Contract!WaiveForAll, Outcomes, Waivers
    <3> QED
      BY <3>4 DEF Contract!ContractNext
  <2>3. CASE \/ Granted(r) \notin {"allow_always", "allow_session", "allow_1h"}
             \/ <<policy, transient>>' = <<policy, transient>>
    <3>1. policy' = policy /\ transient' = transient
      BY <1>4, <2>3 DEF Grant
    <3> QED
      BY <1>1, <2>1, <3>1, WaiversStay
      DEF Contract!contractVars, Outcomes, Waivers
  <2> QED
    BY <2>2, <2>3
<1> QED
  BY <1>2, <1>3, <1>4 DEF RequestStep

\* An edit or a profile changes one agent's waiver.
LEMMA EditsKeep ==
  ASSUME IInv, NEW a \in Agents,
         SetPolicyScoped(a) \/ RevokePolicy(a) \/ LoadDefaults(a)
  PROVE  [Contract!ContractNext]_(Contract!contractVars)
<1>1. /\ row' = row /\ pc' = pc /\ transient' = transient
      /\ \E scope \in Scopes \cup {None} : policy' = [policy EXCEPT ![a] = scope]
  BY PolicyAssumption DEF SetPolicyScoped, RevokePolicy, LoadDefaults, memory
<1>2. Outcomes' = Outcomes
  BY <1>1 DEF Outcomes, Outcome
<1>3. Waivers' \in {Waivers \cup {a}, Waivers \ {a}}
  <2>1. \A h \in Holders \ {a} : Waives(h)' <=> Waives(h)
    BY <1>1 DEF Waives, IInv, TypeOK
  <2>2. a \in Holders
    BY DEF Holders
  <2> QED
    BY <2>1, <2>2 DEF Waivers
<1>4. Contract!EditAgent(a)
  BY <1>1, <1>2, <1>3 DEF Contract!EditAgent, Outcomes, Waivers
<1> QED
  BY <1>4 DEF Contract!ContractNext

\* Grants run out, and a restart forgets them and loses the calls under way.
LEMMA LapsesKeep ==
  ASSUME IInv, GrantRunsOut \/ Crash
  PROVE  [Contract!ContractNext]_(Contract!contractVars)
<1>1. row' = row /\ Waivers' \subseteq Waivers
  <2>1. /\ row' = row /\ policy' = policy
        /\ \A h \in Holders : transient'[h] # None => transient[h] # None
    BY DEF GrantRunsOut, Crash, rows, IInv, TypeOK
  <2> QED
    BY <2>1 DEF Waivers, Waives
<1> DEFINE Open == {c \in Calls : Outcomes[c] = "open"}
           Lost == {c \in Calls : pc[c] \notin Ended /\ pc'[c] = "lost"}
<1>2. Lost \in SUBSET Open
  BY DEF Outcomes, Outcome
<1>3. Outcomes' = [c \in Calls |-> IF c \in Lost THEN "lost" ELSE Outcomes[c]]
  <2>1. \A c \in Calls : pc'[c] = pc[c] \/ (pc[c] \notin Ended /\ pc'[c] = "lost")
    BY DEF GrantRunsOut, Crash, IInv, TypeOK
  <2>2. ASSUME NEW c \in Calls
        PROVE  Outcome(c)' = IF c \in Lost THEN "lost" ELSE Outcome(c)
    BY <2>1 DEF Outcome, Ended
  <2> QED
    BY <2>2 DEF Outcomes
<1>4. Contract!Lapse
  BY <1>1, <1>2, <1>3 DEF Contract!Lapse, Outcomes, Waivers
<1> QED
  BY <1>4 DEF Contract!ContractNext

\* Every step is one of the contract's, or a stutter.
LEMMA ContractSteps ==
  ASSUME IInv, [Next]_vars
  PROVE  [Contract!ContractNext]_(Contract!contractVars)
<1>1. CASE UNCHANGED vars
  <2>1. Outcomes' = Outcomes /\ Waivers' = Waivers /\ row' = row
    BY <1>1, WaiversStay DEF vars, rows, memory, Outcomes, Outcome
  <2> QED
    BY <2>1 DEF Contract!contractVars, Outcomes, Waivers
<1>2. CASE Next
  <2>1. ASSUME NEW c \in Calls, CallStep(c) \/ Cancel(c)
        PROVE  [Contract!ContractNext]_(Contract!contractVars)
    BY <2>1, ShortCircuitsKeep, PromptKeeps DEF CallStep
  <2>2. ASSUME NEW r \in Requests, OpenCard(r) \/ Decide(r) \/ RequestStep(r)
        PROVE  [Contract!ContractNext]_(Contract!contractVars)
    BY <2>2, RequestsKeep
  <2>3. ASSUME NEW a \in Agents,
               SetPolicyScoped(a) \/ RevokePolicy(a) \/ LoadDefaults(a)
        PROVE  [Contract!ContractNext]_(Contract!contractVars)
    BY <2>3, EditsKeep
  <2> QED
    BY <1>2, <2>1, <2>2, <2>3, LapsesKeep, PolicyAssumption DEF Next
<1> QED
  BY <1>1, <1>2

\* Whatever the interleaving of timers, replies, edits and restarts, the gate
\* keeps the contract of module GateContract.
THEOREM GateImplementsContract == Spec => KeepsGateContract
<1>1. Init => Contract!ContractInit
  BY ContractInitially
<1>2. IInv /\ [Next]_vars => [Contract!ContractNext]_(Contract!contractVars)
  BY ContractSteps
<1> QED
  BY <1>1, <1>2, Invariant, PTL DEF Spec, KeepsGateContract, Contract!ContractSpec
=============================================================================
