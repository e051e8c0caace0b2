---------------------------- MODULE GitHubProofs ----------------------------
(***************************************************************************)
(* The safety of the webhook with the merge queue and the fix loop behind  *)
(* it, proved for every number of pulls, deliveries, reports, retries and  *)
(* mishaps.                                                                *)
(*                                                                         *)
(* The argument is by component.  Every step is, for the merge queue, one  *)
(* of its own or a mishap elsewhere (QueueMove), so that its invariant     *)
(* holds in the composition; and it is for the fix loop one of its own or  *)
(* none (FixMove).  The fix loop's claims rest on two counts.  The fixes   *)
(* of an issue, made and in the making, exceed the highest attempt among   *)
(* them by no more than the counts that went wrong (WorkOK); the issues of *)
(* a key, open and about to be opened, exceed one by no more than the      *)
(* searches that did (SearchOK).                                           *)
(***************************************************************************)
EXTENDS GitHubProps, MergeQueueProofs, FiniteSetTheorems

\* Below the cap, at every point where an attempt is carried.
CapOK ==
  /\ AttemptsCapped
  /\ \A t \in Triggers : at[t] \in {"create", "stamp"} =>
       attempt[t] >= 1 /\ (FixAttemptCap > 0 => attempt[t] < FixAttemptCap)

Work(n) == FixesOf(n) \cup Making(n)
\* The attempt a trigger has stamped, or carries.
Of(t) == IF fix[t].issue # 0 THEN fix[t].attempt ELSE attempt[t]
\* An attempt carried is one above a stamped one, or the first.
Follows(t) == attempt[t] = 1 \/ \E u \in FixesOf(issue[t]) : fix[u].attempt = attempt[t] - 1
Accounted(n) ==
  \E top \in Nat :
    /\ top = 0 \/ \E u \in Work(n) : Of(u) = top
    /\ Cardinality(Work(n)) <= top + short + mishaps
WorkOK ==
  /\ \A t \in Triggers : at[t] # "end" => fix[t].issue = 0
  /\ \A t \in Triggers : at[t] \in {"create", "stamp"} => Follows(t)
  /\ \A n \in Issues : Accounted(n)

SearchOK ==
  \A k \in Keys : Cardinality(IssuesOf(k)) + Cardinality(Opening(k)) <= 1 + blind + mishaps

FixInv == FixTypeOK /\ mishaps \in Nat /\ CapOK /\ WorkOK /\ SearchOK
IInv == QueueInv /\ FixInv /\ CITypeOK

\* What a step may do to the fix loop.
Unmoved == UNCHANGED fixVars /\ mishaps' \in {mishaps, mishaps + 1}
FixMoves ==
  \/ \E t \in Triggers, k \in Keys : Trigger(t, k)
  \/ \E t \in Triggers : Fix(t)
  \/ People
  \/ Mishap /\ FixCrash
  \/ Unmoved

USE MergeAssumption, MishapsAssumption, GitHubAssumption DEF Goto, Done, Fine, Mishap, fixVars
-----------------------------------------------------------------------------
(* The fix loop. *)

\* A bound grows with its parts.
LEMMA BoundGrows ==
  ASSUME NEW x \in Nat, NEW y \in Nat, NEW u \in Nat, NEW v \in Nat, u >= x, v >= y,
         NEW c \in Nat, NEW top \in Nat, c <= top + x + y
  PROVE  c <= top + u + v /\ (u = x + 1 \/ v = y + 1 => c + 1 <= top + u + v)
  OBVIOUS
LEMMA BoundStarts == ASSUME NEW x \in Nat, NEW y \in Nat PROVE 0 + 1 <= 1 + x + y
  OBVIOUS

\* Numbers of issues are positive.
LEMMA IssuesPositive ==
  /\ Issues \subseteq Nat /\ 0 \notin Issues /\ FixAttemptCap \in Nat
  /\ IsFiniteSet(Issues) /\ IsFiniteSet(Triggers)
<1>1. Cardinality(Triggers) \in Nat
  BY FixAssumption, FS_CardinalityType
<1>2. IsFiniteSet(1 .. Cardinality(Triggers))
  BY <1>1, FS_Interval
<1> QED
  BY <1>1, <1>2, FixAssumption

\* What is counted is finite.
LEMMA Counted ==
  /\ \A n : /\ FixesOf(n) \subseteq Triggers /\ Making(n) \subseteq Triggers
            /\ IsFiniteSet(Work(n)) /\ Cardinality(Work(n)) \in Nat
            /\ Cardinality(FixesOf(n)) <= Cardinality(Work(n))
            /\ Cardinality(FixesOf(n)) \in Nat
  /\ \A k : IsFiniteSet(Opening(k)) /\ Cardinality(Opening(k)) \in Nat
<1>1. ASSUME NEW S \in SUBSET Triggers PROVE IsFiniteSet(S) /\ Cardinality(S) \in Nat
  BY IssuesPositive, FS_Subset, FS_CardinalityType
<1>2. ASSUME NEW n
      PROVE  /\ FixesOf(n) \subseteq Triggers /\ Making(n) \subseteq Triggers
             /\ Work(n) \subseteq Triggers /\ FixesOf(n) \subseteq Work(n)
  BY DEF FixesOf, Making, Work
<1>3. \A k : Opening(k) \subseteq Triggers
  BY DEF Opening
<1>4. ASSUME NEW n PROVE Cardinality(FixesOf(n)) <= Cardinality(Work(n))
  BY <1>1, <1>2, FS_Subset
<1> QED
  BY <1>1, <1>2, <1>3, <1>4

LEMMA FixInvInit == GitHubInit => FixInv
<1> SUFFICES ASSUME GitHubInit PROVE FixInv
  OBVIOUS
<1>1. fix \in [Triggers -> [issue : {0} \cup Issues, attempt : Nat]]
  BY DEF GitHubInit, FixInit, NoFix
<1>2. FixTypeOK
  BY <1>1 DEF GitHubInit, FixInit, FixTypeOK, Running
<1>3. CapOK
  BY <1>1 DEF GitHubInit, FixInit, NoFix, CapOK, AttemptsCapped
<1>4. mishaps = 0 /\ short = 0 /\ blind = 0
  BY DEF GitHubInit, FixInit, MergeInit
<1>5. \A n \in Issues : Work(n) = {}
  BY IssuesPositive DEF GitHubInit, FixInit, NoFix, Work, FixesOf, Making
<1>6. \A k \in Keys : IssuesOf(k) = {} /\ Opening(k) = {}
  BY DEF GitHubInit, FixInit, IssuesOf, Opening
<1>7. WorkOK
  <2>1. \A n \in Issues : Accounted(n)
    BY <1>4, <1>5, FS_EmptySet DEF Accounted
  <2> QED
    BY <2>1 DEF GitHubInit, FixInit, NoFix, WorkOK
<1>8. SearchOK
  BY <1>4, <1>6, FS_EmptySet DEF SearchOK
<1> QED
  BY <1>2, <1>3, <1>4, <1>7, <1>8 DEF FixInv

\* No step takes back a mishap.
LEMMA FixMishaps == mishaps \in Nat /\ FixMoves => mishaps' \in {mishaps, mishaps + 1}
<1> SUFFICES ASSUME mishaps \in Nat, FixMoves PROVE mishaps' \in {mishaps, mishaps + 1}
  OBVIOUS
<1>1. ASSUME NEW t \in Triggers, Fix(t) PROVE mishaps' \in {mishaps, mishaps + 1}
  BY <1>1 DEF Fix, FindIssue, OpenIssue, CountFixes, CreateFixTask, Stamp, EscalateFix
<1>2. ASSUME People PROVE mishaps' = mishaps
  BY <1>2 DEF People, ResumeProject, CloseIssue
<1>3. ASSUME NEW t \in Triggers, NEW k \in Keys, Trigger(t, k) PROVE mishaps' = mishaps
  BY <1>3 DEF Trigger
<1> QED
  BY <1>1, <1>2, <1>3 DEF FixMoves, Unmoved

\* Triggers stay at a point of triggerFixLoop, rows keep their columns' types.
LEMMA FixTypesKept == FixInv /\ FixMoves => FixTypeOK'
<1> SUFFICES ASSUME FixInv, FixMoves PROVE FixTypeOK'
  OBVIOUS
<1> USE DEF FixInv, FixTypeOK, Running
<1>1. ASSUME NEW t \in Triggers, NEW k \in Keys, Trigger(t, k) PROVE FixTypeOK'
  BY <1>1 DEF Trigger
<1>2. ASSUME NEW t \in Triggers, FindIssue(t) PROVE FixTypeOK'
  <2>1. fix' \in [Triggers -> [issue : {0} \cup Issues, attempt : Nat]]
    BY <1>2, IssuesPositive DEF FindIssue
  <2>2. /\ keyOf' \in [Issues -> Keys \cup {"none"}] /\ open' \subseteq Issues
        /\ issue' \in [Triggers -> {0} \cup Issues] /\ attempt' \in [Triggers -> Nat]
    BY <1>2, IssuesPositive DEF FindIssue
  <2>3. /\ at' \in [Triggers -> {"idle", "find", "open", "count", "create", "stamp",
                                "escalate", "end"}]
        /\ about' \in [Triggers -> Keys \cup {"none"}]
        /\ paused' \in BOOLEAN /\ blind' \in Nat /\ short' \in Nat
    BY <1>2 DEF FindIssue
  <2>4. \A u \in Triggers :
          /\ Running(u)' => about'[u] \in Keys
          /\ at'[u] \in {"count", "create", "stamp", "escalate"} => issue'[u] \in Issues
    BY <1>2 DEF FindIssue
  <2> QED
    BY <2>1, <2>2, <2>3, <2>4
<1>3. ASSUME NEW t \in Triggers, OpenIssue(t) PROVE FixTypeOK'
  <2>1. fix' \in [Triggers -> [issue : {0} \cup Issues, attempt : Nat]]
    BY <1>3, IssuesPositive DEF OpenIssue, Opens
  <2>2. /\ keyOf' \in [Issues -> Keys \cup {"none"}] /\ open' \subseteq Issues
        /\ issue' \in [Triggers -> {0} \cup Issues] /\ attempt' \in [Triggers -> Nat]
    <3>1. at[t] = "open" /\ about[t] \in Keys
      BY <1>3 DEF OpenIssue
    <3>2. /\ issue' \in [Triggers -> {0} \cup Issues] /\ attempt' \in [Triggers -> Nat]
      BY <1>3, IssuesPositive DEF OpenIssue
    <3>3. ASSUME NEW n \in Issues, Opens(t, n)
          PROVE  keyOf' \in [Issues -> Keys \cup {"none"}] /\ open' \subseteq Issues
      BY <3>1, <3>3 DEF Opens
    <3> QED
      BY <1>3, <3>2, <3>3 DEF OpenIssue
  <2>3. /\ at' \in [Triggers -> {"idle", "find", "open", "count", "create", "stamp",
                                "escalate", "end"}]
        /\ about' \in [Triggers -> Keys \cup {"none"}]
        /\ paused' \in BOOLEAN /\ blind' \in Nat /\ short' \in Nat
    BY <1>3 DEF OpenIssue, Opens
  <2>4. \A u \in Triggers :
          /\ Running(u)' => about'[u] \in Keys
          /\ at'[u] \in {"count", "create", "stamp", "escalate"} => issue'[u] \in Issues
    BY <1>3 DEF OpenIssue, Opens
  <2> QED
    BY <2>1, <2>2, <2>3, <2>4
<1>4. ASSUME NEW t \in Triggers, CountFixes(t) PROVE FixTypeOK'
  <2>1. fix' \in [Triggers -> [issue : {0} \cup Issues, attempt : Nat]]
    BY <1>4, IssuesPositive DEF CountFixes, Attempts, FixesOf, IsMax, FixAttemptExceeded
  <2>2. /\ keyOf' \in [Issues -> Keys \cup {"none"}] /\ open' \subseteq Issues
        /\ issue' \in [Triggers -> {0} \cup Issues] /\ attempt' \in [Triggers -> Nat]
    BY <1>4, IssuesPositive DEF CountFixes, Attempts, FixesOf, IsMax, FixAttemptExceeded
  <2>3. /\ at' \in [Triggers -> {"idle", "find", "open", "count", "create", "stamp",
                                "escalate", "end"}]
        /\ about' \in [Triggers -> Keys \cup {"none"}]
        /\ paused' \in BOOLEAN /\ blind' \in Nat /\ short' \in Nat
    BY <1>4 DEF CountFixes, Attempts, FixesOf, IsMax, FixAttemptExceeded
  <2>4. \A u \in Triggers :
          /\ Running(u)' => about'[u] \in Keys
          /\ at'[u] \in {"count", "create", "stamp", "escalate"} => issue'[u] \in Issues
    BY <1>4 DEF CountFixes, Attempts, FixesOf, IsMax, FixAttemptExceeded
  <2> QED
    BY <2>1, <2>2, <2>3, <2>4
<1>5. ASSUME NEW t \in Triggers, CreateFixTask(t) PROVE FixTypeOK'
  <2>1. fix' \in [Triggers -> [issue : {0} \cup Issues, attempt : Nat]]
    BY <1>5, IssuesPositive DEF CreateFixTask
  <2>2. /\ keyOf' \in [Issues -> Keys \cup {"none"}] /\ open' \subseteq Issues
        /\ issue' \in [Triggers -> {0} \cup Issues] /\ attempt' \in [Triggers -> Nat]
    BY <1>5, IssuesPositive DEF CreateFixTask
  <2>3. /\ at' \in [Triggers -> {"idle", "find", "open", "count", "create", "stamp",
                                "escalate", "end"}]
        /\ about' \in [Triggers -> Keys \cup {"none"}]
        /\ paused' \in BOOLEAN /\ blind' \in Nat /\ short' \in Nat
    BY <1>5 DEF CreateFixTask
  <2>4. \A u \in Triggers :
          /\ Running(u)' => about'[u] \in Keys
          /\ at'[u] \in {"count", "create", "stamp", "escalate"} => issue'[u] \in Issues
    BY <1>5 DEF CreateFixTask
  <2> QED
    BY <2>1, <2>2, <2>3, <2>4
<1>6. ASSUME NEW t \in Triggers, Stamp(t) PROVE FixTypeOK'
  <2>1. fix' \in [Triggers -> [issue : {0} \cup Issues, attempt : Nat]]
    BY <1>6, IssuesPositive DEF Stamp
  <2>2. /\ keyOf' \in [Issues -> Keys \cup {"none"}] /\ open' \subseteq Issues
        /\ issue' \in [Triggers -> {0} \cup Issues] /\ attempt' \in [Triggers -> Nat]
    BY <1>6, IssuesPositive DEF Stamp
  <2>3. /\ at' \in [Triggers -> {"idle", "find", "open", "count", "create", "stamp",
                                "escalate", "end"}]
        /\ about' \in [Triggers -> Keys \cup {"none"}]
        /\ paused' \in BOOLEAN /\ blind' \in Nat /\ short' \in Nat
    BY <1>6 DEF Stamp
  <2>4. \A u \in Triggers :
          /\ Running(u)' => about'[u] \in Keys
          /\ at'[u] \in {"count", "create", "stamp", "escalate"} => issue'[u] \in Issues
    BY <1>6 DEF Stamp
  <2> QED
    BY <2>1, <2>2, <2>3, <2>4
<1>7. ASSUME NEW t \in Triggers, EscalateFix(t) PROVE FixTypeOK'
  BY <1>7 DEF EscalateFix
<1>8. ASSUME ResumeProject PROVE FixTypeOK'
  BY <1>8 DEF ResumeProject
<1>9. ASSUME NEW n \in Issues, CloseIssue(n) PROVE FixTypeOK'
  BY <1>9 DEF CloseIssue
<1>10. ASSUME Mishap, FixCrash PROVE FixTypeOK'
  BY <1>10 DEF FixCrash
<1>11. ASSUME Unmoved PROVE FixTypeOK'
  BY <1>11 DEF Unmoved
<1> QED
  BY <1>1, <1>2, <1>3, <1>4, <1>5, <1>6, <1>7, <1>8, <1>9, <1>10, <1>11
  DEF FixMoves, Fix, People

\* Attempts stay below the cap.
LEMMA CapKept == FixInv /\ FixMoves => CapOK'
<1> SUFFICES ASSUME FixInv, FixMoves PROVE CapOK'
  OBVIOUS
<1> USE DEF FixInv, FixTypeOK, CapOK, AttemptsCapped
<1>1. ASSUME NEW t \in Triggers, NEW k \in Keys, Trigger(t, k) PROVE CapOK'
  BY <1>1 DEF Trigger
<1>2. ASSUME NEW t \in Triggers, FindIssue(t) PROVE CapOK'
  BY <1>2 DEF FindIssue
<1>3. ASSUME NEW t \in Triggers, OpenIssue(t) PROVE CapOK'
  BY <1>3 DEF OpenIssue, Opens
<1>4. ASSUME NEW t \in Triggers, CountFixes(t) PROVE CapOK'
  <2>1. PICK prior \in Attempts(issue[t]) :
          /\ attempt' = [attempt EXCEPT ![t] = prior + 1]
          /\ Goto(t, IF FixAttemptExceeded(prior + 1) THEN "escalate" ELSE "create")
    BY <1>4 DEF CountFixes
  <2>2. prior \in Nat /\ fix' = fix
    BY <1>4 DEF CountFixes, Attempts, FixesOf
  <2>3. attempt'[t] = prior + 1
    BY <2>1
  <2>4. at'[t] = "create" => (FixAttemptCap > 0 => prior + 1 < FixAttemptCap)
    BY <2>1, <2>2, IssuesPositive DEF FixAttemptExceeded
  <2>5. at'[t] # "stamp"
    BY <2>1
  <2>6. \A u \in Triggers : u # t => at'[u] = at[u] /\ attempt'[u] = attempt[u]
    BY <2>1
  <2> QED
    BY <2>2, <2>3, <2>4, <2>5, <2>6
<1>5. ASSUME NEW t \in Triggers, CreateFixTask(t) PROVE CapOK'
  BY <1>5 DEF CreateFixTask
<1>6. ASSUME NEW t \in Triggers, Stamp(t) PROVE CapOK'
  BY <1>6 DEF Stamp
<1>7. ASSUME NEW t \in Triggers, EscalateFix(t) PROVE CapOK'
  BY <1>7 DEF EscalateFix
<1>8. ASSUME ResumeProject PROVE CapOK'
  BY <1>8 DEF ResumeProject
<1>9. ASSUME NEW n \in Issues, CloseIssue(n) PROVE CapOK'
  BY <1>9 DEF CloseIssue
<1>10. ASSUME Mishap, FixCrash PROVE CapOK'
  BY <1>10 DEF FixCrash
<1>11. ASSUME Unmoved PROVE CapOK'
  BY <1>11 DEF Unmoved
<1> QED
  BY <1>1, <1>2, <1>3, <1>4, <1>5, <1>6, <1>7, <1>8, <1>9, <1>10, <1>11
  DEF FixMoves, Fix, People

\* What leaves the fixes as they are and starts none keeps the account.
LEMMA WorkNotGrown ==
  ASSUME FixInv, fix' = fix, short' \in Nat, short' >= short, mishaps' \in Nat, mishaps' >= mishaps,
         \A t \in Triggers : at'[t] # "end" => at[t] # "end",
         \A t \in Triggers : at'[t] \in {"create", "stamp"} =>
           at[t] \in {"create", "stamp"} /\ issue'[t] = issue[t] /\ attempt'[t] = attempt[t]
  PROVE  WorkOK'
<1> USE DEF FixInv, FixTypeOK, WorkOK
<1>1. \A n : FixesOf(n)' = FixesOf(n) /\ Making(n)' \subseteq Making(n)
  BY DEF FixesOf, Making
<1>2. \A t \in Triggers : at'[t] \in {"create", "stamp"} => Follows(t)'
  BY <1>1 DEF Follows
<1>3. ASSUME NEW n \in Issues PROVE Accounted(n)'
  <2>1. PICK top \in Nat : /\ top = 0 \/ \E u \in Work(n) : Of(u) = top
                          /\ Cardinality(Work(n)) <= top + short + mishaps
    BY DEF Accounted
  <2>2. Work(n)' \subseteq Work(n)
    BY <1>1 DEF Work
  <2>3. \A u \in Work(n)' : Of(u)' = Of(u)
    BY <1>1 DEF Work, Making, Of, FixesOf
  <2>4. Cardinality(Work(n)) \in Nat /\ Cardinality(Work(n)') \in Nat
    <3>1. IsFiniteSet(Work(n)')
      BY <2>2, Counted, FS_Subset
    <3> QED
      BY <3>1, Counted, FS_CardinalityType
  <2>5. /\ Cardinality(Work(n)') <= Cardinality(Work(n))
        /\ Cardinality(Work(n)') = Cardinality(Work(n)) => Work(n)' = Work(n)
    BY <2>2, Counted, FS_Subset
  <2>6. CASE top = 0 \/ \E u \in Work(n)' : Of(u) = top
    BY <2>1, <2>3, <2>4, <2>5, <2>6 DEF Accounted
  <2>7. CASE top # 0 /\ \A u \in Work(n)' : Of(u) # top
    <3>1. PICK u \in Work(n) : Of(u) = top
      BY <2>1, <2>7
    <3>2. u \notin Work(n)'
      BY <2>7, <3>1
    <3>3. Cardinality(Work(n)') + 1 <= Cardinality(Work(n))
      <4>1. Work(n)' # Work(n)
        BY <3>2
      <4> HIDE DEF FixInv, FixTypeOK
      <4> QED
        BY <2>4, <2>5, <4>1
    <3>4. u \in Making(n) /\ u \notin FixesOf(n)
      BY <3>2, <1>1 DEF Work
    <3>5. attempt[u] = top /\ Follows(u) /\ issue[u] = n
      BY <3>1, <3>4 DEF Making, Of
    <3>6. top - 1 \in Nat
      BY <2>7
    <3>7. top - 1 = 0 \/ \E v \in Work(n)' : Of(v)' = top - 1
      <4>1. CASE top = 1
        BY <4>1
      <4>2. ASSUME NEW v \in FixesOf(n), fix[v].attempt = top - 1
            PROVE  v \in Work(n)' /\ Of(v)' = top - 1
        BY <1>1, <4>2, IssuesPositive DEF Work, Of, FixesOf
      <4> QED
        BY <3>5, <4>1, <4>2 DEF Follows
    <3> QED
      BY <2>1, <2>4, <3>3, <3>6, <3>7 DEF Accounted
  <2> QED
    BY <2>6, <2>7
<1> QED
  BY <1>2, <1>3

\* Fixes are accounted for.
LEMMA WorkKept == FixInv /\ FixMoves => WorkOK'
<1> SUFFICES ASSUME FixInv, FixMoves PROVE WorkOK'
  OBVIOUS
<1>0. mishaps' \in Nat /\ mishaps' >= mishaps
  BY FixMishaps DEF FixInv
<1> USE DEF FixInv, FixTypeOK
<1>1. ASSUME NEW t \in Triggers, NEW k \in Keys, Trigger(t, k) PROVE WorkOK'
  BY <1>0, <1>1, WorkNotGrown DEF Trigger
<1>2. ASSUME NEW t \in Triggers, FindIssue(t) PROVE WorkOK'
  BY <1>0, <1>2, WorkNotGrown DEF FindIssue
<1>3. ASSUME NEW t \in Triggers, OpenIssue(t) PROVE WorkOK'
  BY <1>0, <1>3, WorkNotGrown DEF OpenIssue
<1>4. ASSUME NEW t \in Triggers, CountFixes(t) PROVE WorkOK'
  <2>1. PICK prior \in Attempts(issue[t]) :
          /\ \/ IsMax(prior, Attempts(issue[t])) /\ Fine
             \/ prior = 0 /\ Mishap
          /\ attempt' = [attempt EXCEPT ![t] = prior + 1]
          /\ at' = [at EXCEPT ![t] = IF FixAttemptExceeded(prior + 1) THEN "escalate" ELSE "create"]
    BY <1>4 DEF CountFixes
  <2>2. /\ at[t] = "count" /\ fix' = fix /\ issue' = issue /\ issue[t] \in Issues
        /\ short' = IF Making(issue[t]) # {} THEN short + 1 ELSE short
    BY <1>4 DEF CountFixes
  <2>3. short' \in Nat /\ short' >= short
    BY <2>2
  <2>4. CASE at'[t] = "escalate"
    BY <1>0, <2>1, <2>2, <2>3, <2>4, WorkNotGrown
  <2>5. CASE at'[t] = "create"
    <3>1. /\ prior \in Nat
          /\ prior = 0 \/ \E u \in FixesOf(issue[t]) : fix[u].attempt = prior
      BY <2>2 DEF Attempts, FixesOf
    <3>2. \A n : FixesOf(n)' = FixesOf(n)
      BY <2>2 DEF FixesOf
    <3>3. \A u \in Triggers : u # t => at'[u] = at[u] /\ attempt'[u] = attempt[u]
      BY <2>1
    <3>4. at'[t] = "create" /\ attempt'[t] = prior + 1
      BY <2>1, <2>5
    <3>5. \A u \in Triggers : at'[u] \in {"create", "stamp"} => Follows(u)'
      <4>1. ASSUME NEW u \in Triggers, u # t, at'[u] \in {"create", "stamp"} PROVE Follows(u)'
        <5>1. Follows(u) /\ issue'[u] = issue[u] /\ attempt'[u] = attempt[u]
          BY <2>2, <3>3, <4>1 DEF WorkOK
        <5> QED
          BY <2>2, <3>2, <5>1 DEF Follows
      <4>2. Follows(t)'
        <5>1. prior = 0 => prior + 1 = 1
          OBVIOUS
        <5>2. (prior + 1) - 1 = prior
          BY <3>1
        <5>3. attempt'[t] = 1 \/ \E u \in FixesOf(issue[t]) : fix[u].attempt = attempt'[t] - 1
          BY <3>1, <3>4, <5>1, <5>2, Zenon
        <5> QED
          BY <2>2, <3>2, <5>3 DEF Follows
      <4> QED
        BY <4>1, <4>2
    <3>6. \A u \in Triggers : at'[u] # "end" => fix'[u].issue = 0
      BY <2>2, <3>3 DEF WorkOK
    <3>7. fix[t].issue = 0 /\ t \notin Work(issue[t])
      BY <2>2, IssuesPositive DEF WorkOK, Work, FixesOf, Making
    <3>8. ASSUME NEW n \in Issues PROVE Accounted(n)'
      <4>1. PICK top \in Nat : /\ top = 0 \/ \E u \in Work(n) : Of(u) = top
                              /\ Cardinality(Work(n)) <= top + short + mishaps
        BY DEF WorkOK, Accounted
      <4>2. \A u \in Work(n) : u \in Work(n)' /\ (u # t => Of(u)' = Of(u))
        BY <2>2, <3>2, <3>3, <3>4 DEF Work, Making, FixesOf, Of
      <4>3. CASE n # issue[t]
        <5>1. Work(n)' = Work(n)
          BY <2>2, <3>2, <3>3, <4>3 DEF Work, Making
        <5>2. t \notin Work(n)
          BY <2>2, <3>7, <4>3, IssuesPositive DEF Work, Making, FixesOf
        <5>3. Cardinality(Work(n)') <= top + short' + mishaps'
          BY <1>0, <2>3, <4>1, <5>1, Counted
        <5> QED
          BY <4>1, <4>2, <5>1, <5>2, <5>3 DEF Accounted
      <4>4. CASE n = issue[t]
        <5>1. Work(n)' = Work(n) \cup {t}
          BY <2>2, <3>2, <3>3, <3>4, <4>4 DEF Work, Making
        <5>2. Cardinality(Work(n)') = Cardinality(Work(n)) + 1 /\ Cardinality(Work(n)) \in Nat
          <6>1. IsFiniteSet(Work(n)) /\ Cardinality(Work(n)) \in Nat /\ t \notin Work(n)
            BY <3>7, <4>4, Counted
          <6> QED
            BY <5>1, <6>1, FS_AddElement
        <5>3. t \in Work(n)' /\ Of(t)' = prior + 1
          BY <2>2, <3>4, <3>7, <5>1 DEF Of
        <5>4. CASE Mishap \/ Making(n) # {}
          <6>1. short' = short + 1 \/ mishaps' = mishaps + 1
            BY <2>2, <4>4, <5>4
          <6>2. Cardinality(Work(n)') <= top + short' + mishaps'
            <7>1. /\ Cardinality(Work(n)) <= top + short + mishaps
                  /\ mishaps \in Nat /\ short \in Nat
              BY <4>1
            <7>2. Cardinality(Work(n)) + 1 <= top + short' + mishaps'
              BY <1>0, <2>3, <5>2, <6>1, <7>1, BoundGrows
            <7> QED
              BY <5>2, <7>2
          <6>3. top = 0 \/ \E u \in Work(n)' : Of(u)' = top
            BY <3>7, <4>1, <4>2, <4>4
          <6> QED
            BY <4>1, <6>2, <6>3 DEF Accounted
        <5>5. CASE ~Mishap /\ Making(n) = {}
          <6>1. IsMax(prior, Attempts(issue[t])) /\ mishaps' = mishaps
            BY <2>1, <5>5
          <6>2. top <= prior
            <7>1. CASE top = 0
              BY <3>1, <7>1
            <7>2. ASSUME NEW u \in Work(n), Of(u) = top PROVE top <= prior
              <8>1. u \in FixesOf(n)
                BY <5>5 DEF Work
              <8>2. fix[u].attempt = top
                BY <7>2, <8>1, IssuesPositive DEF Of, FixesOf
              <8> QED
                BY <4>4, <6>1, <8>1, <8>2 DEF IsMax, Attempts
            <7> QED
              BY <4>1, <7>1, <7>2
          <6>3. Cardinality(Work(n)') <= (prior + 1) + short' + mishaps'
            BY <2>3, <3>1, <4>1, <5>2, <6>1, <6>2
          <6> QED
            BY <3>1, <5>3, <6>3 DEF Accounted
        <5> QED
          BY <5>4, <5>5
      <4> QED
        BY <4>3, <4>4
    <3> QED
      BY <3>5, <3>6, <3>8 DEF WorkOK
  <2> QED
    BY <2>1, <2>2, <2>4, <2>5
<1>5. ASSUME NEW t \in Triggers, CreateFixTask(t) PROVE WorkOK'
  BY <1>0, <1>5, WorkNotGrown DEF CreateFixTask
<1>6. ASSUME NEW t \in Triggers, Stamp(t) PROVE WorkOK'
  <2>1. at[t] = "stamp" /\ at' = [at EXCEPT ![t] = "end"] /\ short' = short
    BY <1>6 DEF Stamp
  <2>2. issue' = [issue EXCEPT ![t] = 0] /\ attempt' = [attempt EXCEPT ![t] = 0]
    BY <1>6 DEF Stamp
  <2>3. CASE UNCHANGED fix
    BY <1>0, <2>1, <2>2, <2>3, WorkNotGrown
  <2>4. CASE fix' = [fix EXCEPT ![t] = [issue |-> issue[t], attempt |-> attempt[t]]]
    <3>1. fix'[t].issue = issue[t] /\ fix'[t].attempt = attempt[t] /\ issue[t] \in Issues
      BY <2>1, <2>4
    <3>2. fix[t].issue = 0
      BY <2>1 DEF WorkOK
    <3>3. \A u \in Triggers : u # t => /\ at'[u] = at[u] /\ fix'[u] = fix[u]
                                      /\ issue'[u] = issue[u] /\ attempt'[u] = attempt[u]
      BY <2>1, <2>2, <2>4
    <3>4. \A n : FixesOf(n) \subseteq FixesOf(n)' /\ t \notin FixesOf(n)
      BY <3>2, <3>3 DEF FixesOf
    <3>5. \A u \in Triggers : at'[u] \in {"create", "stamp"} => Follows(u)'
      <4> SUFFICES ASSUME NEW u \in Triggers, at'[u] \in {"create", "stamp"} PROVE Follows(u)'
        OBVIOUS
      <4>1. u # t /\ Follows(u)
        BY <2>1, <3>3 DEF WorkOK
      <4>2. \A v \in FixesOf(issue[u]) : v # t /\ v \in Triggers
        BY <3>4 DEF FixesOf
      <4>3. issue'[u] = issue[u] /\ attempt'[u] = attempt[u]
        BY <3>3, <4>1
      <4>4. CASE attempt[u] = 1
        BY <4>3, <4>4 DEF Follows
      <4>5. ASSUME NEW v \in FixesOf(issue[u]), fix[v].attempt = attempt[u] - 1
            PROVE  Follows(u)'
        <5>1. v \in FixesOf(issue[u])' /\ fix'[v].attempt = attempt'[u] - 1
          BY <3>3, <4>2, <4>3, <4>5 DEF FixesOf
        <5> QED
          BY <5>1 DEF Follows
      <4> QED
        BY <4>1, <4>4, <4>5 DEF Follows
    <3>6. \A u \in Triggers : at'[u] # "end" => fix'[u].issue = 0
      BY <2>1, <3>3 DEF WorkOK
    <3>7. ASSUME NEW n \in Issues PROVE Accounted(n)'
      <4>1. PICK top \in Nat : /\ top = 0 \/ \E u \in Work(n) : Of(u) = top
                              /\ Cardinality(Work(n)) <= top + short + mishaps
        BY DEF WorkOK, Accounted
      <4>2. Work(n)' = Work(n)
        BY <2>1, <3>1, <3>2, <3>3, IssuesPositive DEF Work, Making, FixesOf
      <4>3. \A u \in Work(n) : Of(u)' = Of(u)
        BY <3>1, <3>2, <3>3, IssuesPositive DEF Of, Work, FixesOf, Making
      <4>4. Cardinality(Work(n)') <= top + short' + mishaps'
        BY <1>0, <2>1, <4>1, <4>2, Counted
      <4> QED
        BY <4>1, <4>2, <4>3, <4>4 DEF Accounted
    <3> QED
      BY <3>5, <3>6, <3>7 DEF WorkOK
  <2> QED
    BY <1>6, <2>3, <2>4 DEF Stamp
<1>7. ASSUME NEW t \in Triggers, EscalateFix(t) PROVE WorkOK'
  BY <1>0, <1>7, WorkNotGrown DEF EscalateFix
<1>8. ASSUME ResumeProject PROVE WorkOK'
  BY <1>0, <1>8, WorkNotGrown DEF ResumeProject
<1>9. ASSUME NEW n \in Issues, CloseIssue(n) PROVE WorkOK'
  BY <1>0, <1>9, WorkNotGrown DEF CloseIssue
<1>10. ASSUME Mishap, FixCrash PROVE WorkOK'
  BY <1>0, <1>10, WorkNotGrown DEF FixCrash
<1>11. ASSUME Unmoved PROVE WorkOK'
  BY <1>0, <1>11, WorkNotGrown DEF Unmoved
<1> QED
  BY <1>1, <1>2, <1>3, <1>4, <1>5, <1>6, <1>7, <1>8, <1>9, <1>10, <1>11
  DEF FixMoves, Fix, People

\* What opens no issue and sets nobody about it keeps the other account.
LEMMA SearchNotGrown ==
  ASSUME FixInv, blind' \in Nat, blind' >= blind, mishaps' \in Nat, mishaps' >= mishaps,
         \A k \in Keys : IssuesOf(k)' \subseteq IssuesOf(k) /\ Opening(k)' \subseteq Opening(k)
  PROVE  SearchOK'
<1> SUFFICES ASSUME NEW k \in Keys
             PROVE  Cardinality(IssuesOf(k)') + Cardinality(Opening(k)') <= 1 + blind' + mishaps'
  BY DEF SearchOK
<1>1. IsFiniteSet(IssuesOf(k)) /\ IsFiniteSet(Opening(k))
  BY IssuesPositive, Counted, FS_Subset DEF FixInv, FixTypeOK, IssuesOf
<1>2. /\ Cardinality(IssuesOf(k)') <= Cardinality(IssuesOf(k)) /\ IsFiniteSet(IssuesOf(k)')
      /\ Cardinality(Opening(k)') <= Cardinality(Opening(k)) /\ IsFiniteSet(Opening(k)')
  BY <1>1, FS_Subset
<1>3. /\ Cardinality(IssuesOf(k)') \in Nat /\ Cardinality(IssuesOf(k)) \in Nat
      /\ Cardinality(Opening(k)') \in Nat /\ Cardinality(Opening(k)) \in Nat
  BY <1>1, <1>2, FS_CardinalityType
<1>4. Cardinality(IssuesOf(k)) + Cardinality(Opening(k)) <= 1 + blind + mishaps
  BY DEF FixInv, SearchOK
<1> QED
  BY <1>2, <1>3, <1>4 DEF FixInv, FixTypeOK

\* Issues are accounted for.
LEMMA SearchKept == FixInv /\ FixMoves => SearchOK'
<1> SUFFICES ASSUME FixInv, FixMoves PROVE SearchOK'
  OBVIOUS
<1>0. mishaps' \in Nat /\ mishaps' >= mishaps
  BY FixMishaps DEF FixInv
<1> USE DEF FixInv, FixTypeOK, IssuesOf, Opening
<1>a. \A k \in Keys : /\ IsFiniteSet(IssuesOf(k)) /\ Cardinality(IssuesOf(k)) \in Nat
                     /\ IsFiniteSet(Opening(k)) /\ Cardinality(Opening(k)) \in Nat
                     /\ Cardinality(IssuesOf(k)) + Cardinality(Opening(k)) <= 1 + blind + mishaps
  BY IssuesPositive, Counted, FS_Subset, FS_CardinalityType DEF SearchOK
<1>1. ASSUME NEW t \in Triggers, NEW k \in Keys, Trigger(t, k) PROVE SearchOK'
  BY <1>0, <1>1, SearchNotGrown DEF Trigger
<1>2. ASSUME NEW t \in Triggers, FindIssue(t) PROVE SearchOK'
  <2>1. /\ at[t] = "find" /\ about[t] \in Keys /\ UNCHANGED <<keyOf, open>>
    BY <1>2 DEF FindIssue, Running
  <2>2. blind' \in Nat /\ blind' >= blind
    BY <1>2 DEF FindIssue
  <2>3. CASE at'[t] # "open"
    BY <1>0, <1>2, <2>1, <2>2, <2>3, SearchNotGrown DEF FindIssue
  <2>4. CASE at' = [at EXCEPT ![t] = "open"] /\ about' = about
    <3> SUFFICES ASSUME NEW k \in Keys
                 PROVE  Cardinality(IssuesOf(k)') + Cardinality(Opening(k)')
                          <= 1 + blind' + mishaps'
      BY DEF SearchOK
    <3>1. IssuesOf(k)' = IssuesOf(k)
      BY <2>1
    <3>2. CASE k # about[t]
      <4>1. Opening(k)' = Opening(k)
        BY <2>1, <2>4, <3>2
      <4> HIDE DEF IssuesOf, Opening
      <4> QED
        BY <1>0, <1>a, <2>2, <3>1, <4>1
    <3>3. CASE k = about[t]
      <4>1. Opening(k)' = Opening(k) \cup {t} /\ t \notin Opening(k)
        BY <2>1, <2>4, <3>3
      <4>2. Cardinality(Opening(k)') = Cardinality(Opening(k)) + 1
        <5>1. IsFiniteSet(Opening(k))
          BY <1>a
        <5> HIDE DEF Opening
        <5> QED
          BY <4>1, <5>1, FS_AddElement
      <4>3. CASE blind' = blind + 1 \/ mishaps' = mishaps + 1
        <5> HIDE DEF IssuesOf, Opening
        <5> QED
          BY <1>0, <1>a, <2>2, <3>1, <4>2, <4>3
      <4>4. CASE Matching(k) = {} /\ ~Unseen(k)
        <5>1. Opening(k) = {}
          BY <4>4 DEF Unseen
        <5>2. IssuesOf(k) = {}
          BY <4>4, FixAssumption DEF Unseen, Matching, OnPage
        <5> HIDE DEF IssuesOf, Opening
        <5>3. Cardinality(IssuesOf(k)') = 0 /\ Cardinality(Opening(k)') = 1
          BY <3>1, <4>2, <5>1, <5>2, FS_EmptySet
        <5>4. 0 + 1 <= 1 + blind' + mishaps'
          BY <1>0, <2>2, BoundStarts
        <5> QED
          BY <5>3, <5>4
      <4> QED
        BY <1>2, <2>1, <2>4, <3>3, <4>3, <4>4 DEF FindIssue
    <3> QED
      BY <3>2, <3>3
  <2> QED
    BY <1>2, <2>1, <2>3, <2>4 DEF FindIssue
<1>3. ASSUME NEW t \in Triggers, OpenIssue(t) PROVE SearchOK'
  <2>1. at[t] = "open" /\ about[t] \in Keys /\ blind' = blind
    BY <1>3 DEF OpenIssue, Running
  <2>2. \A k \in Keys : Opening(k)' = IF k = about[t] THEN Opening(k) \ {t} ELSE Opening(k)
    BY <1>3, <2>1 DEF OpenIssue
  <2>3. CASE UNCHANGED <<keyOf, open>>
    <3>1. \A k \in Keys : IssuesOf(k)' \subseteq IssuesOf(k) /\ Opening(k)' \subseteq Opening(k)
      BY <2>2, <2>3
    <3> QED
      BY <1>0, <2>1, <3>1, SearchNotGrown
  <2>4. ASSUME NEW n \in Issues, Opens(t, n) PROVE SearchOK'
    <3> SUFFICES ASSUME NEW k \in Keys
                 PROVE  Cardinality(IssuesOf(k)') + Cardinality(Opening(k)')
                          <= 1 + blind' + mishaps'
      BY DEF SearchOK
    <3>1. keyOf[n] = "none" /\ keyOf' = [keyOf EXCEPT ![n] = about[t]] /\ open' = open \cup {n}
      BY <2>4 DEF Opens
    <3>2. CASE k # about[t]
      <4>1. IssuesOf(k)' = IssuesOf(k) /\ Opening(k)' = Opening(k)
        BY <2>2, <3>1, <3>2
      <4> HIDE DEF IssuesOf, Opening
      <4> QED
        BY <1>0, <1>a, <2>1, <4>1
    <3>3. CASE k = about[t]
      <4>1. IssuesOf(k)' = IssuesOf(k) \cup {n} /\ n \notin IssuesOf(k)
        BY <3>1, <3>3
      <4>2. Opening(k)' = Opening(k) \ {t} /\ t \in Opening(k)
        BY <2>1, <2>2, <3>3
      <4> HIDE DEF IssuesOf, Opening
      <4>3. Cardinality(IssuesOf(k)') = Cardinality(IssuesOf(k)) + 1
        BY <1>a, <4>1, FS_AddElement
      <4>4. Cardinality(Opening(k)') = Cardinality(Opening(k)) - 1
        BY <1>a, <4>2, FS_RemoveElement
      <4> QED
        BY <1>0, <1>a, <2>1, <4>3, <4>4
    <3> QED
      BY <3>2, <3>3
  <2> QED
    BY <1>3, <2>3, <2>4 DEF OpenIssue
<1>4. ASSUME NEW t \in Triggers, CountFixes(t) PROVE SearchOK'
  BY <1>0, <1>4, SearchNotGrown DEF CountFixes
<1>5. ASSUME NEW t \in Triggers, CreateFixTask(t) PROVE SearchOK'
  BY <1>0, <1>5, SearchNotGrown DEF CreateFixTask
<1>6. ASSUME NEW t \in Triggers, Stamp(t) PROVE SearchOK'
  BY <1>0, <1>6, SearchNotGrown DEF Stamp
<1>7. ASSUME NEW t \in Triggers, EscalateFix(t) PROVE SearchOK'
  BY <1>0, <1>7, SearchNotGrown DEF EscalateFix
<1>8. ASSUME ResumeProject PROVE SearchOK'
  BY <1>0, <1>8, SearchNotGrown DEF ResumeProject
<1>9. ASSUME NEW n \in Issues, CloseIssue(n) PROVE SearchOK'
  BY <1>0, <1>9, SearchNotGrown DEF CloseIssue
<1>10. ASSUME Mishap, FixCrash PROVE SearchOK'
  BY <1>0, <1>10, SearchNotGrown DEF FixCrash
<1>11. ASSUME Unmoved PROVE SearchOK'
  BY <1>0, <1>11, SearchNotGrown DEF Unmoved
<1> QED
  BY <1>1, <1>2, <1>3, <1>4, <1>5, <1>6, <1>7, <1>8, <1>9, <1>10, <1>11
  DEF FixMoves, Fix, People

LEMMA FixInvKept == FixInv /\ FixMoves => FixInv'
<1>1. FixInv /\ FixMoves => (mishaps \in Nat)'
  BY FixMishaps DEF FixInv
<1> QED
  BY <1>1, FixTypesKept, CapKept, WorkKept, SearchKept DEF FixInv
-----------------------------------------------------------------------------
(* The components in the composition. *)

\* The merge queue takes a step of its own, or something else fails.
LEMMA QueueMove ==
  CITypeOK /\ [GitHubNext]_gitHubVars =>
    [MergeNext]_mergeQueueVars \/ (UNCHANGED mergeVars /\ Mishap)
<1> SUFFICES ASSUME CITypeOK, [GitHubNext]_gitHubVars
             PROVE  [MergeNext]_mergeQueueVars \/ (UNCHANGED mergeVars /\ Mishap)
  OBVIOUS
<1> USE DEF mergeQueueVars
<1>1. ASSUME NEW d \in Deliveries, Record(d) PROVE UNCHANGED mergeQueueVars
  BY <1>1 DEF Record, Trigger
<1>2. ASSUME NEW d \in Deliveries, Gate(d) PROVE [MergeNext]_mergeQueueVars
  BY <1>2 DEF Gate, CITypeOK, MergeNext
<1>3. ASSUME NEW d \in Deliveries, NEW p \in Pulls, NEW ok \in BOOLEAN, CheckRun(d, p, ok)
      PROVE  UNCHANGED mergeQueueVars
  BY <1>3 DEF CheckRun, CIOnly
<1>4. ASSUME MergeStep PROVE MergeNext
  BY <1>4 DEF MergeStep, MergeNext
<1>5. ASSUME FixStep PROVE UNCHANGED mergeVars /\ (mishaps' = mishaps \/ Mishap)
  <2>1. UNCHANGED mergeVars
    BY <1>5 DEF FixStep
  <2>2. ASSUME NEW t \in Triggers, Fix(t) PROVE mishaps' = mishaps \/ Mishap
    BY <2>2 DEF Fix, FindIssue, OpenIssue, CountFixes, CreateFixTask, Stamp, EscalateFix
  <2>3. ASSUME People PROVE mishaps' = mishaps
    BY <2>3 DEF People, ResumeProject, CloseIssue
  <2> QED
    BY <1>5, <2>1, <2>2, <2>3 DEF FixStep
<1>6. ASSUME Development PROVE UNCHANGED mergeQueueVars
  BY <1>6 DEF Development, PRMerged, Register, BlockTask, AdvanceTask, CIOnly
<1>7. ASSUME NEW t \in Reports, NEW k \in Keys, BugReport(t, k) PROVE UNCHANGED mergeQueueVars
  BY <1>7 DEF BugReport, Trigger
<1>8. ASSUME Crash PROVE MergeNext
  BY <1>8 DEF Crash, MergeNext
<1>9. ASSUME UNCHANGED gitHubVars PROVE UNCHANGED mergeQueueVars
  BY <1>9 DEF gitHubVars
<1> QED
  BY <1>1, <1>2, <1>3, <1>4, <1>5, <1>6, <1>7, <1>8, <1>9 DEF GitHubNext, Handle

\* The fix loop takes a step of its own, or none.
LEMMA FixMove == mishaps \in Nat /\ [GitHubNext]_gitHubVars => FixMoves
<1> SUFFICES ASSUME mishaps \in Nat, [GitHubNext]_gitHubVars PROVE FixMoves
  OBVIOUS
<1> USE DEF FixMoves, Unmoved
<1>1. ASSUME NEW d \in Deliveries, Record(d) PROVE FixMoves
  BY <1>1 DEF Record
<1>2. ASSUME NEW d \in Deliveries, Gate(d) PROVE FixMoves
  BY <1>2 DEF Gate, Deliver
<1>3. ASSUME NEW d \in Deliveries, NEW p \in Pulls, NEW ok \in BOOLEAN, CheckRun(d, p, ok)
      PROVE  FixMoves
  BY <1>3 DEF CheckRun, CIOnly
<1>4. ASSUME MergeStep PROVE FixMoves
  <2>1. mishaps' = mishaps \/ mishaps' = mishaps + 1
    BY <1>4 DEF MergeStep, Watch, RecoverStuckMerges, Age, Elsewhere, MergedElsewhere, Resolved,
       Queue, Process, Count, Insert, Claim, Put, Settle, DispatchConflictWorker
  <2> QED
    BY <1>4, <2>1 DEF MergeStep
<1>5. ASSUME FixStep PROVE FixMoves
  BY <1>5 DEF FixStep
<1>6. ASSUME Development PROVE FixMoves
  BY <1>6 DEF Development, PRMerged, Register, BlockTask, AdvanceTask, CIOnly
<1>7. ASSUME NEW t \in Reports, NEW k \in Keys, BugReport(t, k) PROVE FixMoves
  BY <1>7 DEF BugReport
<1>8. ASSUME Crash PROVE FixMoves
  BY <1>8 DEF Crash
<1>9. ASSUME UNCHANGED gitHubVars PROVE FixMoves
  BY <1>9 DEF gitHubVars
<1> QED
  BY <1>1, <1>2, <1>3, <1>4, <1>5, <1>6, <1>7, <1>8, <1>9 DEF GitHubNext, Handle

\* A mishap elsewhere leaves the queue's invariant.
LEMMA QueueUntouched == QueueInv /\ UNCHANGED mergeVars /\ Mishap => QueueInv'
<1> SUFFICES ASSUME QueueInv, UNCHANGED mergeVars, Mishap PROVE QueueInv'
  OBVIOUS
<1>1. mishaps' \in Nat /\ mishaps' # 0
  BY DEF QueueInv
<1>2. QueueTypeOK' /\ HeldOK' /\ AnswerOK' /\ MergedMeansMerged'
        /\ RefusedOK' /\ InOrder' /\ NoConflictAfterMerge'
  BY DEF QueueInv, QueueTypeOK, HeldOK, AnswerOK, RefusedOK, InOrder, MergedMeansMerged,
     NoConflictAfterMerge, Rows, Busy, mergeVars
<1> QED
  BY <1>1, <1>2 DEF QueueInv, MergingHeld, QueuedIsTended

\* The webhook's own state.
LEMMA CITypesKept == CITypeOK /\ [GitHubNext]_gitHubVars => CITypeOK'
<1> SUFFICES ASSUME CITypeOK, [GitHubNext]_gitHubVars PROVE CITypeOK'
  OBVIOUS
<1> USE DEF CITypeOK, Phases, On, Handled, Fails, ciVars
<1>1. ASSUME NEW d \in Deliveries, Record(d) PROVE CITypeOK'
  <2>1. head[d] \in Pulls
    BY <1>1 DEF Record
  <2>2. phase' \in [Pulls -> Phases] /\ failures' \in [Pulls -> Nat]
    BY <1>1, <2>1 DEF Record
  <2>3. /\ hpc' \in [Deliveries -> {"ready", "record", "gate", "end"}]
        /\ passing' \in [Deliveries -> BOOLEAN] /\ head' \in [Deliveries -> Pulls \cup {"none"}]
    BY <1>1 DEF Record
  <2>4. \A e \in Deliveries : hpc'[e] \in {"record", "gate"} => head'[e] \in Pulls
    BY <1>1, <2>1 DEF Record
  <2> QED
    BY <2>2, <2>3, <2>4
<1>2. ASSUME NEW d \in Deliveries, Gate(d) PROVE CITypeOK'
  BY <1>2 DEF Gate
<1>3. ASSUME NEW d \in Deliveries, NEW p \in Pulls, NEW ok \in BOOLEAN, CheckRun(d, p, ok)
      PROVE  CITypeOK'
  <2>1. CASE Handled(d)
    BY <1>3, <2>1 DEF CheckRun
  <2>2. CASE \E point \in {"record", "gate"} :
                /\ On(d, point) /\ passing' = [passing EXCEPT ![d] = ok]
                /\ head' = [head EXCEPT ![d] = p]
    BY <1>3, <2>2 DEF CheckRun
  <2> QED
    BY <1>3, <2>1, <2>2 DEF CheckRun
<1>4. ASSUME MergeStep PROVE CITypeOK'
  BY <1>4 DEF MergeStep
<1>5. ASSUME FixStep PROVE CITypeOK'
  BY <1>5 DEF FixStep
<1>6. ASSUME Development PROVE CITypeOK'
  BY <1>6 DEF Development, PRMerged, Register, BlockTask, AdvanceTask
<1>7. ASSUME NEW t \in Reports, NEW k \in Keys, BugReport(t, k) PROVE CITypeOK'
  BY <1>7 DEF BugReport
<1>8. ASSUME Crash PROVE CITypeOK'
  BY <1>8 DEF Crash
<1>9. ASSUME UNCHANGED gitHubVars PROVE CITypeOK'
  BY <1>9 DEF gitHubVars
<1> QED
  BY <1>1, <1>2, <1>3, <1>4, <1>5, <1>6, <1>7, <1>8, <1>9 DEF GitHubNext, Handle
-----------------------------------------------------------------------------
(* The invariant and the claims. *)

LEMMA IInvInit == GitHubInit => IInv
<1>1. GitHubInit => CITypeOK
  BY DEF GitHubInit, CITypeOK, Phases
<1> QED
  BY <1>1, QueueInvInit, FixInvInit DEF IInv, GitHubInit

LEMMA IInvKept == IInv /\ [GitHubNext]_gitHubVars => IInv'
<1> SUFFICES ASSUME IInv, [GitHubNext]_gitHubVars PROVE IInv'
  OBVIOUS
<1>1. QueueInv'
  BY QueueMove, QueueInvKept, QueueUntouched DEF IInv
<1>2. FixInv'
  BY FixMove, FixInvKept DEF IInv, FixInv
<1> QED
  BY <1>1, <1>2, CITypesKept DEF IInv

\* The invariant holds throughout.
LEMMA Invariance == GitHubSpec => []IInv
  BY IInvInit, IInvKept, PTL DEF GitHubSpec

\* The queue, the fix loop and the webhook keep their types
\* (gateway/webhook_github.go).
THEOREM GitHubTypeCorrect == GitHubSpec => []TypeOK
<1>1. IInv => TypeOK
  BY DEF IInv, QueueInv, FixInv, TypeOK
<1> QED
  BY <1>1, Invariance, PTL

\* No fix task carries an attempt at the cap, whatever overlaps or fails
\* (triggerFixLoop).
THEOREM AttemptsStayCapped == GitHubSpec => []AttemptsCapped
<1>1. IInv => AttemptsCapped
  BY DEF IInv, FixInv, CapOK
<1> QED
  BY <1>1, Invariance, PTL

\* However triggers overlap, whatever fails and however keys match, an issue
\* gets fewer fix tasks than the cap, but for one with each failure and each
\* count made while a fix was in the making (triggerFixLoop, createFixTask).
THEOREM FixesStayBounded == GitHubSpec => []FixesBounded
<1>1. IInv => FixesBounded
  <2> SUFFICES ASSUME IInv, FixAttemptCap > 0, NEW n \in Issues
               PROVE  Cardinality(FixesOf(n)) < FixAttemptCap + short + mishaps
    BY DEF FixesBounded
  <2> USE DEF IInv, FixInv, FixTypeOK
  <2>1. PICK top \in Nat : /\ top = 0 \/ \E u \in Work(n) : Of(u) = top
                          /\ Cardinality(Work(n)) <= top + short + mishaps
    BY DEF WorkOK, Accounted
  <2>2. \A u \in Work(n) : Of(u) < FixAttemptCap
    BY IssuesPositive DEF Work, Of, FixesOf, Making, CapOK, AttemptsCapped
  <2>3. top < FixAttemptCap
    BY <2>1, <2>2
  <2> QED
    BY <2>1, <2>3, Counted, IssuesPositive
<1> QED
  BY <1>1, Invariance, PTL

\* A key has one open issue, and one more with each failure and each search
\* that ran while one was being opened or missed one off the page of the newest
\* (findOpenAutofixIssue, openAutofixIssue).
THEOREM OneIssueEach == GitHubSpec => []OneIssuePerKey
<1>1. IInv => OneIssuePerKey
  <2> SUFFICES ASSUME IInv, NEW k \in Keys
               PROVE  Cardinality(IssuesOf(k)) <= 1 + blind + mishaps
    BY DEF OneIssuePerKey
  <2> USE DEF IInv, FixInv, FixTypeOK
  <2>1. Cardinality(IssuesOf(k)) \in Nat
    BY IssuesPositive, FS_Subset, FS_CardinalityType DEF IssuesOf
  <2>2. Cardinality(Opening(k)) \in Nat
    BY Counted
  <2>3. Cardinality(IssuesOf(k)) + Cardinality(Opening(k)) <= 1 + blind + mishaps
    BY DEF SearchOK
  <2> QED
    BY <2>1, <2>2, <2>3
<1> QED
  BY <1>1, Invariance, PTL

\* The queue's safety survives the composition with the webhook and the fix
\* loop, whose mishaps it shares (processMergeQueue).
THEOREM QueueSafeBehindWebhook ==
  GitHubSpec => [](OneMergeInFlight /\ MergedMeansMerged /\ NoConflictAfterMerge /\ QueuedIsTended)
<1>1. IInv => OneMergeInFlight /\ MergedMeansMerged /\ NoConflictAfterMerge /\ QueuedIsTended
  BY DEF IInv, QueueInv, HeldOK, Busy, OneMergeInFlight
<1> QED
  BY <1>1, Invariance, PTL
=============================================================================
