------------------------------ MODULE FixLoop ------------------------------
(****************************************************************************)
(* The funnel for failures of one project (gateway/fix_loop.go): a trigger  *)
(* finds or opens the GitHub issue of its dedup key, counts the fix tasks   *)
(* made for it, and makes the next one or, at the cap, pauses the project.  *)
(* A step is one statement or one call to GitHub.  "Slip" marks a plausible *)
(* mistake in the definition that follows.                                  *)
(****************************************************************************)
EXTENDS Naturals, FiniteSets, Mishaps

CONSTANTS
  Triggers,       \* calls of triggerFixLoop
  Keys,           \* dedup keys
  Matches,        \* <<k, j>>: key k is the start of key j, and so found in its issue
  Issues,         \* numbers GitHub may give an issue, from 1 up
  PageSize,       \* issues a search is shown, the newest ones
  FixAttemptCap

ASSUME FixAssumption ==
  /\ Issues = 1 .. Cardinality(Triggers) /\ IsFiniteSet(Triggers)
  /\ FixAttemptCap \in Nat /\ PageSize \in Nat
  /\ Matches \subseteq Keys \X Keys /\ \A k \in Keys : <<k, k>> \in Matches

VARIABLES
  keyOf,     \* GitHub: the key in the body of each issue, "none" before it exists
  open,      \* GitHub: the open issues with the autofix label
  fix,       \* the task of each trigger: the issue and attempt stamped on it
  paused,    \* project_briefs.paused
  at,        \* where each trigger is
  about,     \* its key
  issue,     \* its issue, 0 for none
  attempt,   \* its attempt
  blind,     \* history: searches that could not see every issue of their key
  short      \* history: counts made while a fix they ought to see was in the making

fixVars == <<keyOf, open, fix, paused, at, about, issue, attempt, blind, short>>
-----------------------------------------------------------------------------
NoFix == [issue |-> 0, attempt |-> 0]
\* The tasks the count of a later trigger sees.
FixesOf(n) == {t \in Triggers : fix[t].issue = n /\ n # 0}
\* Triggers that have counted and not stamped.
Making(n) == {t \in Triggers : at[t] \in {"create", "stamp"} /\ issue[t] = n}
\* Triggers that found no issue and have not opened one.
Opening(k) == {t \in Triggers : at[t] = "open" /\ about[t] = k}
Running(t) == at[t] \notin {"idle", "end"}
Goto(t, point) == at' = [at EXCEPT ![t] = point]
\* triggerFixLoop returns, and its locals with it.
Done(t) ==
  /\ Goto(t, "end")
  /\ about' = [about EXCEPT ![t] = "none"]
  /\ issue' = [issue EXCEPT ![t] = 0]
  /\ attempt' = [attempt EXCEPT ![t] = 0]

FixInit ==
  /\ keyOf = [n \in Issues |-> "none"]
  /\ open = {}
  /\ fix = [t \in Triggers |-> NoFix]
  /\ paused = FALSE
  /\ at = [t \in Triggers |-> "idle"]
  /\ about = [t \in Triggers |-> "none"]
  /\ issue = [t \in Triggers |-> 0]
  /\ attempt = [t \in Triggers |-> 0]
  /\ blind = 0 /\ short = 0

Trigger(t, k) ==
  /\ at[t] = "idle" /\ Goto(t, "find")
  /\ about' = [about EXCEPT ![t] = k]
  /\ UNCHANGED <<keyOf, open, fix, paused, issue, attempt, blind, short, mishaps>>

\* findOpenAutofixIssue: the first on the page whose body holds the key.
\* Slip: an issue somebody works on already is left alone.
OnPage == {n \in open : Cardinality({m \in open : m > n}) < PageSize}
MatchesFresh(k) == {n \in OnPage : <<k, keyOf[n]>> \in Matches /\ FixesOf(n) = {}}
Matching(k) == {n \in OnPage : <<k, keyOf[n]>> \in Matches}
Newest(n, S) == n \in S /\ \A m \in S : m <= n

\* An issue of the key is off the page, or about to be opened.
Unseen(k) == Opening(k) # {} \/ \E n \in open \ OnPage : keyOf[n] = k

\* No repository, or its lookup failed: nothing is done.  A failed search reads
\* as no issue.
FindIssue(t) ==
  /\ at[t] = "find"
  /\ \/ /\ \E n \in Issues : Newest(n, Matching(about[t])) /\ issue' = [issue EXCEPT ![t] = n]
        /\ Goto(t, "count") /\ Fine /\ UNCHANGED <<about, attempt, blind>>
     \/ /\ Matching(about[t]) = {} /\ blind' = IF Unseen(about[t]) THEN blind + 1 ELSE blind
        /\ Goto(t, "open") /\ Fine /\ UNCHANGED <<about, attempt, issue>>
     \/ Goto(t, "open") /\ Mishap /\ UNCHANGED <<about, attempt, issue, blind>>
     \/ Done(t) /\ Fine /\ UNCHANGED blind
  /\ UNCHANGED <<keyOf, open, fix, paused, short>>

\* GitHub opens the trigger's issue under the next number.
Opens(t, n) ==
  /\ keyOf[n] = "none" /\ \A m \in Issues : keyOf[m] = "none" => n <= m
  /\ keyOf' = [keyOf EXCEPT ![n] = about[t]]
  /\ open' = open \cup {n}

\* Slip: the number 0 of a failed call is not noticed.
OpenIssueUnchecked(t) ==
  /\ at[t] = "open" /\ Goto(t, "count")
  /\ \/ (\E n \in Issues : Opens(t, n) /\ issue' = [issue EXCEPT ![t] = n]) /\ Fine
     \/ Mishap /\ UNCHANGED <<keyOf, open, issue>>
  /\ UNCHANGED <<about, attempt, fix, paused, blind, short>>
\* Without an answer to read, the issue opened or not, the trigger ends.
OpenIssue(t) ==
  /\ at[t] = "open"
  /\ \/ /\ \E n \in Issues : Opens(t, n) /\ issue' = [issue EXCEPT ![t] = n]
        /\ Goto(t, "count") /\ Fine /\ UNCHANGED <<about, attempt>>
     \/ Done(t) /\ Mishap /\ (UNCHANGED <<keyOf, open>> \/ \E n \in Issues : Opens(t, n))
  /\ UNCHANGED <<fix, paused, blind, short>>

\* MAX(fix_attempt) of the issue's tasks, 0 if there are none.
Attempts(n) == {0} \cup {fix[t].attempt : t \in FixesOf(n)}
IsMax(a, S) == \A b \in S : b <= a
\* A cap of 0 sets no limit.
FixAttemptExceeded(n) == FixAttemptCap > 0 /\ n >= FixAttemptCap

CountFixes(t) ==
  /\ at[t] = "count"
  /\ \E prior \in Attempts(issue[t]) :
       /\ \/ IsMax(prior, Attempts(issue[t])) /\ Fine
          \/ prior = 0 /\ Mishap
       /\ attempt' = [attempt EXCEPT ![t] = prior + 1]
       /\ Goto(t, IF FixAttemptExceeded(prior + 1) THEN "escalate" ELSE "create")
  /\ short' = IF Making(issue[t]) # {} THEN short + 1 ELSE short
  /\ UNCHANGED <<keyOf, open, fix, paused, about, issue, blind>>

CreateFixTask(t) ==
  /\ at[t] = "create"
  /\ \/ Goto(t, "stamp") /\ Fine /\ UNCHANGED <<about, issue, attempt>>
     \/ Done(t) /\ Mishap
  /\ UNCHANGED <<keyOf, open, fix, paused, blind, short>>

\* The stamps are a statement of their own, whose error is logged.  Slip: the
\* attempt is not among them.
StampIssueOnly(t) ==
  /\ at[t] = "stamp" /\ Done(t)
  /\ fix' = [fix EXCEPT ![t] = [issue |-> issue[t], attempt |-> 0]]
  /\ UNCHANGED <<keyOf, open, paused, blind, short, mishaps>>
Stamp(t) ==
  /\ at[t] = "stamp" /\ Done(t)
  /\ \/ fix' = [fix EXCEPT ![t] = [issue |-> issue[t], attempt |-> attempt[t]]] /\ Fine
     \/ Mishap /\ UNCHANGED fix
  /\ UNCHANGED <<keyOf, open, paused, blind, short>>

\* The label it puts on the issue is read by people only.
EscalateFix(t) ==
  /\ at[t] = "escalate" /\ Done(t)
  /\ \/ paused' = TRUE /\ Fine
     \/ Mishap /\ UNCHANGED paused
  /\ UNCHANGED <<keyOf, open, fix, blind, short>>

\* People: a fixed issue is closed, a paused project is resumed.
CloseIssue(n) ==
  /\ n \in open /\ open' = open \ {n}
  /\ UNCHANGED <<keyOf, fix, paused, at, about, issue, attempt, blind, short, mishaps>>
ResumeProject ==
  /\ paused /\ paused' = FALSE
  /\ UNCHANGED <<keyOf, open, fix, at, about, issue, attempt, blind, short, mishaps>>

\* Triggers die with the process; tasks and issues stay.
FixCrash ==
  /\ at' = [t \in Triggers |-> IF at[t] = "idle" THEN "idle" ELSE "end"]
  /\ about' = [t \in Triggers |-> "none"]
  /\ issue' = [t \in Triggers |-> 0]
  /\ attempt' = [t \in Triggers |-> 0]
  /\ UNCHANGED <<keyOf, open, fix, paused, blind, short>>

Fix(t) ==
  \/ FindIssue(t) \/ OpenIssue(t) \/ CountFixes(t) \/ CreateFixTask(t) \/ Stamp(t)
  \/ EscalateFix(t)
People == ResumeProject \/ \E n \in Issues : CloseIssue(n)
=============================================================================
