---------------------------- MODULE GateContract ----------------------------
(***************************************************************************)
(* What the permission gate promises whoever answers it, without rows,     *)
(* channels, timers or endpoints: a call that has asked runs only on a     *)
(* verdict that allows it, a verdict once given stands, a call that has    *)
(* not asked runs only while a waiver covers its agent, governance holds   *)
(* and calls for no user always ask, and only a verdict that allows some   *)
(* call can lead to a waiver for everyone.                                 *)
(***************************************************************************)
CONSTANTS Calls, Holds, Agents, AgentOf,   \* Holds: those that always ask
          InitiallyWaived                  \* agents, or "any" for all of them

VARIABLES verdict, outcome, waived

contractVars == <<verdict, outcome, waived>>

ContractInit == /\ verdict = [c \in Calls |-> "absent"]
                /\ outcome = [c \in Calls |-> "open"]
                /\ waived = InitiallyWaived

Finish(c, how) == /\ outcome[c] = "open"
                  /\ outcome' = [outcome EXCEPT ![c] = how]

Ask(c) == /\ verdict[c] = "absent" /\ outcome[c] = "open"
          /\ verdict' = [verdict EXCEPT ![c] = "pending"]
          /\ UNCHANGED <<outcome, waived>>

\* Also when nobody waits for it any more.
Rule(c) == /\ verdict[c] = "pending"
           /\ \E answer \in {"allowed", "denied"} :
                verdict' = [verdict EXCEPT ![c] = answer]
           /\ UNCHANGED <<outcome, waived>>

RunAllowed(c) == /\ verdict[c] = "allowed"
                 /\ Finish(c, "ran")
                 /\ UNCHANGED <<verdict, waived>>

RunWaived(c) == /\ verdict[c] = "absent" /\ c \notin Holds
                /\ AgentOf[c] \in waived \/ "any" \in waived
                /\ Finish(c, "ran")
                /\ UNCHANGED <<verdict, waived>>

\* At any time, whatever the verdict; a pending one may end with it.
Refuse(c) == /\ Finish(c, "refused")
             /\ \/ UNCHANGED verdict
                \/ /\ verdict[c] = "pending"
                   /\ verdict' = [verdict EXCEPT ![c] = "expired"]
             /\ UNCHANGED waived

WaiveForAll == /\ \E c \in Calls : verdict[c] = "allowed"
               /\ waived' = waived \cup {"any"}
               /\ UNCHANGED <<verdict, outcome>>

EditAgent(a) == /\ waived' \in {waived \cup {a}, waived \ {a}}
                /\ UNCHANGED <<verdict, outcome>>

\* Waivers lapse; with a restart, open calls are lost as well.
Lapse == /\ waived' \subseteq waived
         /\ \E lost \in SUBSET {c \in Calls : outcome[c] = "open"} :
              outcome' = [c \in Calls |-> IF c \in lost THEN "lost" ELSE outcome[c]]
         /\ UNCHANGED verdict

ContractNext ==
  \/ \E c \in Calls : Ask(c) \/ Rule(c) \/ RunAllowed(c) \/ RunWaived(c) \/ Refuse(c)
  \/ \E a \in Agents : EditAgent(a)
  \/ WaiveForAll \/ Lapse

ContractSpec == ContractInit /\ [][ContractNext]_contractVars
=============================================================================
