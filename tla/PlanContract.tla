---------------------------- MODULE PlanContract ----------------------------
(***************************************************************************)
(* What a plan promises to the person who reviews it, without runs,        *)
(* snapshots, wakeups or sweeps: reviewers grant gates; agents work on a   *)
(* node only behind granted gates; the plan is closed as done only when    *)
(* every node with an agent has been worked on; a closed plan is never     *)
(* reopened, only archived.                                                *)
(***************************************************************************)
CONSTANTS Nodes, AgentNodes, Before   \* Before[n]: the gates ahead of n

VARIABLES granted, worked, outcome

contractVars == <<granted, worked, outcome>>

ContractInit == granted = {} /\ worked = {} /\ outcome = "open"

Grant(g) == /\ granted' = granted \cup {g}
            /\ UNCHANGED <<worked, outcome>>

Work(n) == /\ Before[n] \subseteq granted
           /\ worked' = worked \cup {n}
           /\ UNCHANGED <<granted, outcome>>

CloseDone == /\ outcome = "open" /\ AgentNodes \subseteq worked
             /\ outcome' = "done"
             /\ UNCHANGED <<granted, worked>>

CloseFailed == /\ outcome = "open"
               /\ outcome' = "failed"
               /\ UNCHANGED <<granted, worked>>

PutAway == /\ outcome \in {"done", "failed"}
           /\ outcome' = "archived"
           /\ UNCHANGED <<granted, worked>>

ContractNext == \/ \E n \in Nodes : Grant(n) \/ Work(n)
                \/ CloseDone \/ CloseFailed \/ PutAway

ContractSpec == ContractInit /\ [][ContractNext]_contractVars
=============================================================================
