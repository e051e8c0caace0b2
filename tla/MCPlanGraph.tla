---------------------------- MODULE MCPlanGraph ----------------------------
(***************************************************************************)
(* Plans for TLC.                                                          *)
(***************************************************************************)
EXTENDS PlanGraphProps, TLC

\* The plan handleBuildProject writes: a planner, the approval gate behind it
\* and the agent tasks behind the gate (project_handlers.go 305-365).
BuildKind(n) == CASE n = 1 -> "planner" [] n = 2 -> "human_feedback"
                  [] OTHER -> "agent_task"
MCKind == [n \in 1..NumNodes |-> BuildKind(n)]
MCEdges == {[from |-> 1, cond |-> "always", to |-> 2]}
             \cup {[from |-> 2, cond |-> "approved", to |-> n] :
                     n \in 3..NumNodes}

\* A richer plan: two tasks behind the gate, the second with a branch for the
\* case that it fails, a review, for which no handler is registered.
MCBranchKind == [n \in 1..4 |-> CASE n = 1 -> "human_feedback" [] n = 4 -> "review"
                                  [] OTHER -> "agent_task"]
MCBranchEdges == {[from |-> 1, cond |-> "approved", to |-> 2],
                  [from |-> 1, cond |-> "approved", to |-> 3],
                  [from |-> 3, cond |-> "on_error", to |-> 4]}
=============================================================================
