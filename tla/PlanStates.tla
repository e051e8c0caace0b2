---------------------------- MODULE PlanStates ----------------------------
(***************************************************************************)
(* The two state machines of a plan, as internal/plans/types.go tabulates  *)
(* them: the status of the plan and the state of one of its nodes.  The    *)
(* store consults them before every update; an update they forbid returns  *)
(* an illegal-transition error and writes nothing.                         *)
(***************************************************************************)

PlanStatuses == {"draft", "pending_approval", "approved", "rejected",
                 "revision_requested", "running", "done", "failed",
                 "cancelled", "archived"}

NodeKinds == {"planner", "human_feedback", "agent_task",
              "review", "push", "preview"}

NodeStates == {"pending", "running", "done", "failed", "blocked", "cancelled"}

EdgeConditions == {"always", "approved", "rejected", "revision",
                   "on_success", "on_error"}

\* States of an approval row.
Verdicts == {"approved", "rejected", "revision_requested"}
ApprovalStates == {"pending"} \cup Verdicts

PlanMoves ==
  [draft              |-> {"pending_approval", "running", "cancelled"},
   pending_approval   |-> {"approved", "rejected", "revision_requested",
                           "cancelled"},
   revision_requested |-> {"pending_approval", "cancelled"},
   approved           |-> {"running", "cancelled"},
   running            |-> {"done", "failed", "cancelled"},
   rejected           |-> {"archived"},
   done               |-> {"archived"},
   failed             |-> {"archived"},
   cancelled          |-> {"archived"},
   archived           |-> {}]

NodeMoves ==
  [pending   |-> {"running", "blocked", "cancelled", "failed"},
   running   |-> {"done", "failed", "cancelled", "blocked"},
   blocked   |-> {"pending", "running", "cancelled"},
   done      |-> {},
   failed    |-> {},
   cancelled |-> {}]

\* A move to the state one is in is always allowed: updates are idempotent.
ValidTransition(old, next) == old = next \/ next \in PlanMoves[old]

\* Slip (see module PlanGraph): a running node cannot fail.
ValidNodeTransitionNoFail(old, next) ==
  old = next \/ next \in NodeMoves[old] \ {"failed"}
ValidNodeTransition(old, next) == old = next \/ next \in NodeMoves[old]

TerminalNodeStates == {"done", "failed", "cancelled"}
=============================================================================
