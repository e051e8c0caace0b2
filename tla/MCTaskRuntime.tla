--------------------------- MODULE MCTaskRuntime ---------------------------
(***************************************************************************)
(* Two agents and a task of the first; its subtasks belong to either, and  *)
(* somebody may wake the wrong agent for a task.                           *)
(***************************************************************************)
EXTENDS TaskRuntimeProps

CONSTANTS root, c1, c2, a, b, r1, r2

AgentOf == [t \in Tasks |-> IF t = c2 THEN b ELSE a]
ParentOf == [t \in Tasks |-> IF t = root THEN "none" ELSE root]
Misdirected == {<<a, c2>>}
Nothing == {}
Kinds == [r \in Requests |-> IF r = r1 THEN {"suspend", "wake", "flag", "transition",
                                           "dispatch"}
                             ELSE {"resume"}]
=============================================================================
