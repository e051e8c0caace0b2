-------------------------- MODULE MCPermissionGate --------------------------
(****************************************************************************)
(* Calls for TLC: an agent whose policy is edited, one that is blocked, and *)
(* a governance hold.                                                       *)
(****************************************************************************)
EXTENDS PermissionGateProps, TLC

CONSTANTS t1, t2, t3, h1, a1, a2, card1, card2, inbox1, u1, u2

MCCallKind == t1 :> "tool" @@ t2 :> "tool" @@ t3 :> "unowned" @@ h1 :> "hold"
MCAgentOf == t1 :> a1 @@ t2 :> a2 @@ t3 :> a2 @@ h1 :> a1
MCUserOf == card1 :> u1 @@ card2 :> u2 @@ inbox1 :> u2
MCPolicy == a1 :> "none" @@ a2 :> "blocked" @@ "any" :> "none"
=============================================================================
