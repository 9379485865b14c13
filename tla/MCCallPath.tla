----------------------------- MODULE MCCallPath -----------------------------
(***************************************************************************)
(* Two calls that present one run, to one process, to two of one agent or  *)
(* to two of different agents.  One of the tools is under a pattern.       *)
(***************************************************************************)
EXTENDS CallPath, TLC

CONSTANTS c1, c2, p1, p2, p3, a1, a2, r1, t1

MCAgentOf  == p1 :> a1 @@ p2 :> a1 @@ p3 :> a2
MCToolOf   == c1 :> "covered" @@ c2 :> "other"
MCPatterns == <<"pattern">>
MCCovers   == "pattern" :> {"covered"}
MCLimit    == "global" :> 1 @@ "pattern" :> 1
MCWindow   == "global" :> 2 @@ "pattern" :> 2
MCRunOf    == [c \in Calls |-> r1]
MCTaskOf   == [c \in Calls |-> t1]

\* Which process the first call is made to makes no difference.
MCInit == Init /\ proc[c1] = p1
MCSpec == MCInit /\ [][Next]_vars

=============================================================================
