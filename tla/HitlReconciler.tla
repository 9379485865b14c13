--------------------------- MODULE HitlReconciler ---------------------------
(***************************************************************************)
(* HitlReconciler.reconcile_once, run by a loop of the proxy process that  *)
(* the first gated call starts.  The pass lists the pending rows and reads *)
(* each row's tombstone; one read stands for both, because the update is   *)
(* guarded and a row found not yet overdue, or already closed, is only     *)
(* skipped.  What lies between that read, the update and the event is kept *)
(* apart.                                                                  *)
(***************************************************************************)
EXTENDS HitlState

NotReconciled == <<storeVars, callVars, opVars, age, loop, epoch>>

\* Mutation of RecRead: only denied rows are closed, an expiry stays silent.
RecReadDeniedOnly(c) ==
    /\ loop
    /\ rec.at = "idle"
    /\ row[c] = "pending"
    /\ tomb[c]
    /\ rec' = [at |-> "resolve", id |-> c, outcome |-> "denied"]
    /\ UNCHANGED <<NotReconciled, row, closed>>

\* A pending row with a tombstone is to be denied, an overdue one expired.
RecRead(c) ==
    /\ loop
    /\ rec.at = "idle"
    /\ row[c] = "pending"
    /\ tomb[c] \/ Overdue(c)
    /\ rec' = [at |-> "resolve", id |-> c,
               outcome |-> IF tomb[c] THEN "denied" ELSE "expired"]
    /\ UNCHANGED <<NotReconciled, row, closed>>

\* Mutation of RecResolve: the update is not guarded on the state it read.
RecResolveUnguarded ==
    /\ rec.at = "resolve"
    /\ \E ok \in DbOutcomes :
           /\ ResolveRow(rec.id, rec.outcome, AnyState, ok)
           /\ rec' = IF ok THEN [rec EXCEPT !.at = "emit"] ELSE NoRec
    /\ UNCHANGED <<NotReconciled, closed>>

\* The guarded update: only the pass whose update found the row pending goes on.
RecResolve ==
    /\ rec.at = "resolve"
    /\ \E ok \in DbOutcomes :
           /\ ResolveRow(rec.id, rec.outcome, {"pending"}, ok)
           /\ rec' = IF ok /\ Matches(rec.id, {"pending"})
                         THEN [rec EXCEPT !.at = "emit"] ELSE NoRec
    /\ UNCHANGED <<NotReconciled, closed>>

RecEmit ==
    /\ rec.at = "emit"
    /\ EmitClosed(rec.id)
    /\ rec' = NoRec
    /\ UNCHANGED <<NotReconciled, row>>

ReconcileStep == (\E c \in Calls : RecRead(c)) \/ RecResolve \/ RecEmit

============================================================================
