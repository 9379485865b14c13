-------------------------------- MODULE Hitl --------------------------------
(***************************************************************************)
(* The human-in-the-loop approval protocol of scoped-mcp as a whole: the   *)
(* gate, the reconcile loop and the HTTP endpoint of one proxy process,    *)
(* the CLI and the signing approver in processes of their own, the state   *)
(* backend, the audit database and the clock between them.                 *)
(***************************************************************************)
EXTENDS HitlGate, HitlReconciler, HitlEndpoint, HitlCli, HitlApprover

Init ==
    /\ pending  = [c \in Calls |-> 0]
    /\ otp      = [c \in Calls |-> 0]
    /\ tomb     = [c \in Calls |-> FALSE]
    /\ token    = [k \in Keys |-> None]
    /\ tokenTTL = [k \in Keys |-> 0]
    /\ row      = [c \in Calls |-> "none"]
    /\ age      = [c \in Calls |-> 0]
    /\ closed   = [c \in Calls |-> 0]
    /\ cpc      = [c \in Calls |-> "start"]
    /\ used     = [c \in Calls |-> None]
    /\ usedIn   = [c \in Calls |-> 0]
    /\ consumed = [c \in Calls |-> 0]
    /\ loop     = FALSE
    /\ rec      = NoRec
    /\ epoch    = 0
    /\ opc      = [o \in Ops |-> "start"]
    /\ route    = [o \in Ops |-> "none"]
    /\ oid      = [o \in Ops |-> None]
    /\ claimed  = [o \in Ops |-> FALSE]
    /\ osig     = [o \in Ops |-> 0]

----------------------------------------------------------------------------
\* What the parties do not decide.

\* A command ends where it is: its backend raised, its caller went away, or the
\* operator's process was killed.
OpDies(o) ==
    /\ opc[o] \notin {"start", "done"}
    /\ GoTo(o, "done")
    /\ UNCHANGED <<storeVars, auditVars, callVars, procVars>>

\* The proxy process dies and is started again: its calls, its endpoint requests, its
\* ConsumedSet and its reconcile loop are gone, the backend's keys and the rows stay.
Restart ==
    /\ epoch < MaxRestarts
    /\ epoch' = epoch + 1
    /\ cpc' = [c \in Calls |-> IF cpc[c] = "start" THEN "start" ELSE "done"]
    /\ opc' = [o \in Ops |-> IF InProcess(o) THEN "done" ELSE opc[o]]
    /\ consumed' = [c \in Calls |-> 0]
    /\ loop' = FALSE
    /\ rec' = NoRec
    /\ UNCHANGED <<storeVars, auditVars, used, usedIn, route, oid, claimed, osig>>

Down(t) == IF t > 0 THEN t - 1 ELSE 0

\* A tick of the one clock: every key, statement and ConsumedSet entry has that much
\* less left, and every row is that much older.
Tick ==
    /\ pending'  = [c \in Calls |-> Down(pending[c])]
    /\ otp'      = [c \in Calls |-> Down(otp[c])]
    /\ tokenTTL' = [k \in Keys |-> Down(tokenTTL[k])]
    /\ token'    = [k \in Keys |-> IF tokenTTL[k] > 1 THEN token[k] ELSE None]
    /\ osig'     = [o \in Ops |-> Down(osig[o])]
    /\ consumed' = [c \in Calls |-> Down(consumed[c])]
    /\ age' = [c \in Calls |->
                  IF row[c] # "none" /\ age[c] < MaxAge THEN age[c] + 1 ELSE age[c]]
    /\ UNCHANGED <<tomb, row, closed, cpc, used, usedIn, procVars,
                   opc, route, oid, claimed>>

\* A tombstone's 3600 s end.  They outlast the timeout and the grace of the request,
\* so a pending row is overdue by then.
TombstoneExpires(c) ==
    /\ tomb[c]
    /\ cpc[c] # "audit"
    /\ row[c] = "pending" => Overdue(c)
    /\ tomb' = [tomb EXCEPT ![c] = FALSE]
    /\ UNCHANGED <<pending, otp, token, tokenTTL, auditVars, callVars, procVars, opVars>>

\* A statement that was stored and claimed is in its key once more.  The backend is
\* shared, and ConsumedSet exists because it may happen.
StoreReplays(o) ==
    /\ StoreMayReplay
    /\ opc[o] = "done" /\ osig[o] > 0
    /\ \E c \in Calls : used[c] = o
    /\ SetToken(KeyOf[oid[o]], o, MaxLifetime)
    /\ UNCHANGED <<pending, otp, tomb, auditVars, callVars, procVars, opVars>>

Environment ==
    \/ Tick \/ Restart
    \/ \E o \in Ops : OpDies(o) \/ StoreReplays(o)
    \/ \E c \in Calls : TombstoneExpires(c)

OpStep(o) == EndpointStep(o) \/ CliStep(o) \/ ApproverStep(o)

Next ==
    \/ \E c \in Calls : GateStep(c)
    \/ \E o \in Ops : OpStep(o)
    \/ ReconcileStep
    \/ Environment

Spec == Init /\ [][Next]_vars

\* Time passes, and the reconcile loop comes round every RECONCILE_INTERVAL_SECONDS
\* and carries its pass through.  Nobody has to make a call or take a decision.
Fairness == WF_vars(Tick) /\ WF_vars(ReconcileStep)

FairSpec == Spec /\ Fairness

============================================================================
