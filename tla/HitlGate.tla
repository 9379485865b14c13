------------------------------ MODULE HitlGate ------------------------------
(***************************************************************************)
(* HitlMiddleware._handle_approval: a gated call claims the pre-approval   *)
(* token of its (tool, args), or registers a request and is rejected.  One *)
(* action per await; what happens between two awaits is one step, because  *)
(* the process runs all its calls on one event loop.                       *)
(***************************************************************************)
EXTENDS HitlState

\* Mutation of Verifies: the lifetime is not looked at.
VerifiesForEver(o) == route[o] = "sign"

\* verify_statement.  One clock is assumed, so a statement of this agent for this
\* call fails only when its lifetime is over; an unsigned value is malformed.
Verifies(o) == route[o] = "sign" /\ osig[o] > 0

\* ConsumedSet.contains: an entry is pruned once its time is up.
Replayed(o) == consumed[oid[o]] > 0

SignatureOk(o) == Mode # "off" /\ Verifies(o) /\ ~Replayed(o)

\* _accept_preapproval for a value that carries no fresh, valid signature.
AcceptedUnsigned(o) == ~SignatureOk(o) /\ Mode # "enforce"

\* The first call starts the reconcile loop of its process.
Enter(c, step) ==
    /\ cpc[c] = "start"
    /\ cpc' = [cpc EXCEPT ![c] = step]
    /\ loop' = TRUE
    /\ UNCHANGED <<rec, epoch>>

\* Mutation of RedeemSigned: the ConsumedSet is not told.
RedeemSignedUnremembered(c) ==
    LET o == TokenAt(KeyOf[c]) IN
    /\ Enter(c, "consumeSigned")
    /\ o # None
    /\ SignatureOk(o)
    /\ TakeToken(KeyOf[c])
    /\ used'   = [used EXCEPT ![c] = o]
    /\ usedIn' = [usedIn EXCEPT ![c] = epoch]
    /\ UNCHANGED <<pending, otp, tomb, consumed, auditVars, opVars>>

\* GETDEL found a statement that verifies and was not used in this process: it is
\* entered in the ConsumedSet and the call is admitted.
RedeemSigned(c) ==
    LET o == TokenAt(KeyOf[c]) IN
    /\ Enter(c, "consumeSigned")
    /\ o # None
    /\ SignatureOk(o)
    /\ TakeToken(KeyOf[c])
    /\ consumed' = [consumed EXCEPT ![oid[o]] = osig[o] + ClockSkew]
    /\ used'   = [used EXCEPT ![c] = o]
    /\ usedIn' = [usedIn EXCEPT ![c] = epoch]
    /\ UNCHANGED <<pending, otp, tomb, auditVars, opVars>>

\* GETDEL found a value that is accepted without a valid signature.
RedeemUnsigned(c) ==
    LET o == TokenAt(KeyOf[c]) IN
    /\ Enter(c, "consumeApproved")
    /\ o # None
    /\ AcceptedUnsigned(o)
    /\ TakeToken(KeyOf[c])
    /\ used'   = [used EXCEPT ![c] = o]
    /\ usedIn' = [usedIn EXCEPT ![c] = epoch]
    /\ UNCHANGED <<pending, otp, tomb, consumed, auditVars, opVars>>

\* GETDEL found a value that enforce refuses: it is gone, the call registers.
RefuseToken(c) ==
    LET o == TokenAt(KeyOf[c]) IN
    /\ Enter(c, "setPending")
    /\ o # None
    /\ ~SignatureOk(o)
    /\ ~AcceptedUnsigned(o)
    /\ TakeToken(KeyOf[c])
    /\ UNCHANGED <<pending, otp, tomb, used, usedIn, consumed, auditVars, opVars>>

\* GETDEL found nothing.
FindNoToken(c) ==
    /\ Enter(c, "setPending")
    /\ TokenAt(KeyOf[c]) = None
    /\ UNCHANGED <<storeVars, used, usedIn, consumed, auditVars, opVars>>

----------------------------------------------------------------------------
\* The admitted call resolves its approval's row.  The update fails open, and the
\* call is forwarded after it.

Step(c, from, to) ==
    /\ cpc[c] = from
    /\ cpc' = [cpc EXCEPT ![c] = to]
    /\ UNCHANGED <<used, usedIn, consumed, procVars, opVars>>

ApprovalOf(c) == oid[used[c]]

\* Signed: the row was never "approved", it goes from pending to consumed.
ConsumeSigned(c) ==
    /\ Step(c, "consumeSigned", "done")
    /\ \E ok \in DbOutcomes : ResolveRow(ApprovalOf(c), "consumed", {"pending"}, ok)
    /\ UNCHANGED <<age, closed, storeVars>>

\* Mutation of ConsumeApproved: the call is forwarded without a word to the audit
\* table (before SMCP-39).
ConsumeUnrecorded(c) ==
    /\ Step(c, "consumeApproved", "done")
    /\ UNCHANGED <<auditVars, storeVars>>

\* Unsigned: approved to consumed.  Only if that updated nothing, pending to consumed.
ConsumeApproved(c) ==
    \E ok \in DbOutcomes :
        /\ Step(c, "consumeApproved",
                IF ok /\ Matches(ApprovalOf(c), {"approved"})
                    THEN "done" ELSE "consumePending")
        /\ ResolveRow(ApprovalOf(c), "consumed", {"approved"}, ok)
        /\ UNCHANGED <<age, closed, storeVars>>

ConsumePending(c) ==
    /\ Step(c, "consumePending", "done")
    /\ \E ok \in DbOutcomes : ResolveRow(ApprovalOf(c), "consumed", {"pending"}, ok)
    /\ UNCHANGED <<age, closed, storeVars>>

----------------------------------------------------------------------------
\* Registration: the record, then its OTP, then the audit row; the call is rejected.

SetPending(c) ==
    /\ Step(c, "setPending", "setOtp")
    /\ pending' = [pending EXCEPT ![c] = RequestTimeout]
    /\ UNCHANGED <<otp, tomb, token, tokenTTL, auditVars>>

\* Mutation of SetOtp: the token outlives its request.
SetOtpForLonger(c) ==
    /\ Step(c, "setOtp", "audit")
    /\ otp' = [otp EXCEPT ![c] = RequestTimeout + PreapprovalTTL]
    /\ UNCHANGED <<pending, tomb, token, tokenTTL, auditVars>>

SetOtp(c) ==
    /\ Step(c, "setOtp", "audit")
    /\ otp' = [otp EXCEPT ![c] = RequestTimeout]
    /\ UNCHANGED <<pending, tomb, token, tokenTTL, auditVars>>

\* The backend raises on either write: rejected at once, nothing more is written.
RegisterFails(c) ==
    /\ \/ Step(c, "setPending", "done")
       \/ Step(c, "setOtp", "done")
    /\ UNCHANGED <<storeVars, auditVars>>

\* INSERT ... ON CONFLICT DO UPDATE SET state: created_at is now for a new row.
InsertRow(c) ==
    /\ Step(c, "audit", "done")
    /\ \E ok \in DbOutcomes :
           /\ row' = IF ok THEN [row EXCEPT ![c] = "pending"] ELSE row
           /\ age' = IF ok THEN [age EXCEPT ![c] = 0] ELSE age
    /\ UNCHANGED <<closed, storeVars>>

GateStep(c) ==
    \/ RedeemSigned(c) \/ RedeemUnsigned(c) \/ RefuseToken(c) \/ FindNoToken(c)
    \/ ConsumeSigned(c) \/ ConsumeApproved(c) \/ ConsumePending(c)
    \/ SetPending(c) \/ SetOtp(c) \/ RegisterFails(c) \/ InsertRow(c)

============================================================================
