---------------------------- MODULE HitlEndpoint ----------------------------
(***************************************************************************)
(* hitl_endpoint.approve and .deny: the HTTP routes of the proxy process   *)
(* (and scoped_mcp_hitl_confirm, which calls approve).  Two forms of       *)
(* approve: the trusted bot's, and the courier's, which presents the OTP.  *)
(* A backend error ends the command at any step (OpDies, in Hitl).         *)
(***************************************************************************)
EXTENDS HitlState

OtherVars == <<callVars, procVars>>

\* Peek at the record.  POST /hitl/approve is not registered under enforce.
ApprovePeek(o, id) ==
    /\ Mode # "enforce"
    /\ \/ StartOp(o, "bot", id, IF IsPending(id) THEN "claim" ELSE "done")
       \/ StartOp(o, "courier", id, IF IsPending(id) THEN "otp" ELSE "done")
    /\ UNCHANGED <<storeVars, auditVars, OtherVars>>

\* Courier: GETDEL of the stored OTP, then the comparison.  The courier presents
\* the right value or a wrong one; a missing OTP compares as wrong.
CheckOtp(o) ==
    /\ OpAt(o, "courier", "otp")
    /\ \/ GoTo(o, "badOtp")
       \/ otp[oid[o]] > 0 /\ GoTo(o, "claim")
    /\ DropOtpOf(o)
    /\ UNCHANGED <<pending, tomb, token, tokenTTL, auditVars, OtherVars>>

\* invalid_otp: the row is set to denied, whatever it was; the record stays.
DenyBadOtp(o) ==
    /\ OpAt(o, "courier", "badOtp")
    /\ GoTo(o, "done")
    /\ \E ok \in DbOutcomes : ResolveRow(oid[o], "denied", AnyState, ok)
    /\ UNCHANGED <<age, closed, storeVars, OtherVars>>

\* GETDEL of the record: the one-time gate.  already_decided if it is gone.
ApproveClaim(o) ==
    /\ \/ OpAt(o, "bot", "claim") /\ ClaimPending(o, "dropOtp", "done")
       \/ OpAt(o, "courier", "claim") /\ ClaimPending(o, "audit", "done")
    /\ UNCHANGED <<otp, tomb, token, tokenTTL, auditVars, OtherVars>>

\* The bot never presented the OTP: delete it.
ApproveDropOtp(o) ==
    /\ OpAt(o, "bot", "dropOtp")
    /\ GoTo(o, "audit")
    /\ DropOtpOf(o)
    /\ UNCHANGED <<pending, tomb, token, tokenTTL, auditVars, OtherVars>>

ByApprove(o, step) == OpAt(o, "bot", step) \/ OpAt(o, "courier", step)

\* The row is set to approved before the token exists.
ApproveAudit(o) ==
    /\ ByApprove(o, "audit")
    /\ GoTo(o, "token")
    /\ \E ok \in DbOutcomes : ResolveRow(oid[o], "approved", AnyState, ok)
    /\ UNCHANGED <<age, closed, storeVars, OtherVars>>

ApproveToken(o) ==
    /\ ByApprove(o, "token")
    /\ GoTo(o, "done")
    /\ SetToken(KeyOf[oid[o]], o, PreapprovalTTL)
    /\ UNCHANGED <<pending, otp, tomb, auditVars, OtherVars>>

\* The token write raises, having reached the backend or not.
ApproveTokenFails(o) ==
    /\ ByApprove(o, "token")
    /\ GoTo(o, "undo")
    /\ \/ SetToken(KeyOf[oid[o]], o, PreapprovalTTL)
       \/ TokenUntouched
    /\ UNCHANGED <<pending, otp, tomb, auditVars, OtherVars>>

ApproveUndo(o) ==
    /\ ByApprove(o, "undo")
    /\ GoTo(o, "done")
    /\ \E ok \in DbOutcomes : ResolveRow(oid[o], "expired", AnyState, ok)
    /\ UNCHANGED <<age, closed, storeVars, OtherVars>>

----------------------------------------------------------------------------
\* deny: claim, delete the OTP in any case, then the row and the event.

DenyStart(o, id) ==
    /\ StartOp(o, "deny", id, "claim")
    /\ UNCHANGED <<storeVars, auditVars, OtherVars>>

\* Mutation of DenyClaim: only the OTP is dropped, the record stays.
DenyLeavesRecord(o) ==
    /\ OpAt(o, "deny", "claim")
    /\ claimed' = [claimed EXCEPT ![o] = IsPending(oid[o])]
    /\ opc' = [opc EXCEPT ![o] = "dropOtp"]
    /\ UNCHANGED <<route, oid, osig, storeVars, auditVars, OtherVars>>

DenyClaim(o) ==
    /\ OpAt(o, "deny", "claim")
    /\ ClaimPending(o, "dropOtp", "dropOtp")
    /\ UNCHANGED <<otp, tomb, token, tokenTTL, auditVars, OtherVars>>

DenyDropOtp(o) ==
    /\ OpAt(o, "deny", "dropOtp")
    /\ GoTo(o, IF claimed[o] THEN "audit" ELSE "done")
    /\ DropOtpOf(o)
    /\ UNCHANGED <<pending, tomb, token, tokenTTL, auditVars, OtherVars>>

DenyAudit(o) ==
    /\ OpAt(o, "deny", "audit")
    /\ GoTo(o, "emit")
    /\ \E ok \in DbOutcomes : ResolveRow(oid[o], "denied", AnyState, ok)
    /\ UNCHANGED <<age, closed, storeVars, OtherVars>>

DenyEmit(o) ==
    /\ OpAt(o, "deny", "emit")
    /\ GoTo(o, "done")
    /\ EmitClosed(oid[o])
    /\ UNCHANGED <<row, age, storeVars, OtherVars>>

EndpointStep(o) ==
    \/ \E id \in Calls : ApprovePeek(o, id) \/ DenyStart(o, id)
    \/ CheckOtp(o) \/ DenyBadOtp(o) \/ ApproveClaim(o) \/ ApproveDropOtp(o)
    \/ ApproveAudit(o) \/ ApproveToken(o) \/ ApproveTokenFails(o) \/ ApproveUndo(o)
    \/ DenyClaim(o) \/ DenyDropOtp(o) \/ DenyAudit(o) \/ DenyEmit(o)

\* Commands that run inside the proxy process and die with it.
InProcess(o) == route[o] \in {"bot", "courier", "deny"}

============================================================================
