---------------------------- MODULE HitlApprover ----------------------------
(***************************************************************************)
(* hitl_approver.run: `scoped-mcp-approve`, run by the operator under an   *)
(* account of their own.  Approve shows the record, asks, signs a          *)
(* statement, and only then claims the record and stores the statement.    *)
(***************************************************************************)
EXTENDS HitlState

Outside == <<auditVars, callVars, procVars>>

\* GET and check_record: with signing off the record carries no arguments, and the
\* approver refuses it.
SignPeek(o, id) ==
    /\ StartOp(o, "sign", id,
               IF IsPending(id) /\ Mode # "off" THEN "confirm" ELSE "done")
    /\ UNCHANGED <<storeVars, Outside>>

\* The human answers: no ends the command; yes signs, which starts the lifetime of
\* the statement.
SignConfirm(o) ==
    /\ OpAt(o, "sign", "confirm")
    /\ \/ GoTo(o, "done")
       \/ /\ opc'  = [opc EXCEPT ![o] = "claim"]
          /\ osig' = [osig EXCEPT ![o] = MaxLifetime]
          /\ UNCHANGED <<route, oid, claimed>>
    /\ UNCHANGED <<storeVars, Outside>>

\* GETDEL.  A record never changes once written, so what is claimed is what was read.
SignClaim(o) ==
    /\ OpAt(o, "sign", "claim")
    /\ ClaimPending(o, "dropOtp", "done")
    /\ UNCHANGED <<otp, tomb, token, tokenTTL, Outside>>

SignDropOtp(o) ==
    /\ OpAt(o, "sign", "dropOtp")
    /\ GoTo(o, "token")
    /\ DropOtpOf(o)
    /\ UNCHANGED <<pending, tomb, token, tokenTTL, Outside>>

SignToken(o) ==
    /\ OpAt(o, "sign", "token")
    /\ GoTo(o, "done")
    /\ SetToken(KeyOf[oid[o]], o, MaxLifetime)
    /\ UNCHANGED <<pending, otp, tomb, Outside>>

----------------------------------------------------------------------------
\* --deny: claim, delete the OTP, and leave a tombstone only after a claim.

SignDenyStart(o, id) ==
    /\ StartOp(o, "signDeny", id, "claim")
    /\ UNCHANGED <<storeVars, Outside>>

\* Mutation of SignDenyClaim: the deny reads the record and leaves it.
SignDenyLeavesRecord(o) ==
    /\ OpAt(o, "signDeny", "claim")
    /\ claimed' = [claimed EXCEPT ![o] = IsPending(oid[o])]
    /\ opc' = [opc EXCEPT ![o] = "dropOtp"]
    /\ UNCHANGED <<route, oid, osig, storeVars, Outside>>

SignDenyClaim(o) ==
    /\ OpAt(o, "signDeny", "claim")
    /\ ClaimPending(o, "dropOtp", "dropOtp")
    /\ UNCHANGED <<otp, tomb, token, tokenTTL, Outside>>

SignDenyDropOtp(o) ==
    /\ OpAt(o, "signDeny", "dropOtp")
    /\ GoTo(o, IF claimed[o] THEN "tomb" ELSE "done")
    /\ DropOtpOf(o)
    /\ UNCHANGED <<pending, tomb, token, tokenTTL, Outside>>

SignDenyTombstone(o) ==
    /\ OpAt(o, "signDeny", "tomb")
    /\ GoTo(o, "done")
    /\ tomb' = [tomb EXCEPT ![oid[o]] = TRUE]
    /\ UNCHANGED <<pending, otp, token, tokenTTL, Outside>>

ApproverStep(o) ==
    \/ \E id \in Calls : SignPeek(o, id) \/ SignDenyStart(o, id)
    \/ SignConfirm(o) \/ SignClaim(o) \/ SignDropOtp(o) \/ SignToken(o)
    \/ SignDenyClaim(o) \/ SignDenyDropOtp(o) \/ SignDenyTombstone(o)

============================================================================
