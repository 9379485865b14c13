------------------------------ MODULE HitlCli ------------------------------
(***************************************************************************)
(* hitl_cli._decide: `scoped-mcp hitl approve` and `hitl reject`, run in a *)
(* process of their own.  GET, then SET, then DELETE: nothing is claimed   *)
(* atomically, the OTP is left to expire and the audit row is not touched. *)
(***************************************************************************)
EXTENDS HitlState

Elsewhere == <<auditVars, callVars, procVars>>

\* run_hitl_command refuses approve under enforce.
CliPeek(o, id) ==
    /\ \/ /\ Mode # "enforce"
          /\ StartOp(o, "cliApprove", id, IF IsPending(id) THEN "token" ELSE "done")
       \/ StartOp(o, "cliReject", id, IF IsPending(id) THEN "tomb" ELSE "done")
    /\ UNCHANGED <<storeVars, Elsewhere>>

CliToken(o) ==
    /\ OpAt(o, "cliApprove", "token")
    /\ GoTo(o, "delete")
    /\ SetToken(KeyOf[oid[o]], o, PreapprovalTTL)
    /\ UNCHANGED <<pending, otp, tomb, Elsewhere>>

CliTombstone(o) ==
    /\ OpAt(o, "cliReject", "tomb")
    /\ GoTo(o, "delete")
    /\ tomb' = [tomb EXCEPT ![oid[o]] = TRUE]
    /\ UNCHANGED <<pending, otp, token, tokenTTL, Elsewhere>>

\* DELETE of the record, without learning whether it was still there.
CliDelete(o) ==
    /\ OpAt(o, "cliApprove", "delete") \/ OpAt(o, "cliReject", "delete")
    /\ GoTo(o, "done")
    /\ pending' = [pending EXCEPT ![oid[o]] = 0]
    /\ UNCHANGED <<otp, tomb, token, tokenTTL, Elsewhere>>

CliStep(o) ==
    \/ \E id \in Calls : CliPeek(o, id)
    \/ CliToken(o) \/ CliTombstone(o) \/ CliDelete(o)

============================================================================
