----------------------------- MODULE HitlProofs -----------------------------
(***************************************************************************)
(* Proofs of what module HitlSafety states about the approval protocol.    *)
(***************************************************************************)
EXTENDS HitlSafety, TLAPS

\* A command that has begun names a request, one that has not has no route yet.
OpsNameRequests ==
    \A o \in Ops : IF opc[o] = "start" THEN route[o] = "none" ELSE oid[o] \in Calls

TypeInv == TypeOK /\ OpsNameRequests

USE HitlAssumptions

\* The derived times are as long as what they are derived from.
LEMMA Times ==
    /\ LongestTTL \in Nat
    /\ 0 \in 0..RequestTimeout
    /\ RequestTimeout \in 0..RequestTimeout
    /\ 0 \in 0..LongestTTL
    /\ PreapprovalTTL \in 0..LongestTTL
    /\ MaxLifetime \in 0..LongestTTL
    /\ Grace \in Nat
    /\ ExpiryGrace <= Grace
    /\ MaxAge \in Nat
    /\ 0 \in 0..MaxAge
BY DEF LongestTTL, LongestOf, Grace, MaxAge

\* Taking or writing a token leaves a well-typed store.
LEMMA TokenWrites ==
    ASSUME TypeOK, NEW k \in Keys
    PROVE  /\ TokenAt(k) \in Ops \union {None}
           /\ TakeToken(k) => /\ token' \in [Keys -> Ops \union {None}]
                              /\ tokenTTL' \in [Keys -> 0..LongestTTL]
           /\ \A o \in Ops, ttl \in {PreapprovalTTL, MaxLifetime} :
                  SetToken(k, o, ttl) =>
                      /\ token' \in [Keys -> Ops \union {None}]
                      /\ tokenTTL' \in [Keys -> 0..LongestTTL]
BY Times DEF TypeOK, TokenAt, TakeToken, SetToken

\* Every call has a key the store knows.
LEMMA KeysOfCalls == \A c \in Calls : KeyOf[c] \in Keys
BY DEF Keys

\* Each await of the gate keeps the types (hitl.py, _handle_approval).
LEMMA GateTyped ==
    ASSUME TypeInv, NEW c \in Calls, GateStep(c)
    PROVE  TypeInv'
<1> USE DEF TypeInv, TypeOK, OpsNameRequests, Keys, CallSteps, RowStates,
            Enter, Step, opVars, procVars, auditVars, storeVars
<1>1. CASE RedeemSigned(c)
  <2>1. TokenAt(KeyOf[c]) \in Ops
    BY <1>1, TokenWrites, KeysOfCalls DEF RedeemSigned
  <2>2. osig[TokenAt(KeyOf[c])] + ClockSkew \in 0..(MaxLifetime + ClockSkew)
    BY <2>1 DEF TypeInv, TypeOK
  <2>3. TakeToken(KeyOf[c])
    BY <1>1 DEF RedeemSigned
  <2> QED
    BY <1>1, <2>1, <2>2, <2>3, TokenWrites, KeysOfCalls DEF RedeemSigned
<1>2. CASE RedeemUnsigned(c)
  <2>1. TokenAt(KeyOf[c]) \in Ops
    BY <1>2, TokenWrites, KeysOfCalls DEF RedeemUnsigned
  <2>2. TakeToken(KeyOf[c])
    BY <1>2 DEF RedeemUnsigned
  <2> QED
    BY <1>2, <2>1, <2>2, TokenWrites, KeysOfCalls DEF RedeemUnsigned
<1>3. CASE RefuseToken(c)
  <2>1. TakeToken(KeyOf[c])
    BY <1>3 DEF RefuseToken
  <2> QED
    BY <1>3, <2>1, TokenWrites, KeysOfCalls DEF RefuseToken
<1>4. CASE FindNoToken(c)
  BY <1>4 DEF FindNoToken
<1>5. CASE ConsumeSigned(c)
  BY <1>5 DEF ConsumeSigned, ResolveRow
<1>6. CASE ConsumeApproved(c)
  <2>1. PICK to \in {"done", "consumePending"} : Step(c, "consumeApproved", to)
    BY <1>6 DEF ConsumeApproved
  <2>2. row' \in [Calls -> RowStates]
    <3>1. PICK ok \in DbOutcomes :
              ResolveRow(ApprovalOf(c), "consumed", {"approved"}, ok)
      BY <1>6 DEF ConsumeApproved
    <3> QED
      BY <3>1 DEF ResolveRow
  <2>3. UNCHANGED <<age, closed, storeVars>>
    BY <1>6 DEF ConsumeApproved
  <2> QED
    BY <2>1, <2>2, <2>3
<1>7. CASE ConsumePending(c)
  BY <1>7 DEF ConsumePending, ResolveRow
<1>8. CASE SetPending(c)
  BY <1>8 DEF SetPending
<1>9. CASE SetOtp(c)
  BY <1>9 DEF SetOtp
<1>10. CASE RegisterFails(c)
  BY <1>10 DEF RegisterFails
<1>11. CASE InsertRow(c)
  BY <1>11 DEF InsertRow, MaxAge, Grace, LongestOf
<1> QED
  BY <1>1, <1>2, <1>3, <1>4, <1>5, <1>6, <1>7, <1>8, <1>9, <1>10, <1>11
     DEF GateStep

----------------------------------------------------------------------------
\* Commands.

\* What every command that moves on leaves behind it.
OpsTyped ==
    /\ opc     \in [Ops -> OpSteps]
    /\ route   \in [Ops -> AllRoutes \union {"none"}]
    /\ oid     \in [Ops -> Calls \union {None}]
    /\ claimed \in [Ops -> BOOLEAN]
    /\ osig    \in [Ops -> 0..MaxLifetime]
    /\ OpsNameRequests

\* The steps of a command that has begun.
RunSteps == OpSteps \ {"start"}

\* Starting a command and moving it on keep the commands' types: a started
\* command names a request.
LEMMA OpMoves ==
    ASSUME TypeInv, NEW o \in Ops
    PROVE  /\ \A r \in AllRoutes, id \in Calls, step \in RunSteps :
                  StartOp(o, r, id, step) => OpsTyped'
           /\ opc[o] # "start" =>
                  \A step \in RunSteps : GoTo(o, step) => OpsTyped'
           /\ opc[o] # "start" =>
                  \A found, missing \in RunSteps : ClaimPending(o, found, missing) =>
                      OpsTyped' /\ pending' \in [Calls -> 0..RequestTimeout]
           /\ opVars' = opVars => OpsTyped'
<1> USE DEF RunSteps, TypeInv, TypeOK, OpsTyped, OpsNameRequests
<1>1. ASSUME NEW r \in AllRoutes, NEW id \in Calls, NEW step \in RunSteps,
             StartOp(o, r, id, step)
      PROVE  OpsTyped'
  BY <1>1 DEF StartOp
<1>2. ASSUME opc[o] # "start", NEW step \in RunSteps, GoTo(o, step)
      PROVE  OpsTyped'
  BY <1>2 DEF GoTo
<1>3. ASSUME opc[o] # "start", NEW found \in RunSteps, NEW missing \in RunSteps,
             ClaimPending(o, found, missing)
      PROVE  OpsTyped' /\ pending' \in [Calls -> 0..RequestTimeout]
  BY <1>3 DEF ClaimPending, IsPending
<1>4. opVars' = opVars => OpsTyped'
  BY DEF opVars
<1> QED
  BY <1>1, <1>2, <1>3, <1>4

\* The endpoint's approve, deny and list keep the types.
LEMMA EndpointTyped ==
    ASSUME TypeInv, NEW o \in Ops, EndpointStep(o)
    PROVE  TypeInv'
<1>1. /\ callVars' = callVars
      /\ procVars' = procVars
      /\ tomb' = tomb
      /\ age' = age
  BY DEF EndpointStep, ApprovePeek, DenyStart, CheckOtp, DenyBadOtp, ApproveClaim,
         ApproveDropOtp, ApproveAudit, ApproveToken, ApproveTokenFails, ApproveUndo,
         DenyClaim, DenyDropOtp, DenyAudit, DenyEmit, OtherVars, storeVars, auditVars
<1>2. ASSUME OpsTyped', pending' \in [Calls -> 0..RequestTimeout],
             otp' \in [Calls -> 0..RequestTimeout],
             token' \in [Keys -> Ops \union {None}],
             tokenTTL' \in [Keys -> 0..LongestTTL],
             row' \in [Calls -> RowStates],
             closed' \in [Calls -> Nat]
      PROVE  TypeInv'
  BY <1>1, <1>2 DEF TypeInv, TypeOK, OpsTyped, callVars, procVars
<1>3. opc[o] # "start" => KeyOf[oid[o]] \in Keys
  BY KeysOfCalls DEF TypeInv, OpsNameRequests
<1> USE DEF OpSteps, RunSteps, RowStates, AllRoutes, OpAt, ByApprove, DropOtpOf, storeVars,
            auditVars
<1>4. ASSUME NEW id \in Calls, ApprovePeek(o, id) PROVE TypeInv'
  <2>1. OpsTyped'
    BY <1>4, OpMoves DEF ApprovePeek
  <2> QED
    BY <1>2, <1>4, <2>1 DEF ApprovePeek, TypeInv, TypeOK
<1>5. ASSUME NEW id \in Calls, DenyStart(o, id) PROVE TypeInv'
  <2>1. OpsTyped'
    BY <1>5, OpMoves DEF DenyStart
  <2> QED
    BY <1>2, <1>5, <2>1 DEF DenyStart, TypeInv, TypeOK
<1>6. CASE CheckOtp(o)
  <2>1. OpsTyped'
    BY <1>6, OpMoves DEF CheckOtp
  <2>2. otp' \in [Calls -> 0..RequestTimeout]
    <3>1. otp' = [otp EXCEPT ![oid[o]] = 0]
      BY <1>6 DEF CheckOtp
    <3> QED
      BY <3>1, Times DEF TypeInv, TypeOK
  <2>3. UNCHANGED <<pending, tomb, token, tokenTTL, auditVars, OtherVars>>
    BY <1>6 DEF CheckOtp
  <2> QED
    BY <1>2, <2>1, <2>2, <2>3 DEF TypeInv, TypeOK
<1>7. CASE ApproveClaim(o) \/ DenyClaim(o)
  <2>1. OpsTyped' /\ pending' \in [Calls -> 0..RequestTimeout]
    BY <1>7, OpMoves DEF ApproveClaim, DenyClaim
  <2> QED
    BY <1>2, <1>7, <2>1 DEF ApproveClaim, DenyClaim, TypeInv, TypeOK
<1>8. CASE ApproveDropOtp(o) \/ DenyDropOtp(o)
  <2>1. OpsTyped'
    BY <1>8, OpMoves DEF ApproveDropOtp, DenyDropOtp
  <2> QED
    BY <1>2, <1>8, <2>1 DEF ApproveDropOtp, DenyDropOtp, TypeInv, TypeOK
<1>9. CASE DenyBadOtp(o) \/ ApproveAudit(o) \/ ApproveUndo(o) \/ DenyAudit(o)
  <2>1. OpsTyped'
    BY <1>9, OpMoves DEF DenyBadOtp, ApproveAudit, ApproveUndo, DenyAudit
  <2>2. row' \in [Calls -> RowStates]
    BY <1>9 DEF DenyBadOtp, ApproveAudit, ApproveUndo, DenyAudit, ResolveRow,
                TypeInv, TypeOK
  <2> QED
    BY <1>2, <1>9, <2>1, <2>2
       DEF DenyBadOtp, ApproveAudit, ApproveUndo, DenyAudit, TypeInv, TypeOK
<1>10. CASE ApproveToken(o) \/ ApproveTokenFails(o)
  <2>1. OpsTyped'
    BY <1>10, OpMoves DEF ApproveToken, ApproveTokenFails
  <2>2. \/ SetToken(KeyOf[oid[o]], o, PreapprovalTTL)
        \/ UNCHANGED <<token, tokenTTL>>
    BY <1>10 DEF ApproveToken, ApproveTokenFails, TokenUntouched
  <2>3. /\ token' \in [Keys -> Ops \union {None}]
        /\ tokenTTL' \in [Keys -> 0..LongestTTL]
    BY <1>3, <1>10, <2>2, TokenWrites
       DEF ApproveToken, ApproveTokenFails, TypeInv, TypeOK
  <2> QED
    BY <1>2, <1>10, <2>1, <2>3
       DEF ApproveToken, ApproveTokenFails, TypeInv, TypeOK
<1>11. CASE DenyEmit(o)
  <2>1. OpsTyped'
    BY <1>11, OpMoves DEF DenyEmit
  <2>2. closed' \in [Calls -> Nat]
    BY <1>11 DEF DenyEmit, EmitClosed, TypeInv, TypeOK, OpsNameRequests
  <2> QED
    BY <1>2, <1>11, <2>1, <2>2 DEF DenyEmit, TypeInv, TypeOK
<1> QED
  BY <1>4, <1>5, <1>6, <1>7, <1>8, <1>9, <1>10, <1>11 DEF EndpointStep

\* The CLI's approve and reject keep the types.
LEMMA CliTyped ==
    ASSUME TypeInv, NEW o \in Ops, CliStep(o)
    PROVE  TypeInv'
<1> USE DEF OpSteps, RunSteps, AllRoutes, OpAt, storeVars
<1>1. /\ auditVars' = auditVars
      /\ callVars' = callVars
      /\ procVars' = procVars
      /\ otp' = otp
  BY DEF CliStep, CliPeek, CliToken, CliTombstone, CliDelete, Elsewhere
<1>2. OpsTyped'
  BY OpMoves DEF CliStep, CliPeek, CliToken, CliTombstone, CliDelete
<1>3. pending' \in [Calls -> 0..RequestTimeout] /\ tomb' \in [Calls -> BOOLEAN]
  <2>1. CASE CliDelete(o)
    BY <2>1, Times DEF CliDelete, TypeInv, TypeOK
  <2>2. CASE ~CliDelete(o)
    BY <2>2 DEF CliStep, CliPeek, CliToken, CliTombstone, TypeInv, TypeOK
  <2> QED
    BY <2>1, <2>2
<1>4. /\ token' \in [Keys -> Ops \union {None}]
      /\ tokenTTL' \in [Keys -> 0..LongestTTL]
  <2>1. CASE CliToken(o)
    <3>1. KeyOf[oid[o]] \in Keys /\ SetToken(KeyOf[oid[o]], o, PreapprovalTTL)
      BY <2>1, KeysOfCalls DEF CliToken, TypeInv, OpsNameRequests
    <3> QED
      BY <3>1, TokenWrites DEF TypeInv
  <2>2. CASE ~CliToken(o)
    BY <2>2 DEF CliStep, CliPeek, CliTombstone, CliDelete, TypeInv, TypeOK
  <2> QED
    BY <2>1, <2>2
<1> QED
  BY <1>1, <1>2, <1>3, <1>4
     DEF TypeInv, TypeOK, OpsTyped, auditVars, callVars, procVars

\* The signing approver keeps the types, the lifetime of its statement among them.
LEMMA ApproverTyped ==
    ASSUME TypeInv, NEW o \in Ops, ApproverStep(o)
    PROVE  TypeInv'
<1> USE DEF OpSteps, RunSteps, AllRoutes, OpAt, storeVars
<1>1. /\ auditVars' = auditVars
      /\ callVars' = callVars
      /\ procVars' = procVars
  BY DEF ApproverStep, SignPeek, SignConfirm, SignClaim, SignDropOtp, SignToken,
         SignDenyStart, SignDenyClaim, SignDenyDropOtp, SignDenyTombstone, Outside
<1>2. ASSUME OpsTyped', pending' \in [Calls -> 0..RequestTimeout],
             otp' \in [Calls -> 0..RequestTimeout], tomb' \in [Calls -> BOOLEAN],
             token' \in [Keys -> Ops \union {None}],
             tokenTTL' \in [Keys -> 0..LongestTTL]
      PROVE  TypeInv'
  BY <1>1, <1>2 DEF TypeInv, TypeOK, OpsTyped, auditVars, callVars, procVars
<1>3. ASSUME NEW id \in Calls, SignPeek(o, id) \/ SignDenyStart(o, id)
      PROVE  TypeInv'
  <2>1. OpsTyped'
    BY <1>3, OpMoves DEF SignPeek, SignDenyStart
  <2> QED
    BY <1>2, <1>3, <2>1 DEF SignPeek, SignDenyStart, TypeInv, TypeOK
<1>4. CASE SignConfirm(o)
  <2>1. OpsTyped'
    <3>1. CASE GoTo(o, "done")
      BY <1>4, <3>1, OpMoves DEF SignConfirm
    <3>2. CASE ~GoTo(o, "done")
      BY <1>4, <3>2 DEF SignConfirm, TypeInv, TypeOK, OpsTyped, OpsNameRequests
    <3> QED
      BY <3>1, <3>2
  <2> QED
    BY <1>2, <1>4, <2>1 DEF SignConfirm, TypeInv, TypeOK
<1>5. CASE SignClaim(o) \/ SignDenyClaim(o)
  <2>1. OpsTyped' /\ pending' \in [Calls -> 0..RequestTimeout]
    BY <1>5, OpMoves DEF SignClaim, SignDenyClaim
  <2> QED
    BY <1>2, <1>5, <2>1 DEF SignClaim, SignDenyClaim, TypeInv, TypeOK
<1>6. CASE SignDropOtp(o) \/ SignDenyDropOtp(o)
  <2>1. OpsTyped'
    BY <1>6, OpMoves DEF SignDropOtp, SignDenyDropOtp
  <2> QED
    BY <1>2, <1>6, <2>1, Times
       DEF SignDropOtp, SignDenyDropOtp, DropOtpOf, TypeInv, TypeOK
<1>7. CASE SignToken(o)
  <2>1. OpsTyped'
    BY <1>7, OpMoves DEF SignToken
  <2>2. KeyOf[oid[o]] \in Keys /\ SetToken(KeyOf[oid[o]], o, MaxLifetime)
    BY <1>7, KeysOfCalls DEF SignToken, TypeInv, OpsNameRequests
  <2>3. /\ token' \in [Keys -> Ops \union {None}]
        /\ tokenTTL' \in [Keys -> 0..LongestTTL]
    BY <2>2, TokenWrites DEF TypeInv
  <2> QED
    BY <1>2, <1>7, <2>1, <2>3 DEF SignToken, TypeInv, TypeOK
<1>8. CASE SignDenyTombstone(o)
  <2>1. OpsTyped'
    BY <1>8, OpMoves DEF SignDenyTombstone
  <2> QED
    BY <1>2, <1>8, <2>1 DEF SignDenyTombstone, TypeInv, TypeOK
<1> QED
  BY <1>3, <1>4, <1>5, <1>6, <1>7, <1>8 DEF ApproverStep

----------------------------------------------------------------------------
\* The reconcile loop and the environment.

\* The reconcile keeps the types: a row in hand is a row.
LEMMA ReconcileTyped ==
    ASSUME TypeInv, ReconcileStep
    PROVE  TypeInv'
<1> USE DEF TypeInv, TypeOK, OpsNameRequests, NotReconciled, storeVars, callVars,
            opVars
<1>1. ASSUME NEW c \in Calls, RecRead(c) PROVE TypeInv'
  BY <1>1 DEF RecRead
<1>2. CASE RecResolve
  <2>1. PICK ok \in DbOutcomes :
            /\ ResolveRow(rec.id, rec.outcome, {"pending"}, ok)
            /\ rec' = IF ok /\ Matches(rec.id, {"pending"})
                          THEN [rec EXCEPT !.at = "emit"] ELSE NoRec
    BY <1>2 DEF RecResolve
  <2>2. row' \in [Calls -> RowStates]
    BY <2>1 DEF ResolveRow, RowStates
  <2>3. rec' \in [at: {"idle", "resolve", "emit"}, id: Calls \union {None},
                  outcome: {"denied", "expired"}]
    BY <2>1 DEF NoRec
  <2> QED
    BY <1>2, <2>2, <2>3 DEF RecResolve
<1>3. CASE RecEmit
  <2>1. closed' \in [Calls -> Nat]
    <3>1. closed' = [closed EXCEPT ![rec.id] = closed[rec.id] + 1]
      BY <1>3 DEF RecEmit, EmitClosed
    <3>2. CASE rec.id \in Calls
      BY <3>1, <3>2
    <3>3. CASE rec.id \notin Calls
      <4>1. closed' = closed
        BY <3>1, <3>3
      <4> QED
        BY <4>1
    <3> QED
      BY <3>2, <3>3
  <2>2. rec' \in [at: {"idle", "resolve", "emit"}, id: Calls \union {None},
                  outcome: {"denied", "expired"}]
    BY <1>3 DEF RecEmit, NoRec
  <2> QED
    BY <1>3, <2>1, <2>2 DEF RecEmit
<1> QED
  BY <1>1, <1>2, <1>3 DEF ReconcileStep

\* Time, a restart, a dying command and a replay keep the types.
LEMMA EnvironmentTyped ==
    ASSUME TypeInv, Environment
    PROVE  TypeInv'
<1> USE DEF TypeInv, TypeOK, OpsNameRequests, auditVars, callVars, procVars
<1>1. CASE Tick
  <2>1. ASSUME NEW n \in Nat, NEW t \in 0..n PROVE Down(t) \in 0..n
    BY <2>1 DEF Down
  <2>2. pending' \in [Calls -> 0..RequestTimeout]
    BY <1>1, <2>1 DEF Tick
  <2>3. otp' \in [Calls -> 0..RequestTimeout]
    BY <1>1, <2>1 DEF Tick
  <2>4. tokenTTL' \in [Keys -> 0..LongestTTL]
    BY <1>1, <2>1, Times DEF Tick
  <2>5. token' \in [Keys -> Ops \union {None}]
    BY <1>1 DEF Tick
  <2>6. osig' \in [Ops -> 0..MaxLifetime]
    BY <1>1, <2>1 DEF Tick
  <2>7. consumed' \in [Calls -> 0..(MaxLifetime + ClockSkew)]
    <3>1. MaxLifetime + ClockSkew \in Nat
      OBVIOUS
    <3>2. consumed' = [c \in Calls |-> Down(consumed[c])]
      BY <1>1 DEF Tick
    <3> QED
      BY <2>1, <3>1, <3>2
  <2>8. age' \in [Calls -> 0..MaxAge]
    BY <1>1, Times DEF Tick
  <2> QED
    BY <1>1, <2>2, <2>3, <2>4, <2>5, <2>6, <2>7, <2>8 DEF Tick
<1>2. CASE Restart
  <2>1. cpc' \in [Calls -> CallSteps] /\ consumed' \in [Calls -> 0..(MaxLifetime + ClockSkew)]
    BY <1>2 DEF Restart, CallSteps
  <2>2. opc' \in [Ops -> OpSteps]
    BY <1>2 DEF Restart, OpSteps
  <2>3. OpsNameRequests'
    <3> SUFFICES ASSUME NEW o \in Ops
                 PROVE  IF opc'[o] = "start" THEN route'[o] = "none"
                                             ELSE oid'[o] \in Calls
      OBVIOUS
    <3>1. /\ opc'[o] = IF route[o] \in {"bot", "courier", "deny"} THEN "done" ELSE opc[o]
          /\ route' = route /\ oid' = oid
      BY <1>2 DEF Restart, InProcess
    <3>2. IF opc[o] = "start" THEN route[o] = "none" ELSE oid[o] \in Calls
      OBVIOUS
    <3> QED
      BY <3>1, <3>2
  <2>4. epoch' \in Nat /\ loop' \in BOOLEAN
    <3>1. epoch' = epoch + 1 /\ loop' = FALSE
      BY <1>2 DEF Restart
    <3>2. epoch' \in Nat
      BY <3>1
    <3>3. loop' \in BOOLEAN
      BY <3>1, Zenon
    <3> QED
      BY <3>2, <3>3
  <2>5. rec' \in [at: {"idle", "resolve", "emit"}, id: Calls \union {None},
                  outcome: {"denied", "expired"}]
    BY <1>2 DEF Restart, NoRec
  <2> QED
    BY <1>2, <2>1, <2>2, <2>3, <2>4, <2>5 DEF Restart, storeVars
<1>3. ASSUME NEW o \in Ops, OpDies(o) PROVE TypeInv'
  <2>1. OpsTyped'
    BY <1>3, OpMoves DEF OpDies, OpSteps, RunSteps
  <2> QED
    BY <1>3, <2>1 DEF OpDies, OpsTyped, storeVars
<1>4. ASSUME NEW o \in Ops, StoreReplays(o) PROVE TypeInv'
  <2>1. KeyOf[oid[o]] \in Keys /\ SetToken(KeyOf[oid[o]], o, MaxLifetime)
    BY <1>4, KeysOfCalls DEF StoreReplays
  <2>2. /\ token' \in [Keys -> Ops \union {None}]
        /\ tokenTTL' \in [Keys -> 0..LongestTTL]
    BY <2>1, TokenWrites
  <2> QED
    BY <1>4, <2>2 DEF StoreReplays, opVars
<1>5. ASSUME NEW c \in Calls, TombstoneExpires(c) PROVE TypeInv'
  BY <1>5 DEF TombstoneExpires, opVars
<1> QED
  BY <1>1, <1>2, <1>3, <1>4, <1>5 DEF Environment

\* The empty store, the unstarted calls and commands are well typed.
LEMMA InitTyped == Init => TypeInv
<1> SUFFICES ASSUME Init PROVE TypeInv
  OBVIOUS
<1> USE DEF Init
<1>1. /\ pending \in [Calls -> 0..RequestTimeout]
      /\ otp \in [Calls -> 0..RequestTimeout]
      /\ tokenTTL \in [Keys -> 0..LongestTTL]
      /\ age \in [Calls -> 0..MaxAge]
  BY Times
<1>2. /\ tomb \in [Calls -> BOOLEAN]
      /\ token \in [Keys -> Ops \union {None}]
      /\ row \in [Calls -> RowStates]
      /\ closed \in [Calls -> Nat]
      /\ cpc \in [Calls -> CallSteps]
      /\ used \in [Calls -> Ops \union {None}]
      /\ usedIn \in [Calls -> Nat]
      /\ consumed \in [Calls -> 0..(MaxLifetime + ClockSkew)]
  BY DEF RowStates, CallSteps
<1>3. loop \in BOOLEAN /\ epoch \in Nat
  OBVIOUS
<1>4. rec \in [at: {"idle", "resolve", "emit"}, id: Calls \union {None},
               outcome: {"denied", "expired"}]
  BY DEF NoRec
<1>5. /\ opc \in [Ops -> OpSteps]
      /\ route \in [Ops -> AllRoutes \union {"none"}]
      /\ oid \in [Ops -> Calls \union {None}]
      /\ claimed \in [Ops -> BOOLEAN]
      /\ osig \in [Ops -> 0..MaxLifetime]
  BY DEF OpSteps
<1>6. OpsNameRequests
  BY DEF OpsNameRequests
<1> QED
  BY <1>1, <1>2, <1>3, <1>4, <1>5, <1>6 DEF TypeInv, TypeOK

\* Every step of the protocol keeps the types.
LEMMA NextTyped == TypeInv /\ [Next]_vars => TypeInv'
<1> SUFFICES ASSUME TypeInv, [Next]_vars PROVE TypeInv'
  OBVIOUS
<1>1. CASE Next
  BY <1>1, GateTyped, EndpointTyped, CliTyped, ApproverTyped, ReconcileTyped,
     EnvironmentTyped DEF Next, OpStep
<1>2. CASE UNCHANGED vars
  BY <1>2 DEF vars, storeVars, auditVars, callVars, procVars, opVars, TypeInv,
              TypeOK, OpsNameRequests
<1> QED
  BY <1>1, <1>2

\* The protocol keeps the types of its state: whatever the deployment, its routes and
\* its times, in every interleaving of its parties.
THEOREM TypeCorrect == Spec => []TypeOK
<1>1. TypeInv => TypeOK
  BY DEF TypeInv
<1> QED
  BY <1>1, InitTyped, NextTyped, PTL DEF Spec

----------------------------------------------------------------------------
\* What the steps of each party may do to the record of a request and to the claims
\* on it.

\* A gated call changes the record of its own request only, and only once.
LEMMA GateFrame ==
    ASSUME TypeInv, NEW c \in Calls, GateStep(c)
    PROVE  /\ opVars' = opVars
           /\ \A d \in Calls : d # c => cpc'[d] = cpc[d] /\ pending'[d] = pending[d]
           /\ cpc'[c] # "start"
           /\ cpc[c] # "start" => cpc'[c] # "setPending"
           /\ cpc[c] # "setPending" => pending'[c] = pending[c]
<1> USE DEF TypeInv, TypeOK, Enter, Step, CallSteps, storeVars
<1>1. CASE RedeemSigned(c) \/ RedeemUnsigned(c) \/ RefuseToken(c) \/ FindNoToken(c)
  BY <1>1 DEF RedeemSigned, RedeemUnsigned, RefuseToken, FindNoToken
<1>2. CASE ConsumeSigned(c) \/ ConsumePending(c)
  BY <1>2 DEF ConsumeSigned, ConsumePending
<1>3. CASE ConsumeApproved(c)
  <2>1. PICK to \in {"done", "consumePending"} : Step(c, "consumeApproved", to)
    BY <1>3 DEF ConsumeApproved
  <2> QED
    BY <1>3, <2>1 DEF ConsumeApproved
<1>4. CASE SetPending(c) \/ SetOtp(c) \/ RegisterFails(c) \/ InsertRow(c)
  BY <1>4 DEF SetPending, SetOtp, RegisterFails, InsertRow
<1> QED
  BY <1>1, <1>2, <1>3, <1>4 DEF GateStep

\* Command o begins, goes on, signs or claims.
Begins(o) == \E r \in AllRoutes, id \in Calls, step \in RunSteps :
                 StartOp(o, r, id, step) /\ pending' = pending
GoesOn(o) == /\ opc[o] # "start"
             /\ \E step \in RunSteps : GoTo(o, step)
             /\ \A c \in Calls : pending'[c] \in {0, pending[c]}
Signs(o)  == /\ OpAt(o, "sign", "confirm")
             /\ opc' = [opc EXCEPT ![o] = "claim"]
             /\ osig' = [osig EXCEPT ![o] = MaxLifetime]
             /\ UNCHANGED <<route, oid, claimed, pending>>
Claims(o) == \E found, missing \in RunSteps :
                 opc[o] = "claim" /\ ClaimPending(o, found, missing)

\* A command touches no call, and does one of four things: begin on a pending
\* request, go on with its own, sign, or claim.
LEMMA OpFrame ==
    ASSUME TypeInv, NEW o \in Ops, OpStep(o)
    PROVE  /\ callVars' = callVars
           /\ procVars' = procVars
           /\ Begins(o) \/ GoesOn(o) \/ Signs(o) \/ Claims(o)
<1> USE DEF OpAt, storeVars
<1>1. CASE EndpointStep(o)
  <2> USE DEF OtherVars, ByApprove
  <2>0. callVars' = callVars /\ procVars' = procVars
    BY <1>1 DEF EndpointStep, ApprovePeek, DenyStart, CheckOtp, DenyBadOtp,
         ApproveClaim, ApproveDropOtp, ApproveAudit, ApproveToken, ApproveTokenFails,
         ApproveUndo, DenyClaim, DenyDropOtp, DenyAudit, DenyEmit
  <2>1. ASSUME NEW id \in Calls, ApprovePeek(o, id) \/ DenyStart(o, id) PROVE Begins(o)
    BY <2>1 DEF ApprovePeek, DenyStart, Begins, RunSteps, OpSteps, AllRoutes
  <2>2. CASE CheckOtp(o) \/ DenyBadOtp(o) \/ ApproveDropOtp(o) \/ ApproveAudit(o)
             \/ ApproveToken(o) \/ ApproveTokenFails(o) \/ ApproveUndo(o)
             \/ DenyDropOtp(o) \/ DenyAudit(o) \/ DenyEmit(o)
    <3>1. pending' = pending /\ opc[o] # "start"
      BY <2>2 DEF CheckOtp, DenyBadOtp, ApproveDropOtp, ApproveAudit, ApproveToken,
                  ApproveTokenFails, ApproveUndo, DenyDropOtp, DenyAudit, DenyEmit
    <3>2. \E step \in RunSteps : GoTo(o, step)
      BY <2>2 DEF CheckOtp, DenyBadOtp, ApproveDropOtp, ApproveAudit, ApproveToken,
                  ApproveTokenFails, ApproveUndo, DenyDropOtp, DenyAudit, DenyEmit,
                  RunSteps, OpSteps
    <3> QED
      BY <2>0, <3>1, <3>2 DEF GoesOn
  <2>3. CASE ApproveClaim(o) \/ DenyClaim(o)
    BY <2>3 DEF ApproveClaim, DenyClaim, Claims, RunSteps, OpSteps
  <2> QED
    BY <1>1, <2>0, <2>1, <2>2, <2>3 DEF EndpointStep
<1>2. CASE CliStep(o)
  <2> USE DEF Elsewhere
  <2>0. callVars' = callVars /\ procVars' = procVars
    BY <1>2 DEF CliStep, CliPeek, CliToken, CliTombstone, CliDelete
  <2>1. ASSUME NEW id \in Calls, CliPeek(o, id) PROVE Begins(o)
    BY <2>1 DEF CliPeek, Begins, RunSteps, OpSteps, AllRoutes
  <2>2. CASE CliToken(o) \/ CliTombstone(o) \/ CliDelete(o)
    <3>1. opc[o] # "start" /\ \E step \in RunSteps : GoTo(o, step)
      BY <2>2 DEF CliToken, CliTombstone, CliDelete, RunSteps, OpSteps
    <3>2. \A c \in Calls : pending'[c] \in {0, pending[c]}
      BY <2>2 DEF CliToken, CliTombstone, CliDelete, TypeInv, TypeOK
    <3> QED
      BY <2>0, <3>1, <3>2 DEF GoesOn
  <2> QED
    BY <1>2, <2>0, <2>1, <2>2 DEF CliStep
<1>3. CASE ApproverStep(o)
  <2> USE DEF Outside
  <2>0. callVars' = callVars /\ procVars' = procVars
    BY <1>3 DEF ApproverStep, SignPeek, SignConfirm, SignClaim, SignDropOtp, SignToken,
         SignDenyStart, SignDenyClaim, SignDenyDropOtp, SignDenyTombstone
  <2>1. ASSUME NEW id \in Calls, SignPeek(o, id) \/ SignDenyStart(o, id) PROVE Begins(o)
    BY <2>1 DEF SignPeek, SignDenyStart, Begins, RunSteps, OpSteps, AllRoutes
  <2>2. CASE SignConfirm(o)
    BY <2>2 DEF SignConfirm, Signs, GoesOn, RunSteps, OpSteps
  <2>3. CASE SignDropOtp(o) \/ SignToken(o) \/ SignDenyDropOtp(o) \/ SignDenyTombstone(o)
    <3>1. opc[o] # "start" /\ \E step \in RunSteps : GoTo(o, step)
      BY <2>3 DEF SignDropOtp, SignToken, SignDenyDropOtp, SignDenyTombstone,
                  RunSteps, OpSteps
    <3>2. pending' = pending
      BY <2>3 DEF SignDropOtp, SignToken, SignDenyDropOtp, SignDenyTombstone
    <3> QED
      BY <2>0, <3>1, <3>2 DEF GoesOn
  <2>4. CASE SignClaim(o) \/ SignDenyClaim(o)
    BY <2>4 DEF SignClaim, SignDenyClaim, Claims, RunSteps, OpSteps
  <2> QED
    BY <1>3, <2>0, <2>1, <2>2, <2>3, <2>4 DEF ApproverStep
<1> QED
  BY <1>1, <1>2, <1>3 DEF OpStep

----------------------------------------------------------------------------
\* One decision per request.  A command can only name a request whose record has been
\* written, and a record is written once; so whoever claims it leaves nothing to claim.
ClaimInv ==
    /\ \A o \in Ops : opc[o] # "start" => cpc[oid[o]] \notin {"start", "setPending"}
    /\ \A o \in Ops : claimed[o] => opc[o] # "start" /\ pending[oid[o]] = 0
    /\ DecidedOnce

\* The gate keeps the claims: a call makes only its own request pending, and
\* only before any command can have seen it.
LEMMA GateKeepsClaims ==
    ASSUME TypeInv, ClaimInv, NEW c \in Calls, GateStep(c)
    PROVE  ClaimInv'
<1>1. \A o \in Ops : /\ opc'[o] = opc[o]
                     /\ oid'[o] = oid[o]
                     /\ claimed'[o] = claimed[o]
  BY GateFrame DEF opVars
<1>2. \A o \in Ops : opc[o] # "start" => cpc'[oid[o]] \notin {"start", "setPending"}
  BY GateFrame DEF ClaimInv, TypeInv, OpsNameRequests
<1>3. \A o \in Ops : claimed[o] => pending'[oid[o]] = 0
  BY GateFrame DEF ClaimInv, TypeInv, OpsNameRequests
<1> QED
  BY <1>1, <1>2, <1>3 DEF ClaimInv, DecidedOnce

\* A command keeps the claims: it claims what is pending, and then it is not.
LEMMA OpKeepsClaims ==
    ASSUME TypeInv, ClaimInv, NEW o \in Ops, OpStep(o)
    PROVE  ClaimInv'
<1> USE DEF TypeInv, TypeOK, OpsNameRequests, ClaimInv, DecidedOnce
<1>1. cpc' = cpc
  BY OpFrame DEF callVars
<1>2. CASE Begins(o)
  BY <1>1, <1>2 DEF Begins, StartOp, Minted
<1>3. CASE GoesOn(o)
  BY <1>1, <1>3 DEF GoesOn, GoTo, RunSteps
<1>4. CASE Signs(o)
  BY <1>1, <1>4 DEF Signs, OpAt
<1>5. CASE Claims(o)
  <2>1. PICK found \in RunSteps, missing \in RunSteps :
            opc[o] = "claim" /\ ClaimPending(o, found, missing)
    BY <1>5 DEF Claims
  <2>2. /\ oid' = oid
        /\ \A p \in Ops : p # o => claimed'[p] = claimed[p] /\ opc'[p] = opc[p]
        /\ claimed'[o] = (pending[oid[o]] > 0)
        /\ opc'[o] # "start"
        /\ \A c \in Calls : pending'[c] = IF c = oid[o] THEN 0 ELSE pending[c]
    BY <2>1 DEF ClaimPending, IsPending, RunSteps
  <2>3. claimed'[o] => \A p \in Ops : claimed[p] => oid[p] # oid[o]
    <3> SUFFICES ASSUME claimed'[o], NEW p \in Ops, claimed[p], oid[p] = oid[o]
                 PROVE  FALSE
      OBVIOUS
    <3>1. pending[oid[o]] > 0
      BY <2>2
    <3>2. pending[oid[o]] = 0
      OBVIOUS
    <3> QED
      BY <3>1, <3>2
  <2> QED
    BY <1>1, <2>1, <2>2, <2>3
<1> QED
  BY <1>2, <1>3, <1>4, <1>5, OpFrame

\* Reconcile, time, crashes and replays claim nothing and make nothing pending.
LEMMA OthersKeepClaims ==
    ASSUME TypeInv, ClaimInv, ReconcileStep \/ Environment
    PROVE  ClaimInv'
<1> USE DEF TypeInv, TypeOK, OpsNameRequests, ClaimInv, DecidedOnce, storeVars,
            callVars, procVars, opVars
<1>1. CASE ReconcileStep
  BY <1>1 DEF ReconcileStep, RecRead, RecResolve, RecEmit, NotReconciled
<1>2. CASE Tick
  <2>1. \A c \in Calls : pending[c] = 0 => pending'[c] = 0
    BY <1>2 DEF Tick, Down
  <2> QED
    BY <1>2, <2>1 DEF Tick
<1>3. CASE Restart
  BY <1>3 DEF Restart, InProcess
<1>4. ASSUME NEW o \in Ops, OpDies(o) \/ StoreReplays(o) PROVE ClaimInv'
  BY <1>4 DEF OpDies, StoreReplays, GoTo
<1>5. ASSUME NEW c \in Calls, TombstoneExpires(c) PROVE ClaimInv'
  BY <1>5 DEF TombstoneExpires
<1> QED
  BY <1>1, <1>2, <1>3, <1>4, <1>5 DEF Environment

\* The claims are an invariant of the protocol.
LEMMA ClaimsInvariant == Spec => [](TypeInv /\ ClaimInv)
<1>1. Init => TypeInv /\ ClaimInv
  <2>1. Init => ClaimInv
    BY DEF Init, ClaimInv, DecidedOnce
  <2> QED
    BY <2>1, InitTyped
<1>2. TypeInv /\ ClaimInv /\ [Next]_vars => (TypeInv /\ ClaimInv)'
  <2> SUFFICES ASSUME TypeInv, ClaimInv, [Next]_vars PROVE ClaimInv'
    BY NextTyped
  <2>1. CASE Next
    BY <2>1, GateKeepsClaims, OpKeepsClaims, OthersKeepClaims DEF Next
  <2>2. CASE UNCHANGED vars
    BY <2>2 DEF vars, storeVars, callVars, opVars, ClaimInv, DecidedOnce
  <2> QED
    BY <2>1, <2>2
<1> QED
  BY <1>1, <1>2, PTL DEF Spec

\* However the routes of a deployment race, a request is claimed by one command.
THEOREM ClaimedOnce == Spec => []DecidedOnce
<1>1. TypeInv /\ ClaimInv => DecidedOnce
  BY DEF ClaimInv
<1> QED
  BY <1>1, ClaimsInvariant, PTL

----------------------------------------------------------------------------
\* Tokens.  A token, wherever it is, was written by a command that is done with it: the
\* CLI's approve, or a command that had claimed its request.
Unclaimed == {"start", "otp", "badOtp", "confirm", "claim"}
Written   == {"undo", "delete", "done"}

Wrote(o) ==
    /\ \/ route[o] \in {"bot", "courier", "sign"} /\ claimed[o]
       \/ route[o] = "cliApprove"
    /\ opc[o] \in Written

ClaimsFirst ==
    \A o \in Ops :
        /\ claimed[o] => opc[o] \notin Unclaimed
        /\ /\ route[o] \in {"bot", "courier", "sign"}
           /\ opc[o] \in {"dropOtp", "audit", "token", "undo"}
           => claimed[o]

TokenInv ==
    /\ ClaimsFirst
    /\ \A k \in Keys : token[k] # None =>
           Wrote(token[k]) /\ KeyOf[oid[token[k]]] = k
    /\ \A c \in Calls : used[c] # None => Wrote(used[c])

\* What a step of command o may do to the tokens and to what is known of o.
WritesOrNot(o) ==
    /\ \A p \in Ops \ {o} : /\ opc'[p] = opc[p]
                            /\ route'[p] = route[p]
                            /\ oid'[p] = oid[p]
                            /\ claimed'[p] = claimed[p]
    /\ opc[o] \in Written => /\ opc'[o] \in Written
                             /\ route'[o] = route[o]
                             /\ oid'[o] = oid[o]
                             /\ claimed'[o] = claimed[o]
    /\ \/ token' = token
       \/ /\ token' = [token EXCEPT ![KeyOf[oid[o]]] = o]
          /\ opc[o] = "token"
          /\ oid' = oid
          /\ Wrote(o)'

\* The endpoint writes a token only after its claim, and as its own.
LEMMA EndpointWrites ==
    ASSUME TypeInv, ClaimsFirst, NEW o \in Ops, EndpointStep(o)
    PROVE  ClaimsFirst' /\ WritesOrNot(o)
<1> USE DEF TypeInv, TypeOK, ClaimsFirst, WritesOrNot, Unclaimed, Written, Wrote, OpAt,
            ByApprove, GoTo, StartOp, ClaimPending, SetToken, TokenUntouched, storeVars
<1>1. ASSUME NEW id \in Calls, ApprovePeek(o, id) \/ DenyStart(o, id)
      PROVE  ClaimsFirst' /\ WritesOrNot(o)
  BY <1>1 DEF ApprovePeek, DenyStart
<1>2. CASE CheckOtp(o)
  BY <1>2 DEF CheckOtp
<1>3. CASE DenyBadOtp(o) \/ ApproveDropOtp(o) \/ ApproveAudit(o) \/ ApproveUndo(o)
  BY <1>3 DEF DenyBadOtp, ApproveDropOtp, ApproveAudit, ApproveUndo
<1>4. CASE ApproveClaim(o) \/ DenyClaim(o)
  BY <1>4 DEF ApproveClaim, DenyClaim
<1>5. CASE ApproveToken(o)
  BY <1>5 DEF ApproveToken
<1>6. CASE ApproveTokenFails(o)
  BY <1>6 DEF ApproveTokenFails
<1>7. CASE DenyDropOtp(o) \/ DenyAudit(o) \/ DenyEmit(o)
  BY <1>7 DEF DenyDropOtp, DenyAudit, DenyEmit
<1> QED
  BY <1>1, <1>2, <1>3, <1>4, <1>5, <1>6, <1>7 DEF EndpointStep

\* The CLI's approve writes its own token, and its reject none.
LEMMA CliWrites ==
    ASSUME TypeInv, ClaimsFirst, NEW o \in Ops, CliStep(o)
    PROVE  ClaimsFirst' /\ WritesOrNot(o)
<1> USE DEF TypeInv, TypeOK, ClaimsFirst, WritesOrNot, Unclaimed, Written, Wrote, OpAt,
            GoTo, StartOp, SetToken, storeVars
<1>1. ASSUME NEW id \in Calls, CliPeek(o, id) PROVE ClaimsFirst' /\ WritesOrNot(o)
  BY <1>1 DEF CliPeek
<1>2. CASE CliToken(o)
  BY <1>2 DEF CliToken
<1>3. CASE CliTombstone(o) \/ CliDelete(o)
  BY <1>3 DEF CliTombstone, CliDelete
<1> QED
  BY <1>1, <1>2, <1>3 DEF CliStep

\* The signing approver stores a statement only after its claim.
LEMMA ApproverWrites ==
    ASSUME TypeInv, ClaimsFirst, NEW o \in Ops, ApproverStep(o)
    PROVE  ClaimsFirst' /\ WritesOrNot(o)
<1> USE DEF TypeInv, TypeOK, ClaimsFirst, WritesOrNot, Unclaimed, Written, Wrote, OpAt,
            GoTo, StartOp, ClaimPending, SetToken, storeVars
<1>1. ASSUME NEW id \in Calls, SignPeek(o, id) \/ SignDenyStart(o, id)
      PROVE  ClaimsFirst' /\ WritesOrNot(o)
  BY <1>1 DEF SignPeek, SignDenyStart
<1>2. CASE SignConfirm(o)
  BY <1>2 DEF SignConfirm
<1>3. CASE SignClaim(o) \/ SignDenyClaim(o)
  BY <1>3 DEF SignClaim, SignDenyClaim
<1>4. CASE SignToken(o)
  BY <1>4 DEF SignToken
<1>5. CASE SignDropOtp(o) \/ SignDenyDropOtp(o) \/ SignDenyTombstone(o)
  BY <1>5 DEF SignDropOtp, SignDenyDropOtp, SignDenyTombstone
<1> QED
  BY <1>1, <1>2, <1>3, <1>4, <1>5 DEF ApproverStep

\* No command of a claiming route writes a token for what it did not claim.
LEMMA OpKeepsTokens ==
    ASSUME TypeInv, TokenInv, NEW o \in Ops, OpStep(o)
    PROVE  TokenInv'
<1>1. ClaimsFirst' /\ WritesOrNot(o)
  BY EndpointWrites, CliWrites, ApproverWrites DEF OpStep, TokenInv
<1>2. used' = used
  BY OpFrame DEF callVars
<1>3. \A p \in Ops : Wrote(p) => Wrote(p)' /\ oid'[p] = oid[p]
  BY <1>1 DEF WritesOrNot, Wrote
<1>4. \A c \in Calls : used[c] # None => used[c] \in Ops
  BY DEF TypeInv, TypeOK
<1>5. \A k \in Keys : token[k] # None => token[k] \in Ops
  BY DEF TypeInv, TypeOK
<1>6. (\A c \in Calls : used[c] # None => Wrote(used[c]))'
  BY <1>2, <1>3, <1>4 DEF TokenInv, Wrote
<1>7. (\A k \in Keys : token[k] # None => Wrote(token[k]) /\ KeyOf[oid[token[k]]] = k)'
  <2> SUFFICES ASSUME NEW k \in Keys, token'[k] # None
               PROVE  (Wrote(token[k]) /\ KeyOf[oid[token[k]]] = k)'
    BY DEF Keys
  <2>1. CASE token'[k] = token[k]
    BY <1>3, <1>5, <2>1 DEF TokenInv, Wrote
  <2>2. CASE token'[k] # token[k]
    <3>1. /\ token' = [token EXCEPT ![KeyOf[oid[o]]] = o]
          /\ oid' = oid
          /\ Wrote(o)'
      BY <1>1, <2>2 DEF WritesOrNot
    <3>2. k = KeyOf[oid[o]] /\ token'[k] = o
      BY <2>2, <3>1 DEF TypeInv, TypeOK
    <3> QED
      BY <3>1, <3>2 DEF Wrote
  <2> QED
    BY <2>1, <2>2
<1> QED
  BY <1>1, <1>6, <1>7 DEF TokenInv, Keys

\* The gate only takes tokens; the call it admits has used the one it took.
TakesOrNot(c) ==
    \/ token' = token /\ used' = used
    \/ token' = [token EXCEPT ![KeyOf[c]] = None] /\ used' = used
    \/ /\ token' = [token EXCEPT ![KeyOf[c]] = None]
       /\ token[KeyOf[c]] # None
       /\ used' = [used EXCEPT ![c] = token[KeyOf[c]]]
       /\ usedIn' = [usedIn EXCEPT ![c] = epoch]

\* The gate takes a token out of the store, or leaves the tokens alone.
LEMMA GateTakes ==
    ASSUME TypeInv, NEW c \in Calls, GateStep(c)
    PROVE  TakesOrNot(c)
<1> USE DEF TakesOrNot, TypeInv, TypeOK, TakeToken, TokenAt, storeVars, Step
<1>1. CASE RedeemSigned(c) \/ RedeemUnsigned(c)
  BY <1>1 DEF RedeemSigned, RedeemUnsigned
<1>2. CASE RefuseToken(c) \/ FindNoToken(c)
  BY <1>2 DEF RefuseToken, FindNoToken
<1>3. CASE ConsumeSigned(c) \/ ConsumeApproved(c) \/ ConsumePending(c)
  BY <1>3 DEF ConsumeSigned, ConsumeApproved, ConsumePending
<1>4. CASE SetPending(c) \/ SetOtp(c) \/ RegisterFails(c) \/ InsertRow(c)
  BY <1>4 DEF SetPending, SetOtp, RegisterFails, InsertRow
<1> QED
  BY <1>1, <1>2, <1>3, <1>4 DEF GateStep

\* A call that redeems is admitted by a token that was in the store.
LEMMA GateKeepsTokens ==
    ASSUME TypeInv, TokenInv, NEW c \in Calls, GateStep(c)
    PROVE  TokenInv'
<1>1. /\ opc' = opc
      /\ route' = route
      /\ oid' = oid
      /\ claimed' = claimed
  BY GateFrame DEF opVars
<1>2. \A p \in Ops : Wrote(p)' <=> Wrote(p)
  BY <1>1 DEF Wrote
<1>3. ClaimsFirst'
  BY <1>1 DEF ClaimsFirst, TokenInv
<1>4. KeyOf[c] \in Keys
  BY KeysOfCalls
<1>5. \A k \in Keys : token[k] \in Ops \union {None}
  BY DEF TypeInv, TypeOK
<1>6. \A k \in Keys : token'[k] \in {token[k], None}
  BY GateTakes DEF TakesOrNot, TypeInv, TypeOK
<1>7. \A d \in Calls : used'[d] = used[d] \/ used'[d] = token[KeyOf[c]]
  BY GateTakes DEF TakesOrNot, TypeInv, TypeOK
<1>8. \A d \in Calls : used[d] \in Ops \union {None}
  BY DEF TypeInv, TypeOK
<1>9. (\A k \in Keys : token[k] # None => Wrote(token[k]) /\ KeyOf[oid[token[k]]] = k)'
  BY <1>1, <1>5, <1>6 DEF TokenInv, Wrote, Keys
<1>10. (\A d \in Calls : used[d] # None => Wrote(used[d]))'
  BY <1>1, <1>4, <1>5, <1>7, <1>8 DEF TokenInv, Wrote
<1> QED
  BY <1>3, <1>9, <1>10 DEF TokenInv

\* The reconcile and the environment leave the commands as they are, or end them.
EndsOrNot ==
    /\ UNCHANGED <<route, oid, claimed, used>>
    /\ \A p \in Ops : \/ opc'[p] = opc[p]
                      \/ opc[p] # "start" /\ opc'[p] = "done"

\* Reconcile and environment end commands and never move one on.
LEMMA OthersEndOps ==
    ASSUME TypeInv, ReconcileStep \/ Environment
    PROVE  EndsOrNot
<1> USE DEF EndsOrNot, opVars, callVars, storeVars, TypeInv, TypeOK, OpsNameRequests
<1>1. CASE ReconcileStep
  BY <1>1 DEF ReconcileStep, RecRead, RecResolve, RecEmit, NotReconciled
<1>2. CASE Tick
  BY <1>2 DEF Tick
<1>3. CASE Restart
  BY <1>3 DEF Restart, InProcess
<1>4. ASSUME NEW o \in Ops, OpDies(o) \/ StoreReplays(o) PROVE EndsOrNot
  BY <1>4 DEF OpDies, StoreReplays, GoTo
<1>5. ASSUME NEW c \in Calls, TombstoneExpires(c) PROVE EndsOrNot
  BY <1>5 DEF TombstoneExpires
<1> QED
  BY <1>1, <1>2, <1>3, <1>4, <1>5 DEF Environment

\* A replay brings back only what its writer wrote; expiry only removes.
LEMMA OthersKeepTokens ==
    ASSUME TypeInv, TokenInv, ReconcileStep \/ Environment
    PROVE  TokenInv'
<1>1. EndsOrNot
  BY OthersEndOps
<1>2. \A p \in Ops : Wrote(p) => Wrote(p)' /\ oid'[p] = oid[p]
  BY <1>1 DEF EndsOrNot, Wrote, Written
<1>3. ClaimsFirst'
  BY <1>1 DEF EndsOrNot, TokenInv, ClaimsFirst, Unclaimed
<1>4. (\A c \in Calls : used[c] # None => Wrote(used[c]))'
  BY <1>1, <1>2 DEF EndsOrNot, TokenInv, Wrote, TypeInv, TypeOK
<1>5. \A k \in Keys : \/ token'[k] \in {token[k], None}
                      \/ \E o \in Ops, c \in Calls :
                             used[c] = o /\ token'[k] = o /\ KeyOf[oid[o]] = k
  <2> USE DEF TypeInv, TypeOK, storeVars
  <2>1. CASE ReconcileStep
    BY <2>1 DEF ReconcileStep, RecRead, RecResolve, RecEmit, NotReconciled
  <2>2. CASE Tick
    BY <2>2 DEF Tick
  <2>3. CASE Restart
    BY <2>3 DEF Restart
  <2>4. ASSUME NEW o \in Ops, OpDies(o) PROVE token' = token
    BY <2>4 DEF OpDies
  <2>5. ASSUME NEW o \in Ops, StoreReplays(o)
        PROVE  /\ \E c \in Calls : used[c] = o
               /\ token' = [token EXCEPT ![KeyOf[oid[o]]] = o]
    BY <2>5 DEF StoreReplays, SetToken
  <2>6. ASSUME NEW c \in Calls, TombstoneExpires(c) PROVE token' = token
    BY <2>6 DEF TombstoneExpires
  <2> QED
    BY <2>1, <2>2, <2>3, <2>4, <2>5, <2>6 DEF Environment
<1>6. \A k \in Keys : token'[k] # None =>
          /\ token'[k] \in Ops
          /\ Wrote(token'[k])
          /\ KeyOf[oid[token'[k]]] = k
  BY <1>5 DEF TokenInv, TypeInv, TypeOK
<1>7. (\A k \in Keys : token[k] # None => Wrote(token[k]) /\ KeyOf[oid[token[k]]] = k)'
  BY <1>2, <1>6 DEF Wrote, Keys
<1> QED
  BY <1>3, <1>4, <1>7 DEF TokenInv

SafeInv == TypeInv /\ ClaimInv /\ TokenInv

\* Types, claims and tokens are an invariant of the protocol.
LEMMA SafeInvariant == Spec => []SafeInv
<1>1. Init => TokenInv
  BY DEF Init, TokenInv, ClaimsFirst
<1>2. TypeInv /\ ClaimInv /\ TokenInv /\ [Next]_vars => TokenInv'
  <2> SUFFICES ASSUME TypeInv, TokenInv, [Next]_vars PROVE TokenInv'
    OBVIOUS
  <2>1. CASE Next
    BY <2>1, GateKeepsTokens, OpKeepsTokens, OthersKeepTokens DEF Next
  <2>2. CASE UNCHANGED vars
    BY <2>2 DEF vars, storeVars, callVars, opVars, TokenInv, ClaimsFirst, Wrote, Keys
  <2> QED
    BY <2>1, <2>2
<1> QED
  BY <1>1, <1>2, ClaimsInvariant, PTL DEF Spec, SafeInv

\* No call is ever admitted by an approval of a request that a deny had claimed.
THEOREM DeniedStaysDenied == Spec => []DeniedNeverRuns
<1>1. SafeInv => DeniedNeverRuns
  BY DEF SafeInv, TypeInv, TypeOK, ClaimInv, DecidedOnce, TokenInv, Wrote,
         DeniedNeverRuns, AdmittedBy, Denies, ClaimingRoutes
<1> QED
  BY <1>1, SafeInvariant, PTL

-----------------------------------------------------------------------------
\* An approval admits one call: a request's, as long as the store does not bring back what was
\* taken from it, and a signed statement's within a process lifetime, even if it does.

\* A token that has admitted a call is in no key, and admits no other.
SpentInv ==
    /\ \A c, d \in Calls : used[c] # None /\ used[c] = used[d] => c = d
    /\ \A c \in Calls, k \in Keys : used[c] # None => token[k] # used[c]

\* GETDEL: the token a call is admitted by is gone from its key.
LEMMA GateSpends ==
    ASSUME TypeInv, TokenInv, SpentInv, NEW c \in Calls, GateStep(c)
    PROVE  SpentInv'
<1> USE DEF SpentInv, TypeInv, TypeOK
<1>1. TakesOrNot(c)
  BY GateTakes
<1>2. CASE token' = token /\ used' = used
  BY <1>2 DEF Keys
<1>3. CASE token' = [token EXCEPT ![KeyOf[c]] = None] /\ used' = used
  BY <1>3 DEF Keys
<1>4. CASE /\ token' = [token EXCEPT ![KeyOf[c]] = None]
           /\ token[KeyOf[c]] # None
           /\ used' = [used EXCEPT ![c] = token[KeyOf[c]]]
  <2>1. KeyOf[c] \in Keys
    BY KeysOfCalls
  <2>2. \A k \in Keys : k # KeyOf[c] => token[k] # token[KeyOf[c]]
    BY <1>4, <2>1 DEF TokenInv
  <2>3. (\A d, e \in Calls : used[d] # None /\ used[d] = used[e] => d = e)'
    BY <1>4, <2>1
  <2>4. (\A d \in Calls, k \in Keys : used[d] # None => token[k] # used[d])'
    BY <1>4, <2>1, <2>2 DEF Keys
  <2> QED
    BY <2>3, <2>4
<1> QED
  BY <1>1, <1>2, <1>3, <1>4 DEF TakesOrNot

\* A command writes a token of its own, and only once.
LEMMA OpSpends ==
    ASSUME TypeInv, TokenInv, SpentInv, NEW o \in Ops, OpStep(o)
    PROVE  SpentInv'
<1>1. WritesOrNot(o)
  BY EndpointWrites, CliWrites, ApproverWrites DEF OpStep, TokenInv
<1>2. used' = used
  BY OpFrame DEF callVars
<1>3. CASE token' = token
  BY <1>2, <1>3 DEF SpentInv, Keys
<1>4. CASE token' = [token EXCEPT ![KeyOf[oid[o]]] = o] /\ opc[o] = "token"
  <2>1. \A c \in Calls : used[c] # o
    BY <1>4, HitlAssumptions DEF TokenInv, Wrote, Written
  <2> QED
    BY <1>2, <1>4, <2>1 DEF SpentInv, TypeInv, TypeOK, Keys
<1> QED
  BY <1>1, <1>3, <1>4 DEF WritesOrNot

\* Where the store replays nothing, a spent token does not come back.
LEMMA OthersSpend ==
    ASSUME ~StoreMayReplay, TypeInv, SpentInv, ReconcileStep \/ Environment
    PROVE  SpentInv'
<1>1. used' = used
  BY OthersEndOps DEF EndsOrNot
<1>2. \A k \in Keys : token'[k] \in {token[k], None}
  <2> USE DEF TypeInv, TypeOK, storeVars
  <2>1. CASE ReconcileStep
    BY <2>1 DEF ReconcileStep, RecRead, RecResolve, RecEmit, NotReconciled
  <2>2. CASE Tick
    BY <2>2 DEF Tick
  <2>3. CASE Restart
    BY <2>3 DEF Restart
  <2>4. ASSUME NEW o \in Ops, OpDies(o) \/ StoreReplays(o) PROVE token' = token
    BY <2>4 DEF OpDies, StoreReplays
  <2>5. ASSUME NEW c \in Calls, TombstoneExpires(c) PROVE token' = token
    BY <2>5 DEF TombstoneExpires
  <2> QED
    BY <2>1, <2>2, <2>3, <2>4, <2>5 DEF Environment
<1> QED
  BY <1>1, <1>2 DEF SpentInv, Keys

\* Without replays, spent tokens stay spent.
LEMMA SpentInvariant == ~StoreMayReplay => (Spec => [](SafeInv /\ SpentInv))
<1> SUFFICES ASSUME ~StoreMayReplay PROVE Spec => [](SafeInv /\ SpentInv)
  OBVIOUS
<1>1. Init => SpentInv
  BY DEF Init, SpentInv
<1>2. SafeInv /\ SpentInv /\ [Next]_vars => SpentInv'
  <2> SUFFICES ASSUME TypeInv, TokenInv, SpentInv, [Next]_vars PROVE SpentInv'
    BY DEF SafeInv
  <2>1. CASE Next
    BY <2>1, GateSpends, OpSpends, OthersSpend DEF Next
  <2>2. CASE UNCHANGED vars
    BY <2>2 DEF vars, storeVars, callVars, SpentInv, Keys
  <2> QED
    BY <2>1, <2>2
<1> QED
  BY <1>1, <1>2, SafeInvariant, PTL DEF Spec

\* GETDEL on the record and GETDEL on the token: where the store brings nothing back, a
\* request yields one admitted call, whoever approved it and however they raced.
THEOREM OneCallOnly == ~StoreMayReplay => (Spec => []OneCallPerRequest)
<1> SUFFICES ASSUME ~StoreMayReplay PROVE Spec => []OneCallPerRequest
  OBVIOUS
<1>1. SafeInv /\ SpentInv => OneCallPerRequest
  BY DEF SafeInv, ClaimInv, DecidedOnce, TokenInv, Wrote, SpentInv,
         OneCallPerRequest, AdmittedBy, ClaimingRoutes
<1> QED
  BY <1>1, SpentInvariant, PTL

----------------------------------------------------------------------------
\* Under enforce every token that admits a call is a statement that was signed and
\* claimed, and the ConsumedSet remembers it for as long as it verifies.
MemoryInv ==
    /\ \A c \in Calls : usedIn[c] <= epoch
    /\ \A c \in Calls : used[c] # None => route[used[c]] = "sign"
    /\ \A c \in Calls : used[c] # None /\ usedIn[c] = epoch =>
           osig[used[c]] <= consumed[oid[used[c]]]
    /\ \A c, d \in Calls :
           used[c] # None /\ used[c] = used[d] /\ usedIn[c] = usedIn[d] => c = d

\* A used token names a claimed request, and no other command has claimed that one.
LEMMA UsersClaimed ==
    ASSUME SafeInv, MemoryInv, NEW c \in Calls, used[c] # None
    PROVE  /\ used[c] \in Ops /\ Wrote(used[c]) /\ claimed[used[c]]
           /\ oid[used[c]] \in Calls
           /\ \A p \in Ops : claimed[p] /\ oid[p] = oid[used[c]] => p = used[c]
<1>1. used[c] \in Ops /\ Wrote(used[c])
  BY DEF SafeInv, TypeInv, TypeOK, TokenInv
<1>2. claimed[used[c]] /\ opc[used[c]] # "start"
  BY <1>1 DEF Wrote, Written, MemoryInv
<1> QED
  BY <1>1, <1>2 DEF SafeInv, TypeInv, OpsNameRequests, ClaimInv, DecidedOnce

\* What redeeming a statement looks like to the memory of the process.
LEMMA RedeemRemembers ==
    ASSUME SafeInv, MemoryInv, NEW c \in Calls, RedeemSigned(c)
    PROVE  MemoryInv'
<1> DEFINE o == token[KeyOf[c]]
<1>1. /\ TokenAt(KeyOf[c]) = o
      /\ o # None
      /\ SignatureOk(o)
      /\ consumed' = [consumed EXCEPT ![oid[o]] = osig[o] + ClockSkew]
      /\ used' = [used EXCEPT ![c] = o]
      /\ usedIn' = [usedIn EXCEPT ![c] = epoch]
      /\ epoch' = epoch
      /\ UNCHANGED <<route, oid, claimed, osig>>
  BY DEF RedeemSigned, Enter, TokenAt, opVars
<1>2. o \in Ops /\ Wrote(o)
  BY <1>1, KeysOfCalls DEF SafeInv, TokenInv, TypeInv, TypeOK
<1>3. route[o] = "sign" /\ claimed[o] /\ oid[o] \in Calls
  BY <1>1, <1>2 DEF SignatureOk, Verifies, Wrote, Written, SafeInv, TypeInv, OpsNameRequests
<1>4. osig[o] \in Nat /\ osig[o] > 0 /\ consumed[oid[o]] = 0
  <2>1. osig[o] > 0 /\ ~(consumed[oid[o]] > 0)
    BY <1>1 DEF SignatureOk, Verifies, Replayed
  <2>2. osig[o] \in Nat /\ consumed[oid[o]] \in Nat
    BY <1>2, <1>3 DEF SafeInv, TypeInv, TypeOK
  <2> QED
    BY <2>1, <2>2
<1>5. \A d \in Calls : used[d] # None /\ usedIn[d] = epoch => used[d] # o
  <2> SUFFICES ASSUME NEW d \in Calls, used[d] = o, used[d] # None, usedIn[d] = epoch
               PROVE  FALSE
    OBVIOUS
  <2>1. osig[o] <= consumed[oid[o]]
    BY DEF MemoryInv
  <2> QED
    BY <1>4, <2>1
<1>6. \A d \in Calls : used[d] # None /\ usedIn[d] = epoch => oid[used[d]] # oid[o]
  BY <1>2, <1>3, <1>5, UsersClaimed
<1> HIDE DEF o
<1>7. used \in [Calls -> Ops \union {None}] /\ usedIn \in [Calls -> Nat] /\ epoch \in Nat
      /\ consumed \in [Calls -> Nat]
  BY DEF SafeInv, TypeInv, TypeOK
<1>8. (\A d \in Calls : usedIn[d] <= epoch)'
  BY <1>1, <1>7 DEF MemoryInv
<1>9. (\A d \in Calls : used[d] # None => route[used[d]] = "sign")'
  BY <1>1, <1>3, <1>7 DEF MemoryInv
<1>10. (\A d \in Calls : used[d] # None /\ usedIn[d] = epoch =>
            osig[used[d]] <= consumed[oid[used[d]]])'
  <2> SUFFICES ASSUME NEW d \in Calls, used'[d] # None, usedIn'[d] = epoch
               PROVE  osig[used'[d]] <= consumed'[oid[used'[d]]]
    BY <1>1
  <2>1. CASE d = c
    <3>1. used'[d] = o /\ consumed'[oid[o]] = osig[o] + ClockSkew
      BY <1>1, <1>3, <1>7, <2>1
    <3>2. ClockSkew \in Nat
      BY HitlAssumptions
    <3> QED
      BY <1>4, <3>1, <3>2
  <2>2. CASE d # c
    <3>1. used'[d] = used[d] /\ usedIn[d] = epoch
      BY <1>1, <1>7, <2>2
    <3>2. oid[used[d]] # oid[o]
      BY <1>6, <3>1
    <3>3. consumed'[oid[used[d]]] = consumed[oid[used[d]]]
      BY <1>1, <3>2, UsersClaimed, <3>1, <1>7
    <3> QED
      BY <3>1, <3>3 DEF MemoryInv
  <2> QED
    BY <2>1, <2>2
<1>11. (\A d, e \in Calls :
            used[d] # None /\ used[d] = used[e] /\ usedIn[d] = usedIn[e] => d = e)'
  BY <1>1, <1>2, <1>5, <1>7 DEF MemoryInv
<1> QED
  BY <1>8, <1>9, <1>10, <1>11 DEF MemoryInv

\* The gate remembers what it redeems, and redeems nothing it remembers.
LEMMA GateRemembers ==
    ASSUME Mode = "enforce", SafeInv, MemoryInv, NEW c \in Calls, GateStep(c)
    PROVE  MemoryInv'
<1>1. CASE RedeemSigned(c)
  BY <1>1, RedeemRemembers
<1>2. ~RedeemUnsigned(c)
  BY DEF RedeemUnsigned, AcceptedUnsigned
<1>3. CASE ~RedeemSigned(c)
  <2>1. UNCHANGED <<used, usedIn, consumed, epoch, route, oid, osig>>
    BY <1>2, <1>3 DEF GateStep, RefuseToken, FindNoToken, Enter, ConsumeSigned,
         ConsumeApproved, ConsumePending, SetPending, SetOtp, RegisterFails, InsertRow,
         Step, opVars, procVars
  <2> QED
    BY <2>1 DEF MemoryInv
<1> QED
  BY <1>1, <1>3

\* A command that has signed and stored never changes its statement.
LEMMA OpRemembers ==
    ASSUME SafeInv, MemoryInv, NEW o \in Ops, OpStep(o)
    PROVE  MemoryInv'
<1>1. UNCHANGED <<used, usedIn, consumed, epoch>>
  BY OpFrame DEF SafeInv, callVars, procVars
<1>2. \A p \in Ops : Wrote(p) => route'[p] = route[p] /\ oid'[p] = oid[p]
  <2>1. WritesOrNot(o)
    BY EndpointWrites, CliWrites, ApproverWrites DEF OpStep, SafeInv, TokenInv
  <2> QED
    BY <2>1 DEF WritesOrNot, Wrote
<1>3. \A p \in Ops : Wrote(p) => osig'[p] = osig[p]
  <2>1. Begins(o) \/ GoesOn(o) \/ Signs(o) \/ Claims(o)
    BY OpFrame DEF SafeInv
  <2>2. CASE Begins(o) \/ GoesOn(o) \/ Claims(o)
    BY <2>2 DEF Begins, GoesOn, Claims, StartOp, GoTo, ClaimPending
  <2>3. CASE Signs(o)
    <3>1. ~Wrote(o)
      BY <2>3 DEF Signs, OpAt, Wrote, Written
    <3> QED
      BY <2>3, <3>1 DEF Signs, SafeInv, TypeInv, TypeOK
  <2> QED
    BY <2>1, <2>2, <2>3
<1>4. \A c \in Calls : used[c] # None =>
          /\ route'[used[c]] = route[used[c]]
          /\ oid'[used[c]] = oid[used[c]]
          /\ osig'[used[c]] = osig[used[c]]
  BY <1>2, <1>3, UsersClaimed
<1> QED
  BY <1>1, <1>4 DEF MemoryInv

\* Statements and memory run down together, and a restart begins a new epoch.
LEMMA OthersRemember ==
    ASSUME SafeInv, MemoryInv, ReconcileStep \/ Environment
    PROVE  MemoryInv'
<1>1. UNCHANGED <<route, oid, used>>
  BY OthersEndOps DEF EndsOrNot, SafeInv
<1>2. CASE Tick
  <2>1. UNCHANGED <<usedIn, epoch>>
    BY <1>2 DEF Tick, procVars
  <2>2. \A x, y \in Nat : x <= y => Down(x) <= Down(y)
    BY DEF Down
  <2>3. \A c \in Calls : used[c] # None =>
            /\ osig'[used[c]] = Down(osig[used[c]])
            /\ consumed'[oid[used[c]]] = Down(consumed[oid[used[c]]])
            /\ osig[used[c]] \in Nat
            /\ consumed[oid[used[c]]] \in Nat
    BY <1>2, UsersClaimed DEF Tick, SafeInv, TypeInv, TypeOK
  <2> QED
    BY <1>1, <2>1, <2>2, <2>3 DEF MemoryInv
<1>3. CASE Restart
  <2>1. /\ epoch' = epoch + 1
        /\ usedIn' = usedIn
        /\ epoch \in Nat
        /\ usedIn \in [Calls -> Nat]
    BY <1>3 DEF Restart, SafeInv, TypeInv, TypeOK
  <2>2. \A c \in Calls : usedIn[c] < epoch'
    BY <2>1 DEF MemoryInv
  <2>3. \A c \in Calls : usedIn'[c] <= epoch' /\ usedIn'[c] # epoch'
    BY <2>1, <2>2
  <2> QED
    BY <1>1, <2>1, <2>3 DEF MemoryInv
<1>4. CASE ~Tick /\ ~Restart
  <2>1. UNCHANGED <<usedIn, consumed, epoch, osig>>
    BY <1>4 DEF ReconcileStep, RecRead, RecResolve, RecEmit, NotReconciled, Environment,
         OpDies, GoTo, StoreReplays, TombstoneExpires, callVars, procVars, opVars
  <2> QED
    BY <1>1, <2>1 DEF MemoryInv
<1> QED
  BY <1>2, <1>3, <1>4

\* Under enforce the memory of the process covers every statement it admitted.
LEMMA MemoryInvariant == Mode = "enforce" => (Spec => [](SafeInv /\ MemoryInv))
<1> SUFFICES ASSUME Mode = "enforce" PROVE Spec => [](SafeInv /\ MemoryInv)
  OBVIOUS
<1>1. Init => MemoryInv
  BY DEF Init, MemoryInv
<1>2. SafeInv /\ MemoryInv /\ [Next]_vars => MemoryInv'
  <2> SUFFICES ASSUME SafeInv, MemoryInv, [Next]_vars PROVE MemoryInv'
    OBVIOUS
  <2>1. CASE Next
    BY <2>1, GateRemembers, OpRemembers, OthersRemember DEF Next
  <2>2. CASE UNCHANGED vars
    BY <2>2 DEF vars, callVars, procVars, opVars, MemoryInv
  <2> QED
    BY <2>1, <2>2
<1> QED
  BY <1>1, <1>2, SafeInvariant, PTL DEF Spec

\* ConsumedSet: under enforce a signed statement admits one call in the lifetime of a
\* process, although its bytes may come back to the store as often as they like.
THEOREM SignedOnce == Mode = "enforce" => (Spec => []SignedOncePerProcess)
<1> SUFFICES ASSUME Mode = "enforce" PROVE Spec => []SignedOncePerProcess
  OBVIOUS
<1>1. SafeInv /\ MemoryInv => SignedOncePerProcess
  <2> SUFFICES ASSUME SafeInv, MemoryInv PROVE SignedOncePerProcess
    OBVIOUS
  <2> QED
    BY UsersClaimed, HitlAssumptions DEF MemoryInv, SignedOncePerProcess, AdmittedBy
<1> QED
  BY <1>1, MemoryInvariant, PTL

----------------------------------------------------------------------------
\* The audit row of a use.  A call admitted by an endpoint approval either has its update
\* still to come, or the row is no longer approved.
ByEndpoint(c) == used[c] # None /\ route[used[c]] \in {"bot", "courier"}

Recorded(c) ==
    /\ usedIn[c] <= epoch
    /\ ByEndpoint(c) /\ usedIn[c] = epoch =>
           /\ cpc[c] \in {"consumeApproved", "consumePending", "done"}
           /\ cpc[c] # "consumeApproved" => row[oid[used[c]]] # "approved"

\* Only the endpoint's approve writes "approved".
LEMMA ApprovesOnlyAtAudit ==
    ASSUME TypeInv, [Next]_vars, NEW id \in Calls,
           row[id] # "approved", row'[id] = "approved"
    PROVE  \E o \in Ops : ByApprove(o, "audit") /\ oid[o] = id
<1> USE DEF TypeInv, TypeOK, ResolveRow, auditVars
<1>1. ASSUME NEW c \in Calls, GateStep(c) PROVE FALSE
  BY <1>1 DEF GateStep, RedeemSigned, RedeemUnsigned, RefuseToken, FindNoToken,
       ConsumeSigned, ConsumeApproved, ConsumePending, SetPending, SetOtp,
       RegisterFails, InsertRow
<1>2. ASSUME NEW o \in Ops, OpStep(o) PROVE ByApprove(o, "audit") /\ oid[o] = id
  <2>1. CASE ApproveAudit(o)
    BY <2>1 DEF ApproveAudit, OpsNameRequests
  <2>2. CASE EndpointStep(o) /\ ~ApproveAudit(o)
    BY <2>2 DEF EndpointStep, ApprovePeek, DenyStart, CheckOtp, DenyBadOtp, ApproveClaim,
         ApproveDropOtp, ApproveToken, ApproveTokenFails, ApproveUndo, DenyClaim,
         DenyDropOtp, DenyAudit, DenyEmit
  <2>3. CASE CliStep(o)
    BY <2>3 DEF CliStep, CliPeek, CliToken, CliTombstone, CliDelete, Elsewhere
  <2>4. CASE ApproverStep(o)
    BY <2>4 DEF ApproverStep, SignPeek, SignConfirm, SignClaim, SignDropOtp, SignToken,
         SignDenyStart, SignDenyClaim, SignDenyDropOtp, SignDenyTombstone, Outside
  <2> QED
    BY <1>2, <2>1, <2>2, <2>3, <2>4 DEF OpStep
<1>3. CASE ReconcileStep \/ Environment
  BY <1>3 DEF ReconcileStep, RecRead, RecResolve, RecEmit, Environment, Tick, Restart,
       OpDies, StoreReplays, TombstoneExpires
<1>4. CASE UNCHANGED vars
  BY <1>4 DEF vars
<1> QED
  BY <1>1, <1>2, <1>3, <1>4 DEF Next

\* The approver of a request whose approval is used is done: its row does not become
\* approved again.
LEMMA UsedStaysUnapproved ==
    ASSUME SafeInv, [Next]_vars, NEW c \in Calls, ByEndpoint(c),
           row[oid[used[c]]] # "approved"
    PROVE  row'[oid[used[c]]] # "approved"
<1>1. /\ used[c] \in Ops /\ claimed[used[c]] /\ opc[used[c]] \in Written
      /\ oid[used[c]] \in Calls
  BY DEF SafeInv, TypeInv, TypeOK, OpsNameRequests, TokenInv, Wrote, Written, ByEndpoint
<1>2. ASSUME NEW o \in Ops, ByApprove(o, "audit"), oid[o] = oid[used[c]] PROVE FALSE
  <2>1. claimed[o] /\ opc[o] = "audit"
    BY <1>2 DEF SafeInv, TokenInv, ClaimsFirst, ByApprove, OpAt
  <2>2. o = used[c]
    BY <1>1, <1>2, <2>1 DEF SafeInv, ClaimInv, DecidedOnce
  <2> QED
    BY <1>1, <2>1, <2>2 DEF Written
<1> QED
  BY <1>1, <1>2, ApprovesOnlyAtAudit DEF SafeInv

\* A used approval keeps its route and its request.
LEMMA UsedStands ==
    ASSUME SafeInv, [Next]_vars, NEW c \in Calls, used[c] # None
    PROVE  route'[used[c]] = route[used[c]] /\ oid'[used[c]] = oid[used[c]]
<1>1. used[c] \in Ops /\ opc[used[c]] \in Written
  BY DEF SafeInv, TypeInv, TypeOK, TokenInv, Wrote
<1>2. ASSUME NEW o \in Ops, OpStep(o)
      PROVE  route'[used[c]] = route[used[c]] /\ oid'[used[c]] = oid[used[c]]
  <2>1. WritesOrNot(o)
    BY <1>2, EndpointWrites, CliWrites, ApproverWrites DEF OpStep, SafeInv, TokenInv
  <2> QED
    BY <1>1, <2>1 DEF WritesOrNot
<1>3. CASE \E d \in Calls : GateStep(d)
  BY <1>3, GateFrame DEF opVars, SafeInv
<1>4. CASE ReconcileStep \/ Environment
  BY <1>4, OthersEndOps DEF EndsOrNot, SafeInv
<1>5. CASE UNCHANGED vars
  BY <1>5 DEF vars, opVars
<1> QED
  BY <1>2, <1>3, <1>4, <1>5 DEF Next

\* A step that leaves a call alone, or ends it for good, leaves its row recorded.
LEMMA StaysRecorded ==
    ASSUME SafeInv, [Next]_vars, NEW c \in Calls, Recorded(c),
           UNCHANGED <<used[c], usedIn[c]>>,
           epoch' >= epoch, epoch' \in Nat,
           epoch' = epoch => cpc'[c] = cpc[c]
    PROVE  Recorded(c)'
<1>1. usedIn[c] \in Nat /\ epoch \in Nat
  BY DEF SafeInv, TypeInv, TypeOK
<1>2. usedIn'[c] <= epoch'
  BY <1>1 DEF Recorded
<1>3. usedIn'[c] = epoch' => usedIn[c] = epoch /\ epoch' = epoch
  BY <1>1 DEF Recorded
<1>4. ByEndpoint(c)' => ByEndpoint(c) /\ oid'[used[c]] = oid[used[c]]
  BY UsedStands DEF ByEndpoint
<1> QED
  BY <1>2, <1>3, <1>4, UsedStaysUnapproved DEF Recorded

\* The gate: with Postgres answering, no call passes its row while it is approved.
LEMMA GateRecords ==
    ASSUME ~DbMayFail, SafeInv, NEW c \in Calls, Recorded(c), GateStep(c)
    PROVE  Recorded(c)'
<1> USE DEF SafeInv, TypeInv, TypeOK
<1>0. [Next]_vars
  BY DEF Next
<1>1. CASE RedeemSigned(c)
  BY <1>1 DEF RedeemSigned, Enter, SignatureOk, Verifies, ByEndpoint, opVars, Recorded
<1>2. CASE RedeemUnsigned(c)
  BY <1>2 DEF RedeemUnsigned, Enter, Recorded
<1>3. CASE FindNoToken(c) \/ RefuseToken(c)
  <2>1. Enter(c, "setPending") /\ UNCHANGED <<used, usedIn, opVars>>
    BY <1>3 DEF FindNoToken, RefuseToken
  <2> QED
    BY <2>1 DEF Enter, ByEndpoint, opVars, Recorded
<1>4. CASE ConsumeApproved(c) \/ ConsumePending(c)
  <2>1. /\ UNCHANGED <<used, usedIn, procVars, opVars>>
        /\ cpc'[c] \in {"consumePending", "done"}
    BY <1>4 DEF ConsumeApproved, ConsumePending, Step
  <2>2. ByEndpoint(c) => used[c] \in Ops /\ oid[used[c]] \in Calls
    BY DEF ByEndpoint, OpsNameRequests, TokenInv, Wrote, Written
  <2>3. ByEndpoint(c) /\ usedIn[c] = epoch => row'[oid[used[c]]] # "approved"
    <3>1. CASE ConsumePending(c)
      <4>1. cpc[c] = "consumePending"
        BY <3>1 DEF ConsumePending, Step
      <4> QED
        BY <1>0, <4>1, UsedStaysUnapproved DEF Recorded
    <3>2. CASE ConsumeApproved(c)
      BY <2>2, <3>2 DEF ConsumeApproved, ApprovalOf, ResolveRow, Matches, DbOutcomes
    <3> QED
      BY <1>4, <3>1, <3>2
  <2> QED
    BY <2>1, <2>3 DEF procVars, opVars, ByEndpoint, Recorded
<1>5. CASE \/ ConsumeSigned(c) \/ SetPending(c) \/ SetOtp(c)
           \/ RegisterFails(c) \/ InsertRow(c)
  <2>1. /\ UNCHANGED <<used, usedIn, procVars, opVars>>
        /\ cpc[c] \in {"consumeSigned", "setPending", "setOtp", "audit"}
        /\ cpc'[c] # "consumePending"
    BY <1>5 DEF ConsumeSigned, SetPending, SetOtp, RegisterFails, InsertRow, Step
  <2> QED
    BY <2>1 DEF procVars, opVars, ByEndpoint, Recorded
<1> QED
  BY <1>1, <1>2, <1>3, <1>4, <1>5 DEF GateStep

\* Postgres answering, the rows follow the uses.
LEMMA RecordedInvariant == ~DbMayFail => (Spec => [](SafeInv /\ \A c \in Calls : Recorded(c)))
<1> SUFFICES ASSUME ~DbMayFail PROVE Spec => [](SafeInv /\ \A c \in Calls : Recorded(c))
  OBVIOUS
<1>1. Init => \A c \in Calls : Recorded(c)
  <2> SUFFICES ASSUME Init, NEW c \in Calls PROVE Recorded(c)
    OBVIOUS
  <2>1. used[c] = None /\ usedIn[c] = 0 /\ epoch = 0
    BY DEF Init
  <2> QED
    BY <2>1 DEF Recorded, ByEndpoint
<1>2. SafeInv /\ (\A c \in Calls : Recorded(c)) /\ [Next]_vars => (\A c \in Calls : Recorded(c))'
  <2> SUFFICES ASSUME SafeInv, [Next]_vars, NEW c \in Calls, Recorded(c) PROVE Recorded(c)'
    OBVIOUS
  <2>0. epoch \in Nat
    BY DEF SafeInv, TypeInv, TypeOK
  <2>1. CASE GateStep(c)
    BY <2>1, GateRecords
  <2>2. ASSUME NEW d \in Calls, d # c, GateStep(d) PROVE Recorded(c)'
    <3>1. UNCHANGED <<used[c], usedIn[c], cpc[c], epoch>>
      BY <2>2 DEF GateStep, RedeemSigned, RedeemUnsigned, RefuseToken, FindNoToken, Enter,
         ConsumeSigned, ConsumeApproved, ConsumePending, SetPending, SetOtp,
         RegisterFails, InsertRow, Step, procVars, SafeInv, TypeInv, TypeOK
    <3> QED
      BY <2>0, <3>1, StaysRecorded
  <2>3. ASSUME NEW o \in Ops, OpStep(o) PROVE Recorded(c)'
    <3>1. UNCHANGED <<used[c], usedIn[c], cpc[c], epoch>>
      BY <2>3, OpFrame DEF callVars, procVars, SafeInv
    <3> QED
      BY <2>0, <3>1, StaysRecorded
  <2>4. CASE ReconcileStep \/ Environment
    <3>1. /\ UNCHANGED <<used[c], usedIn[c]>>
          /\ epoch' \in {epoch, epoch + 1}
          /\ epoch' = epoch => cpc'[c] = cpc[c]
      BY <2>0, <2>4 DEF ReconcileStep, RecRead, RecResolve, RecEmit, NotReconciled, Environment,
         Tick, Restart, OpDies, StoreReplays, TombstoneExpires, callVars, procVars
    <3>2. epoch' \in Nat /\ epoch' >= epoch
      BY <2>0, <3>1
    <3> QED
      BY <3>1, <3>2, StaysRecorded
  <2>5. CASE UNCHANGED vars
    <3>1. UNCHANGED <<used[c], usedIn[c], cpc[c], epoch>>
      BY <2>5 DEF vars, callVars, procVars
    <3> QED
      BY <2>0, <3>1, StaysRecorded
  <2> QED
    BY <2>1, <2>2, <2>3, <2>4, <2>5 DEF Next
<1> QED
  BY <1>1, <1>2, SafeInvariant, PTL DEF Spec

\* SMCP-39, R2-04: as long as Postgres answers, a call that an endpoint approval admitted
\* is not forwarded before the row of that approval has stopped saying "approved", and the
\* row does not say so again, whoever else approves, denies, retries or reconciles.
THEOREM UseRecorded == ~DbMayFail => (Spec => []UseIsRecorded)
<1> SUFFICES ASSUME ~DbMayFail PROVE Spec => []UseIsRecorded
  OBVIOUS
<1>1. SafeInv /\ (\A c \in Calls : Recorded(c)) => UseIsRecorded
  BY DEF UseIsRecorded, AdmittedBy, Recorded, ByEndpoint
<1> QED
  BY <1>1, RecordedInvariant, PTL

----------------------------------------------------------------------------
\* The row and the statement.  A row is inserted once its record has been written, so a
\* record that can still be claimed is as young as its row; a statement that was claimed is
\* younger than the record by at most its own lifetime.
AgeInv ==
    /\ \A o \in Ops : osig[o] > 0 => route[o] = "sign" /\ opc[o] # "start"
    /\ \A c \in Calls : row[c] # "none" => cpc[c] = "done"
    /\ \A c \in Calls : row[c] # "none" /\ pending[c] > 0 =>
           age[c] + pending[c] <= RequestTimeout
    /\ \A o \in Ops : claimed[o] /\ osig[o] > 0 /\ row[oid[o]] # "none" =>
           age[oid[o]] + osig[o] <= RequestTimeout + MaxLifetime

\* What a step other than the clock's does to a row: nothing, insert it, or change its state.
RowMoves(id) ==
    \/ row[id] = "none" /\ row'[id] = "none"
    \/ /\ row[id] = "none" /\ row'[id] = "pending" /\ age'[id] = 0
       /\ cpc[id] = "audit" /\ cpc'[id] = "done"
    \/ row[id] # "none" /\ row'[id] # "none" /\ age'[id] = age[id]

\* A gated call inserts its own row, and changes no row's age but that one's.
LEMMA GateMovesRows ==
    ASSUME SafeInv, AgeInv, NEW c \in Calls, GateStep(c), NEW id \in Calls
    PROVE  /\ RowMoves(id)
           /\ cpc[id] = "done" => cpc'[id] = "done"
<1> USE DEF SafeInv, TypeInv, TypeOK, RowMoves, auditVars
<1>1. CASE RedeemSigned(c) \/ RedeemUnsigned(c) \/ RefuseToken(c) \/ FindNoToken(c)
  BY <1>1 DEF RedeemSigned, RedeemUnsigned, RefuseToken, FindNoToken, Enter
<1>2. CASE ConsumeSigned(c) \/ ConsumePending(c)
  BY <1>2 DEF ConsumeSigned, ConsumePending, Step, ResolveRow, Matches
<1>3. CASE ConsumeApproved(c)
  BY <1>3 DEF ConsumeApproved, Step, ResolveRow, Matches
<1>4. CASE SetPending(c) \/ SetOtp(c) \/ RegisterFails(c)
  BY <1>4 DEF SetPending, SetOtp, RegisterFails, Step
<1>5. CASE InsertRow(c)
  <2>1. row[c] = "none" /\ cpc[c] = "audit" /\ cpc' = [cpc EXCEPT ![c] = "done"]
    BY <1>5 DEF InsertRow, Step, AgeInv
  <2>2. \/ row' = [row EXCEPT ![c] = "pending"] /\ age' = [age EXCEPT ![c] = 0]
        \/ UNCHANGED <<row, age>>
    BY <1>5 DEF InsertRow
  <2> QED
    BY <2>1, <2>2
<1> QED
  BY <1>1, <1>2, <1>3, <1>4, <1>5 DEF GateStep

\* Commands, the reconcile, crashes and replays insert no row and change no row's age.
LEMMA OthersMoveRows ==
    ASSUME SafeInv, NEW id \in Calls,
           \/ \E o \in Ops : OpStep(o)
           \/ ReconcileStep \/ (Environment /\ ~Tick)
    PROVE  /\ RowMoves(id)
           /\ cpc[id] = "done" => cpc'[id] = "done"
<1> USE DEF SafeInv, TypeInv, TypeOK, RowMoves, ResolveRow, Matches, auditVars
<1>1. ASSUME NEW o \in Ops, EndpointStep(o) PROVE RowMoves(id)
  BY <1>1 DEF EndpointStep, ApprovePeek, DenyStart, CheckOtp, DenyBadOtp, ApproveClaim,
     ApproveDropOtp, ApproveAudit, ApproveToken, ApproveTokenFails, ApproveUndo, DenyClaim,
     DenyDropOtp, DenyAudit, DenyEmit
<1>2. ASSUME NEW o \in Ops, CliStep(o) \/ ApproverStep(o) PROVE RowMoves(id)
  BY <1>2 DEF CliStep, CliPeek, CliToken, CliTombstone, CliDelete, Elsewhere,
     ApproverStep, SignPeek, SignConfirm, SignClaim, SignDropOtp, SignToken,
     SignDenyStart, SignDenyClaim, SignDenyDropOtp, SignDenyTombstone, Outside
<1>3. ASSUME NEW o \in Ops, OpStep(o) PROVE cpc' = cpc
  BY <1>3, OpFrame DEF callVars
<1>4. CASE ReconcileStep \/ (Environment /\ ~Tick)
  BY <1>4 DEF ReconcileStep, RecRead, RecResolve, RecEmit, NotReconciled, Environment,
     Restart, OpDies, StoreReplays, TombstoneExpires, callVars
<1> QED
  BY <1>1, <1>2, <1>3, <1>4 DEF OpStep

\* The gate writes a record only for a call that has no row.
LEMMA GateAges ==
    ASSUME SafeInv, AgeInv, NEW c \in Calls, GateStep(c)
    PROVE  AgeInv'
<1> USE DEF SafeInv, TypeInv, TypeOK
<1>1. UNCHANGED <<opc, route, oid, claimed, osig>>
  BY GateFrame DEF opVars
<1>2. \A id \in Calls : RowMoves(id) /\ (cpc[id] = "done" => cpc'[id] = "done")
  BY GateMovesRows
<1>3. \A id \in Calls : row[id] # "none" => pending'[id] = pending[id]
  BY GateFrame DEF AgeInv
<1>4. \A id \in Calls : pending[id] <= RequestTimeout
  OBVIOUS
<1>5. (\A id \in Calls : row[id] # "none" => cpc[id] = "done")'
  BY <1>2 DEF RowMoves, AgeInv
<1>6. \A id \in Calls : row[id] = "none" /\ row'[id] # "none" => pending'[id] <= RequestTimeout
  <2>1. \A id \in Calls : pending'[id] <= RequestTimeout
    BY NextTyped DEF Next
  <2> QED
    BY <2>1
<1>7. (\A id \in Calls : row[id] # "none" /\ pending[id] > 0 =>
           age[id] + pending[id] <= RequestTimeout)'
  <2> SUFFICES ASSUME NEW id \in Calls, row'[id] # "none", pending'[id] > 0
               PROVE  age'[id] + pending'[id] <= RequestTimeout
    OBVIOUS
  <2>0. pending'[id] \in Nat
    BY NextTyped DEF Next
  <2>1. CASE row[id] = "none"
    BY <1>2, <1>6, <2>0, <2>1 DEF RowMoves
  <2>2. CASE row[id] # "none"
    BY <1>2, <1>3, <2>2 DEF RowMoves, AgeInv
  <2> QED
    BY <2>1, <2>2
<1>8. (\A o \in Ops : claimed[o] /\ osig[o] > 0 /\ row[oid[o]] # "none" =>
           age[oid[o]] + osig[o] <= RequestTimeout + MaxLifetime)'
  <2> SUFFICES ASSUME NEW o \in Ops, claimed[o], osig[o] > 0, row'[oid[o]] # "none"
               PROVE  age'[oid[o]] + osig[o] <= RequestTimeout + MaxLifetime
    BY <1>1
  <2>1. oid[o] \in Calls
    BY DEF ClaimInv, OpsNameRequests
  <2>2. osig[o] \in 0..MaxLifetime /\ MaxLifetime \in Nat /\ RequestTimeout \in Nat
    BY HitlAssumptions
  <2>3. CASE row[oid[o]] = "none"
    <3>1. age'[oid[o]] = 0
      BY <1>2, <2>1, <2>3 DEF RowMoves
    <3> QED
      BY <2>2, <3>1
  <2>4. CASE row[oid[o]] # "none"
    BY <1>2, <2>1, <2>4 DEF RowMoves, AgeInv
  <2> QED
    BY <2>3, <2>4
<1> QED
  BY <1>1, <1>5, <1>7, <1>8 DEF AgeInv

\* What the commands, the reconcile and the crashes do to statements and claims.
SignsOrClaims(o) ==
    \/ /\ osig'[o] = osig[o] /\ claimed'[o] = claimed[o]
       /\ opc[o] # "start" => UNCHANGED <<route[o], oid[o]>> /\ opc'[o] # "start"
    \/ /\ osig'[o] = MaxLifetime /\ ~claimed[o] /\ ~claimed'[o]
       /\ route'[o] = "sign" /\ opc'[o] # "start"
    \/ /\ UNCHANGED <<osig[o], route[o], oid[o]>>
       /\ opc[o] # "start" /\ opc'[o] # "start"
       /\ claimed'[o] => pending[oid[o]] > 0

LEMMA OpSignsOrClaims ==
    ASSUME SafeInv, NEW o \in Ops, OpStep(o), NEW p \in Ops
    PROVE  SignsOrClaims(p)
<1> USE DEF SafeInv, TypeInv, TypeOK, SignsOrClaims, RunSteps
<1>1. CASE Begins(o)
  BY <1>1 DEF Begins, StartOp
<1>2. CASE GoesOn(o)
  BY <1>2 DEF GoesOn, GoTo
<1>3. CASE Signs(o)
  BY <1>3 DEF Signs, OpAt, TokenInv, ClaimsFirst, Unclaimed
<1>4. CASE Claims(o)
  <2>1. PICK found \in RunSteps, missing \in RunSteps :
            opc[o] = "claim" /\ ClaimPending(o, found, missing)
    BY <1>4 DEF Claims
  <2>2. UNCHANGED <<osig, route, oid>> /\ opc'[o] # "start"
    BY <2>1 DEF ClaimPending
  <2>3. claimed'[o] = (pending[oid[o]] > 0)
    BY <2>1 DEF ClaimPending, IsPending
  <2>4. p # o => claimed'[p] = claimed[p] /\ opc'[p] = opc[p]
    BY <2>1 DEF ClaimPending
  <2>5. claimed'[o] => pending[oid[o]] > 0
    BY <2>3, Zenon
  <2>6. CASE p = o
    BY <2>1, <2>2, <2>5, <2>6
  <2> QED
    BY <2>2, <2>4, <2>6
<1> QED
  BY <1>1, <1>2, <1>3, <1>4, OpFrame

\* Whoever claims finds a record that is no older than the timeout, and signed before.
LEMMA OthersAge ==
    ASSUME SafeInv, AgeInv,
           \/ \E o \in Ops : OpStep(o)
           \/ ReconcileStep \/ (Environment /\ ~Tick)
    PROVE  AgeInv'
<1> USE DEF SafeInv, TypeInv, TypeOK
<1>1. \A o \in Ops : SignsOrClaims(o)
  <2>1. CASE \E o \in Ops : OpStep(o)
    BY <2>1, OpSignsOrClaims
  <2>2. CASE ReconcileStep \/ (Environment /\ ~Tick)
    BY <2>2 DEF ReconcileStep, RecRead, RecResolve, RecEmit, NotReconciled, Environment,
       Restart, OpDies, GoTo, StoreReplays, TombstoneExpires, opVars, SignsOrClaims
  <2> QED
    BY <2>1, <2>2
<1>2. \A id \in Calls : RowMoves(id) /\ (cpc[id] = "done" => cpc'[id] = "done")
  BY OthersMoveRows
<1>3. \A id \in Calls : pending'[id] \in {0, pending[id]}
  <2>1. CASE \E o \in Ops : OpStep(o)
    BY <2>1, OpFrame DEF Begins, GoesOn, Signs, Claims, ClaimPending
  <2>2. CASE ReconcileStep \/ (Environment /\ ~Tick)
    BY <2>2 DEF ReconcileStep, RecRead, RecResolve, RecEmit, NotReconciled, Environment,
       Restart, OpDies, StoreReplays, TombstoneExpires, storeVars
  <2> QED
    BY <2>1, <2>2
<1>4. \A id \in Calls : row[id] # "none" /\ row'[id] # "none" => age'[id] = age[id]
  BY <1>2 DEF RowMoves
<1>5. \A id \in Calls : row'[id] # "none" /\ row[id] = "none" => age'[id] = 0
  BY <1>2 DEF RowMoves
<1>6. (\A o \in Ops : osig[o] > 0 => route[o] = "sign" /\ opc[o] # "start")'
  BY <1>1 DEF SignsOrClaims, AgeInv
<1>7. (\A id \in Calls : row[id] # "none" => cpc[id] = "done")'
  BY <1>2 DEF RowMoves, AgeInv
<1>8. (\A id \in Calls : row[id] # "none" /\ pending[id] > 0 =>
           age[id] + pending[id] <= RequestTimeout)'
  BY <1>3, <1>4, <1>5 DEF AgeInv
<1>9. (\A o \in Ops : claimed[o] /\ osig[o] > 0 /\ row[oid[o]] # "none" =>
           age[oid[o]] + osig[o] <= RequestTimeout + MaxLifetime)'
  <2> SUFFICES ASSUME NEW o \in Ops, claimed'[o], osig'[o] > 0, row'[oid'[o]] # "none"
               PROVE  age'[oid'[o]] + osig'[o] <= RequestTimeout + MaxLifetime
    OBVIOUS
  <2>0. osig[o] \in 0..MaxLifetime /\ MaxLifetime \in Nat /\ RequestTimeout \in Nat
    BY HitlAssumptions
  <2>1. osig'[o] = osig[o]
    BY <1>1 DEF SignsOrClaims
  <2>2. oid'[o] = oid[o] /\ oid[o] \in Calls
    BY <1>1, <2>1 DEF SignsOrClaims, AgeInv, OpsNameRequests
  <2>3. CASE row[oid[o]] = "none"
    <3>1. age'[oid'[o]] = 0
      BY <1>5, <2>2, <2>3
    <3> QED
      BY <2>0, <2>1, <3>1
  <2>4. CASE row[oid[o]] # "none" /\ claimed[o]
    BY <1>4, <2>1, <2>2, <2>4 DEF AgeInv
  <2>5. CASE row[oid[o]] # "none" /\ ~claimed[o]
    <3>1. pending[oid[o]] > 0
      BY <1>1, <2>5 DEF SignsOrClaims
    <3>2. pending[oid[o]] \in Nat /\ age[oid[o]] \in Nat
      BY <2>2
    <3>3. age[oid[o]] + pending[oid[o]] <= RequestTimeout
      BY <2>2, <2>5, <3>1 DEF AgeInv
    <3>4. age'[oid'[o]] = age[oid[o]]
      BY <1>4, <2>2, <2>5
    <3> QED
      BY <2>0, <2>1, <3>1, <3>2, <3>3, <3>4
  <2> QED
    BY <2>3, <2>4, <2>5
<1> QED
  BY <1>6, <1>7, <1>8, <1>9 DEF AgeInv

\* A tick takes from what is left exactly what it adds to the age.
LEMMA TickAges ==
    ASSUME SafeInv, AgeInv, Tick
    PROVE  AgeInv'
<1> USE DEF SafeInv, TypeInv, TypeOK, Down
<1>1. /\ UNCHANGED <<row, cpc, opc, route, oid, claimed>>
      /\ \A c \in Calls : pending'[c] > 0 => pending'[c] = pending[c] - 1 /\ pending[c] > 0
      /\ \A o \in Ops : osig'[o] > 0 => osig'[o] = osig[o] - 1 /\ osig[o] > 0
      /\ \A c \in Calls : age'[c] \in Nat /\ age'[c] <= age[c] + 1
  BY DEF Tick
<1>2. \A o \in Ops : claimed[o] => oid[o] \in Calls
  BY DEF ClaimInv, OpsNameRequests
<1>3. \A c \in Calls : age[c] \in Nat /\ pending[c] \in Nat
  OBVIOUS
<1>4. \A o \in Ops : osig[o] \in Nat
  OBVIOUS
<1>5. RequestTimeout \in Nat /\ MaxLifetime \in Nat
  BY HitlAssumptions
<1>6. (\A c \in Calls : row[c] # "none" /\ pending[c] > 0 =>
           age[c] + pending[c] <= RequestTimeout)'
  BY <1>1, <1>3, <1>5 DEF AgeInv
<1>7. (\A o \in Ops : claimed[o] /\ osig[o] > 0 /\ row[oid[o]] # "none" =>
           age[oid[o]] + osig[o] <= RequestTimeout + MaxLifetime)'
  BY <1>1, <1>2, <1>3, <1>4, <1>5 DEF AgeInv
<1> QED
  BY <1>1, <1>6, <1>7 DEF AgeInv

\* The ages are an invariant of the protocol.
LEMMA AgeInvariant == Spec => [](SafeInv /\ AgeInv)
<1>1. Init => AgeInv
  <2> SUFFICES ASSUME Init PROVE AgeInv
    OBVIOUS
  <2>1. /\ \A o \in Ops : osig[o] = 0
        /\ \A c \in Calls : row[c] = "none"
    BY DEF Init
  <2>2. \A o \in Ops : claimed[o] = FALSE
    BY DEF Init
  <2> QED
    BY <2>1, <2>2 DEF AgeInv
<1>2. SafeInv /\ AgeInv /\ [Next]_vars => AgeInv'
  <2> SUFFICES ASSUME SafeInv, AgeInv, [Next]_vars PROVE AgeInv'
    OBVIOUS
  <2>1. CASE UNCHANGED vars
    BY <2>1 DEF vars, storeVars, auditVars, callVars, opVars, AgeInv
  <2> QED
    BY <2>1, GateAges, OthersAge, TickAges DEF Next
<1> QED
  BY <1>1, <1>2, SafeInvariant, PTL DEF Spec

\* A row is expired because it was overdue, or by the endpoint command that claimed its
\* request and could not store the token.
ExpiredInv ==
    /\ rec.at = "resolve" => /\ rec.id \in Calls
                             /\ row[rec.id] # "none"
                             /\ rec.outcome = "expired" => Overdue(rec.id)
    /\ \A c \in Calls : row[c] = "expired" =>
           \/ Overdue(c)
           \/ \E p \in Ops : claimed[p] /\ route[p] \in {"bot", "courier"} /\ oid[p] = c

\* Only the reconcile and the endpoint's undo write "expired".
LEMMA ExpiresOnlyBy ==
    ASSUME SafeInv, ExpiredInv, [Next]_vars, NEW id \in Calls,
           row[id] # "expired", row'[id] = "expired"
    PROVE  \/ Overdue(id) /\ age' = age
           \/ \E o \in Ops : ApproveUndo(o) /\ oid[o] = id
<1> USE DEF SafeInv, TypeInv, TypeOK, ResolveRow, auditVars
<1>1. ASSUME NEW c \in Calls, GateStep(c) PROVE FALSE
  BY <1>1 DEF GateStep, RedeemSigned, RedeemUnsigned, RefuseToken, FindNoToken,
       ConsumeSigned, ConsumeApproved, ConsumePending, SetPending, SetOtp,
       RegisterFails, InsertRow
<1>2. ASSUME NEW o \in Ops, OpStep(o) PROVE ApproveUndo(o) /\ oid[o] = id
  <2>1. CASE ApproveUndo(o)
    BY <2>1 DEF ApproveUndo
  <2>2. CASE EndpointStep(o) /\ ~ApproveUndo(o)
    BY <2>2 DEF EndpointStep, ApprovePeek, DenyStart, CheckOtp, DenyBadOtp, ApproveClaim,
         ApproveDropOtp, ApproveToken, ApproveTokenFails, ApproveAudit, DenyClaim,
         DenyDropOtp, DenyAudit, DenyEmit
  <2>3. CASE CliStep(o)
    BY <2>3 DEF CliStep, CliPeek, CliToken, CliTombstone, CliDelete, Elsewhere
  <2>4. CASE ApproverStep(o)
    BY <2>4 DEF ApproverStep, SignPeek, SignConfirm, SignClaim, SignDropOtp, SignToken,
         SignDenyStart, SignDenyClaim, SignDenyDropOtp, SignDenyTombstone, Outside
  <2> QED
    BY <1>2, <2>1, <2>2, <2>3, <2>4 DEF OpStep
<1>3. CASE RecResolve
  BY <1>3 DEF RecResolve, NotReconciled, ExpiredInv
<1>4. CASE (ReconcileStep /\ ~RecResolve) \/ Environment
  BY <1>4 DEF ReconcileStep, RecRead, RecEmit, Environment, Tick, Restart,
       OpDies, StoreReplays, TombstoneExpires
<1>5. CASE UNCHANGED vars
  BY <1>5 DEF vars
<1> QED
  BY <1>1, <1>2, <1>3, <1>4, <1>5 DEF Next

\* An overdue row stays overdue, and a row stays a row.
LEMMA StaysOverdue ==
    ASSUME SafeInv, AgeInv, [Next]_vars, NEW id \in Calls, row[id] # "none"
    PROVE  row'[id] # "none" /\ (Overdue(id) => Overdue(id)')
<1>1. CASE Tick
  <2>1. row' = row /\ age[id] \in Nat /\ age'[id] >= age[id]
    BY <1>1 DEF Tick, SafeInv, TypeInv, TypeOK
  <2>2. RequestTimeout + Grace \in Nat
    BY Times, HitlAssumptions
  <2>3. age'[id] \in Nat
    BY NextTyped DEF SafeInv, TypeInv, TypeOK
  <2> QED
    BY <2>1, <2>2, <2>3 DEF Overdue
<1>2. CASE Next /\ ~Tick
  <2>1. RowMoves(id)
    BY <1>2, GateMovesRows, OthersMoveRows DEF Next
  <2> QED
    BY <2>1 DEF RowMoves, Overdue
<1>3. CASE UNCHANGED vars
  BY <1>3 DEF vars, auditVars, Overdue
<1> QED
  BY <1>1, <1>2, <1>3

\* A claim stands.
LEMMA ClaimsStand ==
    ASSUME SafeInv, AgeInv, [Next]_vars, NEW p \in Ops, claimed[p]
    PROVE  claimed'[p] /\ route'[p] = route[p] /\ oid'[p] = oid[p]
<1>1. opc[p] # "start" /\ pending[oid[p]] = 0
  BY DEF SafeInv, ClaimInv
<1>2. ASSUME NEW o \in Ops, OpStep(o)
      PROVE  claimed'[p] /\ route'[p] = route[p] /\ oid'[p] = oid[p]
  <2>1. CASE Begins(o) \/ GoesOn(o) \/ Signs(o)
    BY <1>1, <2>1 DEF Begins, StartOp, GoesOn, GoTo, Signs, SafeInv, TypeInv, TypeOK
  <2>2. CASE Claims(o)
    <3>1. p # o
      BY <2>2 DEF Claims, SafeInv, TokenInv, ClaimsFirst, Unclaimed
    <3> QED
      BY <2>2, <3>1 DEF Claims, ClaimPending
  <2> QED
    BY <1>2, <2>1, <2>2, OpFrame DEF SafeInv
<1>3. CASE \E d \in Calls : GateStep(d)
  BY <1>3, GateFrame DEF opVars, SafeInv
<1>4. CASE ReconcileStep \/ Environment
  BY <1>4, OthersEndOps DEF EndsOrNot, SafeInv
<1>5. CASE UNCHANGED vars
  BY <1>5 DEF vars, opVars
<1> QED
  BY <1>2, <1>3, <1>4, <1>5 DEF Next

\* How rows expire is an invariant of the protocol.
LEMMA ExpiredKeeps ==
    ASSUME SafeInv, AgeInv, ExpiredInv, [Next]_vars
    PROVE  ExpiredInv'
<1>1. (rec.at = "resolve" => /\ rec.id \in Calls
                             /\ row[rec.id] # "none"
                             /\ rec.outcome = "expired" => Overdue(rec.id))'
  <2>1. CASE rec' = rec
    BY <2>1, StaysOverdue DEF ExpiredInv, Overdue
  <2>2. CASE rec'.at # "resolve"
    BY <2>2
  <2>3. ASSUME NEW c \in Calls, RecRead(c)
        PROVE  /\ rec'.id \in Calls
               /\ row'[rec'.id] # "none"
               /\ rec'.outcome = "expired" => Overdue(rec.id)'
    <3>1. rec'.id = c /\ row[c] = "pending" /\ UNCHANGED <<row, age>>
      BY <2>3 DEF RecRead, NotReconciled
    <3>2. rec'.outcome = "expired" => Overdue(c)
      BY <2>3 DEF RecRead
    <3> QED
      BY <3>1, <3>2 DEF Overdue
  <2>4. CASE RecResolve \/ RecEmit
    <3>1. rec' = [rec EXCEPT !.at = "emit"] \/ rec' = NoRec
      BY <2>4 DEF RecResolve, RecEmit
    <3>2. rec'.at # "resolve"
      BY <3>1 DEF NoRec, SafeInv, TypeInv, TypeOK
    <3> QED
      BY <3>2
  <2>5. ASSUME ~ReconcileStep, rec' # rec PROVE rec'.at # "resolve"
    <3>1. ASSUME NEW c \in Calls, GateStep(c) PROVE rec' = rec
      BY <3>1 DEF GateStep, RedeemSigned, RedeemUnsigned, RefuseToken, FindNoToken, Enter,
         ConsumeSigned, ConsumeApproved, ConsumePending, SetPending, SetOtp,
         RegisterFails, InsertRow, Step, procVars
    <3>2. ASSUME NEW o \in Ops, OpStep(o) PROVE rec' = rec
      BY <3>2, OpFrame DEF procVars, SafeInv
    <3>3. ASSUME Environment PROVE rec' = rec \/ rec' = NoRec
      BY <3>3 DEF Environment, Tick, Restart, OpDies, StoreReplays, TombstoneExpires, procVars
    <3>4. ASSUME UNCHANGED vars PROVE rec' = rec
      BY <3>4 DEF vars, procVars
    <3>5. rec' = NoRec
      BY <2>5, <3>1, <3>2, <3>3, <3>4 DEF Next
    <3> QED
      BY <3>5 DEF NoRec
  <2> QED
    BY <2>1, <2>2, <2>3, <2>4, <2>5 DEF ReconcileStep
<1>2. ASSUME NEW c \in Calls, row'[c] = "expired"
      PROVE  \/ Overdue(c)'
             \/ \E p \in Ops : claimed'[p] /\ route'[p] \in {"bot", "courier"} /\ oid'[p] = c
  <2>1. CASE row[c] = "expired"
    BY <2>1, StaysOverdue, ClaimsStand DEF ExpiredInv
  <2>2. CASE row[c] # "expired"
    <3>1. CASE Overdue(c) /\ age' = age
      BY <3>1 DEF Overdue
    <3>2. ASSUME NEW o \in Ops, ApproveUndo(o), oid[o] = c
          PROVE  claimed'[o] /\ route'[o] \in {"bot", "courier"} /\ oid'[o] = c
      <4>1. route[o] \in {"bot", "courier"} /\ opc[o] = "undo"
        BY <3>2 DEF ApproveUndo, ByApprove, OpAt
      <4>2. claimed[o]
        BY <4>1 DEF SafeInv, TokenInv, ClaimsFirst
      <4> QED
        BY <3>2, <4>1, <4>2, ClaimsStand
    <3> QED
      BY <1>2, <2>2, <3>1, <3>2, ExpiresOnlyBy
  <2> QED
    BY <2>1, <2>2
<1> QED
  BY <1>1, <1>2 DEF ExpiredInv

\* hitl_events.py, on EXPIRY_GRACE_SECONDS: the reconcile "never closes a request whose
\* approval is still redeemable".  Signing may start at the record's last instant and claim
\* it then; for any timeout and any grace that is not below the statement's lifetime, a row
\* that has expired has no claimed statement that would verify.
THEOREM NeverExpired == Spec => []NeverExpiredWhileRedeemable
<1>1. Init => ExpiredInv
  <2> SUFFICES ASSUME Init PROVE ExpiredInv
    OBVIOUS
  <2>1. rec.at = "idle" /\ \A c \in Calls : row[c] = "none"
    BY DEF Init, NoRec
  <2> QED
    BY <2>1 DEF ExpiredInv
<1>2. SafeInv /\ AgeInv /\ ExpiredInv /\ [Next]_vars => ExpiredInv'
  BY ExpiredKeeps
<1>3. SafeInv /\ AgeInv /\ ExpiredInv => NeverExpiredWhileRedeemable
  <2> SUFFICES ASSUME SafeInv, AgeInv, ExpiredInv,
                      NEW o \in Ops, claimed[o], osig[o] > 0, row[oid[o]] = "expired"
               PROVE  FALSE
    BY DEF NeverExpiredWhileRedeemable
  <2>1. oid[o] \in Calls /\ age[oid[o]] \in Nat /\ osig[o] \in Nat
    BY DEF SafeInv, TypeInv, TypeOK, ClaimInv, OpsNameRequests
  <2>2. ~Overdue(oid[o])
    <3>1. age[oid[o]] + osig[o] <= RequestTimeout + MaxLifetime
      BY DEF AgeInv
    <3>2. /\ Grace \in Nat /\ RequestTimeout \in Nat /\ MaxLifetime \in Nat
          /\ ExpiryGrace \in Nat /\ MaxLifetime <= ExpiryGrace /\ ExpiryGrace <= Grace
      BY Times, HitlAssumptions
    <3> QED
      BY <2>1, <3>1, <3>2 DEF Overdue
  <2>3. PICK p \in Ops : claimed[p] /\ route[p] \in {"bot", "courier"} /\ oid[p] = oid[o]
    BY <2>1, <2>2 DEF ExpiredInv
  <2>4. p = o
    BY <2>3 DEF SafeInv, ClaimInv, DecidedOnce
  <2> QED
    BY <2>3, <2>4 DEF AgeInv
<1> QED
  BY <1>1, <1>2, <1>3, AgeInvariant, PTL DEF Spec

----------------------------------------------------------------------------
\* Where no endpoint command runs, every update of a row is guarded.
RoutesInv == \A o \in Ops : route[o] \in Routes \union {"none"}

\* A command goes by a route of the deployment.
LEMMA RoutesInvariant == Spec => [](SafeInv /\ AgeInv /\ RoutesInv)
<1>1. Init => RoutesInv
  BY DEF Init, RoutesInv
<1>2. SafeInv /\ RoutesInv /\ [Next]_vars => RoutesInv'
  <2> SUFFICES ASSUME SafeInv, RoutesInv, [Next]_vars PROVE RoutesInv'
    OBVIOUS
  <2>1. ASSUME NEW o \in Ops, OpStep(o) PROVE RoutesInv'
    BY <2>1, OpFrame DEF Begins, StartOp, GoesOn, GoTo, Signs, Claims, ClaimPending,
       RoutesInv, SafeInv, TypeInv, TypeOK
  <2>2. CASE \E c \in Calls : GateStep(c)
    BY <2>2, GateFrame DEF opVars, SafeInv, RoutesInv
  <2>3. CASE ReconcileStep \/ Environment
    BY <2>3, OthersEndOps DEF EndsOrNot, SafeInv, RoutesInv
  <2>4. CASE UNCHANGED vars
    BY <2>4 DEF vars, opVars, RoutesInv
  <2> QED
    BY <2>1, <2>2, <2>3, <2>4 DEF Next
<1> QED
  BY <1>1, <1>2, AgeInvariant, PTL DEF Spec

\* SMCP-42, the guarded updates: as long as no endpoint command runs, whose updates are not
\* guarded, neither a late call, nor the reconcile, nor a registration changes a row that
\* is consumed, denied or expired.
THEOREM RowsStay == Routes \intersect {"bot", "courier", "deny"} = {} => (Spec => RowsSettle)
<1> SUFFICES ASSUME Routes \intersect {"bot", "courier", "deny"} = {} PROVE Spec => RowsSettle
  OBVIOUS
<1>1. SafeInv /\ AgeInv /\ RoutesInv /\ [Next]_vars =>
          [\A c \in Calls : row[c] \in {"consumed", "denied", "expired"} => row'[c] = row[c]]_vars
  <2> SUFFICES ASSUME SafeInv, AgeInv, RoutesInv, [Next]_vars,
                      NEW c \in Calls, row[c] \in {"consumed", "denied", "expired"}
               PROVE  row'[c] = row[c]
    OBVIOUS
  <2> USE DEF ResolveRow, Matches, auditVars
  <2>1. ASSUME NEW d \in Calls, GateStep(d) PROVE row'[c] = row[c]
    <3>1. CASE InsertRow(d)
      BY <3>1 DEF InsertRow, Step, AgeInv, SafeInv, TypeInv, TypeOK
    <3>2. CASE GateStep(d) /\ ~InsertRow(d)
      BY <3>2 DEF GateStep, RedeemSigned, RedeemUnsigned, RefuseToken, FindNoToken,
         ConsumeSigned, ConsumeApproved, ConsumePending, SetPending, SetOtp, RegisterFails,
         SafeInv, TypeInv, TypeOK
    <3> QED
      BY <2>1, <3>1, <3>2
  <2>2. ASSUME NEW o \in Ops, OpStep(o) PROVE row' = row
    <3>1. route[o] \notin {"bot", "courier", "deny"}
      BY DEF RoutesInv
    <3>2. CASE EndpointStep(o)
      BY <3>1, <3>2 DEF EndpointStep, ApprovePeek, DenyStart, CheckOtp, DenyBadOtp,
         ApproveClaim, ApproveDropOtp, ApproveAudit, ApproveToken, ApproveTokenFails,
         ApproveUndo, DenyClaim, DenyDropOtp, DenyAudit, DenyEmit, ByApprove, OpAt
    <3>3. CASE CliStep(o) \/ ApproverStep(o)
      BY <3>3 DEF CliStep, CliPeek, CliToken, CliTombstone, CliDelete, Elsewhere,
         ApproverStep, SignPeek, SignConfirm, SignClaim, SignDropOtp, SignToken,
         SignDenyStart, SignDenyClaim, SignDenyDropOtp, SignDenyTombstone, Outside
    <3> QED
      BY <2>2, <3>2, <3>3 DEF OpStep
  <2>3. CASE ReconcileStep \/ Environment
    BY <2>3 DEF ReconcileStep, RecRead, RecResolve, RecEmit, NotReconciled, Environment, Tick,
       Restart, OpDies, StoreReplays, TombstoneExpires, SafeInv, TypeInv, TypeOK
  <2>4. CASE UNCHANGED vars
    BY <2>4 DEF vars
  <2> QED
    BY <2>1, <2>2, <2>3, <2>4 DEF Next
<1> QED
  BY <1>1, RoutesInvariant, PTL DEF Spec, RowsSettle

----------------------------------------------------------------------------
\* The refinement.  A call that has not asked yet has no record and no approval; one that
\* was admitted by this process is not one of those that have yet to ask.
BeginInv ==
    \A c \in Calls :
        /\ cpc[c] \in {"start", "setPending"} => pending[c] = 0 /\ used[c] = None
        /\ used[c] # None => used[c] \in Ops

PromiseInv == SafeInv /\ MemoryInv /\ BeginInv

\* Nothing but a call's own step changes where it is, or gives it a record or an approval.
LEMMA BeginKeeps ==
    ASSUME SafeInv, BeginInv, [Next]_vars
    PROVE  BeginInv'
<1> USE DEF SafeInv, TypeInv
<1>1. ASSUME NEW c \in Calls, GateStep(c) PROVE BeginInv'
  <2>1. \A d \in Calls : d # c => used'[d] = used[d]
    BY <1>1, GateTakes DEF TakesOrNot, TypeOK
  <2>2. cpc'[c] = "setPending" => used'[c] = used[c] /\ cpc[c] = "start"
    BY <1>1 DEF GateStep, RedeemSigned, RedeemUnsigned, RefuseToken, FindNoToken, Enter,
         ConsumeSigned, ConsumeApproved, ConsumePending, SetPending, SetOtp, RegisterFails,
         InsertRow, Step, TypeOK, CallSteps
  <2>3. cpc'[c] # "start"
    BY <1>1, GateFrame
  <2>4. \A d \in Calls : used'[d] # None => used'[d] \in Ops
    BY <1>1, NextTyped DEF Next, TypeOK
  <2>5. cpc'[c] = "setPending" => pending'[c] = 0 /\ used'[c] = None
    BY <1>1, <2>2, GateFrame DEF BeginInv
  <2>6. \A d \in Calls : d # c => cpc'[d] = cpc[d] /\ pending'[d] = pending[d]
    BY <1>1, GateFrame
  <2> QED
    BY <2>1, <2>3, <2>4, <2>5, <2>6 DEF BeginInv
<1>2. ASSUME NEW o \in Ops, OpStep(o) PROVE BeginInv'
  <2>1. UNCHANGED <<cpc, used>>
    BY <1>2, OpFrame DEF callVars
  <2>2. \A c \in Calls : pending[c] = 0 => pending'[c] = 0
    BY <1>2, OpFrame DEF Begins, GoesOn, Signs, Claims, ClaimPending, TypeOK
  <2> QED
    BY <2>1, <2>2 DEF BeginInv
<1>3. CASE ReconcileStep \/ Environment
  <2>1. used' = used
    BY <1>3, OthersEndOps DEF EndsOrNot
  <2>2. \A c \in Calls : pending[c] = 0 => pending'[c] = 0
    BY <1>3 DEF ReconcileStep, RecRead, RecResolve, RecEmit, NotReconciled, Environment, Tick,
         Down, Restart, OpDies, StoreReplays, TombstoneExpires, storeVars, TypeOK
  <2>3. \A c \in Calls : cpc'[c] \in {"start", "setPending"} => cpc'[c] = cpc[c]
    BY <1>3 DEF ReconcileStep, RecRead, RecResolve, RecEmit, NotReconciled, Environment, Tick,
         Restart, OpDies, StoreReplays, TombstoneExpires, callVars, TypeOK
  <2> QED
    BY <2>1, <2>2, <2>3 DEF BeginInv
<1>4. CASE UNCHANGED vars
  BY <1>4 DEF BeginInv, vars, storeVars, callVars
<1> QED
  BY <1>1, <1>2, <1>3, <1>4 DEF Next

\* Under enforce.
LEMMA PromiseInvariant == Mode = "enforce" => (Spec => []PromiseInv)
<1> SUFFICES ASSUME Mode = "enforce" PROVE Spec => []PromiseInv
  OBVIOUS
<1>1. Init => BeginInv
  <2> SUFFICES ASSUME Init, NEW c \in Calls PROVE pending[c] = 0 /\ used[c] = None
    BY DEF BeginInv
  <2> QED
    BY DEF Init
<1>2. SafeInv /\ BeginInv /\ [Next]_vars => BeginInv'
  BY BeginKeeps
<1> QED
  BY <1>1, <1>2, MemoryInvariant, PTL DEF Spec, PromiseInv

\* Where a request stands, without the mapping's case distinction.
StandingOK ==
    \A id \in Calls :
        /\ Standing(id) \in {"idle", "open", "granted", "ended"}
        /\ Standing(id) = "granted" <=> Granted(id)
        /\ Standing(id) = "open" <=> pending[id] > 0
        /\ Standing(id) = "idle" <=> cpc[id] \in {"start", "setPending"}

\* A granted request has been claimed: its record is gone, and its call has long asked.
LEMMA GrantedClaimed ==
    ASSUME SafeInv, NEW id \in Calls, Granted(id)
    PROVE  pending[id] = 0 /\ cpc[id] \notin {"start", "setPending"}
BY DEF SafeInv, ClaimInv, Granted

LEMMA StandingIs == PromiseInv => StandingOK
<1> SUFFICES ASSUME PromiseInv, NEW id \in Calls
             PROVE  /\ Standing(id) \in {"idle", "open", "granted", "ended"}
                    /\ Standing(id) = "granted" <=> Granted(id)
                    /\ Standing(id) = "open" <=> pending[id] > 0
                    /\ Standing(id) = "idle" <=> cpc[id] \in {"start", "setPending"}
  BY DEF StandingOK
<1>1. Granted(id) => pending[id] = 0 /\ cpc[id] \notin {"start", "setPending"}
  BY GrantedClaimed DEF PromiseInv
<1>2. pending[id] \in Nat
  BY DEF PromiseInv, SafeInv, TypeInv, TypeOK
<1>3. cpc[id] \in {"start", "setPending"} => pending[id] = 0
  BY DEF PromiseInv, BeginInv
<1> QED
  BY <1>1, <1>2, <1>3 DEF Standing, IsPending

\* Nobody is admitted, nothing is forgotten, and whom the admitted calls were admitted by
\* does not change.
Quiet ==
    /\ UNCHANGED <<used, usedIn, epoch>>
    /\ \A c \in Calls : used[c] # None => oid'[used[c]] = oid[used[c]]

\* Who uses a request's approval, by the approval the call has used.
LEMMA UsersAre ==
    ASSUME BeginInv, NEW id
    PROVE  UsersOf(id) = {c \in Calls : used[c] # None /\ oid[used[c]] = id}
BY DEF UsersOf, AdmittedBy, BeginInv

LEMMA QuietKeepsUsers ==
    ASSUME BeginInv, BeginInv', Quiet
    PROVE  /\ \A id \in Calls : UsersOf(id)' = UsersOf(id)
           /\ usedIn' = usedIn /\ epoch' = epoch
<1>1. ASSUME NEW id \in Calls PROVE UsersOf(id)' = UsersOf(id)
  BY HitlAssumptions DEF UsersOf, AdmittedBy, BeginInv, Quiet
<1> QED
  BY <1>1 DEF Quiet

\* Steps that end requests, or show nothing.
LEMMA EndsAbstractly ==
    ASSUME BeginInv, BeginInv', Quiet,
           \A id \in Calls : Standing(id)' \in {Standing(id), "ended"}
    PROVE  [OTA!Next]_(OTA!vars)
<1> DEFINE R == {id \in Calls : Standing(id)' = "ended"}
<1>1. OTA!End(R)
  BY QuietKeepsUsers DEF OTA!End
<1> QED
  BY <1>1 DEF OTA!Next

\* Steps that take one request on.
LEMMA MovesAbstractly ==
    ASSUME BeginInv, BeginInv', Quiet, NEW r \in Calls,
           \/ Standing(r) = "idle" /\ Standing(r)' = "open"
           \/ Standing(r) = "open" /\ Standing(r)' = "granted",
           \A id \in Calls \ {r} : Standing(id)' = Standing(id)
    PROVE  [OTA!Next]_(OTA!vars)
<1>1. OTA!Open(r) \/ OTA!Grant(r)
  BY QuietKeepsUsers DEF OTA!Open, OTA!Grant
<1> QED
  BY <1>1 DEF OTA!Next

\* A restart loses the requests that have not been recorded yet.
LEMMA RestartsAbstractly ==
    ASSUME epoch < MaxRestarts, epoch' = epoch + 1,
           \A c \in Calls : cpc[c] = "setPending" => Standing(c) = "idle",
           \A c \in Calls :
               Standing(c)' = IF cpc[c] = "setPending" THEN "ended" ELSE Standing(c),
           \A id \in Calls : UsersOf(id)' = UsersOf(id),
           \A id \in Calls : (\A c \in UsersOf(id) : usedIn[c] # epoch)'
    PROVE  [OTA!Next]_(OTA!vars)
<1>1. PICK R \in SUBSET Calls : R = {c \in Calls : cpc[c] = "setPending"}
  OBVIOUS
<1>2. OTA!Restart(R)
  BY <1>1 DEF OTA!Restart
<1>3. OTA!Next
  BY <1>2 DEF OTA!Next
<1> QED
  BY <1>3

\* Before and after a step.
Around == PromiseInv /\ PromiseInv' /\ StandingOK /\ StandingOK'

\* The gate opens a request, lets it end, or admits its call by another's grant.
LEMMA GateRefines ==
    ASSUME Mode = "enforce", Around, NEW c \in Calls, GateStep(c)
    PROVE  [OTA!Next]_(OTA!vars)
<1> USE DEF Around, PromiseInv
<1>1. /\ \A d \in Calls : Granted(d)' <=> Granted(d)
      /\ UNCHANGED <<oid, osig, route, claimed>>
  BY GateFrame DEF SafeInv, opVars, Granted
<1>2. /\ \A d \in Calls : d # c => cpc'[d] = cpc[d] /\ pending'[d] = pending[d]
      /\ cpc'[c] # "start"
      /\ cpc[c] # "start" => cpc'[c] # "setPending"
      /\ cpc[c] # "setPending" => pending'[c] = pending[c]
  BY GateFrame DEF SafeInv
<1>3. \A d \in Calls \ {c} : Standing(d)' = Standing(d)
  BY <1>1, <1>2 DEF StandingOK
<1>4. CASE RedeemSigned(c)
  <2> DEFINE o == token[KeyOf[c]]
  <2>1. /\ o # None /\ SignatureOk(o) /\ cpc[c] = "start" /\ cpc'[c] = "consumeSigned"
        /\ used' = [used EXCEPT ![c] = o]
        /\ usedIn' = [usedIn EXCEPT ![c] = epoch]
        /\ epoch' = epoch
    BY <1>4 DEF RedeemSigned, Enter, TokenAt, SafeInv, TypeInv, TypeOK
  <2>2. o \in Ops /\ Wrote(o)
    BY <2>1, KeysOfCalls DEF SafeInv, TokenInv, TypeInv, TypeOK
  <2>3. route[o] = "sign" /\ claimed[o] /\ osig[o] > 0 /\ oid[o] \in Calls
    BY <2>1, <2>2 DEF SignatureOk, Verifies, Wrote, Written, SafeInv, TypeInv, OpsNameRequests
  <2>4. Granted(oid[o])
    BY <2>2, <2>3 DEF Granted
  <2>5. \A d \in Calls : used[d] # None /\ usedIn[d] = epoch => oid[used[d]] # oid[o]
    <3> SUFFICES ASSUME NEW d \in Calls, used[d] # None, usedIn[d] = epoch,
                        oid[used[d]] = oid[o]
                 PROVE  FALSE
      OBVIOUS
    <3>1. used[d] = o
      BY <2>2, <2>3, UsersClaimed
    <3>2. osig[o] <= consumed[oid[o]] /\ ~(consumed[oid[o]] > 0)
      BY <2>1, <3>1 DEF MemoryInv, SignatureOk, Replayed
    <3>3. osig[o] \in Nat /\ consumed[oid[o]] \in Nat
      BY <2>2, <2>3 DEF SafeInv, TypeInv, TypeOK
    <3> QED
      BY <2>3, <3>2, <3>3
  <2>6. used[c] = None
    BY <2>1 DEF BeginInv
  <2>0. PICK r \in Calls : r = oid[o]
    BY <2>3
  <2> HIDE DEF o
  <2>7. \A d \in Calls \ {c} : used'[d] = used[d] /\ usedIn'[d] = usedIn[d]
    BY <2>1 DEF SafeInv, TypeInv, TypeOK
  <2>8. used'[c] = o /\ usedIn'[c] = epoch
    BY <2>1 DEF SafeInv, TypeInv, TypeOK
  <2>9. /\ \A id \in Calls : UsersOf(id) = {d \in Calls : used[d] # None /\ oid[used[d]] = id}
        /\ \A id \in Calls : UsersOf(id)' = {d \in Calls : used'[d] # None /\ oid'[used'[d]] = id}
    BY DEF UsersOf, AdmittedBy, BeginInv
  <2>10. \A id \in Calls : UsersOf(id)' = IF id = r THEN UsersOf(id) \union {c} ELSE UsersOf(id)
    <3>0. \A id \in Calls : UsersOf(id) \subseteq Calls /\ UsersOf(id)' \subseteq Calls
      BY <2>9
    <3> SUFFICES ASSUME NEW id \in Calls, NEW d \in Calls
                 PROVE  /\ id = r => (d \in UsersOf(id)' <=> d \in UsersOf(id) \/ d = c)
                        /\ id # r => (d \in UsersOf(id)' <=> d \in UsersOf(id))
      BY <3>0
    <3>1. oid' = oid /\ o # None
      BY <1>1, <2>1
    <3>2. CASE d = c
      BY <2>0, <2>6, <2>8, <2>9, <3>1, <3>2
    <3>3. CASE d # c
      BY <2>7, <2>9, <3>1, <3>3
    <3> QED
      BY <3>2, <3>3
  <2>11. \A id \in Calls : c \notin UsersOf(id)
    BY <2>6, <2>9
  <2>12. \A id \in Calls \ {r} :
             (\A d \in UsersOf(id) : usedIn[d] # epoch)' <=> (\A d \in UsersOf(id) : usedIn[d] # epoch)
    BY <2>1, <2>7, <2>9, <2>10, <2>11
  <2>13. \A d \in UsersOf(r) : usedIn[d] # epoch
    BY <2>0, <2>5, <2>9
  <2>14. ~(\A d \in UsersOf(r) : usedIn[d] # epoch)'
    <3>1. c \in UsersOf(r)' /\ usedIn'[c] = epoch'
      BY <2>1, <2>8, <2>10
    <3> QED
      BY <3>1
  <2>15. Standing(c) = "idle" /\ Standing(c)' = "ended" /\ Standing(r) = "granted"
    <3>1. Standing(c) = "idle" /\ Standing(r) = "granted"
      BY <2>0, <2>1, <2>4 DEF StandingOK
    <3>2. pending[c] = 0 /\ pending'[c] = 0 /\ ~Granted(c)'
      BY <1>1, <1>2, <2>1, <3>1 DEF StandingOK, BeginInv
    <3> QED
      BY <2>1, <3>1, <3>2 DEF StandingOK
  <2>16. OTA!Admit(c, r)
    BY <1>3, <2>1, <2>10, <2>11, <2>12, <2>13, <2>14, <2>15 DEF OTA!Admit
  <2> QED
    BY <2>16 DEF OTA!Next
<1>5. CASE SetPending(c)
  <2>1. /\ cpc[c] = "setPending" /\ cpc'[c] = "setOtp" /\ pending'[c] > 0
        /\ UNCHANGED <<used, usedIn, epoch>>
    <3>1. pending' = [pending EXCEPT ![c] = RequestTimeout] /\ RequestTimeout > 0
      BY <1>5, HitlAssumptions DEF SetPending
    <3>2. pending'[c] = RequestTimeout
      BY <3>1 DEF SafeInv, TypeInv, TypeOK
    <3>3. Step(c, "setPending", "setOtp")
      BY <1>5 DEF SetPending
    <3>4. cpc'[c] = "setOtp"
      BY <3>3 DEF Step, SafeInv, TypeInv, TypeOK
    <3> QED
      BY <3>1, <3>2, <3>3, <3>4 DEF Step, procVars
  <2>2. Standing(c) = "idle" /\ Standing(c)' = "open"
    BY <2>1 DEF StandingOK
  <2> QED
    BY <1>1, <1>3, <2>1, <2>2, MovesAbstractly DEF Quiet
<1>6. CASE ~RedeemSigned(c) /\ ~SetPending(c)
  <2>1. UNCHANGED <<used, usedIn, epoch>> /\ pending'[c] = pending[c]
    BY <1>6 DEF GateStep, RedeemUnsigned, AcceptedUnsigned, RefuseToken, FindNoToken, Enter,
         ConsumeSigned, ConsumeApproved, ConsumePending, SetOtp, RegisterFails, InsertRow, Step,
         procVars, storeVars
  <2>2. Standing(c)' \in {Standing(c), "ended"}
    BY <1>1, <1>2, <2>1 DEF StandingOK
  <2> QED
    BY <1>1, <1>3, <2>1, <2>2, EndsAbstractly DEF Quiet
<1> QED
  BY <1>4, <1>5, <1>6

\* A command grants a request that it claims with a statement that is valid, or ends it, or
\* neither.
LEMMA OpRefines ==
    ASSUME Around, NEW o \in Ops, OpStep(o)
    PROVE  [OTA!Next]_(OTA!vars)
<1> USE DEF Around, PromiseInv
<1>1. cpc' = cpc /\ Quiet
  <2>1. UNCHANGED <<cpc, used, usedIn, epoch>>
    BY OpFrame DEF SafeInv, callVars, procVars
  <2>2. WritesOrNot(o)
    BY EndpointWrites, CliWrites, ApproverWrites DEF OpStep, SafeInv, TokenInv
  <2>3. \A c \in Calls : used[c] # None => used[c] \in Ops /\ opc[used[c]] \in Written
    BY DEF SafeInv, TokenInv, BeginInv, Wrote
  <2> QED
    BY <2>1, <2>2, <2>3 DEF WritesOrNot, Quiet
<1>2. opc[o] \in Unclaimed => ~claimed[o]
  BY DEF SafeInv, TokenInv, ClaimsFirst
<1>3. CASE /\ \A c \in Calls : pending'[c] \in {0, pending[c]}
           /\ \A c \in Calls : Granted(c)' <=> Granted(c)
  <2>1. \A c \in Calls : Standing(c)' \in {Standing(c), "ended"}
    BY <1>1, <1>3 DEF StandingOK
  <2> QED
    BY <1>1, <2>1, EndsAbstractly
<1>4. CASE Begins(o)
  <2>1. ~claimed[o] /\ claimed' = claimed /\ osig' = osig /\ pending' = pending
    BY <1>2, <1>4 DEF Begins, StartOp, Unclaimed
  <2>2. \A p \in Ops \ {o} : route'[p] = route[p] /\ oid'[p] = oid[p]
    BY <1>4 DEF Begins, StartOp, SafeInv, TypeInv, TypeOK
  <2>3. \A c \in Calls : Granted(c)' <=> Granted(c)
    BY <2>1, <2>2 DEF Granted
  <2> QED
    BY <1>3, <2>1, <2>3
<1>5. CASE GoesOn(o)
  <2>1. UNCHANGED <<route, oid, claimed, osig>> /\ \A c \in Calls : pending'[c] \in {0, pending[c]}
    BY <1>5 DEF GoesOn, GoTo
  <2>2. \A c \in Calls : Granted(c)' <=> Granted(c)
    BY <2>1 DEF Granted
  <2> QED
    BY <1>3, <2>1, <2>2
<1>6. CASE Signs(o)
  <2>1. ~claimed[o] /\ UNCHANGED <<route, oid, claimed, pending>>
    BY <1>2, <1>6 DEF Signs, OpAt, Unclaimed
  <2>2. \A p \in Ops \ {o} : osig'[p] = osig[p]
    BY <1>6 DEF Signs, SafeInv, TypeInv, TypeOK
  <2>3. \A c \in Calls : Granted(c)' <=> Granted(c)
    BY <2>1, <2>2 DEF Granted
  <2> QED
    BY <1>3, <2>1, <2>3
<1>7. CASE Claims(o)
  <2>0. PICK r \in Calls : r = oid[o]
    BY <1>7 DEF Claims, SafeInv, TypeInv, OpsNameRequests
  <2>1. /\ opc[o] = "claim" /\ UNCHANGED <<route, oid, osig>>
        /\ claimed' = [claimed EXCEPT ![o] = pending[r] > 0]
        /\ pending' = [pending EXCEPT ![r] = 0]
    BY <1>7, <2>0 DEF Claims, ClaimPending, IsPending
  <2>2. ~claimed[o]
    BY <1>2, <2>1 DEF Unclaimed
  <2>3. /\ \A p \in Ops \ {o} : claimed'[p] = claimed[p]
        /\ \A c \in Calls \ {r} : pending'[c] = pending[c]
        /\ pending'[r] = 0
        /\ claimed'[o] <=> pending[r] > 0
    BY <2>1, <2>2 DEF SafeInv, TypeInv, TypeOK
  <2>4. \A c \in Calls \ {r} : Granted(c)' <=> Granted(c)
    BY <2>0, <2>1, <2>3 DEF Granted
  <2>5. CASE route[o] = "sign" /\ osig[o] > 0 /\ pending[r] > 0
    <3>1. Granted(r)'
      BY <2>0, <2>1, <2>3, <2>5 DEF Granted
    <3>2. Standing(r) = "open" /\ Standing(r)' = "granted"
      BY <2>2, <2>5, <3>1 DEF StandingOK
    <3>3. \A c \in Calls \ {r} : Standing(c)' = Standing(c)
      BY <1>1, <2>3, <2>4 DEF StandingOK
    <3> QED
      BY <1>1, <2>2, <3>2, <3>3, MovesAbstractly
  <2>6. CASE ~(route[o] = "sign" /\ osig[o] > 0 /\ pending[r] > 0)
    <3>1. Granted(r)' <=> Granted(r)
      BY <2>0, <2>1, <2>2, <2>3, <2>6 DEF Granted
    <3>2. \A c \in Calls : pending'[c] \in {0, pending[c]}
      BY <2>3
    <3>3. \A c \in Calls : Granted(c)' <=> Granted(c)
      BY <2>4, <3>1
    <3> QED
      BY <1>3, <3>2, <3>3
  <2> QED
    BY <2>5, <2>6
<1> QED
  BY <1>4, <1>5, <1>6, <1>7, OpFrame DEF SafeInv

\* Time ends requests and grants, and a restart is a restart.
LEMMA OthersRefine ==
    ASSUME Around, ReconcileStep \/ Environment
    PROVE  [OTA!Next]_(OTA!vars)
<1> USE DEF Around, PromiseInv
<1>1. UNCHANGED <<route, oid, claimed, used>>
  BY OthersEndOps DEF EndsOrNot, SafeInv
<1>2. CASE Tick
  <2>1. UNCHANGED <<cpc, usedIn, epoch>>
    BY <1>2 DEF Tick, procVars
  <2>2. \A c \in Calls : pending[c] \in Nat /\ (pending'[c] = 0 \/ pending[c] > 0)
    BY <1>2 DEF Tick, Down, SafeInv, TypeInv, TypeOK
  <2>3. \A o \in Ops : osig'[o] > 0 => osig[o] > 0
    BY <1>2 DEF Tick, Down, SafeInv, TypeInv, TypeOK
  <2>4. \A c \in Calls : Granted(c)' => Granted(c)
    BY <1>1, <2>3 DEF Granted
  <2>5. \A c \in Calls : Standing(c)' \in {Standing(c), "ended"}
    BY <2>1, <2>2, <2>4 DEF StandingOK
  <2> QED
    BY <1>1, <2>1, <2>5, EndsAbstractly DEF Quiet
<1>3. CASE Restart
  <2>1. /\ epoch < MaxRestarts /\ epoch' = epoch + 1 /\ usedIn' = usedIn
        /\ \A c \in Calls : cpc'[c] = IF cpc[c] = "start" THEN "start" ELSE "done"
        /\ UNCHANGED <<pending, osig>>
    BY <1>3 DEF Restart, storeVars
  <2>2. \A c \in Calls : Granted(c)' <=> Granted(c)
    BY <1>1, <2>1 DEF Granted
  <2>3. \A c \in Calls : Standing(c)' = IF cpc[c] = "setPending" THEN "ended" ELSE Standing(c)
    BY <2>1, <2>2 DEF StandingOK
  <2>4. \A c \in Calls : cpc[c] = "setPending" => Standing(c) = "idle"
    BY DEF StandingOK
  <2>5. \A id \in Calls : UsersOf(id)' = UsersOf(id)
    BY <1>1, <2>1 DEF UsersOf, AdmittedBy
  <2>6. \A id \in Calls : (\A c \in UsersOf(id) : usedIn[c] # epoch)'
    <3>1. \A c \in Calls : usedIn[c] \in Nat /\ usedIn[c] <= epoch /\ epoch \in Nat
      BY DEF MemoryInv, SafeInv, TypeInv, TypeOK
    <3>2. \A c \in Calls : usedIn'[c] # epoch'
      BY <2>1, <3>1
    <3> QED
      BY <3>2 DEF UsersOf
  <2> QED
    BY <2>1, <2>3, <2>4, <2>5, <2>6, RestartsAbstractly
<1>4. CASE ~Tick /\ ~Restart
  <2>1. UNCHANGED <<usedIn, epoch, cpc, pending, osig>>
    BY <1>4 DEF ReconcileStep, RecRead, RecResolve, RecEmit, NotReconciled, Environment,
         OpDies, GoTo, StoreReplays, TombstoneExpires, callVars, procVars, opVars, storeVars
  <2>2. \A c \in Calls : Granted(c)' <=> Granted(c)
    BY <1>1, <2>1 DEF Granted
  <2>3. \A c \in Calls : Standing(c)' = Standing(c)
    BY <2>1, <2>2 DEF StandingOK
  <2> QED
    BY <1>1, <2>1, <2>3, EndsAbstractly DEF Quiet
<1> QED
  BY <1>2, <1>3, <1>4

\* Under enforce, whatever races, dies, expires or comes back, the protocol is one of approvals
\* that are granted once and admit one call for every life of the process.
THEOREM OneTimeApprovals == Mode = "enforce" => (Spec => ImplementsOneTimeApproval)
<1> SUFFICES ASSUME Mode = "enforce" PROVE Spec => OTA!Spec
  BY DEF ImplementsOneTimeApproval
<1>1. Init => OTA!Init
  <2> SUFFICES ASSUME Init PROVE OTA!Init
    OBVIOUS
  <2>1. \A id \in Calls : Standing(id) = "idle" /\ UsersOf(id) = {}
    BY DEF Init, Standing, Granted, IsPending, UsersOf, AdmittedBy
  <2> QED
    BY <2>1 DEF Init, OTA!Init
<1>2. Around /\ [Next]_vars => [OTA!Next]_(OTA!vars)
  <2> SUFFICES ASSUME Around, [Next]_vars PROVE [OTA!Next]_(OTA!vars)
    OBVIOUS
  <2>1. CASE Next
    BY <2>1, GateRefines, OpRefines, OthersRefine DEF Next
  <2>2. CASE UNCHANGED vars
    <3>1. Quiet
      BY <2>2 DEF vars, callVars, procVars, opVars, Quiet
    <3>2. \A id \in Calls : Standing(id)' = Standing(id)
      BY <2>2 DEF vars, storeVars, callVars, opVars, Standing, Granted, IsPending
    <3> QED
      BY <3>1, <3>2, EndsAbstractly DEF Around, PromiseInv
  <2> QED
    BY <2>1, <2>2
<1> QED
  BY <1>1, <1>2, StandingIs, PromiseInvariant, PTL DEF Spec, OTA!Spec, Around
=============================================================================
