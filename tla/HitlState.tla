----------------------------- MODULE HitlState -----------------------------
(***************************************************************************)
(* The state that the parties of scoped-mcp's human-in-the-loop approval   *)
(* protocol share, and the operations on it that they are all built from:  *)
(*                                                                         *)
(*   - the state backend (Dragonfly), keys with a time to live             *)
(*       hitl:<id>                    pending[id]   the request record     *)
(*       hitl:otp:<id>                otp[id]       its one-time token     *)
(*       hitl:denied:<id>             tomb[id]      the deny tombstone     *)
(*       hitl:preapproved:<tool>:<h>  token[k]      the pre-approval token *)
(*   - the audit row of a request in Postgres (row, age), and the          *)
(*     hitl.closed events emitted for it (closed)                          *)
(*   - the proxy process: its gated tool calls (cpc, used, usedIn), its    *)
(*     ConsumedSet (consumed) and its reconcile loop (loop, rec)           *)
(*   - the operators' commands (opc, route, oid, claimed, osig)            *)
(*                                                                         *)
(* A call that finds no approval mints one request, so a request id is     *)
(* identified with the call that minted it.  Every key holds the time it   *)
(* has left, in ticks; 0 is "no such key".                                 *)
(***************************************************************************)
EXTENDS Naturals

CONSTANTS
    Calls,           \* gated tool calls, each made once; a retry is another call
    Ops,             \* operator commands, each run once
    None,            \* no call, no command
    KeyOf,           \* KeyOf[c]: the (tool, args_hash) that names c's token key
    Mode,            \* hitl.signing.mode
    Routes,          \* the operator routes of this deployment
    RequestTimeout,  \* hitl.timeout_seconds
    PreapprovalTTL,  \* PREAPPROVAL_TTL_SECONDS, the life of an unsigned token
    MaxLifetime,     \* MAX_LIFETIME_SECONDS, the life of a signed statement
    ClockSkew,       \* CLOCK_SKEW_SECONDS
    ExpiryGrace,     \* EXPIRY_GRACE_SECONDS
    MaxRestarts,     \* bound: how often the proxy process restarts
    DbMayFail,       \* whether a Postgres statement may fail
    StoreMayReplay   \* whether a claimed token value may be stored again

AllRoutes == {"bot", "courier", "deny", "cliApprove", "cliReject",
              "sign", "signDeny"}

\* Unsigned tokens are honoured for PreapprovalTTL unless signing is enforced, so
\* the reconcile waits that long before it calls a request expired.
LongestOf(a, b) == IF a >= b THEN a ELSE b
Grace == IF Mode = "enforce" THEN ExpiryGrace
                             ELSE LongestOf(ExpiryGrace, PreapprovalTTL)

\* The tables of constants in hitl.py, hitl_events.py and hitl_signing.py.
ASSUME HitlAssumptions ==
    /\ None \notin Calls
    /\ None \notin Ops
    /\ Mode \in {"off", "observe", "enforce"}
    /\ Routes \subseteq AllRoutes
    /\ RequestTimeout \in Nat \ {0}
    /\ PreapprovalTTL \in Nat \ {0}
    /\ MaxLifetime \in Nat \ {0}
    /\ ClockSkew \in Nat
    /\ ExpiryGrace \in Nat
    /\ MaxLifetime <= ExpiryGrace
    /\ MaxRestarts \in Nat
    /\ DbMayFail \in BOOLEAN
    /\ StoreMayReplay \in BOOLEAN

VARIABLES
    pending, otp, tomb, token, tokenTTL,
    row, age, closed,
    cpc, used, usedIn, consumed, loop, rec, epoch,
    opc, route, oid, claimed, osig

storeVars == <<pending, otp, tomb, token, tokenTTL>>
auditVars == <<row, age, closed>>
callVars  == <<cpc, used, usedIn, consumed>>
procVars  == <<loop, rec, epoch>>
opVars    == <<opc, route, oid, claimed, osig>>
vars == <<storeVars, auditVars, callVars, procVars, opVars>>

Keys == {KeyOf[c] : c \in Calls}

RowStates == {"none", "pending", "approved", "denied", "consumed", "expired"}
CallSteps == {"start", "setPending", "setOtp", "audit", "consumeSigned",
              "consumeApproved", "consumePending", "done"}
OpSteps   == {"start", "otp", "badOtp", "confirm", "claim", "dropOtp", "audit",
              "token", "undo", "tomb", "delete", "emit", "done"}

\* The longest row age worth telling apart: past it the row is overdue.
MaxAge   == RequestTimeout + Grace + 1
LongestTTL == LongestOf(PreapprovalTTL, MaxLifetime)

NoRec == [at |-> "idle", id |-> None, outcome |-> "expired"]

TypeOK ==
    /\ pending  \in [Calls -> 0..RequestTimeout]
    /\ otp      \in [Calls -> 0..RequestTimeout]
    /\ tomb     \in [Calls -> BOOLEAN]
    /\ token    \in [Keys -> Ops \union {None}]
    /\ tokenTTL \in [Keys -> 0..LongestTTL]
    /\ row      \in [Calls -> RowStates]
    /\ age      \in [Calls -> 0..MaxAge]
    /\ closed   \in [Calls -> Nat]
    /\ cpc      \in [Calls -> CallSteps]
    /\ used     \in [Calls -> Ops \union {None}]
    /\ usedIn   \in [Calls -> Nat]
    /\ consumed \in [Calls -> 0..(MaxLifetime + ClockSkew)]
    /\ loop     \in BOOLEAN
    /\ rec      \in [at: {"idle", "resolve", "emit"},
                     id: Calls \union {None},
                     outcome: {"denied", "expired"}]
    /\ epoch    \in Nat
    /\ opc      \in [Ops -> OpSteps]
    /\ route    \in [Ops -> AllRoutes \union {"none"}]
    /\ oid      \in [Ops -> Calls \union {None}]
    /\ claimed  \in [Ops -> BOOLEAN]
    /\ osig     \in [Ops -> 0..MaxLifetime]

----------------------------------------------------------------------------
\* State backend (state_dragonfly.py, external server).

IsPending(id) == pending[id] > 0

\* The value of a token key: the command that wrote it, None once claimed or
\* expired.
TokenAt(k) == IF tokenTTL[k] > 0 THEN token[k] ELSE None

\* SET of a pre-approval token, EX ttl: replaces whatever the key held.
SetToken(k, o, ttl) ==
    /\ token'    = [token EXCEPT ![k] = o]
    /\ tokenTTL' = [tokenTTL EXCEPT ![k] = ttl]

\* Mutation of TakeToken: GET, so that the value stays in its key.
TakeTokenByGet(k) == UNCHANGED <<token, tokenTTL>>

\* GETDEL of a pre-approval token.
TakeToken(k) ==
    /\ token'    = [token EXCEPT ![k] = None]
    /\ tokenTTL' = [tokenTTL EXCEPT ![k] = 0]

TokenUntouched == UNCHANGED <<token, tokenTTL>>

----------------------------------------------------------------------------
\* Audit rows (registry_db.py).  Every statement may fail without the caller
\* noticing more than a False.

DbOutcomes == IF DbMayFail THEN BOOLEAN ELSE {TRUE}

\* Whether UPDATE hitl_approvals ... WHERE id [AND state = expected] finds its row.
Matches(id, expected) == row[id] # "none" /\ row[id] \in expected

AnyState == RowStates \ {"none"}

\* resolve_hitl_approval(id, to, expected_state): ok is whether Postgres answered.
ResolveRow(id, to, expected, ok) ==
    row' = IF ok /\ Matches(id, expected) THEN [row EXCEPT ![id] = to] ELSE row

\* Mutation of Overdue: no grace after the timeout.
OverdueAtTimeout(id) == age[id] > RequestTimeout

Overdue(id) == age[id] > RequestTimeout + Grace

\* hitl.closed for a request.
EmitClosed(id) == closed' = [closed EXCEPT ![id] = @ + 1]

----------------------------------------------------------------------------
\* Operator commands.  Ids are unguessable: a command names a request whose record
\* has been written.

Minted(id) == cpc[id] \in {"setOtp", "audit", "done"} /\ used[id] = None

\* Command o starts on request id by route r and goes on at the given step.
StartOp(o, r, id, step) ==
    /\ opc[o] = "start"
    /\ r \in Routes
    /\ Minted(id)
    /\ opc'   = [opc EXCEPT ![o] = step]
    /\ route' = [route EXCEPT ![o] = r]
    /\ oid'   = [oid EXCEPT ![o] = id]
    /\ UNCHANGED <<claimed, osig>>

OpAt(o, r, step) == opc[o] = step /\ route[o] = r

GoTo(o, step) ==
    /\ opc' = [opc EXCEPT ![o] = step]
    /\ UNCHANGED <<route, oid, claimed, osig>>

\* Mutation of ClaimPending: GET, so that the record is still there for the next.
ClaimPendingByGet(o, found, missing) ==
    /\ claimed' = [claimed EXCEPT ![o] = IsPending(oid[o])]
    /\ opc' = [opc EXCEPT ![o] = IF IsPending(oid[o]) THEN found ELSE missing]
    /\ UNCHANGED <<route, oid, osig, pending>>

\* GETDEL of the request record: the command learns whether it was there.
ClaimPending(o, found, missing) ==
    /\ claimed' = [claimed EXCEPT ![o] = IsPending(oid[o])]
    /\ pending' = [pending EXCEPT ![oid[o]] = 0]
    /\ opc' = [opc EXCEPT ![o] = IF IsPending(oid[o]) THEN found ELSE missing]
    /\ UNCHANGED <<route, oid, osig>>

DropOtpOf(o) == otp' = [otp EXCEPT ![oid[o]] = 0]

============================================================================
