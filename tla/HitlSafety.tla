----------------------------- MODULE HitlSafety -----------------------------
(***************************************************************************)
(* What the approval protocol of module Hitl keeps.                        *)
(***************************************************************************)
EXTENDS Hitl

\* Call c was admitted by an approval of request id, which command o gave.
AdmittedBy(c, o) == o # None /\ used[c] = o
RequestOf(o) == oid[o]

\* Endpoint and approver commands claim a request before they act on it; the CLI's do not.
ClaimingRoutes == {"bot", "courier", "deny", "sign", "signDeny"}
Denies(o) == route[o] \in {"deny", "signDeny"} /\ claimed[o]

\* One-time gate (hitl_endpoint.py, hitl_approver.py, "one request yields at most one
\* approval even if two operators race"): no two commands claim the same request.
DecidedOnce ==
    \A o, p \in Ops :
        claimed[o] /\ claimed[p] /\ oid[o] = oid[p] => o = p

\* A request admits at most one call (GETDEL of the token, "one-time use"), over all
\* the tokens ever written for it, when every token is written after a claim.
OneCallPerRequest ==
    \A c, d \in Calls, o, p \in Ops :
        /\ AdmittedBy(c, o) /\ AdmittedBy(d, p)
        /\ oid[o] = oid[p]
        /\ {route[o], route[p]} \subseteq ClaimingRoutes
        => c = d

\* A request that was denied after a claim never admits a call, except through the
\* CLI's unclaimed approve.
DeniedNeverRuns ==
    \A c \in Calls, o, p \in Ops :
        /\ AdmittedBy(c, o) /\ route[o] \in ClaimingRoutes
        /\ Denies(p)
        => oid[o] # oid[p]

\* SMCP-39 and round 2 R2-04: once the call admitted by an endpoint approval has been
\* forwarded, the row of that approval no longer says "approved" (Postgres answering).
UseIsRecorded ==
    \A c \in Calls, o \in Ops :
        /\ AdmittedBy(c, o) /\ route[o] \in {"bot", "courier"}
        /\ cpc[c] = "done" /\ usedIn[c] = epoch
        => row[oid[o]] # "approved"

\* ConsumedSet: within one process lifetime a signed statement admits one call, even
\* when its bytes come back to the store.
SignedOncePerProcess ==
    \A c, d \in Calls, o, p \in Ops :
        /\ AdmittedBy(c, o) /\ AdmittedBy(d, p)
        /\ oid[o] = oid[p]
        /\ usedIn[c] = usedIn[d]
        => c = d

\* Reconcile waits long enough that "it never closes a request whose approval is still
\* redeemable" (hitl_events.py): when a row has expired, the statement that was signed
\* for it, and that has a claim behind it, no longer verifies.
NeverExpiredWhileRedeemable ==
    \A o \in Ops : claimed[o] /\ osig[o] > 0 => row[oid[o]] # "expired"

\* Guarded updates: where nothing but the gate and the reconcile writes rows, a row
\* that is consumed, denied or expired stays so.
RowsSettle ==
    [][\A c \in Calls :
          row[c] \in {"consumed", "denied", "expired"} => row'[c] = row[c]]_vars

----------------------------------------------------------------------------
\* The detailed protocol under enforce implements OneTimeApproval.

Granted(id) ==
    \E o \in Ops : route[o] = "sign" /\ claimed[o] /\ oid[o] = id /\ osig[o] > 0

Standing(id) ==
    CASE Granted(id) -> "granted"
      [] ~Granted(id) /\ IsPending(id) -> "open"
      [] ~Granted(id) /\ ~IsPending(id) ->
             IF cpc[id] \in {"start", "setPending"} THEN "idle" ELSE "ended"

UsersOf(id) == {c \in Calls : \E o \in Ops : AdmittedBy(c, o) /\ oid[o] = id}

OTA == INSTANCE OneTimeApproval WITH
    Requests <- Calls,
    Callers  <- Calls,
    st       <- [id \in Calls |-> Standing(id)],
    users    <- [id \in Calls |-> UsersOf(id)],
    fresh    <- [id \in Calls |-> \A c \in UsersOf(id) : usedIn[c] # epoch],
    restarts <- epoch

\* Signed approvals, over crashes, races and replays, are one-time approvals.
ImplementsOneTimeApproval == OTA!Spec

----------------------------------------------------------------------------
\* Every row that is pending is closed by hitl.closed or used by a call: neither a
\* silent deny from another process nor an expiry leaves a request open
\* (HitlReconciler's docstring).
Ended(id) == closed[id] > 0 \/ UsersOf(id) # {}

EveryRequestEnds ==
    \A c \in Calls : (row[c] # "none") ~> Ended(c)

----------------------------------------------------------------------------
\* What the documents say and the code does not keep.

\* docs/manifest-schema.md, on hitl.closed: "a row is closed, and reported, once".
ClosedOnce == \A c \in Calls : closed[c] <= 1

\* docs/manifest-schema.md, on hitl.closed: emitted when "a request is denied, or
\* expires unused".  A row that was approved, and whose token was stored, is consumed
\* in the end, or closed when the token lapses.
TokenStored(id) == \E k \in Keys : TokenAt(k) # None /\ oid[TokenAt(k)] = id

ApprovedRowEnds ==
    \A c \in Calls :
        (row[c] = "approved" /\ TokenStored(c)) ~> (row[c] # "approved" \/ Ended(c))

============================================================================
