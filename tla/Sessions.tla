------------------------------ MODULE Sessions ------------------------------
(***************************************************************************)
(* Session attribution: attribute_current_call, the registry connection it *)
(* opens on first use, the memos that keep it from writing at every call,  *)
(* and the tables sessions, session_tasks and hitl_approvals that the      *)
(* processes of all agents share.  One action per await.                   *)
(***************************************************************************)
EXTENDS RateLimit

CONSTANTS
    Runs,       \* run ids minted by the launcher
    Tasks,      \* task ids
    RunOf,      \* the run id a call presents, None if it is absent or malformed
    TaskOf,     \* the task id it presents, None likewise
    Refresh,    \* REFRESH_SECONDS
    MemoMax     \* _MEMO_MAX

ASSUME SessionsAssumptions ==
    /\ RunOf \in [Calls -> Runs \union {None}]
    /\ TaskOf \in [Calls -> Tasks \union {None}]
    /\ None \notin Runs /\ None \notin Tasks
    /\ "none" \notin Runs   \* a row without a session is not a row that is missing
    /\ Refresh \in Nat \ {0}
    /\ MemoMax \in Nat \ {0}

VARIABLES
    registry,   \* the process's RegistryDB: unset, live, or disabled for good
    initLock,   \* the call that holds _init_lock
    pools,      \* history: pools the process has opened
    owner,      \* sessions.agent_id, None without a row
    lastSeen,   \* sessions.last_seen_at
    links,      \* rows of session_tasks per pair
    seen,       \* _seen of a process
    linked,     \* _linked of a process
    inGate,     \* the attribution is the HITL gate's, not the middleware's
    attributed, \* what the gate's attribution returned, until the row is inserted
    lag,        \* history: how old the session's last_seen_at was then
    approval    \* hitl_approvals.session_id of the request a call made; no row: none

regVars == <<registry, initLock, pools>>
dbVars == <<owner, lastSeen, links>>
memoVars == <<seen, linked>>
callVars == <<inGate, attributed, lag, approval>>

Agent(c) == AgentOf[proc[c]]
Pair(c) == <<RunOf[c], TaskOf[c]>>

SessionsTypeOK ==
    /\ registry \in [Procs -> {"unset", "live", "disabled"}]
    /\ initLock \in [Procs -> Calls \union {None}]
    /\ pools \in [Procs -> Nat]
    /\ owner \in [Runs -> Agents \union {None}]
    /\ lastSeen \in [Runs -> Times]
    /\ links \in [Runs \X Tasks -> 0..Cardinality(Calls)]   \* at most one row by a call
    /\ seen \in [Procs -> [Runs -> Times \union {None}]]
    /\ linked \in [Procs -> SUBSET (Runs \X Tasks)]
    /\ inGate \in [Calls -> BOOLEAN]
    /\ attributed \in [Calls -> Runs \union {None}]
    /\ lag \in [Calls -> Nat]
    /\ approval \in [Calls -> Runs \union {None, "none"}]

SessionsInit ==
    /\ registry = [p \in Procs |-> "unset"]
    /\ initLock = [p \in Procs |-> None]
    /\ pools = [p \in Procs |-> 0]
    /\ owner = [r \in Runs |-> None]
    /\ lastSeen = [r \in Runs |-> 0]
    /\ links = [x \in Runs \X Tasks |-> 0]
    /\ seen = [p \in Procs |-> [r \in Runs |-> None]]
    /\ linked = [p \in Procs |-> {}]
    /\ inGate = [c \in Calls |-> FALSE]
    /\ attributed = [c \in Calls |-> None]
    /\ lag = [c \in Calls |-> 0]
    /\ approval = [c \in Calls |-> "none"]

-----------------------------------------------------------------------------
\* _remember: beyond _MEMO_MAX another entry goes.  Which one is of no importance here.
Remember(p, r, t) ==
    LET with == [seen[p] EXCEPT ![r] = t]
        kept == {q \in Runs : with[q] # None}
    IN  IF Cardinality(kept) <= MemoMax
        THEN seen' = [seen EXCEPT ![p] = with]
        ELSE \E q \in kept \ {r} : seen' = [seen EXCEPT ![p] = [with EXCEPT ![q] = None]]

\* _due
Due(p, r) == seen[p][r] = None \/ clock >= seen[p][r] + Refresh

\* attribute_current_call returns v.  The middleware drops it, and the HITL gate forwards the
\* call or holds it; the gate takes it for the row of the request that it has recorded.
Return(c, v) ==
    IF inGate[c]
    THEN GoTo(c, "approve") /\ attributed' = [attributed EXCEPT ![c] = v]
    ELSE UNCHANGED attributed /\ \E next \in {"forwarded", "gate"} : GoTo(c, next)

\* After the session the link to its task, if that is due.  The session's row was written
\* `old` seconds ago.
LinkOrReturn(c, old) ==
    /\ lag' = [lag EXCEPT ![c] = old]
    /\ IF TaskOf[c] # None /\ Pair(c) \notin linked[proc[c]]
       THEN GoTo(c, "link") /\ UNCHANGED attributed
       ELSE Return(c, RunOf[c])

\* No launcher-minted id, or a registry that is off: nothing to attribute to.
NotAttributable(c) ==
    /\ RunOf[c] = None \/ registry[proc[c]] = "disabled"
    /\ Return(c, None)
    /\ UNCHANGED <<initLock, now, lag>>

\* get_registry on first use: take _init_lock, or wait for it.
OpenRegistry(c) ==
    /\ RunOf[c] # None /\ registry[proc[c]] = "unset"
    /\ IF initLock[proc[c]] = None
       THEN initLock' = [initLock EXCEPT ![proc[c]] = c] /\ GoTo(c, "build")
       ELSE GoTo(c, "initLock") /\ UNCHANGED initLock
    /\ UNCHANGED <<now, attributed, lag>>

\* The memo stands for the session, or it is due and the time is read for the upsert.
Recall(c) ==
    /\ RunOf[c] # None /\ registry[proc[c]] = "live"
    /\ IF Due(proc[c], RunOf[c])
       THEN GoTo(c, "upsert") /\ now' = [now EXCEPT ![c] = clock] /\ UNCHANGED <<attributed, lag>>
       ELSE LinkOrReturn(c, clock - lastSeen[RunOf[c]]) /\ UNCHANGED now
    /\ UNCHANGED initLock

\* attribute_current_call up to its first await.
Attribute(c) ==
    /\ pc[c] = "attribute"
    /\ NotAttributable(c) \/ OpenRegistry(c) \/ Recall(c)
    /\ UNCHANGED <<rateVars, registry, pools, dbVars, memoVars, inGate, approval>>

\* Mutation of LockInit: the waiter builds without looking again.
LockInitBlind(c) ==
    /\ pc[c] = "initLock"
    /\ initLock[proc[c]] = None
    /\ initLock' = [initLock EXCEPT ![proc[c]] = c] /\ GoTo(c, "build")
    /\ UNCHANGED <<rateVars, registry, pools, now, dbVars, memoVars, callVars>>

\* get_registry, the wait for _init_lock: whoever lost the race takes the winner's registry.
LockInit(c) ==
    /\ pc[c] = "initLock"
    /\ initLock[proc[c]] = None
    /\ IF registry[proc[c]] # "unset"
       THEN GoTo(c, "attribute") /\ UNCHANGED initLock
       ELSE initLock' = [initLock EXCEPT ![proc[c]] = c] /\ GoTo(c, "build")
    /\ UNCHANGED <<rateVars, registry, pools, now, dbVars, memoVars, callVars>>

\* _build_pool answers with a pool, or with None for the life of the process.
BuildPool(c) ==
    /\ pc[c] = "build"
    /\ \/ /\ registry' = [registry EXCEPT ![proc[c]] = "live"]
          /\ pools' = [pools EXCEPT ![proc[c]] = @ + 1]
       \/ /\ registry' = [registry EXCEPT ![proc[c]] = "disabled"]
          /\ UNCHANGED pools
    /\ initLock' = [initLock EXCEPT ![proc[c]] = None]
    /\ GoTo(c, "attribute")
    /\ UNCHANGED <<rateVars, now, dbVars, memoVars, callVars>>

\* ON CONFLICT ... DO UPDATE ... WHERE sessions.agent_id = EXCLUDED.agent_id
MayWrite(c) == owner[RunOf[c]] \in {None, Agent(c)}

\* upsert_session has its answer: the row is this agent's now, the database failed, before
\* or after it wrote, or the row is somebody else's.  The memo takes the time from before
\* the write.
Upsert(c) ==
    /\ pc[c] = "upsert"
    /\ \/ /\ MayWrite(c)
          /\ owner' = [owner EXCEPT ![RunOf[c]] = Agent(c)]
          /\ lastSeen' = [lastSeen EXCEPT ![RunOf[c]] = clock]
          /\ \/ /\ Remember(proc[c], RunOf[c], now[c])
                /\ LinkOrReturn(c, 0)
             \/ Return(c, None) /\ UNCHANGED <<seen, lag>>
       \/ Return(c, None) /\ UNCHANGED <<owner, lastSeen, seen, lag>>
    /\ now' = [now EXCEPT ![c] = 0]
    /\ UNCHANGED <<rateVars, regVars, links, linked, inGate, approval>>

\* Mutation of LinkCheck: the insertion without NOT EXISTS.
LinkCheckNot(c) ==
    /\ pc[c] = "link"
    /\ GoTo(c, "linkInsert")
    /\ UNCHANGED <<rateVars, regVars, dbVars, memoVars, now, callVars>>

\* insert_session_task: the snapshot of NOT EXISTS, and the insertion that follows from it.
LinkCheck(c) ==
    /\ pc[c] = "link"
    /\ \/ /\ links[Pair(c)] > 0
          /\ linked' = [linked EXCEPT ![proc[c]] = @ \union {Pair(c)}]
          /\ Return(c, RunOf[c])
       \/ links[Pair(c)] = 0 /\ GoTo(c, "linkInsert") /\ UNCHANGED <<linked, attributed>>
       \/ Return(c, RunOf[c]) /\ UNCHANGED linked
    /\ UNCHANGED <<rateVars, regVars, dbVars, seen, now, inGate, lag, approval>>

\* Mutation of LinkInsert: the link is memoised whatever the write answered.
LinkInsertTrusting(c) ==
    /\ pc[c] = "linkInsert"
    /\ links' \in {links, [links EXCEPT ![Pair(c)] = @ + 1]}
    /\ linked' = [linked EXCEPT ![proc[c]] = @ \union {Pair(c)}]
    /\ Return(c, RunOf[c])
    /\ UNCHANGED <<rateVars, regVars, owner, lastSeen, seen, now, inGate, lag, approval>>

\* A link is memoised on a confirmed write only, and the run is attributed either way.
LinkInsert(c) ==
    /\ pc[c] = "linkInsert"
    /\ \/ /\ links' = [links EXCEPT ![Pair(c)] = @ + 1]
          /\ linked' \in {linked, [linked EXCEPT ![proc[c]] = @ \union {Pair(c)}]}
       \/ UNCHANGED <<links, linked>>
    /\ Return(c, RunOf[c])
    /\ UNCHANGED <<rateVars, regVars, owner, lastSeen, seen, now, inGate, lag, approval>>

AttributionStep(c) ==
    Attribute(c) \/ LockInit(c) \/ BuildPool(c) \/ Upsert(c) \/ LinkCheck(c) \/ LinkInsert(c)

\* The gate has written the record and the OTP, or has failed to, and attributes the request.
Gate(c) ==
    /\ pc[c] = "gate"
    /\ \/ GoTo(c, "attribute") /\ inGate' = [inGate EXCEPT ![c] = TRUE]
       \/ GoTo(c, "done") /\ UNCHANGED inGate
    /\ UNCHANGED <<rateVars, now, regVars, dbVars, memoVars, attributed, lag, approval>>

\* What a call keeps in its frame goes with it.
Leave(c) ==
    /\ GoTo(c, "done")
    /\ inGate' = [inGate EXCEPT ![c] = FALSE]
    /\ attributed' = [attributed EXCEPT ![c] = None]
    /\ lag' = [lag EXCEPT ![c] = 0]

\* Mutation of SessionOf: the id goes into the row as it is.
SessionOfAnyone(c) == RunOf[c]

\* SELECT session_id FROM sessions WHERE session_id = $2
SessionOf(c) ==
    IF attributed[c] # None /\ owner[attributed[c]] # None THEN attributed[c] ELSE None

\* insert_hitl_approval: the session by subselect, NULL without a row; or no row at all if
\* the registry is off or fails.
InsertApproval(c) ==
    /\ pc[c] = "approve"
    /\ \/ /\ registry[proc[c]] = "live"
          /\ approval' = [approval EXCEPT ![c] = SessionOf(c)]
       \/ UNCHANGED approval
    /\ Leave(c)
    /\ UNCHANGED <<rateVars, regVars, dbVars, memoVars, now>>

=============================================================================
