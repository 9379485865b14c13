------------------------------ MODULE CallPath ------------------------------
(***************************************************************************)
(* The path of a tool call: rate limiter, argument filter, session         *)
(* attribution, HITL gate, handler, in the order in which                  *)
(* _build_middleware lists them and MiddlewareChain nests them.            *)
(***************************************************************************)
EXTENDS Sessions

CONSTANTS
    MaxRestarts \* bound: restarts of processes

ASSUME CallPathAssumptions == MaxRestarts \in Nat

VARIABLES
    restarts    \* how many there have been

vars == <<rateVars, pc, now, regVars, dbVars, memoVars, callVars, restarts>>

Places ==
    {"global", "globalSent", "tool", "toolSent", "attribute", "initLock", "build", "upsert",
     "link", "linkInsert", "gate", "approve", "forwarded", "done"}
Ended == {"forwarded", "done"}

TypeOK ==
    /\ RateTypeOK
    /\ pc \in [Calls -> Places]
    /\ now \in [Calls -> Times]
    /\ SessionsTypeOK
    /\ restarts \in 0..MaxRestarts

Init ==
    /\ RateInit
    /\ pc = [c \in Calls |-> "global"]
    /\ now = [c \in Calls |-> 0]
    /\ SessionsInit
    /\ restarts = 0

-----------------------------------------------------------------------------
\* Mutation of Released: a cancelled builder keeps _init_lock.
ReleasedNot(c) == initLock

\* `async with _init_lock` is left, also by a CancelledError.
Released(c) == [p \in Procs |-> IF initLock[p] = c THEN None ELSE initLock[p]]

\* FastMCP cancels the task of a request at the await it is in.
Cancel(c) ==
    /\ pc[c] \notin {"global"} \union Ended
    /\ Leave(c)
    /\ initLock' = Released(c)
    /\ now' = [now EXCEPT ![c] = 0]
    /\ UNCHANGED <<rateVars, registry, pools, dbVars, memoVars, approval>>

\* A process is started again.  Its calls, registry and memos are gone, and its windows
\* too if they were its own.
Restart(p) ==
    LET mine(k) == backend = "in_process" /\ k[1] = p
        gone(c) == proc[c] = p /\ pc[c] # "global"
        reset(w) == [k \in Keys |-> IF mine(k) THEN [c \in Calls |-> None] ELSE w[k]]
    IN  /\ restarts < MaxRestarts
        /\ restarts' = restarts + 1
        /\ pc' = [c \in Calls |-> IF gone(c) THEN "done" ELSE pc[c]]
        /\ now' = [c \in Calls |-> IF gone(c) THEN 0 ELSE now[c]]
        /\ score' = reset(score)
        /\ admitted' = reset(admitted)
        /\ registry' = [registry EXCEPT ![p] = "unset"]
        /\ initLock' = [initLock EXCEPT ![p] = None]
        /\ pools' = [pools EXCEPT ![p] = 0]
        /\ seen' = [seen EXCEPT ![p] = [r \in Runs |-> None]]
        /\ linked' = [linked EXCEPT ![p] = {}]
        /\ inGate' = [c \in Calls |-> ~gone(c) /\ inGate[c]]
        /\ attributed' = [c \in Calls |-> IF gone(c) THEN None ELSE attributed[c]]
        /\ lag' = [c \in Calls |-> IF gone(c) THEN 0 ELSE lag[c]]
        /\ UNCHANGED <<backend, proc, clock, dbVars, approval>>

CallStep(c) ==
    \/ LimiterStep(c) /\ UNCHANGED <<regVars, dbVars, memoVars, callVars>>
    \/ AttributionStep(c) \/ Gate(c) \/ InsertApproval(c)

Next ==
    \/ \E c \in Calls : (CallStep(c) \/ Cancel(c)) /\ UNCHANGED restarts
    \/ Tick /\ UNCHANGED <<regVars, dbVars, memoVars, callVars, restarts>>
    \/ \E p \in Procs : Restart(p)

Spec == Init /\ [][Next]_vars

-----------------------------------------------------------------------------
\* Sliding window: in any Window seconds, less the time that a request may have been on its
\* way, no more calls than the limit are admitted, whatever overtakes what, whichever
\* processes of an agent share the window, and although replies are lost.
WindowBound ==
    \A k \in Keys :
        Cardinality({c \in Calls : admitted[k][c] # None
                        /\ clock + Delay < admitted[k][c] + Window[k[2]]}) <= Limit[k[2]]

\* "Backend errors block the call rather than silently bypassing limits", and no unmetered
\* write goes ahead of the limiter: a call that has come to the registry, the gate or the
\* handler has a slot in every window that applies to it.
NothingUnmetered ==
    \A c \in Calls : pc[c] \in Places \ {"global", "globalSent", "tool", "toolSent", "done"}
        => \A b \in {"global", PatternOf(c)} \ {None} : admitted[Key(c, b)][c] # None

\* upsert_session and attribute_current_call: a run id is handed out only while the row is
\* this agent's and was refreshed within REFRESH_SECONDS, also when agents, processes and
\* calls present one id at once.  The approvals carry no other agent's session either.
OwnLiveSession ==
    \A c \in Calls :
        /\ attributed[c] # None => owner[attributed[c]] = Agent(c) /\ lag[c] < Refresh
        /\ approval[c] \in Runs => owner[approval[c]] = Agent(c)

\* What a memo stands for is in the database: nothing that failed is taken as done.
MemoIsWritten ==
    \A p \in Procs :
        /\ \A r \in Runs : seen[p][r] # None =>
               owner[r] = AgentOf[p] /\ seen[p][r] <= lastSeen[r]
        /\ \A x \in linked[p] : links[x] > 0

\* get_registry: the connection pool is opened once per process, however many first calls
\* there are and whichever of them is cancelled, and no call waits for ever for a lock that a
\* cancelled one has left: whoever holds it is opening the pool.
PoolOpenedOnce ==
    \A p \in Procs :
        /\ pools[p] <= 1
        /\ initLock[p] # None => pc[initLock[p]] = "build" /\ proc[initLock[p]] = p

=============================================================================
