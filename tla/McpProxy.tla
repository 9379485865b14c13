------------------------------ MODULE McpProxy ------------------------------
(***************************************************************************)
(* One stdio instance of McpProxyModule: the persistent client that all    *)
(* calls share, the reconnect under _reconnect_lock when its transport     *)
(* dies, and the schema cache that a reconnect refreshes.  One event loop  *)
(* runs all of it, so what happens between two awaits is one step.         *)
(*                                                                         *)
(* A call reconnects at most once, so a client is named by who opened it:  *)
(* startup() or a call.                                                    *)
(***************************************************************************)
EXTENDS Naturals, FiniteSets

CONSTANTS
    Calls,          \* proxied tool calls
    AtStartup,      \* names the client that startup() opens
    None,           \* Python's None
    Tools,          \* tools the upstream may offer
    Allowed         \* those that pass tool_allowlist and tool_denylist

ASSUME ProxyAssumptions ==
    /\ AtStartup \notin Calls
    /\ None \notin Calls \union {AtStartup}
    /\ Allowed \subseteq Tools

VARIABLES
    phase,          \* of the instance: new, up, failed, closed
    client,         \* self._persistent_client
    handle,         \* self._client_handle
    lock,           \* the call that holds self._reconnect_lock
    alive,          \* clients whose transport works
    schemas,        \* self._schemas: unknown (no entry), bare (None) or strict
    registered,     \* self._registered_names, fixed by discovery
    pc,             \* the await a call is suspended in
    mine,           \* the client a call has read, and awaits
    outcome         \* what a call has returned

vars == <<phase, client, handle, lock, alive, schemas, registered, pc, mine, outcome>>
linkVars == <<client, handle, lock, alive>>
toolVars == <<schemas, registered>>

Clients  == Calls \union {AtStartup}
Offers   == [Tools -> {"absent", "bare", "strict"}]
Locked   == {"close", "open", "refresh"}
Awaiting == {"call", "own", "lock", "retry"} \union Locked
Outcomes == {"ok", "error", "noClient", "cancelled"}

TypeOK ==
    /\ phase \in {"new", "up", "failed", "closed"}
    /\ client \in Clients \union {None}
    /\ handle \in Clients \union {None}
    /\ lock \in Calls \union {None}
    /\ alive \subseteq Clients
    /\ schemas \in [Tools -> {"unknown", "bare", "strict"}]
    /\ \A t \in Tools \ Allowed : schemas[t] = "unknown"
    /\ registered \subseteq Allowed
    /\ pc \in [Calls -> {"idle", "done"} \union Awaiting]
    /\ mine \in [Calls -> Clients \union {None}]
    /\ outcome \in [Calls -> Outcomes \union {None}]

-----------------------------------------------------------------------------
\* Tools and their schemas.

Exposed(offer) == {t \in Allowed : offer[t] # "absent"}

\* _discover_tools, in __init__: what passes the filter is registered for good.
Discovered(offer) ==
    /\ registered = Exposed(offer)
    /\ schemas = [t \in Tools |-> IF t \in Exposed(offer) THEN offer[t] ELSE "unknown"]

\* Mutation of Refreshed: the answer overwrites the cache, schema or no schema.
RefreshedBlindly(offer) ==
    [t \in Tools |-> IF t \in Exposed(offer) THEN offer[t] ELSE schemas[t]]

\* Mutation of Refreshed: whatever the upstream lists is let in.
RefreshedUnfiltered(offer) ==
    [t \in Tools |-> IF offer[t] = "absent" THEN schemas[t] ELSE offer[t]]

\* _refresh_schemas_from_client: filtered again, and no schema never replaces one.
Refreshed(offer) ==
    [t \in Tools |->
        IF t \in Exposed(offer) /\ ~(offer[t] = "bare" /\ schemas[t] = "strict")
        THEN offer[t] ELSE schemas[t]]

\* list_tools answers with any list, or fails, and then nothing changes.
RefreshSchemas ==
    /\ \/ \E offer \in Offers : schemas' = Refreshed(offer)
       \/ UNCHANGED schemas
    /\ UNCHANGED registered

Init ==
    /\ phase = "new"
    /\ client = None
    /\ handle = None
    /\ lock = None
    /\ alive = {}
    /\ \E offer \in Offers : Discovered(offer)
    /\ pc = [c \in Calls |-> "idle"]
    /\ mine = [c \in Calls |-> None]
    /\ outcome = [c \in Calls |-> None]

-----------------------------------------------------------------------------
\* The instance.

\* startup(): the client is opened, or __aenter__ raises and the handle stays.
Startup ==
    /\ phase = "new"
    /\ handle' = AtStartup
    /\ \/ /\ phase' = "up"
          /\ client' = AtStartup
          /\ alive' = {AtStartup}
          /\ RefreshSchemas
       \/ /\ phase' = "failed"
          /\ UNCHANGED <<client, alive, toolVars>>
    /\ UNCHANGED <<lock, pc, mine, outcome>>

\* shutdown(), from the lifespan, which ends when no call is being served.
Shutdown ==
    /\ phase = "up"
    /\ \A c \in Calls : pc[c] \in {"idle", "done"}
    /\ phase' = "closed"
    /\ alive' = alive \ {handle}
    /\ client' = IF handle = None THEN client ELSE None
    /\ handle' = None
    /\ UNCHANGED <<lock, toolVars, pc, mine, outcome>>

\* The upstream process dies, or its pipe breaks.
UpstreamDies ==
    /\ \E g \in alive : alive' = alive \ {g}
    /\ UNCHANGED <<phase, client, handle, lock, toolVars, pc, mine, outcome>>

-----------------------------------------------------------------------------
\* proxy_call.

GoTo(c, step) == pc' = [pc EXCEPT ![c] = step] /\ UNCHANGED outcome
Return(c, what) ==
    /\ pc' = [pc EXCEPT ![c] = "done"]
    /\ outcome' = [outcome EXCEPT ![c] = what]
CallOnly == UNCHANGED <<phase, linkVars, toolVars>>

\* Arguments that fail validation or a hook end the call; then the client is read, and
\* without one the call opens a connection of its own.
Begin(c) ==
    /\ phase = "up"
    /\ pc[c] = "idle"
    /\ \/ Return(c, "error") /\ UNCHANGED mine
       \/ client # None /\ GoTo(c, "call") /\ mine' = [mine EXCEPT ![c] = client]
       \/ client = None /\ GoTo(c, "own") /\ UNCHANGED mine
    /\ CallOnly

\* The upstream answers.
Answered(c) ==
    /\ pc[c] \in {"call", "retry"}
    /\ mine[c] \in alive
    /\ Return(c, "ok")
    /\ UNCHANGED mine
    /\ CallOnly

\* An error that no reconnect is tried for: a tool error, or any error of the retry.
Failed(c) ==
    /\ pc[c] \in {"call", "retry"}
    /\ Return(c, "error")
    /\ UNCHANGED mine
    /\ CallOnly

\* _is_reconnectable: the transport is dead.
TransportDead(c) ==
    /\ pc[c] = "call"
    /\ mine[c] \notin alive
    /\ GoTo(c, "lock")
    /\ UNCHANGED mine
    /\ CallOnly

OwnConnection(c) ==
    /\ pc[c] = "own"
    /\ Return(c, "ok") \/ Return(c, "error")
    /\ UNCHANGED mine
    /\ CallOnly

-----------------------------------------------------------------------------
\* _reconnect_persistent.

\* The retry reads the client anew; if there is none, None.call_tool raises.
Retry(c) ==
    IF client' = None
    THEN Return(c, "noClient") /\ UNCHANGED mine
    ELSE GoTo(c, "retry") /\ mine' = [mine EXCEPT ![c] = client']

\* A peer has replaced the client that failed: nothing to reconnect.
PeerReplaced(c) ==
    /\ pc[c] = "lock"
    /\ lock = None
    /\ client # mine[c]
    /\ CallOnly
    /\ Retry(c)

\* Mutation of TakeDown: the client is not compared with the one that failed.
TakeDownAnyway(c) ==
    /\ pc[c] = "lock"
    /\ lock = None
    /\ lock' = c
    /\ client' = None
    /\ handle' = None
    /\ GoTo(c, "close")
    /\ UNCHANGED <<phase, alive, toolVars, mine>>

\* The first holder of the lock takes the dead client out, then closes it.
TakeDown(c) ==
    /\ pc[c] = "lock"
    /\ lock = None
    /\ client = mine[c]
    /\ lock' = c
    /\ client' = None
    /\ handle' = None
    /\ GoTo(c, "close")
    /\ UNCHANGED <<phase, alive, toolVars, mine>>

\* Mutation of OldClosed: the new client is entered without a handle to exit it by.
OldClosedNoHandle(c) ==
    /\ pc[c] = "close"
    /\ GoTo(c, "open")
    /\ UNCHANGED <<phase, client, handle, lock, alive, toolVars, mine>>

\* The old client's __aexit__ is over, whatever it raised.
OldClosed(c) ==
    /\ pc[c] = "close"
    /\ handle' = c
    /\ GoTo(c, "open")
    /\ UNCHANGED <<phase, client, lock, alive, toolVars, mine>>

Opened(c) ==
    /\ pc[c] = "open"
    /\ client' = c
    /\ alive' = alive \union {c}
    /\ GoTo(c, "refresh")
    /\ UNCHANGED <<phase, handle, lock, toolVars, mine>>

\* Mutation of OpenFailed: the lock is released on the way that succeeds only.
OpenFailedLocked(c) ==
    /\ pc[c] = "open"
    /\ Return(c, "error")
    /\ UNCHANGED <<phase, linkVars, toolVars, mine>>

\* __aenter__ raises: the call fails, and the client stays None.
OpenFailed(c) ==
    /\ pc[c] = "open"
    /\ lock' = None
    /\ Return(c, "error")
    /\ UNCHANGED <<phase, client, handle, alive, toolVars, mine>>

\* The schemas are refreshed, the lock is released and the call tried again.
Reconnected(c) ==
    /\ pc[c] = "refresh"
    /\ RefreshSchemas
    /\ lock' = None
    /\ UNCHANGED <<phase, client, handle, alive>>
    /\ Retry(c)

\* The agent cancels the request: CancelledError at the await, and the lock is released.
Cancelled(c) ==
    /\ pc[c] \in Awaiting
    /\ Return(c, "cancelled")
    /\ lock' = IF lock = c THEN None ELSE lock
    /\ UNCHANGED <<phase, client, handle, alive, toolVars, mine>>

-----------------------------------------------------------------------------
\* What the upstream and the event loop owe a call under way.
Progress(c) ==
    \/ Answered(c) \/ Failed(c) \/ TransportDead(c) \/ OwnConnection(c)
    \/ PeerReplaced(c) \/ TakeDown(c) \/ OldClosed(c)
    \/ Opened(c) \/ OpenFailed(c) \/ Reconnected(c)

CallStep(c) == Begin(c) \/ Progress(c) \/ Cancelled(c)

Next ==
    \/ Startup
    \/ Shutdown
    \/ UpstreamDies
    \/ \E c \in Calls : CallStep(c)

Spec == Init /\ [][Next]_vars

FairSpec == Spec /\ \A c \in Calls : WF_vars(Progress(c))

-----------------------------------------------------------------------------
\* No process is left behind: a working transport is the one that shutdown() closes, over
\* failed and cancelled reconnects (startup, _reconnect_persistent).
NoOrphan == \A g \in alive : g = handle

\* F-02: a client that works is never torn down under the calls that use it, however many
\* calls met the death of the one before it.
WorkingClientStays ==
    [][(handle \in alive /\ handle' # handle) => phase' = "closed"]_vars

\* Refresh never demotes validation (audit M1): a tool that had a schema keeps one over
\* every reconnect, whatever the upstream answers.
StrictStaysStrict ==
    [][\A t \in Tools : schemas[t] = "strict" => schemas'[t] = "strict"]_vars

\* Every call that has begun returns: no failure of a reconnect leaves the lock taken.
EveryCallReturns == \A c \in Calls : pc[c] \in Awaiting ~> pc[c] = "done"

\* "a concurrent caller already healed it, then retry against the current handle": who
\* does not reconnect because a peer did finds the peer's client.
PeerHealed == \A c \in Calls : outcome[c] # "noClient"

=============================================================================
