-------------------------- MODULE McpProxyProofs ----------------------------
(***************************************************************************)
(* No working client of the proxied upstream is ever orphaned or torn down *)
(* by a reconnect, and validation never gets weaker, for any set of calls. *)
(***************************************************************************)
EXTENDS McpProxy, TLAPS

\* The client is the handle's, and the handle covers whatever works.
LinkInv ==
    /\ client # None => client = handle
    /\ alive \subseteq {handle}

\* The lock is held exactly in the locked part of _reconnect_persistent, and what is there
\* at each of its awaits.
LockInv ==
    /\ \A c \in Calls : pc[c] \in Locked <=> lock = c
    /\ \A c \in Calls : pc[c] = "close" => handle = None
    /\ \A c \in Calls : pc[c] = "open" => handle = c /\ client = None

\* A client that failed a call stays dead: a call opens its client once, and no call has
\* read it before.
DeadInv ==
    /\ \A c \in Calls : pc[c] = "lock" => mine[c] # None /\ mine[c] \notin alive
    /\ \A c, d \in Calls :
           mine[d] = c => pc[c] \notin {"idle", "call", "lock", "close", "open"}
    /\ \A c \in Calls :
           client = c => pc[c] \notin {"idle", "call", "lock", "close", "open"}
    /\ \A c \in Calls : pc[c] = "call" => mine[c] # None
    /\ phase = "new" => /\ client = None /\ handle = None
                        /\ \A c \in Calls : pc[c] = "idle" /\ mine[c] = None
    /\ phase # "up" => \A c \in Calls : pc[c] \in {"idle", "done"}

ProxyInv == TypeOK /\ LinkInv /\ LockInv /\ DeadInv

\* A refresh leaves a well-typed cache, and a strict schema in it strict.
LEMMA RefreshKeeps ==
    ASSUME TypeOK, RefreshSchemas
    PROVE  /\ schemas' \in [Tools -> {"unknown", "bare", "strict"}]
           /\ \A t \in Tools \ Allowed : schemas'[t] = "unknown"
           /\ registered' = registered
           /\ \A t \in Tools : schemas[t] = "strict" => schemas'[t] = "strict"
BY ProxyAssumptions DEF TypeOK, RefreshSchemas, Refreshed, Exposed, Offers

\* The instance before its startup satisfies the invariant.
LEMMA InitProxy == Init => ProxyInv
BY ProxyAssumptions DEF Init, ProxyInv, TypeOK, LinkInv, LockInv, DeadInv, Discovered,
   Exposed, Offers, Awaiting, Locked, Clients

\* Startup, shutdown and the death of the upstream keep the invariant: dead clients stay
\* dead, and no call is under way when the instance is not up.
LEMMA InstanceKeeps ==
    ASSUME ProxyInv, Startup \/ Shutdown \/ UpstreamDies
    PROVE  ProxyInv'
<1> USE ProxyAssumptions
    DEF ProxyInv, TypeOK, LinkInv, LockInv, DeadInv, Clients, Awaiting, Locked, toolVars
<1>1. CASE Startup
  BY <1>1, RefreshKeeps DEF Startup
<1>2. CASE Shutdown
  BY <1>2 DEF Shutdown
<1>3. CASE UpstreamDies
  BY <1>3 DEF UpstreamDies
<1> QED
  BY <1>1, <1>2, <1>3

\* Each await of a call keeps the invariant.
LEMMA CallKeeps ==
    ASSUME ProxyInv, NEW c \in Calls, CallStep(c)
    PROVE  ProxyInv'
<1> USE ProxyAssumptions
    DEF ProxyInv, TypeOK, LinkInv, LockInv, DeadInv, Clients, Awaiting, Locked, Outcomes,
        toolVars, linkVars, CallOnly, GoTo, Return
<1>1. CASE Begin(c)
  BY <1>1 DEF Begin
<1>2. CASE Answered(c)
  BY <1>2 DEF Answered
<1>3. CASE Failed(c)
  BY <1>3 DEF Failed
<1>4. CASE TransportDead(c)
  BY <1>4 DEF TransportDead
<1>5. CASE OwnConnection(c)
  BY <1>5 DEF OwnConnection
<1>6. CASE PeerReplaced(c)
  BY <1>6 DEF PeerReplaced, Retry
<1>7. CASE TakeDown(c)
  BY <1>7 DEF TakeDown
<1>8. CASE OldClosed(c)
  BY <1>8 DEF OldClosed
<1>9. CASE Opened(c)
  BY <1>9 DEF Opened
<1>10. CASE OpenFailed(c)
  BY <1>10 DEF OpenFailed
<1>11. CASE Reconnected(c)
  BY <1>11, RefreshKeeps DEF Reconnected, Retry
<1>12. CASE Cancelled(c)
  BY <1>12 DEF Cancelled
<1> QED
  BY <1>1, <1>2, <1>3, <1>4, <1>5, <1>6, <1>7, <1>8, <1>9, <1>10, <1>11, <1>12
  DEF CallStep, Progress

\* The invariant holds of every state of the instance.
LEMMA ProxyInvariant == Spec => []ProxyInv
<1>1. ProxyInv /\ [Next]_vars => ProxyInv'
  <2> SUFFICES ASSUME ProxyInv, [Next]_vars PROVE ProxyInv'
    OBVIOUS
  <2>1. CASE Next
    BY <2>1, InstanceKeeps, CallKeeps DEF Next
  <2>2. CASE UNCHANGED vars
    BY <2>2 DEF vars, ProxyInv, TypeOK, LinkInv, LockInv, DeadInv
  <2> QED
    BY <2>1, <2>2
<1> QED
  BY InitProxy, <1>1, PTL DEF Spec

-----------------------------------------------------------------------------
\* The types of the instance's state, the filter on its schema cache among them.
THEOREM ProxyTyped == Spec => []TypeOK
<1>1. ProxyInv => TypeOK
  BY DEF ProxyInv
<1> QED
  BY <1>1, ProxyInvariant, PTL

\* startup, shutdown, _reconnect_persistent: whatever fails or is cancelled, a client that
\* works is the one in the handle, which shutdown() closes.
THEOREM NothingOrphaned == Spec => []NoOrphan
<1>1. ProxyInv => NoOrphan
  BY DEF ProxyInv, LinkInv, NoOrphan
<1> QED
  BY <1>1, ProxyInvariant, PTL

\* F-02: no call's reconnect ever takes a working client out.
THEOREM WorkingClientKept == Spec => WorkingClientStays
<1> DEFINE Kept == (handle \in alive /\ handle' # handle) => phase' = "closed"
<1>1. ProxyInv /\ [Next]_vars => [Kept]_vars
  <2> SUFFICES ASSUME ProxyInv, Next PROVE Kept
    OBVIOUS
  <2>1. CASE Startup \/ Shutdown \/ UpstreamDies
    BY <2>1, ProxyAssumptions DEF Startup, Shutdown, UpstreamDies, ProxyInv, TypeOK,
       DeadInv, LinkInv, Clients
  <2>2. CASE \E c \in Calls : CallStep(c)
    <3> PICK c \in Calls : CallStep(c)
      BY <2>2
    <3>1. CASE TakeDown(c)
      BY <3>1, ProxyAssumptions DEF TakeDown, ProxyInv, LinkInv, DeadInv
    <3>2. CASE OldClosed(c)
      BY <3>2, ProxyAssumptions DEF OldClosed, ProxyInv, TypeOK, LockInv, Clients
    <3>3. CASE ~TakeDown(c) /\ ~OldClosed(c)
      BY <3>3 DEF CallStep, Progress, Begin, Answered, Failed, TransportDead,
         OwnConnection, PeerReplaced, Opened, OpenFailed, Reconnected, Cancelled,
         CallOnly, linkVars
    <3> QED
      BY <3>1, <3>2, <3>3
  <2> QED
    BY <2>1, <2>2 DEF Next
<1> QED
  BY <1>1, ProxyInvariant, PTL DEF Spec, WorkingClientStays

\* _refresh_schemas_from_client: validation is never demoted (audit M1).
THEOREM NeverDemoted == Spec => StrictStaysStrict
<1> DEFINE Kept == \A t \in Tools : schemas[t] = "strict" => schemas'[t] = "strict"
<1>1. ProxyInv /\ [Next]_vars => [Kept]_vars
  <2> SUFFICES ASSUME ProxyInv, Next PROVE Kept
    OBVIOUS
  <2>1. CASE Startup \/ \E c \in Calls : Reconnected(c)
    BY <2>1, RefreshKeeps DEF ProxyInv, Startup, Reconnected, toolVars
  <2>2. CASE ~Startup /\ ~\E c \in Calls : Reconnected(c)
    BY <2>2 DEF Next, Shutdown, UpstreamDies, CallStep, Progress, Begin, Answered,
       Failed, TransportDead, OwnConnection, PeerReplaced, TakeDown, OldClosed, Opened,
       OpenFailed, Cancelled, CallOnly, toolVars
  <2> QED
    BY <2>1, <2>2
<1> QED
  BY <1>1, ProxyInvariant, PTL DEF Spec, StrictStaysStrict

=============================================================================
