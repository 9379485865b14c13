----------------------------- MODULE RateLimit ------------------------------
(***************************************************************************)
(* The rate limiter and the sliding windows it counts in.  In process a    *)
(* window is a deque behind a lock, and reading the clock, cutting and     *)
(* appending happen without an await in between.  In Dragonfly it is a     *)
(* sorted set that a script cuts and extends in one step, at a time that   *)
(* the client has read before it sent the request: requests may overtake   *)
(* each other on the way, and a reply may be lost.                         *)
(***************************************************************************)
EXTENDS Naturals, FiniteSets, Sequences

CONSTANTS
    Calls,      \* tool calls
    Procs,      \* proxy processes
    Agents,     \* agent ids
    None,       \* Python's None
    AgentOf,    \* the agent a process serves
    ToolOf,     \* the tool a call names
    Buckets,    \* counter keys: rate:global and one per pattern
    Patterns,   \* the per_tool patterns in the manifest's order
    Covers,     \* the tools a pattern matches
    Limit,      \* the limit of a bucket's spec
    Window,     \* its window in seconds
    MaxDelay,   \* bound: how long a request to Dragonfly may be on its way
    MaxClock    \* bound on the clock

ASSUME RateLimitAssumptions ==
    /\ IsFiniteSet(Calls)
    /\ AgentOf \in [Procs -> Agents]
    /\ "global" \in Buckets
    /\ Patterns \in Seq(Buckets \ {"global"})
    /\ Limit \in [Buckets -> Nat]
    /\ Window \in [Buckets -> Nat \ {0}]
    /\ MaxDelay \in Nat
    /\ MaxClock \in Nat
    /\ None \notin Nat /\ None \notin Calls /\ None \notin Agents /\ None \notin Buckets

VARIABLES
    backend,    \* state_backend.type
    proc,       \* the process that a call is made to
    clock,      \* time.monotonic() and time.time(), which agree here
    score,      \* per window and call: the time stored for it, or None
    admitted,   \* history: when the window took the call
    pc,         \* where a call is
    now         \* the time it has read for the operation it is at

rateVars == <<backend, proc, clock, score, admitted>>

Times  == 0..MaxClock
Spaces == Procs \union Agents
Keys   == Spaces \X Buckets

\* DragonflyBackend prefixes every key with the agent; InProcessBackend is a process's own.
Space(c) == IF backend = "in_process" THEN proc[c] ELSE AgentOf[proc[c]]
Key(c, b) == <<Space(c), b>>
Delay == IF backend = "in_process" THEN 0 ELSE MaxDelay

\* _match_per_tool: the first pattern that matches.  Its tools share one counter.
PatternOf(c) ==
    LET hits == {i \in DOMAIN Patterns : ToolOf[c] \in Covers[Patterns[i]]}
    IN  IF hits = {} THEN None ELSE Patterns[CHOOSE i \in hits : \A j \in hits : i <= j]

RateTypeOK ==
    /\ backend \in {"in_process", "dragonfly"}
    /\ proc \in [Calls -> Procs]
    /\ clock \in Times
    /\ score \in [Keys -> [Calls -> Times \union {None}]]
    /\ admitted \in [Keys -> [Calls -> Times \union {None}]]

RateInit ==
    /\ backend \in {"in_process", "dragonfly"}
    /\ proc \in [Calls -> Procs]
    /\ clock = 0
    /\ score = [k \in Keys |-> [c \in Calls |-> None]]
    /\ admitted = [k \in Keys |-> [c \in Calls |-> None]]

-----------------------------------------------------------------------------
\* One window.

\* Mutation of Kept: an entry is dropped a second early.
KeptTooFew(k, t) == [c \in Calls |->
    IF score[k][c] # None /\ score[k][c] + Window[k[2]] <= t + 1 THEN None ELSE score[k][c]]

\* What is left of window k for a caller whose time is t: an entry that is Window old goes.
Kept(k, t) == [c \in Calls |->
    IF score[k][c] # None /\ score[k][c] + Window[k[2]] <= t THEN None ELSE score[k][c]]

Members(w) == {c \in Calls : w[c] # None}

\* increment() of call c in window k at time t: cut, then count, then add.
Admit(c, k, t) ==
    /\ Cardinality(Members(Kept(k, t))) < Limit[k[2]]
    /\ score' = [score EXCEPT ![k] = [Kept(k, t) EXCEPT ![c] = t]]
    /\ admitted' = [admitted EXCEPT ![k][c] = clock]

Refuse(k, t) ==
    /\ Cardinality(Members(Kept(k, t))) >= Limit[k[2]]
    /\ score' = [score EXCEPT ![k] = Kept(k, t)]
    /\ UNCHANGED admitted

-----------------------------------------------------------------------------
\* RateLimitMiddleware.  A call is at "global" until it is made, at "tool" before its
\* second increment, and at "globalSent" or "toolSent" while a request is on the way.

GoTo(c, place) == pc' = [pc EXCEPT ![c] = place]
Sent(b) == IF b = "global" THEN "globalSent" ELSE "toolSent"

\* The window that call c has to pass where it is.
BucketAt(c) == IF pc[c] \in {"global", "globalSent"} THEN "global" ELSE PatternOf(c)

\* After the global window comes the pattern's, then the argument filter, which does not
\* await and may block the call, then session attribution.
Onward(b, c) == IF b = "global" /\ PatternOf(c) # None THEN {"tool"} ELSE {"attribute", "done"}

\* InProcessBackend.increment
IncrementHere(c) ==
    /\ backend = "in_process"
    /\ pc[c] \in {"global", "tool"}
    /\ LET b == BucketAt(c)
       IN  \/ Admit(c, Key(c, b), clock) /\ \E next \in Onward(b, c) : GoTo(c, next)
           \/ Refuse(Key(c, b), clock) /\ GoTo(c, "done")
    /\ UNCHANGED <<backend, proc, clock, now>>

\* DragonflyBackend.increment: the time is read and the script is sent.
Send(c) ==
    /\ backend = "dragonfly"
    /\ pc[c] \in {"global", "tool"}
    /\ GoTo(c, Sent(BucketAt(c)))
    /\ now' = [now EXCEPT ![c] = clock]
    /\ UNCHANGED rateVars

\* The script runs in the store, and its reply arrives or is lost.
RunScript(c) ==
    /\ pc[c] \in {"globalSent", "toolSent"}
    /\ LET b == BucketAt(c)
       IN  \/ /\ Admit(c, Key(c, b), now[c])
              /\ \E next \in Onward(b, c) \union {"done"} : GoTo(c, next)
           \/ Refuse(Key(c, b), now[c]) /\ GoTo(c, "done")
    /\ now' = [now EXCEPT ![c] = 0]
    /\ UNCHANGED <<backend, proc, clock>>

\* Mutation of BackendFails: a limiter that lets the call pass when its backend raises.
BackendFailsOpen(c) ==
    /\ pc[c] \in {"globalSent", "toolSent"}
    /\ \E next \in Onward(BucketAt(c), c) : GoTo(c, next)
    /\ now' = [now EXCEPT ![c] = 0]
    /\ UNCHANGED rateVars

\* The backend raises before the script has run: the call is blocked (fail-closed).
BackendFails(c) ==
    /\ pc[c] \in {"globalSent", "toolSent"}
    /\ GoTo(c, "done")
    /\ now' = [now EXCEPT ![c] = 0]
    /\ UNCHANGED rateVars

LimiterStep(c) == IncrementHere(c) \/ Send(c) \/ RunScript(c) \/ BackendFails(c)

\* Time passes, and no request is on its way for longer than MaxDelay.
Tick ==
    /\ clock < MaxClock
    /\ \A c \in Calls : pc[c] \in {"globalSent", "toolSent"} => clock < now[c] + MaxDelay
    /\ clock' = clock + 1
    /\ UNCHANGED <<backend, proc, score, admitted, pc, now>>

=============================================================================
