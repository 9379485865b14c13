-------------------------- MODULE CallPathProofs ---------------------------
(***************************************************************************)
(* Proofs about the call path, for any calls, processes, agents, runs,     *)
(* tasks, patterns, limits and delays: no window admits more than its      *)
(* limit and nothing goes on that it has not admitted; the path is         *)
(* well-typed, opens one pool per process, trusts no memo that is not      *)
(* written, and attributes a call to a live session of its own agent.      *)
(***************************************************************************)
EXTENDS CallPath, TLAPS, FiniteSetTheorems, WellFoundedInduction

-----------------------------------------------------------------------------
\* The windows.

InFlight  == {"globalSent", "toolSent"}
Unmetered == {"global", "globalSent", "tool", "toolSent", "done"}

\* Type correctness of what the limiter works on.
RateTyped ==
    /\ RateTypeOK
    /\ pc \in [Calls -> Places]
    /\ now \in [Calls -> Times]

\* Where a call can be: on its way for MaxDelay at most, and at a pattern if it has one.
CallsInv ==
    \A c \in Calls :
        /\ pc[c] \in {"tool", "toolSent"} => PatternOf(c) # None
        /\ pc[c] \in InFlight =>
               backend = "dragonfly" /\ now[c] <= clock /\ clock <= now[c] + MaxDelay

\* An entry's time is at most Delay older than its admission, and an entry that is dropped
\* was admitted so long ago that it no longer counts: the set is never larger than the limit.
InOrder(k) ==
    /\ \A c \in Calls : score[k][c] # None =>
           admitted[k][c] # None /\ admitted[k][c] <= score[k][c] + Delay
    /\ \A c \in Calls :
           admitted[k][c] # None /\ clock + Delay < admitted[k][c] + Window[k[2]] =>
               score[k][c] # None
    /\ Cardinality(Members(score[k])) <= Limit[k[2]]

EntriesInv == \A k \in Keys : InOrder(k)

\* What is past a window has a slot in it.
MeteredInv ==
    \A c \in Calls :
        /\ pc[c] \in {"tool", "toolSent"} => admitted[Key(c, "global")][c] # None
        /\ pc[c] \in Places \ Unmetered =>
               \A b \in {"global", PatternOf(c)} \ {None} : admitted[Key(c, b)][c] # None

RateInv == RateTyped /\ CallsInv /\ EntriesInv /\ MeteredInv

-----------------------------------------------------------------------------
\* Pairs of naturals in order.
Below == {ss \in Nat \X Nat : ss[1] < ss[2]}

\* A set of naturals that is not empty has a least element.
LEMMA Least ==
    ASSUME NEW S \in SUBSET Nat, S # {}
    PROVE  \E i \in S : \A j \in S : i <= j
<1>1. IsWellFoundedOn(Below, Nat)
  BY NatLessThanWellFounded DEF OpToRel, Below
<1>2. PICK i \in S : \A j \in S : ~ (<<j, i>> \in Below)
  BY <1>1, WFMin, Zenon
<1>3. \A j \in S : ~ (j < i)
  BY <1>2 DEF Below
<1> QED
  BY <1>3

\* _match_per_tool answers with one of the patterns, or with None.
LEMMA PatternIsBucket ==
    ASSUME NEW c \in Calls
    PROVE  PatternOf(c) \in (Buckets \ {"global"}) \union {None}
<1> DEFINE hits == {i \in DOMAIN Patterns : ToolOf[c] \in Covers[Patterns[i]]}
<1>1. CASE hits = {}
  BY <1>1 DEF PatternOf
<1>2. CASE hits # {}
  <2>1. hits \in SUBSET Nat
    BY RateLimitAssumptions
  <2>2. \E i \in hits : \A j \in hits : i <= j
    BY <1>2, <2>1, Least
  <2>3. (CHOOSE i \in hits : \A j \in hits : i <= j) \in hits
    BY <2>2
  <2>4. PatternOf(c) = Patterns[CHOOSE i \in hits : \A j \in hits : i <= j]
    BY <1>2 DEF PatternOf
  <2> HIDE DEF hits
  <2>5. (CHOOSE i \in hits : \A j \in hits : i <= j) \in DOMAIN Patterns
    BY <2>3 DEF hits
  <2> QED
    BY <2>4, <2>5, RateLimitAssumptions
<1> QED
  BY <1>1, <1>2

\* The window a call counts in is one of the windows.
LEMMA KeyIsKey ==
    ASSUME RateTypeOK, NEW c \in Calls, NEW b \in Buckets
    PROVE  Key(c, b) \in Keys
BY RateLimitAssumptions DEF RateTypeOK, Key, Space, Keys, Spaces

\* The windows are well-typed when a call is admitted or refused, and nothing else changes.
LEMMA CountTyped ==
    ASSUME RateTypeOK, NEW c \in Calls, NEW k \in Keys, NEW t \in Times,
           Admit(c, k, t) \/ Refuse(k, t)
    PROVE  /\ score' \in [Keys -> [Calls -> Times \union {None}]]
           /\ admitted' \in [Keys -> [Calls -> Times \union {None}]]
           /\ \A j \in Keys \ {k} : score'[j] = score[j]
           /\ \A j \in Keys, d \in Calls : admitted[j][d] # None => admitted'[j][d] # None
<1>1. Kept(k, t) \in [Calls -> Times \union {None}]
  BY DEF RateTypeOK, Kept
<1>2. clock # None
  BY RateLimitAssumptions DEF RateTypeOK, Times
<1>3. CASE Admit(c, k, t)
  <2>1. [Kept(k, t) EXCEPT ![c] = t] \in [Calls -> Times \union {None}]
    BY <1>1
  <2>2. [admitted[k] EXCEPT ![c] = clock] \in [Calls -> Times \union {None}]
    BY DEF RateTypeOK
  <2>3. /\ score' = [score EXCEPT ![k] = [Kept(k, t) EXCEPT ![c] = t]]
        /\ admitted' = [admitted EXCEPT ![k] = [admitted[k] EXCEPT ![c] = clock]]
    BY <1>3 DEF Admit
  <2> QED
    BY <1>2, <2>1, <2>2, <2>3 DEF RateTypeOK
<1>4. CASE Refuse(k, t)
  BY <1>1, <1>4 DEF Refuse, RateTypeOK
<1> QED
  BY <1>3, <1>4

\* The part of a set of calls that is left has no more members than the set.
LEMMA NoMore ==
    ASSUME NEW S \in SUBSET Calls, NEW T \in SUBSET S
    PROVE  /\ IsFiniteSet(T) /\ Cardinality(T) \in Nat
           /\ Cardinality(T) <= Cardinality(S)
<1>1. IsFiniteSet(S)
  BY FS_Subset, RateLimitAssumptions
<1> QED
  BY <1>1, FS_Subset, FS_CardinalityType

\* A call that counts at a time that is neither late nor older than a request can be keeps
\* the windows in order.
LEMMA CountKeeps ==
    ASSUME RateTypeOK, EntriesInv, NEW c \in Calls, NEW k \in Keys, NEW t \in Times,
           t <= clock, clock <= t + Delay,
           Admit(c, k, t) \/ Refuse(k, t),
           UNCHANGED <<backend, proc, clock>>
    PROVE  EntriesInv'
<1> DEFINE kept == Kept(k, t)
<1>0. /\ kept \in [Calls -> Times \union {None}]
      /\ clock \in Nat /\ Delay \in Nat /\ t \in Nat /\ Delay' = Delay
      /\ k[2] \in Buckets /\ Window[k[2]] \in Nat /\ Limit[k[2]] \in Nat
  BY RateLimitAssumptions DEF RateTypeOK, Kept, Delay, Keys, Times
<1>1. \A d \in Calls :
          /\ kept[d] # None => score[k][d] # None /\ kept[d] = score[k][d]
          /\ kept[d] = None /\ score[k][d] # None => score[k][d] + Window[k[2]] <= t
  BY DEF Kept
<1>2. \A d \in Calls : kept[d] = None /\ admitted[k][d] # None =>
          ~ (clock + Delay < admitted[k][d] + Window[k[2]])
  <2> TAKE d \in Calls
  <2> HAVE kept[d] = None /\ admitted[k][d] # None
  <2>1. CASE score[k][d] # None
    <3>1. admitted[k][d] <= score[k][d] + Delay /\ score[k][d] + Window[k[2]] <= t
      BY <1>1, <2>1 DEF EntriesInv, InOrder
    <3>2. score[k][d] \in Nat /\ admitted[k][d] \in Nat
      BY <2>1 DEF RateTypeOK, Times
    <3> QED
      BY <1>0, <3>1, <3>2
  <2>2. CASE score[k][d] = None
    BY <2>2 DEF EntriesInv, InOrder
  <2> QED
    BY <2>1, <2>2
<1>3. \A j \in Keys \ {k} : score'[j] = score[j] /\ admitted'[j] = admitted[j]
  BY DEF Admit, Refuse, RateTypeOK
<1> HIDE DEF kept
<1>4. CASE Admit(c, k, t)
  <2>1. /\ score'[k] = [kept EXCEPT ![c] = t]
        /\ admitted'[k] = [admitted[k] EXCEPT ![c] = clock]
        /\ Cardinality(Members(kept)) < Limit[k[2]]
    BY <1>4 DEF Admit, RateTypeOK, kept
  <2>2. \A d \in Calls :
            /\ score'[k][d] = IF d = c THEN t ELSE kept[d]
            /\ admitted'[k][d] = IF d = c THEN clock ELSE admitted[k][d]
    BY <1>0, <2>1 DEF RateTypeOK
  <2>3. t # None /\ clock # None
    BY <1>0, RateLimitAssumptions
  <2>4. Members(score'[k]) \subseteq Members(kept) \union {c}
    BY <2>2 DEF Members
  <2>5. Cardinality(Members(score'[k])) <= Limit[k[2]]
    <3>1. Members(kept) \in SUBSET Calls /\ Members(score'[k]) \in SUBSET Calls
      BY DEF Members
    <3>2. IsFiniteSet(Members(kept)) /\ Cardinality(Members(kept)) \in Nat
      BY <3>1, NoMore
    <3>3. /\ Cardinality(Members(kept) \union {c}) \in Nat
          /\ Cardinality(Members(kept) \union {c}) <= Limit[k[2]]
      <4>1. Cardinality(Members(kept) \union {c}) \in
                {Cardinality(Members(kept)), Cardinality(Members(kept)) + 1}
        BY <3>2, FS_AddElement
      <4> QED
        BY <1>0, <2>1, <3>2, <4>1
    <3>4. /\ Cardinality(Members(score'[k])) \in Nat
          /\ Cardinality(Members(score'[k])) <= Cardinality(Members(kept) \union {c})
      BY <2>4, <3>1, NoMore
    <3> QED
      BY <1>0, <3>3, <3>4
  <2>6. \A d \in Calls :
            /\ score'[k][d] # None =>
                   admitted'[k][d] # None /\ admitted'[k][d] <= score'[k][d] + Delay
            /\ admitted'[k][d] # None /\ clock + Delay < admitted'[k][d] + Window[k[2]] =>
                   score'[k][d] # None
    <3> TAKE d \in Calls
    <3>1. CASE d = c
      BY <2>2, <2>3, <3>1
    <3>2. CASE d # c
      BY <1>1, <1>2, <2>2, <3>2 DEF EntriesInv, InOrder
    <3> QED
      BY <3>1, <3>2
  <2> QED
    BY <1>0, <1>3, <2>5, <2>6 DEF EntriesInv, InOrder
<1>5. CASE Refuse(k, t)
  <2>1. score'[k] = kept /\ admitted' = admitted
    BY <1>5 DEF Refuse, RateTypeOK, kept
  <2>2. Cardinality(Members(kept)) <= Limit[k[2]]
    <3>1. Members(score[k]) \in SUBSET Calls /\ Members(kept) \in SUBSET Members(score[k])
      BY <1>1 DEF Members
    <3>2. /\ Cardinality(Members(kept)) \in Nat
          /\ Cardinality(Members(kept)) <= Cardinality(Members(score[k]))
      BY <3>1, NoMore
    <3>3. Cardinality(Members(score[k])) \in Nat
      BY <3>1, NoMore
    <3> QED
      BY <1>0, <3>2, <3>3 DEF EntriesInv, InOrder
  <2>3. \A d \in Calls :
            /\ score'[k][d] # None =>
                   admitted'[k][d] # None /\ admitted'[k][d] <= score'[k][d] + Delay
            /\ admitted'[k][d] # None /\ clock + Delay < admitted'[k][d] + Window[k[2]] =>
                   score'[k][d] # None
    BY <1>1, <1>2, <2>1 DEF EntriesInv, InOrder
  <2> QED
    BY <1>0, <1>3, <2>1, <2>2, <2>3 DEF EntriesInv, InOrder
<1> QED
  BY <1>4, <1>5

\* What becomes of the calls, the windows being left as they are.
LEMMA PlacesKeep ==
    ASSUME RateInv, UNCHANGED rateVars,
           pc' \in [Calls -> Places], now' \in [Calls -> Times],
           \A c \in Calls :
               \/ pc'[c] = pc[c] /\ now'[c] = now[c]
               \/ pc'[c] = "done"
               \/ pc'[c] \in Places \ Unmetered /\ pc[c] \in Places \ Unmetered
    PROVE  RateInv'
<1> USE DEF RateInv, rateVars
<1>1. RateTyped'
  BY DEF RateTyped, RateTypeOK
<1>2. CallsInv'
  BY DEF CallsInv, PatternOf, InFlight, Unmetered, Places
<1>3. EntriesInv'
  BY DEF EntriesInv, InOrder, Delay, Members
<1>4. MeteredInv'
  BY DEF MeteredInv, PatternOf, Key, Space, Unmetered, Places
<1> QED
  BY <1>1, <1>2, <1>3, <1>4

\* Where a call goes when it has counted in the window it was at.
Counted(c, t) ==
    LET b == BucketAt(c)
    IN  \/ /\ Admit(c, Key(c, b), t)
           /\ \E next \in Onward(b, c) \union {"done"} : GoTo(c, next)
        \/ Refuse(Key(c, b), t) /\ GoTo(c, "done")

\* A call that counts keeps the invariant.
LEMMA CountedKeeps ==
    ASSUME RateInv, NEW c \in Calls, NEW t \in Times, t <= clock, clock <= t + Delay,
           pc[c] \in Unmetered \ {"done"},
           Counted(c, t),
           UNCHANGED <<backend, proc, clock>>,
           now' \in [Calls -> Times], \A d \in Calls \ {c} : now'[d] = now[d]
    PROVE  RateInv'
<1> DEFINE b == BucketAt(c)
<1>1. b \in Buckets /\ b \in {"global", PatternOf(c)}
  BY PatternIsBucket, RateLimitAssumptions
  DEF BucketAt, RateInv, CallsInv, Unmetered
<1>2. Key(c, b) \in Keys
  BY <1>1, KeyIsKey DEF RateInv, RateTyped
<1>3. Admit(c, Key(c, b), t) \/ Refuse(Key(c, b), t)
  BY DEF Counted
<1>4. EntriesInv'
  BY <1>2, <1>3, CountKeeps DEF RateInv, RateTyped
<1>5. /\ score' \in [Keys -> [Calls -> Times \union {None}]]
      /\ admitted' \in [Keys -> [Calls -> Times \union {None}]]
      /\ \A j \in Keys, d \in Calls : admitted[j][d] # None => admitted'[j][d] # None
  BY <1>2, <1>3, CountTyped DEF RateInv, RateTyped
<1>6. /\ \A d \in Calls \ {c} : pc'[d] = pc[d]
      /\ \/ pc'[c] = "done"
         \/ /\ Admit(c, Key(c, b), t)
            /\ \/ pc'[c] = "tool" /\ b = "global" /\ PatternOf(c) # None
               \/ pc'[c] = "attribute" /\ (b = PatternOf(c) \/ PatternOf(c) = None)
      /\ pc' \in [Calls -> Places]
  BY <1>1 DEF Counted, Onward, GoTo, RateInv, RateTyped, Places
<1>7. Admit(c, Key(c, b), t) => admitted'[Key(c, b)][c] # None
  BY <1>2, RateLimitAssumptions DEF Admit, RateInv, RateTyped, RateTypeOK, Times
<1>8. /\ \A d \in Calls : PatternOf(d)' = PatternOf(d)
      /\ \A d \in Calls : \A e : Key(d, e)' = Key(d, e)
  BY DEF PatternOf, Key, Space
<1>9. RateTyped'
  BY <1>5, <1>6 DEF RateInv, RateTyped, RateTypeOK
<1>10. CallsInv'
  BY <1>6, <1>8 DEF RateInv, CallsInv, InFlight
<1>11. MeteredInv'
  <2> SUFFICES ASSUME NEW d \in Calls
               PROVE  /\ pc'[d] \in {"tool", "toolSent"} => admitted'[Key(d, "global")][d] # None
                      /\ pc'[d] \in Places \ Unmetered =>
                             \A e \in {"global", PatternOf(d)} \ {None} :
                                 admitted'[Key(d, e)][d] # None
    BY <1>8 DEF MeteredInv
  <2>1. /\ Key(d, "global") \in Keys
        /\ PatternOf(d) # None => Key(d, PatternOf(d)) \in Keys
    BY KeyIsKey, PatternIsBucket, RateLimitAssumptions DEF RateInv, RateTyped
  <2>2. CASE d # c
    BY <1>5, <1>6, <2>1, <2>2 DEF RateInv, MeteredInv
  <2>3. CASE d = c
    <3>1. CASE b = "global"
      BY <1>6, <1>7, <2>1, <2>3, <3>1 DEF Unmetered
    <3>2. CASE b # "global"
      <4>1. admitted[Key(c, "global")][c] # None
        BY <1>1, <3>2 DEF BucketAt, RateInv, MeteredInv, Unmetered
      <4> QED
        BY <1>1, <1>5, <1>6, <1>7, <2>1, <2>3, <3>2, <4>1 DEF Unmetered
    <3> QED
      BY <3>1, <3>2
  <2> QED
    BY <2>2, <2>3
<1> QED
  BY <1>4, <1>9, <1>10, <1>11 DEF RateInv

\* Each step of the limiter keeps the invariant.
LEMMA LimiterKeeps ==
    ASSUME RateInv, NEW c \in Calls, LimiterStep(c)
    PROVE  RateInv'
<1>1. CASE IncrementHere(c)
  <2>1. /\ pc[c] \in {"global", "tool"} /\ backend = "in_process"
        /\ UNCHANGED <<backend, proc, clock, now>>
    BY <1>1 DEF IncrementHere
  <2>2. clock \in Times /\ clock \in Nat /\ Delay = 0
    BY <2>1 DEF RateInv, RateTyped, RateTypeOK, Delay, Times
  <2>3. Counted(c, clock)
    BY <1>1 DEF IncrementHere, Counted
  <2> QED
    BY <2>1, <2>2, <2>3, CountedKeeps DEF RateInv, RateTyped, Unmetered
<1>2. CASE Send(c)
  <2>1. /\ pc[c] \in {"global", "tool"} /\ backend = "dragonfly"
        /\ pc' = [pc EXCEPT ![c] = Sent(BucketAt(c))]
        /\ now' = [now EXCEPT ![c] = clock]
        /\ UNCHANGED rateVars
    BY <1>2 DEF Send, GoTo
  <2>2. /\ Sent(BucketAt(c)) = IF pc[c] = "global" THEN "globalSent" ELSE "toolSent"
        /\ clock \in Nat
    BY <2>1, PatternIsBucket, RateLimitAssumptions
    DEF Sent, BucketAt, RateInv, RateTyped, RateTypeOK, CallsInv, Times
  <2>3. RateTyped'
    BY <2>1, <2>2 DEF RateInv, RateTyped, RateTypeOK, rateVars, Places
  <2>4. CallsInv'
    <3>1. \A d \in Calls : PatternOf(d)' = PatternOf(d)
      BY DEF PatternOf
    <3> QED
      BY <2>1, <2>2, <3>1, RateLimitAssumptions
      DEF RateInv, RateTyped, CallsInv, rateVars, InFlight
  <2>5. EntriesInv'
    BY <2>1 DEF RateInv, EntriesInv, InOrder, rateVars, Delay, Members
  <2>6. MeteredInv'
    BY <2>1, <2>2 DEF RateInv, RateTyped, MeteredInv, rateVars, PatternOf, Key, Space, Unmetered
  <2> QED
    BY <2>3, <2>4, <2>5, <2>6 DEF RateInv
<1>3. CASE RunScript(c)
  <2>1. /\ pc[c] \in InFlight
        /\ now' = [now EXCEPT ![c] = 0]
        /\ UNCHANGED <<backend, proc, clock>>
        /\ Counted(c, now[c])
    BY <1>3 DEF RunScript, Counted, InFlight
  <2>2. now[c] <= clock /\ clock <= now[c] + Delay /\ now[c] \in Times
    BY <2>1 DEF RateInv, RateTyped, CallsInv, Delay
  <2>3. now' \in [Calls -> Times] /\ \A d \in Calls \ {c} : now'[d] = now[d]
    BY <2>1, RateLimitAssumptions DEF RateInv, RateTyped, Times
  <2> QED
    BY <2>1, <2>2, <2>3, CountedKeeps DEF Unmetered, InFlight
<1>4. CASE BackendFails(c)
  BY <1>4, PlacesKeep, RateLimitAssumptions
  DEF BackendFails, GoTo, RateInv, RateTyped, Places, Times
<1> QED
  BY <1>1, <1>2, <1>3, <1>4 DEF LimiterStep

\* Time keeps the invariant: a request that is on its way holds it back.
LEMMA TickKeeps ==
    ASSUME RateInv, Tick
    PROVE  RateInv'
<1> USE RateLimitAssumptions DEF Tick, RateInv
<1>1. RateTyped'
  BY DEF RateTyped, RateTypeOK, Times
<1>2. CallsInv'
  <2>1. /\ clock \in Nat /\ MaxDelay \in Nat
        /\ \A c \in Calls : now[c] \in Nat /\ PatternOf(c)' = PatternOf(c)
    BY DEF RateTyped, RateTypeOK, Times, PatternOf
  <2> QED
    BY <2>1 DEF CallsInv, InFlight
<1>3. EntriesInv'
  <2>1. clock \in Nat /\ Delay \in Nat /\ Delay' = Delay
    BY DEF RateTyped, RateTypeOK, Times, Delay
  <2>2. \A k \in Keys : Window[k[2]] \in Nat
    BY DEF Keys
  <2>3. \A k \in Keys, c \in Calls : admitted[k][c] # None => admitted[k][c] \in Nat
    BY DEF RateTyped, RateTypeOK, Times
  <2>4. \A k \in Keys : Members(score[k])' = Members(score[k])
    BY DEF Members
  <2> SUFFICES ASSUME NEW k \in Keys PROVE InOrder(k)'
    BY DEF EntriesInv
  <2>5. \A c \in Calls : admitted[k][c] # None
            /\ clock + 1 + Delay < admitted[k][c] + Window[k[2]] => score[k][c] # None
    BY <2>1, <2>2, <2>3 DEF EntriesInv, InOrder
  <2> QED
    BY <2>1, <2>4, <2>5 DEF EntriesInv, InOrder
<1>4. MeteredInv'
  BY DEF MeteredInv, PatternOf, Key, Space
<1> QED
  BY <1>1, <1>2, <1>3, <1>4

\* From the registry on a call stays behind the windows that it has passed.
LEMMA AttributionPlaces ==
    ASSUME RateInv, NEW c \in Calls, AttributionStep(c) \/ Gate(c) \/ InsertApproval(c)
    PROVE  /\ UNCHANGED rateVars
           /\ pc[c] \in Places \ Unmetered
           /\ pc' \in [Calls -> Places] /\ now' \in [Calls -> Times]
           /\ \A d \in Calls \ {c} : pc'[d] = pc[d] /\ now'[d] = now[d]
           /\ pc'[c] \in (Places \ Unmetered) \union {"done"}
<1> USE RateLimitAssumptions DEF RateInv, RateTyped, Places, Unmetered, GoTo, Return, LinkOrReturn
<1>1. clock \in Times /\ 0 \in Times
  BY DEF RateTypeOK, Times
<1>2. CASE Attribute(c)
  BY <1>1, <1>2 DEF Attribute, NotAttributable, OpenRegistry, Recall
<1>3. CASE LockInit(c) \/ BuildPool(c)
  BY <1>3 DEF LockInit, BuildPool
<1>4. CASE Upsert(c)
  BY <1>1, <1>4 DEF Upsert
<1>5. CASE LinkCheck(c) \/ LinkInsert(c)
  BY <1>5 DEF LinkCheck, LinkInsert
<1>6. CASE Gate(c) \/ InsertApproval(c)
  BY <1>6 DEF Gate, InsertApproval, Leave
<1> QED
  BY <1>2, <1>3, <1>4, <1>5, <1>6 DEF AttributionStep

\* A restart of process p keeps the invariant: a call of its own is over, and a window of its
\* own is empty.
LEMMA RestartKeepsWindows ==
    ASSUME RateInv, NEW p \in Procs, Restart(p)
    PROVE  RateInv'
<1> DEFINE mine(k) == backend = "in_process" /\ k[1] = p
<1> DEFINE gone(c) == proc[c] = p /\ pc[c] # "global"
<1>1. /\ pc' = [c \in Calls |-> IF gone(c) THEN "done" ELSE pc[c]]
      /\ now' = [c \in Calls |-> IF gone(c) THEN 0 ELSE now[c]]
      /\ score' = [k \in Keys |-> IF mine(k) THEN [c \in Calls |-> None] ELSE score[k]]
      /\ admitted' = [k \in Keys |-> IF mine(k) THEN [c \in Calls |-> None] ELSE admitted[k]]
      /\ UNCHANGED <<backend, proc, clock>>
  BY DEF Restart
<1>2. RateTyped'
  BY <1>1, RateLimitAssumptions DEF RateInv, RateTyped, RateTypeOK, Places, Times
<1>3. CallsInv'
  BY <1>1 DEF RateInv, CallsInv, PatternOf, InFlight
<1>4. EntriesInv'
  <2> SUFFICES ASSUME NEW k \in Keys PROVE InOrder(k)'
    BY <1>1 DEF EntriesInv
  <2>1. CASE mine(k)
    <3>1. Members(score'[k]) = {} /\ Limit[k[2]] \in Nat
      BY <1>1, <2>1, RateLimitAssumptions DEF Members, Keys
    <3>2. Cardinality(Members(score'[k])) <= Limit[k[2]]
      BY <3>1, FS_EmptySet
    <3> QED
      BY <1>1, <2>1, <3>2 DEF InOrder, Members
  <2>2. CASE ~mine(k)
    <3>1. score'[k] = score[k] /\ admitted'[k] = admitted[k] /\ Delay' = Delay
      BY <1>1, <2>2 DEF Delay
    <3> QED
      BY <1>1, <3>1 DEF RateInv, EntriesInv, InOrder, Members
  <2> QED
    BY <2>1, <2>2
<1>5. MeteredInv'
  <2>1. \A c \in Calls, b \in Buckets :
            /\ Key(c, b)' = Key(c, b)
            /\ pc'[c] # "done" /\ pc'[c] # "global" => admitted'[Key(c, b)] = admitted[Key(c, b)]
    BY <1>1, KeyIsKey DEF Key, Space, RateInv, RateTyped
  <2>2. \A c \in Calls : /\ PatternOf(c)' = PatternOf(c)
                         /\ PatternOf(c) # None => PatternOf(c) \in Buckets
                         /\ pc'[c] \in {pc[c], "done"}
    BY <1>1, PatternIsBucket DEF PatternOf
  <2> SUFFICES ASSUME NEW c \in Calls, NEW b \in {"global", PatternOf(c)} \ {None},
                      admitted[Key(c, b)][c] # None, pc'[c] \notin {"done", "global"}
               PROVE  admitted'[Key(c, b)'][c] # None
    BY <2>2, RateLimitAssumptions DEF RateInv, MeteredInv, Unmetered
  <2> QED
    BY <2>1, <2>2, RateLimitAssumptions
<1> QED
  BY <1>2, <1>3, <1>4, <1>5 DEF RateInv

\* Every step keeps the invariant.
LEMMA RateStep ==
    ASSUME RateInv, [Next]_vars
    PROVE  RateInv'
<1>1. CASE UNCHANGED vars
  BY <1>1, PlacesKeep DEF vars, RateInv, RateTyped
<1>2. ASSUME NEW c \in Calls, CallStep(c) PROVE RateInv'
  <2>1. CASE LimiterStep(c)
    BY <2>1, LimiterKeeps
  <2>2. CASE AttributionStep(c) \/ Gate(c) \/ InsertApproval(c)
    BY <2>2, AttributionPlaces, PlacesKeep
  <2> QED
    BY <1>2, <2>1, <2>2 DEF CallStep
<1>3. ASSUME NEW c \in Calls, Cancel(c) PROVE RateInv'
  BY <1>3, PlacesKeep, RateLimitAssumptions
  DEF Cancel, Leave, GoTo, RateInv, RateTyped, Places, Times
<1>4. CASE Tick
  BY <1>4, TickKeeps
<1>5. ASSUME NEW p \in Procs, Restart(p) PROVE RateInv'
  BY <1>5, RestartKeepsWindows
<1> QED
  BY <1>1, <1>2, <1>3, <1>4, <1>5 DEF Next

\* Empty windows and calls that have not been made: the invariant holds.
LEMMA RateStart == Init => RateInv
<1> SUFFICES ASSUME Init PROVE RateInv
  OBVIOUS
<1>1. RateTyped
  BY RateLimitAssumptions DEF Init, RateInit, RateTyped, RateTypeOK, Places, Times
<1>2. CallsInv /\ MeteredInv
  BY DEF Init, CallsInv, MeteredInv, InFlight, Unmetered
<1>3. EntriesInv
  <2>1. \A k \in Keys : Members(score[k]) = {} /\ Limit[k[2]] \in Nat
    BY RateLimitAssumptions DEF Init, RateInit, Members, Keys
  <2>2. \A k \in Keys : Cardinality(Members(score[k])) <= Limit[k[2]]
    <3>1. Cardinality({}) = 0
      BY FS_EmptySet
    <3> QED
      BY <2>1, <3>1
  <2> QED
    BY <2>2 DEF Init, RateInit, EntriesInv, InOrder
<1> QED
  BY <1>1, <1>2, <1>3 DEF RateInv

\* The invariant of the limiter.
LEMMA RateAlways == Spec => []RateInv
<1>1. Init => RateInv
  BY RateStart
<1>2. RateInv /\ [Next]_vars => RateInv'
  BY RateStep
<1> QED
  BY <1>1, <1>2, PTL DEF Spec

\* The sliding window (RateLimitMiddleware, InProcessBackend.increment and the script of
\* DragonflyBackend.increment): whatever overtakes what, in any Window seconds, less the time a
\* request may have been on its way, no more calls than the limit are admitted.
THEOREM WindowsBounded == Spec => []WindowBound
<1>1. RateInv => WindowBound
  <2> SUFFICES ASSUME RateInv, NEW k \in Keys
               PROVE  Cardinality({c \in Calls :
                          admitted[k][c] # None
                              /\ clock + Delay < admitted[k][c] + Window[k[2]]}) <= Limit[k[2]]
    BY DEF WindowBound
  <2> DEFINE counted == {c \in Calls :
                  admitted[k][c] # None /\ clock + Delay < admitted[k][c] + Window[k[2]]}
  <2>1. counted \in SUBSET Members(score[k]) /\ Members(score[k]) \in SUBSET Calls
    BY DEF RateInv, EntriesInv, InOrder, Members
  <2>2. /\ Cardinality(counted) \in Nat
        /\ Cardinality(counted) <= Cardinality(Members(score[k]))
        /\ Cardinality(Members(score[k])) \in Nat
    BY <2>1, NoMore
  <2>3. Cardinality(Members(score[k])) <= Limit[k[2]] /\ Limit[k[2]] \in Nat
    BY RateLimitAssumptions DEF RateInv, EntriesInv, InOrder, Keys
  <2> QED
    BY <2>2, <2>3
<1> QED
  BY <1>1, RateAlways, PTL

\* RateLimitMiddleware fails closed: a call that has come to the registry, the gate or the
\* handler has a slot in every window that applies to it, whatever its backend answers.
THEOREM NothingGoesUnmetered == Spec => []NothingUnmetered
<1>1. RateInv => NothingUnmetered
  BY DEF RateInv, MeteredInv, NothingUnmetered, Unmetered
<1> QED
  BY <1>1, RateAlways, PTL

-----------------------------------------------------------------------------
\* The registry and the sessions.

\* Where a call holds something of the registry.
Holding == {"initLock", "build", "upsert", "link", "linkInsert", "approve"}

\* The calls between the check and the insertion of a link.
Linking(x) == {c \in Calls : pc[c] = "linkInsert" /\ Pair(c) = x}

\* Type correctness but for the bound on the links, which LinksInv gives.
SessTyped ==
    /\ registry \in [Procs -> {"unset", "live", "disabled"}]
    /\ initLock \in [Procs -> Calls \union {None}]
    /\ pools \in [Procs -> Nat]
    /\ owner \in [Runs -> Agents \union {None}]
    /\ lastSeen \in [Runs -> Times]
    /\ links \in [Runs \X Tasks -> Nat]
    /\ seen \in [Procs -> [Runs -> Times \union {None}]]
    /\ linked \in [Procs -> SUBSET (Runs \X Tasks)]
    /\ inGate \in [Calls -> BOOLEAN]
    /\ attributed \in [Calls -> Runs \union {None}]
    /\ lag \in [Calls -> Nat]
    /\ approval \in [Calls -> Runs \union {None, "none"}]
    /\ restarts \in 0..MaxRestarts

\* What a call knows of its run, by where it is.
FrameInv ==
    \A c \in Calls :
        /\ pc[c] \in {"initLock", "build", "upsert"} => RunOf[c] # None
        /\ pc[c] = "upsert" => now[c] <= clock
        /\ pc[c] \in {"link", "linkInsert"} =>
               /\ RunOf[c] # None /\ TaskOf[c] # None
               /\ owner[RunOf[c]] = Agent(c) /\ lag[c] < Refresh
        /\ attributed[c] # None =>
               /\ pc[c] = "approve"
               /\ owner[attributed[c]] = Agent(c) /\ lag[c] < Refresh
        /\ approval[c] \in Runs => owner[approval[c]] = Agent(c)

\* The lock of get_registry: whoever holds it is building, and nothing has been built.
PoolInv ==
    /\ \A p \in Procs :
           /\ pools[p] <= 1
           /\ registry[p] = "unset" => pools[p] = 0
           /\ initLock[p] # None => pc[initLock[p]] = "build" /\ proc[initLock[p]] = p
    /\ \A c \in Calls : pc[c] = "build" =>
           initLock[proc[c]] = c /\ registry[proc[c]] = "unset"

\* A memo is of a row that this agent owns, from before the row was last written.
MemoInv ==
    /\ MemoIsWritten
    /\ \A r \in Runs : lastSeen[r] <= clock

\* Each call inserts a link at most once, so there are no more than calls.
LinksInv ==
    \A x \in Runs \X Tasks : links[x] + Cardinality(Linking(x)) <= Cardinality(Calls)

SessInv == SessTyped /\ FrameInv /\ PoolInv /\ MemoInv /\ LinksInv

-----------------------------------------------------------------------------
\* The calls of a set can be counted.
LEMMA Counts ==
    /\ Cardinality(Calls) \in Nat
    /\ \A x : Linking(x) \in SUBSET Calls /\ Cardinality(Linking(x)) \in Nat
<1>1. \A x : Linking(x) \in SUBSET Calls
  BY DEF Linking
<1>2. Calls \in SUBSET Calls
  OBVIOUS
<1> QED
  BY <1>1, <1>2, NoMore

\* No link is inserted and no call is about to that was not before.
LEMMA LinksKeep ==
    ASSUME SessTyped, LinksInv, links' = links,
           \A c \in Calls : pc'[c] = "linkInsert" => pc[c] = "linkInsert"
    PROVE  LinksInv'
<1> SUFFICES ASSUME NEW x \in Runs \X Tasks
             PROVE  links[x] + Cardinality(Linking(x)') <= Cardinality(Calls)
  BY DEF LinksInv
<1>1. Linking(x)' \in SUBSET Linking(x)
  BY DEF Linking, Pair
<1>2. /\ Cardinality(Linking(x)') \in Nat
      /\ Cardinality(Linking(x)') <= Cardinality(Linking(x))
  BY <1>1, Counts, NoMore
<1>3. links[x] \in Nat
  BY DEF SessTyped
<1> QED
  BY <1>2, <1>3, Counts DEF LinksInv

\* The registry is left alone, and the same calls are building.
LEMMA PoolKeeps ==
    ASSUME SessTyped, PoolInv, UNCHANGED <<proc, regVars>>,
           \A c \in Calls : pc'[c] = "build" <=> pc[c] = "build"
    PROVE  PoolInv'
<1>1. \A p \in Procs : initLock[p] # None => initLock[p] \in Calls
  BY DEF SessTyped
<1> QED
  BY <1>1 DEF PoolInv, regVars

\* A step that leaves the registry, its tables and the memos alone, and moves no call into or
\* out of a place where it holds something.
LEMMA QuietKeeps ==
    ASSUME SessInv, UNCHANGED <<proc, clock, regVars, dbVars, memoVars, attributed, lag, approval, restarts>>,
           inGate' \in [Calls -> BOOLEAN],
           \A c \in Calls :
               \/ pc'[c] = pc[c] /\ now'[c] = now[c]
               \/ pc[c] \notin Holding /\ pc'[c] \notin Holding
    PROVE  SessInv'
<1> USE DEF SessInv, regVars, dbVars, memoVars
<1>1. SessTyped'
  BY DEF SessTyped
<1>2. FrameInv'
  BY DEF FrameInv, Holding, Agent
<1>3. PoolInv'
  BY PoolKeeps DEF Holding
<1>4. MemoInv'
  BY DEF MemoInv, MemoIsWritten
<1>5. LinksInv'
  BY LinksKeep DEF Holding
<1> QED
  BY <1>1, <1>2, <1>3, <1>4, <1>5

\* The limiter is quiet.
LEMMA LimiterQuiet ==
    ASSUME RateInv, SessInv, NEW c \in Calls, LimiterStep(c),
           UNCHANGED <<regVars, dbVars, memoVars, callVars, restarts>>
    PROVE  SessInv'
<1>1. /\ UNCHANGED <<proc, clock>>
      /\ pc[c] \notin Holding /\ pc'[c] \notin Holding
      /\ \A d \in Calls \ {c} : pc'[d] = pc[d] /\ now'[d] = now[d]
  <2> USE DEF RateInv, RateTyped, Holding, GoTo
  <2>1. CASE IncrementHere(c)
    BY <2>1 DEF IncrementHere, Onward
  <2>2. CASE Send(c)
    BY <2>2 DEF Send, Sent, rateVars
  <2>3. CASE RunScript(c)
    BY <2>3 DEF RunScript, Onward
  <2>4. CASE BackendFails(c)
    BY <2>4 DEF BackendFails, rateVars
  <2> QED
    BY <2>1, <2>2, <2>3, <2>4 DEF LimiterStep
<1> QED
  BY <1>1, QuietKeeps DEF callVars, SessInv, SessTyped

\* The gate is quiet.
LEMMA GateQuiet ==
    ASSUME RateInv, SessInv, NEW c \in Calls, Gate(c), UNCHANGED restarts
    PROVE  SessInv'
<1>1. /\ pc[c] \notin Holding /\ pc'[c] \notin Holding
      /\ \A d \in Calls \ {c} : pc'[d] = pc[d] /\ now'[d] = now[d]
      /\ inGate' \in [Calls -> BOOLEAN]
  BY DEF Gate, GoTo, Holding, RateInv, RateTyped, SessInv, SessTyped
<1> QED
  BY <1>1, QuietKeeps DEF Gate, rateVars

\* What a return changes: the call is at the gate's row or through, and knows its run.
LEMMA Returns ==
    ASSUME RateTyped, SessTyped, NEW c \in Calls, NEW v \in Runs \union {None}, Return(c, v)
    PROVE  /\ attributed' \in [Calls -> Runs \union {None}]
           /\ \A d \in Calls \ {c} : pc'[d] = pc[d] /\ attributed'[d] = attributed[d]
           /\ \/ pc'[c] = "approve" /\ attributed'[c] = v
              \/ pc'[c] \in {"forwarded", "gate"} /\ attributed'[c] = attributed[c]
BY DEF Return, GoTo, RateTyped, SessTyped

\* What follows a session that is this agent's and was seen less than Refresh ago.
LEMMA LinksOrReturns ==
    ASSUME RateTyped, SessTyped, NEW c \in Calls, RunOf[c] \in Runs, NEW old \in Nat,
           LinkOrReturn(c, old)
    PROVE  /\ attributed' \in [Calls -> Runs \union {None}]
           /\ lag' = [lag EXCEPT ![c] = old]
           /\ \A d \in Calls \ {c} : pc'[d] = pc[d] /\ attributed'[d] = attributed[d]
           /\ \/ pc'[c] = "approve" /\ attributed'[c] = RunOf[c]
              \/ pc'[c] \in {"forwarded", "gate"} /\ attributed'[c] = attributed[c]
              \/ pc'[c] = "link" /\ TaskOf[c] # None /\ attributed'[c] = attributed[c]
BY Returns DEF LinkOrReturn, GoTo, RateTyped, SessTyped

\* A run id that is not None is a run.
LEMMA RunIsRun ==
    ASSUME NEW c \in Calls
    PROVE  /\ RunOf[c] # None => RunOf[c] \in Runs
           /\ TaskOf[c] # None => TaskOf[c] \in Tasks
BY SessionsAssumptions

\* attribute_current_call up to its first await.
LEMMA AttributeKeeps ==
    ASSUME RateInv, SessInv, NEW c \in Calls, Attribute(c), UNCHANGED restarts
    PROVE  SessInv'
<1> USE DEF RateInv, SessInv
<1>1. /\ pc[c] = "attribute"
      /\ UNCHANGED <<proc, clock, registry, pools, dbVars, memoVars, inGate, approval>>
      /\ attributed[c] = None
      /\ proc[c] \in Procs
  BY DEF Attribute, rateVars, FrameInv, RateTyped, RateTypeOK
<1> USE DEF dbVars, memoVars
<1>2. CASE NotAttributable(c)
  <2>1. /\ UNCHANGED <<initLock, now, lag>>
        /\ attributed' \in [Calls -> Runs \union {None}]
        /\ \A d \in Calls \ {c} : pc'[d] = pc[d] /\ attributed'[d] = attributed[d]
        /\ pc'[c] \in {"approve", "forwarded", "gate"} /\ attributed'[c] = None
    BY <1>1, <1>2, Returns DEF NotAttributable
  <2>2. SessTyped'
    BY <1>1, <2>1 DEF SessTyped
  <2>3. FrameInv'
    BY <1>1, <2>1 DEF FrameInv, Agent
  <2>4. PoolInv'
    BY <1>1, <2>1, PoolKeeps DEF regVars
  <2>5. MemoInv'
    BY <1>1 DEF MemoInv, MemoIsWritten
  <2>6. LinksInv'
    BY <1>1, <2>1, LinksKeep
  <2> QED
    BY <2>2, <2>3, <2>4, <2>5, <2>6
<1>3. CASE OpenRegistry(c)
  <2>1. /\ UNCHANGED <<now, attributed, lag>>
        /\ RunOf[c] # None /\ registry[proc[c]] = "unset"
        /\ \A d \in Calls \ {c} : pc'[d] = pc[d]
        /\ \/ /\ initLock[proc[c]] = None /\ initLock' = [initLock EXCEPT ![proc[c]] = c]
              /\ pc'[c] = "build"
           \/ UNCHANGED initLock /\ pc'[c] = "initLock"
    BY <1>3 DEF OpenRegistry, GoTo, RateTyped
  <2>2. SessTyped'
    BY <1>1, <2>1 DEF SessTyped
  <2>3. FrameInv'
    BY <1>1, <2>1 DEF FrameInv, Agent
  <2>4. PoolInv'
    <3>1. CASE pc'[c] = "initLock"
      BY <1>1, <2>1, <3>1, PoolKeeps DEF regVars
    <3>2. CASE pc'[c] = "build"
      <4>1. /\ initLock' = [initLock EXCEPT ![proc[c]] = c]
            /\ initLock[proc[c]] = None /\ c # None
        BY <2>1, <3>2, RateLimitAssumptions
      <4>2. \A p \in Procs \ {proc[c]} : initLock'[p] = initLock[p]
        BY <4>1 DEF SessTyped
      <4>3. initLock'[proc[c]] = c
        BY <1>1, <4>1 DEF SessTyped
      <4>4. \A d \in Calls \ {c} : pc'[d] = "build" => proc[d] # proc[c]
        <5> SUFFICES ASSUME NEW d \in Calls \ {c}, pc'[d] = "build", proc[d] = proc[c]
                     PROVE  FALSE
          OBVIOUS
        <5>1. pc[d] = "build"
          BY <2>1
        <5>2. initLock[proc[c]] = d
          BY <1>1, <5>1 DEF PoolInv
        <5> QED
          BY <4>1, <5>2, RateLimitAssumptions
      <4>5. \A d \in Calls : proc[d] \in Procs
        BY DEF RateTyped, RateTypeOK
      <4>6. \A p \in Procs : initLock[p] # None => initLock[p] \in Calls \ {c}
        BY <1>1 DEF SessTyped, PoolInv
      <4>7. \A p \in Procs : initLock'[p] # None =>
                pc'[initLock'[p]] = "build" /\ proc[initLock'[p]] = p
        BY <2>1, <3>2, <4>2, <4>3, <4>6 DEF PoolInv
      <4> QED
        BY <1>1, <2>1, <3>2, <4>2, <4>3, <4>4, <4>5, <4>7 DEF PoolInv
    <3> QED
      BY <2>1, <3>1, <3>2
  <2>5. MemoInv'
    BY <1>1 DEF MemoInv, MemoIsWritten
  <2>6. LinksInv'
    BY <1>1, <2>1, LinksKeep
  <2> QED
    BY <2>2, <2>3, <2>4, <2>5, <2>6
<1>4. CASE Recall(c)
  <2>1. UNCHANGED initLock /\ RunOf[c] # None /\ RunOf[c] \in Runs
    BY <1>4, RunIsRun DEF Recall
  <2>2. CASE Due(proc[c], RunOf[c])
    <3>1. /\ pc' = [pc EXCEPT ![c] = "upsert"]
          /\ now' = [now EXCEPT ![c] = clock]
          /\ UNCHANGED <<attributed, lag>>
          /\ clock \in Nat
      BY <1>4, <2>2 DEF Recall, GoTo, RateTyped, RateTypeOK, Times
    <3>2. SessTyped'
      BY <1>1, <2>1, <3>1 DEF SessTyped
    <3>3. FrameInv'
      BY <1>1, <2>1, <3>1 DEF FrameInv, Agent, RateTyped
    <3>4. PoolInv'
      BY <1>1, <2>1, <3>1, PoolKeeps DEF regVars, RateTyped
    <3>5. MemoInv'
      BY <1>1 DEF MemoInv, MemoIsWritten
    <3>6. LinksInv'
      BY <1>1, <3>1, LinksKeep DEF RateTyped
    <3> QED
      BY <3>2, <3>3, <3>4, <3>5, <3>6
  <2>3. CASE ~Due(proc[c], RunOf[c])
    <3> DEFINE old == clock - lastSeen[RunOf[c]]
    <3>1. /\ owner[RunOf[c]] = Agent(c)
          /\ old \in Nat /\ old < Refresh
      <4>1. /\ seen[proc[c]][RunOf[c]] # None
            /\ ~ (clock >= seen[proc[c]][RunOf[c]] + Refresh)
        BY <2>3 DEF Due
      <4>2. /\ clock \in Nat /\ lastSeen[RunOf[c]] \in Nat /\ Refresh \in Nat
            /\ seen[proc[c]][RunOf[c]] \in Nat
        BY <1>1, <2>1, <4>1, SessionsAssumptions DEF RateTyped, RateTypeOK, SessTyped, Times
      <4>3. /\ owner[RunOf[c]] = AgentOf[proc[c]]
            /\ seen[proc[c]][RunOf[c]] <= lastSeen[RunOf[c]]
            /\ lastSeen[RunOf[c]] <= clock
        BY <1>1, <2>1, <4>1 DEF MemoInv, MemoIsWritten
      <4> QED
        BY <4>1, <4>2, <4>3 DEF Agent
    <3>2. LinkOrReturn(c, old) /\ UNCHANGED now
      BY <1>4, <2>3 DEF Recall
    <3> HIDE DEF old
    <3>3. /\ attributed' \in [Calls -> Runs \union {None}]
          /\ lag' = [lag EXCEPT ![c] = old]
          /\ \A d \in Calls \ {c} : pc'[d] = pc[d] /\ attributed'[d] = attributed[d]
          /\ \/ pc'[c] = "approve" /\ attributed'[c] = RunOf[c]
             \/ pc'[c] \in {"forwarded", "gate"} /\ attributed'[c] = None
             \/ pc'[c] = "link" /\ TaskOf[c] # None /\ attributed'[c] = None
      BY <1>1, <2>1, <3>1, <3>2, LinksOrReturns
    <3>4. SessTyped'
      BY <1>1, <2>1, <3>1, <3>3 DEF SessTyped
    <3>5. FrameInv'
      BY <1>1, <2>1, <3>1, <3>2, <3>3 DEF FrameInv, Agent, SessTyped
    <3>6. PoolInv'
      BY <1>1, <2>1, <3>3, PoolKeeps DEF regVars
    <3>7. MemoInv'
      BY <1>1 DEF MemoInv, MemoIsWritten
    <3>8. LinksInv'
      BY <1>1, <3>3, LinksKeep
    <3> QED
      BY <3>4, <3>5, <3>6, <3>7, <3>8
  <2> QED
    BY <2>2, <2>3
<1> QED
  BY <1>2, <1>3, <1>4 DEF Attribute

\* The wait for _init_lock.
LEMMA LockInitKeeps ==
    ASSUME RateInv, SessInv, NEW c \in Calls, LockInit(c), UNCHANGED restarts
    PROVE  SessInv'
<1> USE DEF RateInv, SessInv
<1>1. /\ pc[c] = "initLock" /\ initLock[proc[c]] = None
      /\ UNCHANGED <<proc, clock, registry, pools, now, dbVars, memoVars, callVars>>
      /\ \A d \in Calls \ {c} : pc'[d] = pc[d]
      /\ \/ /\ pc'[c] = "attribute" /\ UNCHANGED initLock
         \/ /\ pc'[c] = "build" /\ registry[proc[c]] = "unset"
            /\ initLock' = [initLock EXCEPT ![proc[c]] = c]
      /\ proc[c] \in Procs /\ c # None
  BY RateLimitAssumptions DEF LockInit, GoTo, rateVars, RateTyped, RateTypeOK
<1> USE DEF dbVars, memoVars, callVars
<1>2. SessTyped'
  <2>1. initLock' \in [Procs -> Calls \union {None}]
    BY <1>1 DEF SessTyped
  <2> QED
    BY <1>1, <2>1 DEF SessTyped
<1>3. FrameInv'
  BY <1>1 DEF FrameInv, Agent
<1>4. PoolInv'
  <2>1. CASE pc'[c] = "attribute"
    BY <1>1, <2>1, PoolKeeps DEF regVars
  <2>2. CASE pc'[c] = "build"
    <3>1. /\ \A p \in Procs \ {proc[c]} : initLock'[p] = initLock[p]
          /\ initLock'[proc[c]] = c
      BY <1>1, <2>2 DEF SessTyped
    <3>2. \A d \in Calls \ {c} : pc'[d] = "build" => proc[d] # proc[c]
      BY <1>1, RateLimitAssumptions DEF PoolInv
    <3>3. \A d \in Calls : proc[d] \in Procs
      BY DEF RateTyped, RateTypeOK
    <3>4. \A p \in Procs : initLock[p] # None => initLock[p] \in Calls \ {c}
      BY <1>1 DEF SessTyped, PoolInv
    <3>5. \A p \in Procs : initLock'[p] # None =>
              pc'[initLock'[p]] = "build" /\ proc[initLock'[p]] = p
      BY <1>1, <2>2, <3>1, <3>4 DEF PoolInv
    <3> QED
      BY <1>1, <2>2, <3>1, <3>2, <3>3, <3>5 DEF PoolInv
  <2> QED
    BY <1>1, <2>1, <2>2
<1>5. MemoInv'
  BY <1>1 DEF MemoInv, MemoIsWritten
<1>6. LinksInv'
  BY <1>1, LinksKeep
<1> QED
  BY <1>2, <1>3, <1>4, <1>5, <1>6

\* Nobody builds for process p and nobody holds its lock.
LEMMA PoolReleased ==
    ASSUME SessTyped, PoolInv, NEW p \in Procs, UNCHANGED proc,
           \A d \in Calls : proc[d] \in Procs,
           \A d \in Calls : proc[d] # p => (pc'[d] = "build" <=> pc[d] = "build"),
           \A d \in Calls : proc[d] = p => pc'[d] # "build",
           \A q \in Procs \ {p} : /\ initLock'[q] = initLock[q] /\ registry'[q] = registry[q]
                                  /\ pools'[q] = pools[q],
           initLock'[p] = None, pools'[p] <= 1, registry'[p] = "unset" => pools'[p] = 0
    PROVE  PoolInv'
<1>1. \A q \in Procs : initLock[q] # None => initLock[q] \in Calls
  BY DEF SessTyped
<1>2. \A q \in Procs : initLock'[q] # None =>
          pc'[initLock'[q]] = "build" /\ proc[initLock'[q]] = q
  BY <1>1 DEF PoolInv
<1> QED
  BY <1>2 DEF PoolInv

\* _build_pool opens the pool, and the lock is free.
LEMMA BuildPoolKeeps ==
    ASSUME RateInv, SessInv, NEW c \in Calls, BuildPool(c), UNCHANGED restarts
    PROVE  SessInv'
<1> USE DEF RateInv, SessInv
<1>1. /\ pc[c] = "build"
      /\ initLock' = [initLock EXCEPT ![proc[c]] = None]
      /\ \/ /\ registry' = [registry EXCEPT ![proc[c]] = "live"]
            /\ pools' = [pools EXCEPT ![proc[c]] = @ + 1]
         \/ /\ registry' = [registry EXCEPT ![proc[c]] = "disabled"]
            /\ UNCHANGED pools
      /\ UNCHANGED <<proc, clock, now, dbVars, memoVars, callVars>>
      /\ \A d \in Calls \ {c} : pc'[d] = pc[d]
      /\ pc'[c] = "attribute"
      /\ \A d \in Calls : proc[d] \in Procs
  BY DEF BuildPool, GoTo, rateVars, RateTyped, RateTypeOK
<1> USE DEF dbVars, memoVars, callVars
<1>2. SessTyped'
  <2>1. /\ initLock' \in [Procs -> Calls \union {None}]
        /\ registry' \in [Procs -> {"unset", "live", "disabled"}]
    BY <1>1 DEF SessTyped
  <2>2. pools' \in [Procs -> Nat]
    BY <1>1 DEF SessTyped
  <2> QED
    BY <1>1, <2>1, <2>2 DEF SessTyped
<1>3. FrameInv'
  BY <1>1 DEF FrameInv, Agent
<1>4. PoolInv'
  <2>1. pools[proc[c]] = 0 /\ initLock[proc[c]] = c
    BY <1>1 DEF PoolInv
  <2>2. \A d \in Calls : proc[d] = proc[c] => pc'[d] # "build"
    BY <1>1, <2>1 DEF PoolInv
  <2>3. /\ \A q \in Procs \ {proc[c]} : /\ initLock'[q] = initLock[q]
                                       /\ registry'[q] = registry[q] /\ pools'[q] = pools[q]
        /\ initLock'[proc[c]] = None /\ pools'[proc[c]] <= 1 /\ registry'[proc[c]] # "unset"
    BY <1>1, <2>1 DEF SessTyped
  <2> QED
    BY <1>1, <2>2, <2>3, PoolReleased
<1>5. MemoInv'
  BY <1>1 DEF MemoInv, MemoIsWritten
<1>6. LinksInv'
  BY <1>1, LinksKeep
<1> QED
  BY <1>2, <1>3, <1>4, <1>5, <1>6

\* upsert_session: the row becomes this agent's or stays so, and no other's is touched.
LEMMA UpsertKeeps ==
    ASSUME RateInv, SessInv, NEW c \in Calls, Upsert(c), UNCHANGED restarts
    PROVE  SessInv'
<1> USE DEF RateInv, SessInv
<1>1. /\ pc[c] = "upsert" /\ now[c] <= clock /\ now[c] \in Times /\ now[c] \in Nat
      /\ RunOf[c] \in Runs /\ RunOf[c] # None
      /\ UNCHANGED <<proc, clock, regVars, links, linked, inGate, approval>>
      /\ now' = [now EXCEPT ![c] = 0]
      /\ attributed[c] = None
      /\ clock \in Times /\ clock \in Nat
      /\ proc[c] \in Procs /\ Agent(c) \in Agents /\ Agent(c) # None
  BY RunIsRun, RateLimitAssumptions
  DEF Upsert, rateVars, FrameInv, RateTyped, RateTypeOK, Times, Agent
<1> USE DEF regVars
<1>2. \/ /\ MayWrite(c)
         /\ owner' = [owner EXCEPT ![RunOf[c]] = Agent(c)]
         /\ lastSeen' = [lastSeen EXCEPT ![RunOf[c]] = clock]
      \/ UNCHANGED <<owner, lastSeen>>
  BY DEF Upsert
<1>3. \/ /\ Remember(proc[c], RunOf[c], now[c]) /\ LinkOrReturn(c, 0)
         /\ owner'[RunOf[c]] = Agent(c) /\ lastSeen'[RunOf[c]] = clock
      \/ Return(c, None) /\ UNCHANGED <<seen, lag>>
  BY <1>1 DEF Upsert, SessTyped
<1>4. /\ \A r \in Runs : owner[r] # None => owner'[r] = owner[r]
      /\ \A r \in Runs : /\ lastSeen[r] <= lastSeen'[r] /\ lastSeen'[r] <= clock
                         /\ lastSeen[r] \in Nat /\ lastSeen'[r] \in Nat
      /\ owner' \in [Runs -> Agents \union {None}]
      /\ lastSeen' \in [Runs -> Times]
  <2>1. \A r \in Runs : lastSeen[r] \in Nat /\ lastSeen[r] <= clock
    BY DEF SessTyped, MemoInv, Times
  <2>2. CASE /\ MayWrite(c)
             /\ owner' = [owner EXCEPT ![RunOf[c]] = Agent(c)]
             /\ lastSeen' = [lastSeen EXCEPT ![RunOf[c]] = clock]
    <3>1. \A r \in Runs : /\ owner'[r] = IF r = RunOf[c] THEN Agent(c) ELSE owner[r]
                          /\ lastSeen'[r] = IF r = RunOf[c] THEN clock ELSE lastSeen[r]
      BY <2>2 DEF SessTyped
    <3>2. owner[RunOf[c]] \in {None, Agent(c)}
      BY <2>2 DEF MayWrite
    <3>3. owner' \in [Runs -> Agents \union {None}] /\ lastSeen' \in [Runs -> Times]
      BY <1>1, <2>2 DEF SessTyped
    <3> QED
      BY <1>1, <2>1, <3>1, <3>2, <3>3
  <2>3. CASE UNCHANGED <<owner, lastSeen>>
    BY <2>1, <2>3 DEF SessTyped
  <2> QED
    BY <1>2, <2>2, <2>3
<1>5. /\ attributed' \in [Calls -> Runs \union {None}]
      /\ lag' \in [Calls -> Nat]
      /\ \A d \in Calls \ {c} : /\ pc'[d] = pc[d] /\ attributed'[d] = attributed[d]
                                /\ lag'[d] = lag[d]
      /\ \/ /\ pc'[c] = "approve" /\ attributed'[c] = RunOf[c]
            /\ lag'[c] = 0 /\ owner'[RunOf[c]] = Agent(c)
         \/ /\ pc'[c] \in {"approve", "forwarded", "gate"} /\ attributed'[c] = None
         \/ /\ pc'[c] = "link" /\ TaskOf[c] # None /\ attributed'[c] = None
            /\ lag'[c] = 0 /\ owner'[RunOf[c]] = Agent(c)
  <2>1. CASE Return(c, None) /\ UNCHANGED <<seen, lag>>
    BY <1>1, <2>1, Returns DEF SessTyped
  <2>2. CASE LinkOrReturn(c, 0) /\ owner'[RunOf[c]] = Agent(c)
    <3>1. /\ attributed' \in [Calls -> Runs \union {None}]
          /\ lag' = [lag EXCEPT ![c] = 0]
          /\ \A d \in Calls \ {c} : pc'[d] = pc[d] /\ attributed'[d] = attributed[d]
          /\ \/ pc'[c] = "approve" /\ attributed'[c] = RunOf[c]
             \/ pc'[c] \in {"forwarded", "gate"} /\ attributed'[c] = attributed[c]
             \/ pc'[c] = "link" /\ TaskOf[c] # None /\ attributed'[c] = attributed[c]
      BY <1>1, <2>2, LinksOrReturns
    <3> QED
      BY <1>1, <2>2, <3>1 DEF SessTyped
  <2> QED
    BY <1>3, <2>1, <2>2
<1>6. /\ seen' \in [Procs -> [Runs -> Times \union {None}]]
      /\ \A p \in Procs, r \in Runs : seen'[p][r] # None =>
             \/ seen'[p][r] = seen[p][r]
             \/ /\ p = proc[c] /\ r = RunOf[c] /\ seen'[p][r] = now[c]
                /\ owner'[r] = Agent(c) /\ lastSeen'[r] = clock
  <2>1. CASE UNCHANGED seen
    BY <2>1 DEF SessTyped
  <2>2. CASE /\ Remember(proc[c], RunOf[c], now[c])
             /\ owner'[RunOf[c]] = Agent(c) /\ lastSeen'[RunOf[c]] = clock
    <3> DEFINE with == [seen[proc[c]] EXCEPT ![RunOf[c]] = now[c]]
    <3>1. /\ with \in [Runs -> Times \union {None}]
          /\ \A r \in Runs : with[r] = IF r = RunOf[c] THEN now[c] ELSE seen[proc[c]][r]
      BY <1>1 DEF SessTyped
    <3>2. \/ seen' = [seen EXCEPT ![proc[c]] = with]
          \/ \E q \in Runs : seen' = [seen EXCEPT ![proc[c]] = [with EXCEPT ![q] = None]]
      BY <2>2 DEF Remember
    <3> HIDE DEF with
    <3>3. CASE seen' = [seen EXCEPT ![proc[c]] = with]
      BY <1>1, <2>2, <3>1, <3>3 DEF SessTyped
    <3>4. ASSUME NEW q \in Runs, seen' = [seen EXCEPT ![proc[c]] = [with EXCEPT ![q] = None]]
          PROVE  /\ seen' \in [Procs -> [Runs -> Times \union {None}]]
                 /\ \A p \in Procs, r \in Runs : seen'[p][r] # None =>
                        \/ seen'[p][r] = seen[p][r]
                        \/ p = proc[c] /\ r = RunOf[c] /\ seen'[p][r] = now[c]
      BY <1>1, <3>1, <3>4 DEF SessTyped
    <3> QED
      BY <2>2, <3>2, <3>3, <3>4
  <2> QED
    BY <1>3, <2>1, <2>2
<1>7. SessTyped'
  BY <1>1, <1>4, <1>5, <1>6 DEF SessTyped
<1>8. FrameInv'
  <2> SUFFICES ASSUME NEW d \in Calls
               PROVE  /\ pc'[d] \in {"initLock", "build", "upsert"} => RunOf[d] # None
                      /\ pc'[d] = "upsert" => now'[d] <= clock
                      /\ pc'[d] \in {"link", "linkInsert"} =>
                             /\ RunOf[d] # None /\ TaskOf[d] # None
                             /\ owner'[RunOf[d]] = Agent(d) /\ lag'[d] < Refresh
                      /\ attributed'[d] # None =>
                             /\ pc'[d] = "approve"
                             /\ owner'[attributed'[d]] = Agent(d) /\ lag'[d] < Refresh
                      /\ approval[d] \in Runs => owner'[approval[d]] = Agent(d)
    BY <1>1 DEF FrameInv, Agent
  <2>1. Agent(d) # None
    BY RateLimitAssumptions DEF Agent, RateTyped, RateTypeOK
  <2>2. approval[d] \in Runs => owner'[approval[d]] = Agent(d)
    BY <1>4, <2>1 DEF FrameInv
  <2>3. CASE d = c
    BY <1>1, <1>5, <2>2, <2>3, SessionsAssumptions
  <2>4. CASE d # c
    <3>1. now'[d] = now[d] /\ (RunOf[d] # None => RunOf[d] \in Runs)
      BY <1>1, <2>4, RunIsRun DEF RateTyped
    <3>2. attributed[d] # None => attributed[d] \in Runs
      BY DEF SessTyped
    <3> QED
      BY <1>4, <1>5, <2>1, <2>2, <2>4, <3>1, <3>2 DEF FrameInv
  <2> QED
    BY <2>3, <2>4
<1>9. PoolInv'
  BY <1>1, <1>5, PoolKeeps
<1>10. MemoInv'
  <2>1. \A p \in Procs, r \in Runs : seen'[p][r] # None =>
            owner'[r] = AgentOf[p] /\ seen'[p][r] <= lastSeen'[r]
    <3> SUFFICES ASSUME NEW p \in Procs, NEW r \in Runs, seen'[p][r] # None
                 PROVE  owner'[r] = AgentOf[p] /\ seen'[p][r] <= lastSeen'[r]
      OBVIOUS
    <3>1. CASE seen'[p][r] = seen[p][r]
      <4>1. owner[r] = AgentOf[p] /\ seen[p][r] <= lastSeen[r] /\ owner[r] # None
        BY <3>1, RateLimitAssumptions DEF MemoInv, MemoIsWritten
      <4>2. seen[p][r] \in Nat
        BY <3>1 DEF SessTyped, Times
      <4> QED
        BY <1>4, <3>1, <4>1, <4>2
    <3>2. CASE /\ p = proc[c] /\ r = RunOf[c] /\ seen'[p][r] = now[c]
               /\ owner'[r] = Agent(c) /\ lastSeen'[r] = clock
      BY <1>1, <3>2 DEF Agent
    <3> QED
      BY <1>6, <3>1, <3>2
  <2> QED
    BY <1>1, <1>4, <2>1 DEF MemoInv, MemoIsWritten
<1>11. LinksInv'
  BY <1>1, <1>5, LinksKeep
<1> QED
  BY <1>7, <1>8, <1>9, <1>10, <1>11

\* The check of insert_session_task: a call that finds no link is about to insert it.
LEMMA LinkCheckKeeps ==
    ASSUME RateInv, SessInv, NEW c \in Calls, LinkCheck(c), UNCHANGED restarts
    PROVE  SessInv'
<1> USE DEF RateInv, SessInv
<1>1. /\ pc[c] = "link" /\ RunOf[c] \in Runs /\ TaskOf[c] \in Tasks
      /\ Pair(c) \in Runs \X Tasks
      /\ owner[RunOf[c]] = Agent(c) /\ lag[c] < Refresh
      /\ UNCHANGED <<proc, clock, regVars, dbVars, seen, now, inGate, lag, approval>>
      /\ attributed[c] = None
      /\ proc[c] \in Procs
  BY RunIsRun DEF LinkCheck, rateVars, FrameInv, RateTyped, RateTypeOK, Pair
<1> USE DEF regVars, dbVars
<1>2. /\ attributed' \in [Calls -> Runs \union {None}]
      /\ \A d \in Calls \ {c} : pc'[d] = pc[d] /\ attributed'[d] = attributed[d]
      /\ \/ pc'[c] = "approve" /\ attributed'[c] = RunOf[c]
         \/ pc'[c] \in {"forwarded", "gate"} /\ attributed'[c] = None
         \/ pc'[c] = "linkInsert" /\ attributed'[c] = None /\ links[Pair(c)] = 0
  <2>1. CASE Return(c, RunOf[c])
    BY <1>1, <2>1, Returns
  <2>2. CASE links[Pair(c)] = 0 /\ GoTo(c, "linkInsert") /\ UNCHANGED attributed
    BY <1>1, <2>2 DEF GoTo, SessTyped, RateTyped
  <2> QED
    BY <2>1, <2>2 DEF LinkCheck
<1>3. \/ /\ links[Pair(c)] > 0
         /\ linked' = [linked EXCEPT ![proc[c]] = @ \union {Pair(c)}]
      \/ UNCHANGED linked
  BY DEF LinkCheck
<1>4. linked' \in [Procs -> SUBSET (Runs \X Tasks)]
  BY <1>1, <1>3 DEF SessTyped
<1>5. SessTyped'
  BY <1>1, <1>2, <1>4 DEF SessTyped
<1>6. FrameInv'
  BY <1>1, <1>2, SessionsAssumptions DEF FrameInv, Agent
<1>7. PoolInv'
  BY <1>1, <1>2, PoolKeeps
<1>8. MemoInv'
  <2>1. \A p \in Procs : \A x \in linked'[p] : links[x] > 0
    <3> SUFFICES ASSUME NEW p \in Procs, NEW x \in linked'[p] PROVE links[x] > 0
      OBVIOUS
    <3>1. CASE x \in linked[p]
      BY <3>1 DEF MemoInv, MemoIsWritten
    <3>2. CASE x \notin linked[p]
      BY <1>1, <1>3, <3>2 DEF SessTyped
    <3> QED
      BY <3>1, <3>2
  <2> QED
    BY <1>1, <2>1 DEF MemoInv, MemoIsWritten
<1>9. LinksInv'
  <2>1. CASE pc'[c] # "linkInsert"
    BY <1>1, <1>2, <2>1, LinksKeep
  <2>2. CASE pc'[c] = "linkInsert"
    <3> SUFFICES ASSUME NEW x \in Runs \X Tasks
                 PROVE  links[x] + Cardinality(Linking(x)') <= Cardinality(Calls)
      BY <1>1 DEF LinksInv
    <3>1. Linking(x)' \in SUBSET Calls /\ Calls \in SUBSET Calls
      BY DEF Linking
    <3>2. /\ Cardinality(Linking(x)') \in Nat
          /\ Cardinality(Linking(x)') <= Cardinality(Calls)
      BY <3>1, NoMore
    <3>3. CASE x = Pair(c)
      BY <1>2, <2>2, <3>2, <3>3
    <3>4. CASE x # Pair(c)
      <4>1. Linking(x)' \in SUBSET Linking(x)
        BY <1>1, <1>2, <3>4 DEF Linking, Pair
      <4>2. Cardinality(Linking(x)') <= Cardinality(Linking(x))
        BY <4>1, Counts, NoMore
      <4>3. links[x] \in Nat
        BY DEF SessTyped
      <4> QED
        BY <3>2, <4>2, <4>3, Counts DEF LinksInv
    <3> QED
      BY <3>3, <3>4
  <2> QED
    BY <2>1, <2>2
<1> QED
  BY <1>5, <1>6, <1>7, <1>8, <1>9

\* The insertion of insert_session_task, written or not, memoised only if it was.
LEMMA LinkInsertKeeps ==
    ASSUME RateInv, SessInv, NEW c \in Calls, LinkInsert(c), UNCHANGED restarts
    PROVE  SessInv'
<1> USE DEF RateInv, SessInv
<1>1. /\ pc[c] = "linkInsert" /\ RunOf[c] \in Runs /\ TaskOf[c] \in Tasks
      /\ Pair(c) \in Runs \X Tasks
      /\ owner[RunOf[c]] = Agent(c) /\ lag[c] < Refresh
      /\ UNCHANGED <<proc, clock, regVars, owner, lastSeen, seen, now, inGate, lag, approval>>
      /\ attributed[c] = None
      /\ proc[c] \in Procs
      /\ links[Pair(c)] \in Nat
  BY RunIsRun DEF LinkInsert, rateVars, FrameInv, RateTyped, RateTypeOK, Pair, SessTyped
<1> USE DEF regVars
<1>2. /\ attributed' \in [Calls -> Runs \union {None}]
      /\ \A d \in Calls \ {c} : pc'[d] = pc[d] /\ attributed'[d] = attributed[d]
      /\ \/ pc'[c] = "approve" /\ attributed'[c] = RunOf[c]
         \/ pc'[c] \in {"forwarded", "gate"} /\ attributed'[c] = None
  BY <1>1, Returns DEF LinkInsert
<1>3. \/ /\ links' = [links EXCEPT ![Pair(c)] = @ + 1]
         /\ linked' \in {linked, [linked EXCEPT ![proc[c]] = @ \union {Pair(c)}]}
      \/ UNCHANGED <<links, linked>>
  BY DEF LinkInsert
<1>4. /\ linked' \in [Procs -> SUBSET (Runs \X Tasks)]
      /\ links' \in [Runs \X Tasks -> Nat]
      /\ \A x \in Runs \X Tasks : links[x] \in Nat /\ links'[x] >= links[x]
  <2>1. linked' \in [Procs -> SUBSET (Runs \X Tasks)]
    BY <1>1, <1>3 DEF SessTyped
  <2>2. links' \in [Runs \X Tasks -> Nat]
    BY <1>1, <1>3 DEF SessTyped
  <2>3. \A x \in Runs \X Tasks : links[x] \in Nat /\ links'[x] >= links[x]
    <3>1. CASE UNCHANGED links
      BY <3>1 DEF SessTyped
    <3>2. CASE links' = [links EXCEPT ![Pair(c)] = @ + 1]
      BY <1>1, <3>2 DEF SessTyped
    <3> QED
      BY <1>3, <3>1, <3>2
  <2> QED
    BY <2>1, <2>2, <2>3
<1>5. SessTyped'
  BY <1>1, <1>2, <1>4 DEF SessTyped
<1>6. FrameInv'
  BY <1>1, <1>2, SessionsAssumptions DEF FrameInv, Agent
<1>7. PoolInv'
  BY <1>1, <1>2, PoolKeeps
<1>8. MemoInv'
  <2>1. \A p \in Procs : \A x \in linked'[p] : links'[x] > 0
    <3> SUFFICES ASSUME NEW p \in Procs, NEW x \in linked'[p]
                 PROVE  links'[x] > 0
      OBVIOUS
    <3>1. x \in Runs \X Tasks /\ links[x] \in Nat /\ links'[x] \in Nat
      BY <1>4
    <3>2. CASE x \in linked[p]
      BY <1>4, <3>1, <3>2 DEF MemoInv, MemoIsWritten
    <3>3. CASE x \notin linked[p]
      <4>1. x = Pair(c) /\ links'[Pair(c)] = links[Pair(c)] + 1
        BY <1>1, <1>3, <3>3 DEF SessTyped
      <4> QED
        BY <1>1, <4>1
    <3> QED
      BY <3>2, <3>3
  <2> QED
    BY <1>1, <2>1 DEF MemoInv, MemoIsWritten
<1>9. LinksInv'
  <2> SUFFICES ASSUME NEW x \in Runs \X Tasks
               PROVE  links'[x] + Cardinality(Linking(x)') <= Cardinality(Calls)
    BY DEF LinksInv
  <2>1. Linking(x)' \in SUBSET Linking(x) /\ c \notin Linking(x)'
    BY <1>1, <1>2 DEF Linking, Pair
  <2>2. /\ Cardinality(Linking(x)') \in Nat
        /\ Cardinality(Linking(x)') <= Cardinality(Linking(x))
    BY <2>1, Counts, NoMore
  <2>3. links[x] \in Nat /\ links[x] + Cardinality(Linking(x)) <= Cardinality(Calls)
    BY DEF SessTyped, LinksInv
  <2>4. CASE links'[x] = links[x]
    BY <2>2, <2>3, <2>4, Counts
  <2>5. CASE links'[x] # links[x]
    <3>1. x = Pair(c) /\ links'[x] = links[x] + 1
      BY <1>1, <1>3, <2>5 DEF SessTyped
    <3>2. c \in Linking(x)
      BY <1>1, <3>1 DEF Linking
    <3>3. Linking(x)' \in SUBSET (Linking(x) \ {c}) /\ Linking(x) \ {c} \in SUBSET Calls
      BY <2>1, Counts
    <3>4. IsFiniteSet(Linking(x))
      BY Counts, NoMore
    <3>5. Cardinality(Linking(x) \ {c}) = Cardinality(Linking(x)) - 1
      BY <3>2, <3>4, FS_RemoveElement
    <3>6. Cardinality(Linking(x)') <= Cardinality(Linking(x) \ {c})
      BY <3>3, NoMore
    <3> QED
      BY <2>2, <2>3, <3>1, <3>5, <3>6, Counts
  <2> QED
    BY <2>4, <2>5
<1> QED
  BY <1>5, <1>6, <1>7, <1>8, <1>9

\* A call that leaves, with or without a row for its request.
LEMMA LeaveKeeps ==
    ASSUME RateInv, SessInv, NEW c \in Calls, Leave(c),
           UNCHANGED <<proc, clock, registry, pools, dbVars, memoVars, restarts>>,
           \A d \in Calls \ {c} : now'[d] = now[d] /\ approval'[d] = approval[d],
           approval' \in [Calls -> Runs \union {None, "none"}],
           approval'[c] = approval[c]
               \/ (pc[c] = "approve" /\ approval'[c] \in {None, attributed[c]}),
           initLock' = Released(c)
    PROVE  SessInv'
<1> USE DEF RateInv, SessInv, dbVars, memoVars
<1>1. /\ pc'[c] = "done" /\ attributed'[c] = None
      /\ \A d \in Calls \ {c} : pc'[d] = pc[d] /\ attributed'[d] = attributed[d] /\ lag'[d] = lag[d]
      /\ attributed' \in [Calls -> Runs \union {None}]
      /\ lag' \in [Calls -> Nat] /\ inGate' \in [Calls -> BOOLEAN]
  BY DEF Leave, GoTo, RateTyped, SessTyped
<1>2. \A p \in Procs : initLock'[p] = IF initLock[p] = c THEN None ELSE initLock[p]
  BY DEF Released
<1>3. SessTyped'
  <2>1. initLock' \in [Procs -> Calls \union {None}]
    BY DEF Released, SessTyped
  <2> QED
    BY <1>1, <2>1 DEF SessTyped
<1>4. FrameInv'
  <2>1. \A d \in Calls : approval'[d] \in Runs => owner[approval'[d]] = Agent(d)
    BY SessionsAssumptions DEF FrameInv
  <2> QED
    BY <1>1, <2>1 DEF FrameInv, Agent
<1>5. PoolInv'
  <2>1. \A p \in Procs : initLock[p] # None => initLock[p] \in Calls
    BY DEF SessTyped
  <2>2. \A p \in Procs : initLock'[p] # None =>
            pc'[initLock'[p]] = "build" /\ proc[initLock'[p]] = p
    BY <1>1, <1>2, <2>1 DEF PoolInv
  <2>3. \A d \in Calls : pc'[d] = "build" =>
            initLock'[proc[d]] = d /\ registry[proc[d]] = "unset"
    BY <1>1, <1>2 DEF PoolInv, RateTyped, RateTypeOK
  <2> QED
    BY <2>2, <2>3 DEF PoolInv
<1>6. MemoInv'
  BY DEF MemoInv, MemoIsWritten
<1>7. LinksInv'
  BY <1>1, LinksKeep
<1> QED
  BY <1>3, <1>4, <1>5, <1>6, <1>7

\* The row of the request that the gate has recorded.
LEMMA InsertApprovalKeeps ==
    ASSUME RateInv, SessInv, NEW c \in Calls, InsertApproval(c), UNCHANGED restarts
    PROVE  SessInv'
<1>1. /\ pc[c] = "approve" /\ Leave(c)
      /\ UNCHANGED <<proc, clock, regVars, dbVars, memoVars, now>>
  BY DEF InsertApproval, rateVars
<1>2. /\ approval' \in [Calls -> Runs \union {None, "none"}]
      /\ \A d \in Calls \ {c} : approval'[d] = approval[d]
      /\ approval'[c] \in {approval[c], None, attributed[c]}
  BY DEF InsertApproval, SessionOf, SessInv, SessTyped
<1>3. initLock' = Released(c)
  <2>1. \A p \in Procs : initLock[p] # c
    <3> SUFFICES ASSUME NEW p \in Procs, initLock[p] = c PROVE FALSE
      OBVIOUS
    <3>1. pc[initLock[p]] = "build"
      BY RateLimitAssumptions DEF SessInv, PoolInv
    <3> QED
      BY <1>1, <3>1
  <2>2. initLock = [p \in Procs |-> initLock[p]]
    BY DEF SessInv, SessTyped
  <2>3. Released(c) = [p \in Procs |-> initLock[p]]
    BY <2>1 DEF Released
  <2> QED
    BY <1>1, <2>2, <2>3 DEF regVars
<1> QED
  BY <1>1, <1>2, <1>3, LeaveKeeps DEF regVars

\* A request that is cancelled leaves the lock, wherever it is.
LEMMA CancelKeeps ==
    ASSUME RateInv, SessInv, NEW c \in Calls, Cancel(c), UNCHANGED restarts
    PROVE  SessInv'
<1>1. /\ Leave(c) /\ initLock' = Released(c)
      /\ UNCHANGED <<proc, clock, registry, pools, dbVars, memoVars, approval>>
      /\ \A d \in Calls \ {c} : now'[d] = now[d]
  BY DEF Cancel, rateVars, RateInv, RateTyped
<1> QED
  BY <1>1, LeaveKeeps DEF SessInv, SessTyped

\* Time leaves the registry alone.
LEMMA TickQuiet ==
    ASSUME RateInv, SessInv, Tick, UNCHANGED <<regVars, dbVars, memoVars, callVars, restarts>>
    PROVE  SessInv'
<1> USE DEF RateInv, SessInv, Tick, regVars, dbVars, memoVars, callVars
<1>1. clock \in Nat /\ clock' = clock + 1
  BY DEF RateTyped, RateTypeOK, Times
<1>2. SessTyped'
  BY DEF SessTyped
<1>3. FrameInv'
  <2>1. \A c \in Calls : now[c] \in Nat
    BY DEF RateTyped, Times
  <2> QED
    BY <1>1, <2>1 DEF FrameInv, Agent
<1>4. PoolInv'
  BY PoolKeeps
<1>5. MemoInv'
  <2>1. \A r \in Runs : lastSeen[r] \in Nat
    BY DEF SessTyped, Times
  <2> QED
    BY <1>1, <2>1 DEF MemoInv, MemoIsWritten
<1>6. LinksInv'
  BY LinksKeep
<1> QED
  BY <1>2, <1>3, <1>4, <1>5, <1>6

\* A process that starts again has no registry, no memo and no call.
LEMMA RestartKeepsSessions ==
    ASSUME RateInv, SessInv, NEW p \in Procs, Restart(p)
    PROVE  SessInv'
<1> USE DEF RateInv, SessInv
<1> DEFINE gone(c) == proc[c] = p /\ pc[c] # "global"
<1>1. /\ pc' = [c \in Calls |-> IF gone(c) THEN "done" ELSE pc[c]]
      /\ now' = [c \in Calls |-> IF gone(c) THEN 0 ELSE now[c]]
      /\ attributed' = [c \in Calls |-> IF gone(c) THEN None ELSE attributed[c]]
      /\ lag' = [c \in Calls |-> IF gone(c) THEN 0 ELSE lag[c]]
      /\ inGate' = [c \in Calls |-> ~gone(c) /\ inGate[c]]
      /\ registry' = [registry EXCEPT ![p] = "unset"]
      /\ initLock' = [initLock EXCEPT ![p] = None]
      /\ pools' = [pools EXCEPT ![p] = 0]
      /\ seen' = [seen EXCEPT ![p] = [r \in Runs |-> None]]
      /\ linked' = [linked EXCEPT ![p] = {}]
      /\ restarts < MaxRestarts /\ restarts' = restarts + 1
      /\ UNCHANGED <<proc, clock, dbVars, approval>>
  BY DEF Restart
<1> USE DEF dbVars
<1>2. \A c \in Calls : proc[c] \in Procs
  BY DEF RateTyped, RateTypeOK
<1>3. SessTyped'
  <2>1. /\ registry' \in [Procs -> {"unset", "live", "disabled"}]
        /\ initLock' \in [Procs -> Calls \union {None}]
        /\ pools' \in [Procs -> Nat]
        /\ seen' \in [Procs -> [Runs -> Times \union {None}]]
        /\ linked' \in [Procs -> SUBSET (Runs \X Tasks)]
    BY <1>1 DEF SessTyped
  <2>2. /\ inGate' \in [Calls -> BOOLEAN]
        /\ attributed' \in [Calls -> Runs \union {None}]
        /\ lag' \in [Calls -> Nat]
        /\ restarts' \in 0..MaxRestarts
    BY <1>1, CallPathAssumptions DEF SessTyped
  <2> QED
    BY <1>1, <2>1, <2>2 DEF SessTyped
<1>4. FrameInv'
  BY <1>1 DEF FrameInv, Agent
<1>5. PoolInv'
  <2>1. /\ \A d \in Calls : proc[d] # p => (pc'[d] = "build" <=> pc[d] = "build")
        /\ \A d \in Calls : proc[d] = p => pc'[d] # "build"
    BY <1>1
  <2>2. /\ \A q \in Procs \ {p} : /\ initLock'[q] = initLock[q] /\ registry'[q] = registry[q]
                                /\ pools'[q] = pools[q]
        /\ initLock'[p] = None /\ pools'[p] = 0
    BY <1>1 DEF SessTyped
  <2> QED
    BY <1>1, <1>2, <2>1, <2>2, PoolReleased
<1>6. MemoInv'
  BY <1>1 DEF MemoInv, MemoIsWritten, SessTyped
<1>7. LinksInv'
  BY <1>1, LinksKeep
<1> QED
  BY <1>3, <1>4, <1>5, <1>6, <1>7

\* Every step keeps the invariant.
LEMMA SessStep ==
    ASSUME RateInv, SessInv, [Next]_vars
    PROVE  SessInv'
<1>1. CASE UNCHANGED vars
  BY <1>1, QuietKeeps DEF vars, rateVars, callVars, SessInv, SessTyped
<1>2. ASSUME NEW c \in Calls, CallStep(c), UNCHANGED restarts PROVE SessInv'
  BY <1>2, LimiterQuiet, AttributeKeeps, LockInitKeeps, BuildPoolKeeps, UpsertKeeps,
     LinkCheckKeeps, LinkInsertKeeps, GateQuiet, InsertApprovalKeeps
  DEF CallStep, AttributionStep
<1>3. ASSUME NEW c \in Calls, Cancel(c), UNCHANGED restarts PROVE SessInv'
  BY <1>3, CancelKeeps
<1>4. CASE Tick /\ UNCHANGED <<regVars, dbVars, memoVars, callVars, restarts>>
  BY <1>4, TickQuiet
<1>5. ASSUME NEW p \in Procs, Restart(p) PROVE SessInv'
  BY <1>5, RestartKeepsSessions
<1> QED
  BY <1>1, <1>2, <1>3, <1>4, <1>5 DEF Next

\* Nothing is opened, written or remembered: the invariant holds.
LEMMA SessStart == Init => SessInv
<1> SUFFICES ASSUME Init PROVE SessInv
  OBVIOUS
<1> USE DEF Init, SessionsInit
<1>1. SessTyped
  BY SessionsAssumptions, RateLimitAssumptions, CallPathAssumptions DEF SessTyped, Times
<1>2. FrameInv
  BY SessionsAssumptions DEF FrameInv
<1>3. PoolInv
  BY DEF PoolInv
<1>4. MemoInv
  BY DEF MemoInv, MemoIsWritten, RateInit
<1>5. LinksInv
  <2> SUFFICES ASSUME NEW x \in Runs \X Tasks
               PROVE  links[x] + Cardinality(Linking(x)) <= Cardinality(Calls)
    BY DEF LinksInv
  <2>1. Linking(x) = {} /\ links[x] = 0
    BY DEF Linking
  <2>2. Cardinality({}) = 0
    BY FS_EmptySet
  <2>3. Cardinality(Linking(x)) = 0
    BY <2>1, <2>2
  <2> QED
    BY <2>1, <2>3, Counts
<1> QED
  BY <1>1, <1>2, <1>3, <1>4, <1>5 DEF SessInv

\* The invariant of the call path.
LEMMA SessAlways == Spec => [](RateInv /\ SessInv)
<1>1. Init => RateInv /\ SessInv
  BY RateStart, SessStart
<1>2. (RateInv /\ SessInv) /\ [Next]_vars => (RateInv /\ SessInv)'
  BY RateStep, SessStep
<1> QED
  BY <1>1, <1>2, PTL DEF Spec

\* Type correctness of the path of a call, with at most one link inserted by a call.
THEOREM CallPathTyped == Spec => []TypeOK
<1>1. RateInv /\ SessInv => TypeOK
  <2> SUFFICES ASSUME RateInv, SessInv PROVE TypeOK
    OBVIOUS
  <2>1. links \in [Runs \X Tasks -> 0..Cardinality(Calls)]
    <3>1. \A x \in Runs \X Tasks : links[x] \in 0..Cardinality(Calls)
      <4> SUFFICES ASSUME NEW x \in Runs \X Tasks PROVE links[x] \in 0..Cardinality(Calls)
        OBVIOUS
      <4>1. links[x] \in Nat /\ links[x] + Cardinality(Linking(x)) <= Cardinality(Calls)
        BY DEF SessInv, SessTyped, LinksInv
      <4> QED
        BY <4>1, Counts
    <3> QED
      BY <3>1 DEF SessInv, SessTyped
  <2> QED
    BY <2>1 DEF RateInv, RateTyped, SessInv, SessTyped, TypeOK, SessionsTypeOK
<1> QED
  BY <1>1, SessAlways, PTL

\* get_registry: one pool per process, and a lock that somebody is building under.
THEOREM OnePoolOpened == Spec => []PoolOpenedOnce
<1>1. RateInv /\ SessInv => PoolOpenedOnce
  BY DEF SessInv, PoolInv, PoolOpenedOnce
<1> QED
  BY <1>1, SessAlways, PTL

\* attribute_current_call memoises what is confirmed only, and what a memo stands for stays.
THEOREM MemosAreWritten == Spec => []MemoIsWritten
<1>1. RateInv /\ SessInv => MemoIsWritten
  BY DEF SessInv, MemoInv
<1> QED
  BY <1>1, SessAlways, PTL

\* upsert_session and the subselect of insert_hitl_approval: no call is attributed to another
\* agent's session or to one that was last seen Refresh ago, whoever presents its id.
THEOREM SessionIsOwn == Spec => []OwnLiveSession
<1>1. RateInv /\ SessInv => OwnLiveSession
  BY DEF SessInv, FrameInv, OwnLiveSession
<1> QED
  BY <1>1, SessAlways, PTL

=============================================================================
