---------------------------- MODULE ServeProofs -----------------------------
(***************************************************************************)
(* What a process says of its token and of its manifest is true, for any   *)
(* lease, maximum, number of failures and duration of the start; and every *)
(* burst of rejected requests raises one alert, for any window, threshold, *)
(* cooldown and length of the deque.                                       *)
(***************************************************************************)
EXTENDS Serve, Induction

Sleep == SleepFor(lease)

\* n sleeps on a lease of l.
Sleeps(n, l) == n * SleepFor(l)

\* How long the token may have been dead: the start and a sleep for every failure, with what
\* is left of the present one still to come.
DeathInv ==
    /\ at = "none" => failures = 0 /\ healthy /\ deadFor = 0 /\ late = 0
    /\ at = "building" => failures = 0 /\ healthy /\ deadFor <= late
    /\ at \in {"sleep", "renew"} => (healthy <=> failures < MaxFailures)
    /\ at = "renew" => wait = 0
    /\ at = "sleep" => wait <= Sleep
    /\ at \in {"sleep", "renew"} /\ healthy => deadFor + wait <= MaxStart + Sleeps(failures, lease) + Sleep
    /\ at = "login" /\ healthy => failures <= MaxFailures /\ deadFor <= MaxStart + Sleeps(failures, lease)
    /\ at = "login" /\ ~healthy => failures >= MaxFailures
    /\ ~healthy => deadFor = 0

\* RenewalTypeOK, its Boolean part and the rest.
FlagsOK ==
    renewable \in BOOLEAN /\ reauth \in BOOLEAN /\ revoked \in BOOLEAN /\ healthy \in BOOLEAN

NumbersOK ==
    /\ vault \in {"up", "lossy", "down"}
    /\ left \in 0..Period /\ ttl \in 0..MaxTtl /\ left <= ttl
    /\ at \in {"none", "building", "sleep", "renew", "login"}
    /\ wait \in 0..Period
    /\ late \in 0..MaxStart
    /\ lease \in 0..Period
    /\ since \in 0..Period
    /\ failures \in 0..(MaxFailures + 1)
    /\ deadFor \in Nat

RenewalInv == FlagsOK /\ NumbersOK /\ ExpiryNotOverstated /\ DeathInv

\* There is a token only when the credentials have been fetched.
TokenInv == step \notin {"modules", "serving"} => at = "none"

\* The stamp and what has been written since.
StaleInv ==
    /\ mtime \in 0..MaxMtime
    /\ stamp # Never => stamp \in Nat /\ stamp <= mtime
    /\ step \in {"down", "load", "names", "build", "stamp"} => edited # "after"
    /\ step \in {"fetch", "modules", "serving"} /\ stamp # Never =>
           (edited = "after" <=> mtime > stamp)

-----------------------------------------------------------------------------
\* A sleep is at least a tick and no longer than the lease, but for that tick.
LEMMA SleepBounds ==
    ASSUME NEW l \in 0..Period
    PROVE  SleepFor(l) \in 1..Period
BY VaultRenewalAssumptions DEF SleepFor

\* One more failure is one more sleep, and fewer failures are fewer sleeps.
LEMMA OneMore ==
    ASSUME NEW n \in Nat, NEW l \in 0..Period
    PROVE  /\ Sleeps(n, l) \in Nat
           /\ Sleeps(n + 1, l) = Sleeps(n, l) + SleepFor(l)
           /\ Sleeps(0, l) = 0
<1>1. SleepFor(l) \in Nat
  BY SleepBounds
<1>2. \A d \in Nat : n * d \in Nat /\ (n + 1) * d = n * d + d /\ 0 * d = 0
  OBVIOUS
<1> QED
  BY <1>1, <1>2 DEF Sleeps

LEMMA NoLonger ==
    ASSUME NEW n \in Nat, NEW m \in Nat, NEW l \in 0..Period, n <= m
    PROVE  Sleeps(n, l) <= Sleeps(m, l)
<1>1. PICK k \in Nat : m = n + k
  BY m - n \in Nat
<1>2. \A d \in Nat : (n + k) * d = n * d + k * d /\ k * d \in Nat /\ n * d \in Nat
  OBVIOUS
<1>3. SleepFor(l) \in Nat
  BY SleepBounds
<1> QED
  BY <1>1, <1>2, <1>3 DEF Sleeps

\* A new token, or the end of one.
LEMMA RenewalEnds ==
    ASSUME RenewalInv, CloseRenewal \/ (Fetch /\ at = "none")
    PROVE  RenewalInv'
<1> USE VaultRenewalAssumptions DEF RenewalInv, vaultVars
<1>1. CASE CloseRenewal
  <2>1. FlagsOK'
    BY <1>1, Zenon DEF FlagsOK, CloseRenewal
  <2>2. NumbersOK' /\ ExpiryNotOverstated'
    BY <1>1 DEF NumbersOK, ExpiryNotOverstated, CloseRenewal
  <2>3. DeathInv'
    BY <1>1 DEF DeathInv, CloseRenewal
  <2> QED
    BY <2>1, <2>2, <2>3
<1>2. CASE Fetch /\ at = "none"
  <2>1. FlagsOK'
    BY <1>2, Zenon DEF FlagsOK, Fetch, Issued
  <2>2. NumbersOK' /\ ExpiryNotOverstated'
    BY <1>2 DEF NumbersOK, ExpiryNotOverstated, Fetch, Issued
  <2>3. DeathInv'
    BY <1>2 DEF DeathInv, Fetch, Issued
  <2> QED
    BY <2>1, <2>2, <2>3
<1> QED
  BY <1>1, <1>2

\* The loop starts.
LEMMA StartKeeps ==
    ASSUME RenewalInv, StartRenewal
    PROVE  RenewalInv'
<1> USE DEF RenewalInv, StartRenewal, vaultVars, tokenVars, beliefVars
<1>1. Sleep \in 1..Period /\ Sleep' = Sleep
  BY SleepBounds DEF Sleep, FlagsOK, NumbersOK
<1>2. FlagsOK' /\ NumbersOK' /\ ExpiryNotOverstated'
  BY <1>1, VaultRenewalAssumptions DEF FlagsOK, NumbersOK, ExpiryNotOverstated, Sleep
<1>3. DeathInv'
  <2>1. Sleeps(failures, lease) = 0
    BY OneMore DEF DeathInv, FlagsOK, NumbersOK
  <2> QED
    BY <1>1, <2>1, VaultRenewalAssumptions DEF FlagsOK, NumbersOK, DeathInv, Sleep
<1> QED
  BY <1>2, <1>3

\* A tick.
LEMMA VaultTickKeeps ==
    ASSUME RenewalInv, VaultTick
    PROVE  RenewalInv'
<1> USE VaultRenewalAssumptions DEF RenewalInv, VaultTick, vaultVars, Least
<1>1. Sleep \in 1..Period /\ Sleep' = Sleep
  BY SleepBounds DEF Sleep, FlagsOK, NumbersOK
<1>2. FlagsOK' /\ NumbersOK'
  BY DEF FlagsOK, NumbersOK
<1>3. ExpiryNotOverstated'
  BY DEF FlagsOK, NumbersOK, ExpiryNotOverstated
<1>4. Sleeps(failures, lease) \in Nat
  BY OneMore DEF FlagsOK, NumbersOK
<1>5. DeathInv'
  BY <1>1, <1>4 DEF FlagsOK, NumbersOK, DeathInv
<1> QED
  BY <1>2, <1>3, <1>5

\* The sleep is over, or Vault or the way to it changes, or the token is revoked.
LEMMA VaultChangesKeep ==
    ASSUME RenewalInv, Wake \/ VaultChanges \/ Revoke
    PROVE  RenewalInv'
<1> USE DEF RenewalInv, vaultVars, tokenVars, loopVars, beliefVars
<1>1. Sleep' = Sleep
  BY DEF Wake, VaultChanges, Revoke, Sleep
<1>2. FlagsOK' /\ NumbersOK' /\ ExpiryNotOverstated'
  <2>1. CASE Wake \/ VaultChanges
    BY <2>1 DEF FlagsOK, NumbersOK, ExpiryNotOverstated, Wake, VaultChanges
  <2>2. CASE Revoke
    BY <2>2, VaultRenewalAssumptions DEF FlagsOK, NumbersOK, ExpiryNotOverstated, Revoke
  <2> QED
    BY <2>1, <2>2
<1>3. DeathInv'
  BY <1>1 DEF FlagsOK, NumbersOK, DeathInv, Wake, VaultChanges, Revoke
<1> QED
  BY <1>2, <1>3

\* A renewal that failed, whatever it did at Vault: another sleep, a login, or the end of
\* being called healthy.
LEMMA FailureKeeps ==
    ASSUME RenewalInv, at = "renew", NEW forbidden \in BOOLEAN, RenewalFailed(forbidden),
           UNCHANGED <<vaultVars, late, ttl, revoked>>,
           left' \in left..Least(Period, ttl)
    PROVE  RenewalInv'
<1> USE VaultRenewalAssumptions DEF RenewalInv, vaultVars, Least
<1> DEFINE n == Least(failures + 1, MaxFailures + 1)
<1>1. Sleep \in 1..Period /\ Sleep' = Sleep /\ Sleep = SleepFor(lease)
  BY SleepBounds DEF Sleep, FlagsOK, NumbersOK, RenewalFailed
<1>2. /\ n \in 0..(MaxFailures + 1) /\ n >= 1
      /\ failures < MaxFailures => n = failures + 1
      /\ failures >= MaxFailures => n >= MaxFailures
  BY DEF FlagsOK, NumbersOK
<1>3. /\ failures' = n /\ UNCHANGED <<lease, since>>
      /\ deadFor' = IF healthy' THEN deadFor ELSE 0
      /\ \/ at' = "login" /\ UNCHANGED <<wait, healthy>>
         \/ /\ at' = "sleep" /\ wait' = Sleep
            /\ healthy' \in BOOLEAN /\ (healthy' <=> n < MaxFailures)
  <2>1. /\ failures' = n /\ UNCHANGED <<lease, since>>
        /\ deadFor' = IF healthy' THEN deadFor ELSE 0
        /\ \/ at' = "login" /\ UNCHANGED <<wait, healthy>>
           \/ at' = "sleep" /\ wait' = Sleep /\ healthy' = (n < MaxFailures)
    BY <1>1 DEF RenewalFailed, Settle
  <2>2. healthy' = (n < MaxFailures) => healthy' \in BOOLEAN
    OBVIOUS
  <2>3. healthy' = (n < MaxFailures) => (healthy' <=> n < MaxFailures)
    BY Zenon
  <2> QED
    BY <2>1, <2>2, <2>3, Zenon
<1> HIDE DEF n
<1>4. FlagsOK'
  BY <1>3 DEF FlagsOK
<1>8. NumbersOK' /\ ExpiryNotOverstated'
  BY <1>1, <1>2, <1>3 DEF NumbersOK, ExpiryNotOverstated
<1>5. healthy => failures < MaxFailures /\ deadFor <= MaxStart + Sleeps(n, lease)
  <2>1. /\ Sleeps(failures + 1, lease) = Sleeps(failures, lease) + Sleep
        /\ Sleeps(failures, lease) \in Nat
    <3>1. failures \in Nat /\ lease \in 0..Period
      BY DEF NumbersOK
    <3> QED
      BY <1>1, <3>1, OneMore
  <2> QED
    BY <1>1, <1>2, <2>1 DEF DeathInv, FlagsOK, NumbersOK
<1>6. Sleeps(n, lease) \in Nat
  BY <1>2, OneMore DEF FlagsOK, NumbersOK
<1>7. DeathInv'
  <2>1. CASE at' = "login"
    BY <1>1, <1>2, <1>3, <1>5, <1>6, <2>1 DEF DeathInv, FlagsOK, NumbersOK
  <2>2. CASE at' = "sleep"
    BY <1>1, <1>2, <1>3, <1>5, <1>6, <2>2 DEF DeathInv, FlagsOK, NumbersOK
  <2> QED
    BY <1>3, <2>1, <2>2
<1> QED
  BY <1>4, <1>7, <1>8

\* The loop keeps the invariant.
LEMMA LoopKeeps ==
    ASSUME RenewalInv, LoopStep
    PROVE  RenewalInv'
<1> USE DEF RenewalInv
<1>1. CASE Wake
  BY <1>1, VaultChangesKeep
<1>2. CASE RenewOnce
  <2>1. CASE Renewed
    <3>1. Least(Period, ttl) \in 0..Period /\ Least(Period, ttl) <= ttl
      BY VaultRenewalAssumptions DEF Least, FlagsOK, NumbersOK
    <3>2. /\ lease' = Least(Period, ttl) /\ left' = lease' /\ since' = 0 /\ deadFor' = 0
          /\ failures' = 0 /\ healthy' = (0 < MaxFailures) /\ at' = "sleep" /\ wait' = Sleep'
          /\ UNCHANGED <<vaultVars, late, ttl, revoked>>
      BY <1>2, <2>1 DEF Renewed, RenewOnce, Settle, Sleep
    <3>8. 0 < MaxFailures
      BY VaultRenewalAssumptions
    <3>9. healthy' = TRUE
      BY <3>2, <3>8, Zenon
    <3>3. Sleep' \in 1..Period
      BY <3>1, <3>2, SleepBounds DEF Sleep
    <3>4. Sleeps(failures', lease') = 0
      BY <3>1, <3>2, OneMore
    <3>7. FlagsOK'
      BY <3>2, <3>9, Zenon DEF FlagsOK, vaultVars
    <3>5. NumbersOK' /\ ExpiryNotOverstated'
      BY <3>1, <3>2, <3>3, VaultRenewalAssumptions
      DEF NumbersOK, ExpiryNotOverstated, vaultVars
    <3>6. DeathInv'
      BY <3>2, <3>3, <3>4, <3>9, VaultRenewalAssumptions DEF DeathInv
    <3> QED
      BY <3>5, <3>6, <3>7
  <2>2. CASE RenewedUnheard
    <3>1. left' \in left..Least(Period, ttl)
      BY <2>2, VaultRenewalAssumptions DEF RenewedUnheard, FlagsOK, NumbersOK, Least
    <3> QED
      BY <1>2, <2>2, <3>1, FailureKeeps DEF RenewedUnheard, RenewOnce
  <2>3. CASE Refused \/ NoAnswer
    <3>1. left' = left
      BY <2>3 DEF Refused, NoAnswer, tokenVars
    <3>2. left' \in left..Least(Period, ttl)
      BY <3>1, VaultRenewalAssumptions DEF FlagsOK, NumbersOK, Least
    <3> QED
      BY <1>2, <2>3, <3>2, FailureKeeps DEF Refused, NoAnswer, RenewOnce, tokenVars
  <2> QED
    BY <1>2, <2>1, <2>2, <2>3 DEF RenewOnce
<1>3. CASE AttemptReauth
  <2>1. CASE Reauthenticated
    <3>1. /\ left' = Period /\ ttl' = MaxTtl /\ revoked' = FALSE
          /\ lease' = Period /\ since' = 0 /\ deadFor' = 0
          /\ failures' = 0 /\ healthy' = (0 < MaxFailures) /\ at' = "sleep" /\ wait' = Sleep'
          /\ UNCHANGED <<vaultVars, late>>
      BY <1>3, <2>1 DEF Reauthenticated, AttemptReauth, Issued, Settle, Sleep
    <3>7. 0 < MaxFailures
      BY VaultRenewalAssumptions
    <3>8. healthy' = TRUE
      BY <3>1, <3>7, Zenon
    <3>2. Sleep' \in 1..Period
      BY <3>1, SleepBounds, VaultRenewalAssumptions DEF Sleep
    <3>3. Sleeps(failures', lease') = 0
      BY <3>1, OneMore, VaultRenewalAssumptions
    <3>4. FlagsOK'
      BY <3>1, <3>8, Zenon DEF FlagsOK, vaultVars
    <3>5. NumbersOK' /\ ExpiryNotOverstated'
      BY <3>1, <3>2, VaultRenewalAssumptions DEF NumbersOK, ExpiryNotOverstated, vaultVars
    <3>6. DeathInv'
      BY <3>1, <3>2, <3>3, <3>8, VaultRenewalAssumptions DEF DeathInv
    <3> QED
      BY <3>4, <3>5, <3>6
  <2>2. CASE ReauthFailed
    <3>1. /\ failures' = failures
          /\ healthy' \in BOOLEAN /\ (healthy' <=> failures < MaxFailures)
          /\ at' = "sleep" /\ wait' = Sleep /\ Sleep' = Sleep
          /\ deadFor' = IF healthy' THEN deadFor ELSE 0
          /\ UNCHANGED <<vaultVars, late, tokenVars, lease, since>>
          /\ at = "login"
      <4>1. healthy' = (failures < MaxFailures)
        BY <1>3, <2>2 DEF ReauthFailed, AttemptReauth, Settle
      <4>2. healthy' \in BOOLEAN
        BY <4>1
      <4>3. healthy' <=> failures < MaxFailures
        BY <4>1, Zenon
      <4>4. /\ failures' = failures /\ at' = "sleep" /\ wait' = Sleep /\ Sleep' = Sleep
            /\ deadFor' = IF healthy' THEN deadFor ELSE 0
            /\ UNCHANGED <<vaultVars, late, tokenVars, lease, since>>
            /\ at = "login"
        BY <1>3, <2>2 DEF ReauthFailed, AttemptReauth, Settle, Sleep
      <4> QED
        BY <4>2, <4>3, <4>4, Zenon
    <3>2. Sleep \in 1..Period
      BY SleepBounds DEF Sleep, FlagsOK, NumbersOK
    <3>3. Sleeps(failures, lease) \in Nat
      BY OneMore DEF FlagsOK, NumbersOK
    <3>4. FlagsOK' /\ NumbersOK' /\ ExpiryNotOverstated'
      BY <3>1, <3>2 DEF FlagsOK, NumbersOK, ExpiryNotOverstated, vaultVars, tokenVars
    <3>5. DeathInv'
      BY <3>1, <3>2, <3>3, VaultRenewalAssumptions DEF DeathInv, FlagsOK, NumbersOK
    <3> QED
      BY <3>4, <3>5
  <2> QED
    BY <1>3, <2>1, <2>2 DEF AttemptReauth
<1> QED
  BY <1>1, <1>2, <1>3 DEF LoopStep

\* Every step of the process keeps the invariant of the renewal.
LEMMA RenewalStep ==
    ASSUME RenewalInv, TokenInv, [Next]_vars
    PROVE  RenewalInv'
<1>1. CASE UNCHANGED renewalVars
  BY <1>1
  DEF renewalVars, vaultVars, tokenVars, loopVars, beliefVars, RenewalInv, FlagsOK, NumbersOK,
      ExpiryNotOverstated, DeathInv, Sleep
<1>2. CASE ProcessStep
  <2>1. UNCHANGED renewalVars \/ CloseRenewal \/ (Fetch /\ at = "none") \/ StartRenewal
    BY <1>2
    DEF TokenInv, ProcessStep, Start, LoadManifest, ReadNames, Build, Stamp, FetchCredentials, Ready, Stop,
        Exit, Idle
  <2> QED
    BY <1>1, <2>1, RenewalEnds, StartKeeps
<1>3. CASE LoopStep \/ VaultTick \/ VaultEnvironment
  BY <1>3, LoopKeeps, VaultTickKeeps, VaultChangesKeep DEF VaultEnvironment
<1> QED
  BY <1>1, <1>2, <1>3 DEF Next, vars

\* A token is fetched before the modules are built, and forgotten at the end.
LEMMA TokenStep ==
    ASSUME TokenInv, [Next]_vars
    PROVE  TokenInv'
<1> USE DEF TokenInv
<1>1. CASE UNCHANGED <<step, at>>
  BY <1>1
<1>2. CASE ProcessStep
  BY <1>2
  DEF ProcessStep, Start, LoadManifest, ReadNames, Build, Stamp, FetchCredentials, Ready, Stop,
      Exit, Idle, Enter, CloseRenewal, renewalVars, loopVars
<1>3. CASE (LoopStep \/ VaultTick \/ VaultEnvironment) /\ UNCHANGED step
  <2>1. at # "none"
    BY <1>3
    DEF LoopStep, Wake, RenewOnce, AttemptReauth, VaultTick, VaultEnvironment
  <2> QED
    BY <1>3, <2>1
<1> QED
  BY <1>1, <1>2, <1>3
  DEF Next, vars, processVars, renewalVars, loopVars, RejectRequest, BearerTick, Edit

\* Every step keeps the invariant of the stamp.
LEMMA StaleStep ==
    ASSUME StaleInv, [Next]_vars
    PROVE  StaleInv'
<1> USE BearerAssumptions, ServeAssumptions DEF StaleInv
<1>1. CASE UNCHANGED <<fileVars, processVars>>
  BY <1>1 DEF fileVars, processVars
<1>2. CASE ProcessStep /\ UNCHANGED <<args, fileVars>>
  <2>1. CASE Exit
    BY <1>2, <2>1 DEF Exit, fileVars
  <2>2. CASE Start \/ LoadManifest \/ ReadNames \/ Build
    BY <1>2, <2>1, <2>2 DEF Start, LoadManifest, ReadNames, Build, Enter, fileVars
  <2>3. CASE Stamp
    BY <1>2, <2>1, <2>3 DEF Stamp, fileVars
  <2>4. CASE FetchCredentials \/ Ready \/ Stop
    BY <1>2, <2>1, <2>4 DEF FetchCredentials, Ready, Stop, Enter, fileVars
  <2> QED
    BY <1>2, <2>2, <2>3, <2>4 DEF ProcessStep
<1>3. CASE Edit /\ UNCHANGED <<step, loaded, stamp>>
  <2>1. /\ mtime' \in 0..MaxMtime /\ mtime' >= mtime /\ mtime \in Nat
        /\ \/ mtime' > mtime /\ step \in {"fetch", "modules", "serving"} /\ edited' = "after"
           \/ edited' = "none" /\ step \in {"down", "load"}
           \/ /\ ~(mtime' > mtime /\ step \in {"fetch", "modules", "serving"})
              /\ edited' = IF edited = "after" THEN "after" ELSE "before"
    BY <1>3 DEF Edit
  <2> QED
    BY <1>3, <2>1
<1> QED
  BY <1>1, <1>2, <1>3
  DEF Next, vars, fileVars, processVars, RejectRequest

\* The invariants of a process that serves.
LEMMA ServeAlways == Spec => [](RenewalInv /\ TokenInv /\ StaleInv)
<1>1. Init => RenewalInv /\ TokenInv /\ StaleInv
  <2> SUFFICES ASSUME Init PROVE RenewalInv /\ TokenInv /\ StaleInv
    OBVIOUS
  <2>1. FlagsOK
    BY Zenon DEF Init, RenewalInit, NoToken, FlagsOK
  <2>4. NumbersOK /\ ExpiryNotOverstated
    BY VaultRenewalAssumptions DEF Init, RenewalInit, NoToken, NumbersOK, ExpiryNotOverstated
  <2>2. DeathInv /\ TokenInv
    BY VaultRenewalAssumptions DEF Init, RenewalInit, NoToken, DeathInv, TokenInv
  <2>3. StaleInv
    BY ServeAssumptions DEF Init, StaleInv
  <2> QED
    BY <2>1, <2>2, <2>3, <2>4 DEF RenewalInv
<1>2. (RenewalInv /\ TokenInv /\ StaleInv) /\ [Next]_vars
          => (RenewalInv /\ TokenInv /\ StaleInv)'
  BY RenewalStep, TokenStep, StaleStep
<1> QED
  BY <1>1, <1>2, PTL DEF Spec

\* _renew_once and _MAX_RENEWAL_FAILURES: a dead token is called healthy no longer than the start
\* of the loop and MaxFailures of its sleeps take.
THEOREM DeathIsTold == Spec => []TokenDeathTold
<1>1. RenewalInv => TokenDeathTold
  <2> SUFFICES ASSUME RenewalInv PROVE deadFor <= MaxStart + Sleeps(MaxFailures, lease)
    BY DEF TokenDeathTold, Sleeps
  <2> USE VaultRenewalAssumptions DEF RenewalInv, FlagsOK, NumbersOK
  <2>1. /\ Sleep \in 1..Period /\ Sleep = SleepFor(lease)
        /\ Sleeps(MaxFailures, lease) \in Nat
    BY SleepBounds, OneMore DEF Sleep
  <2>2. CASE at \in {"sleep", "renew"} /\ healthy
    <3>1. Sleeps(failures + 1, lease) = Sleeps(failures, lease) + Sleep
      BY <2>1, OneMore
    <3>2. Sleeps(failures + 1, lease) <= Sleeps(MaxFailures, lease)
      BY <2>2, NoLonger DEF DeathInv
    <3>3. Sleeps(failures, lease) \in Nat
      BY OneMore
    <3> QED
      BY <2>1, <2>2, <3>1, <3>2, <3>3 DEF DeathInv
  <2>3. CASE at = "login" /\ healthy
    <3>1. Sleeps(failures, lease) <= Sleeps(MaxFailures, lease)
      BY <2>3, NoLonger DEF DeathInv
    <3>2. Sleeps(failures, lease) \in Nat
      BY OneMore
    <3> QED
      BY <2>1, <2>3, <3>1, <3>2 DEF DeathInv
  <2>4. CASE at \in {"none", "building"} \/ ~healthy
    BY <2>1, <2>4 DEF DeathInv
  <2> QED
    BY <2>2, <2>3, <2>4
<1> QED
  BY <1>1, ServeAlways, PTL

\* credential_health: seconds_to_expiry_est never promises more than Vault leaves the token, but
\* for a revocation, though renewals shorten the lease and their answers get lost.
THEOREM ExpiryIsSafe == Spec => []ExpiryNotOverstated
<1>1. RenewalInv /\ TokenInv /\ StaleInv => ExpiryNotOverstated
  BY DEF RenewalInv
<1> QED
  BY <1>1, ServeAlways, PTL

\* _manifest_status_fields: a file written in a later instant than the stamp shows, and only then.
THEOREM StaleIsShown == Spec => []StaleShown
<1>1. RenewalInv /\ TokenInv /\ StaleInv => StaleShown
  BY BearerAssumptions DEF StaleInv, StaleShown, ManifestStale
<1> QED
  BY <1>1, ServeAlways, PTL

-----------------------------------------------------------------------------
\* The bearer check.

\* The deque and what it stands for: the stamps of the last BurstThreshold rejections that lie
\* within the window are at its right end, in their order, whatever was dropped at its left.
StampsKept ==
    \A i \in 1..Len(failed) : failed[i] <= BurstWindow =>
        LET d == Len(failed) - i
        IN  d < Len(recent401s) /\ recent401s[Len(recent401s) - d] = failed[i]

BearerTyped ==
    /\ recent401s \in Seq(Nat) /\ Len(recent401s) <= BurstTracked
    /\ failed \in Seq(0..(BurstWindow + 1)) /\ Len(failed) <= BurstThreshold
    /\ lastAlert \in (0..BurstCooldown) \union {Never}

AlertsKept == alerts = IF CoolingDown THEN <<lastAlert>> ELSE <<>>

BurstTold ==
    Len(failed) = BurstThreshold /\ failed[BurstThreshold] = 0 /\ failed[1] <= BurstWindow
        => CoolingDown

BearerInv == BearerTyped /\ StampsKept /\ AlertsKept /\ BurstTold

\* Popping stops at the first stamp that is young enough.
LEMMA YoungIsASuffix ==
    ASSUME NEW q \in Seq(Nat), NEW max \in Nat
    PROVE  \E f \in 1..(Len(q) + 1) :
               /\ Young(q, max) = SubSeq(q, f, Len(q))
               /\ f <= Len(q) => q[f] <= max
               /\ \A j \in 1..(f - 1) : q[j] > max
<1> DEFINE First(i) == (i <= Len(q) => q[i] <= max) /\ \A j \in 1..(i - 1) : q[j] > max
           T == {i \in 1..(Len(q) + 1) : i <= Len(q) => q[i] <= max}
<1>1. PICK f \in T : \A i \in T : f <= i
  <2>1. T \in SUBSET Nat /\ Len(q) + 1 \in T
    OBVIOUS
  <2> HIDE DEF T
  <2> QED
    BY <2>1, LeastNumber
<1>2. First(f)
  <2> SUFFICES ASSUME NEW j \in 1..(f - 1) PROVE q[j] > max
    OBVIOUS
  <2>1. j \in 1..Len(q) /\ j \notin T
    BY <1>1
  <2> QED
    BY <2>1
<1>3. \E i \in 1..(Len(q) + 1) : First(i)
  BY <1>2
<1> DEFINE g == CHOOSE i \in 1..(Len(q) + 1) : First(i)
<1>4. g \in 1..(Len(q) + 1) /\ First(g)
  <2> HIDE DEF First
  <2> QED
    BY <1>3
<1>5. Young(q, max) = SubSeq(q, g, Len(q))
  BY DEF Young
<1> QED
  <2> HIDE DEF g
  <2> QED
    BY <1>4, <1>5

\* Appending to a deque that holds at most n.
LEMMA PushedProperties ==
    ASSUME NEW S, 0 \in S, NEW q \in Seq(S), NEW n \in Nat \ {0}, Len(q) <= n
    PROVE  /\ Pushed(q, n) \in Seq(S)
           /\ Len(Pushed(q, n)) = IF Len(q) = n THEN n ELSE Len(q) + 1
           /\ Pushed(q, n)[Len(Pushed(q, n))] = 0
           /\ \A d \in 1..(Len(Pushed(q, n)) - 1) :
                  Pushed(q, n)[Len(Pushed(q, n)) - d] = q[Len(q) - d + 1]
<1> DEFINE r == Append(q, 0)
<1>1. /\ r \in Seq(S) /\ Len(r) = Len(q) + 1 /\ r[Len(r)] = 0
      /\ \A i \in 1..Len(q) : r[i] = q[i]
  OBVIOUS
<1>2. CASE Len(q) = n
  <2>1. Pushed(q, n) = Tail(r)
    BY <1>1, <1>2 DEF Pushed
  <2> HIDE DEF r
  <2>2. /\ Tail(r) \in Seq(S) /\ Len(Tail(r)) = n
        /\ \A i \in 1..n : Tail(r)[i] = r[i + 1]
    BY <1>1, <1>2
  <2> QED
    BY <1>1, <1>2, <2>1, <2>2
<1>3. CASE Len(q) # n
  <2>1. Pushed(q, n) = r
    BY <1>1, <1>3 DEF Pushed
  <2> HIDE DEF r
  <2> QED
    BY <1>1, <1>3, <2>1
<1> QED
  BY <1>2, <1>3

\* A rejected request: the stamps move up, and if they are enough the alert is there.
LEMMA RejectedKeeps ==
    ASSUME BearerInv, Rejected
    PROVE  BearerInv'
<1> USE BearerAssumptions DEF BearerInv
<1> DEFINE P == Pushed(recent401s, BurstTracked)
           F == Pushed(failed, BurstThreshold)
<1>1. /\ P \in Seq(Nat) /\ Len(P) \in 1..BurstTracked
      /\ Len(P) = IF Len(recent401s) = BurstTracked THEN BurstTracked ELSE Len(recent401s) + 1
      /\ P[Len(P)] = 0
      /\ \A d \in 1..(Len(P) - 1) : P[Len(P) - d] = recent401s[Len(recent401s) - d + 1]
  <2>1. recent401s \in Seq(Nat) /\ Len(recent401s) <= BurstTracked /\ BurstTracked \in Nat \ {0}
    BY DEF BearerTyped
  <2>2. Len(recent401s) \in Nat
    BY <2>1
  <2> QED
    BY <2>1, <2>2, PushedProperties
<1>2. /\ F \in Seq(0..(BurstWindow + 1)) /\ Len(F) \in 1..BurstThreshold
      /\ Len(F) = IF Len(failed) = BurstThreshold THEN BurstThreshold ELSE Len(failed) + 1
      /\ F[Len(F)] = 0
      /\ \A d \in 1..(Len(F) - 1) : F[Len(F) - d] = failed[Len(failed) - d + 1]
  <2>1. failed \in Seq(0..(BurstWindow + 1)) /\ Len(failed) <= BurstThreshold
        /\ 0 \in 0..(BurstWindow + 1)
    BY DEF BearerTyped
  <2>2. Len(failed) \in Nat
    BY <2>1
  <2> QED
    BY <2>1, <2>2, PushedProperties
<1>3. PICK f \in 1..(Len(P) + 1) :
          /\ Tracked = SubSeq(P, f, Len(P))
          /\ f <= Len(P) => P[f] <= BurstWindow
          /\ \A j \in 1..(f - 1) : P[j] > BurstWindow
  <2> HIDE DEF P
  <2> QED
    BY <1>1, YoungIsASuffix DEF Tracked, P
<1>4. recent401s' = Tracked /\ failed' = F
  BY DEF Rejected
<1> HIDE DEF P, F
<1>5. /\ Tracked \in Seq(Nat) /\ Len(Tracked) = Len(P) - f + 1
      /\ \A i \in 1..Len(Tracked) : Tracked[i] = P[f + i - 1]
  <2>1. Len(P) \in Nat /\ f \in Int /\ f <= Len(P) + 1 /\ f >= 1
    BY <1>1
  <2>2. \A i \in f..Len(P) : P[i] \in Nat
    BY <1>1, <2>1
  <2>3. SubSeq(P, f, Len(P)) \in Seq(Nat)
    BY ONLY <2>1, <2>2, SubSeqProperties
  <2>4. Len(SubSeq(P, f, Len(P))) = Len(P) - f + 1
    BY ONLY <2>1, <2>2, SubSeqProperties
  <2>5. \A i \in 1..(Len(P) - f + 1) : SubSeq(P, f, Len(P))[i] = P[f + i - 1]
    BY ONLY <2>1, <2>2, SubSeqProperties
  <2> QED
    BY <1>3, <2>3, <2>4, <2>5
<1>6. f <= Len(P)
  BY <1>1, <1>3
<1>7. ASSUME NEW d \in 0..(Len(F) - 1), F[Len(F) - d] <= BurstWindow
      PROVE  d < Len(Tracked) /\ Tracked[Len(Tracked) - d] = F[Len(F) - d]
  <2>1. d < Len(P) /\ P[Len(P) - d] = F[Len(F) - d]
    <3>1. CASE d = 0
      BY <1>1, <1>2, <3>1
    <3>2. CASE d > 0
      <4>1. F[Len(F) - d] = failed[Len(failed) - (d - 1)] /\ Len(failed) - (d - 1) \in 1..Len(failed)
        <5>1. Len(failed) \in Nat
          BY DEF BearerTyped
        <5>2. d \in 1..(Len(F) - 1) /\ Len(failed) - d + 1 = Len(failed) - (d - 1)
          BY <3>2, <1>2, <5>1
        <5> QED
          BY <1>2, <5>1, <5>2
      <4>2. d - 1 < Len(recent401s)
            /\ recent401s[Len(recent401s) - (d - 1)] = failed[Len(failed) - (d - 1)]
        <5>1. Len(failed) - (Len(failed) - (d - 1)) = d - 1 /\ failed[Len(failed) - (d - 1)] <= BurstWindow
          BY <1>7, <4>1 DEF BearerTyped
        <5> QED
          BY <4>1, <5>1 DEF StampsKept
      <4>3. d < Len(P)
        <5>1. Len(recent401s) \in Nat /\ Len(recent401s) <= BurstTracked /\ d < BurstThreshold
              /\ BurstThreshold \in Nat /\ BurstTracked \in Nat /\ BurstThreshold <= BurstTracked
              /\ d \in Nat /\ d < Len(recent401s) + 1
          <6>1. Len(recent401s) \in Nat /\ Len(recent401s) <= BurstTracked
            BY DEF BearerTyped
          <6>2. Len(F) \in 1..BurstThreshold
            BY <1>2
          <6> QED
            BY <4>2, <6>1, <6>2
        <5>2. CASE Len(recent401s) = BurstTracked
          BY <1>1, <5>1, <5>2
        <5>3. CASE Len(recent401s) # BurstTracked
          <6>1. Len(P) = Len(recent401s) + 1
            BY <1>1, <5>3
          <6> QED
            BY <5>1, <6>1
        <5> QED
          BY <5>2, <5>3
      <4>4. P[Len(P) - d] = recent401s[Len(recent401s) - d + 1]
            /\ Len(recent401s) - d + 1 = Len(recent401s) - (d - 1)
        BY <1>1, <3>2, <4>3 DEF BearerTyped
      <4> QED
        BY <4>1, <4>2, <4>3, <4>4
    <3> QED
      BY <3>1, <3>2
  <2>2. Len(P) - d >= f
    <3>1. Len(P) \in Nat /\ d \in Nat /\ f \in Nat
      BY <1>1
    <3>2. Len(P) - d \in 1..Len(P) /\ P[Len(P) - d] <= BurstWindow
      BY <1>7, <2>1, <3>1
    <3>3. P[Len(P) - d] \in Nat /\ BurstWindow \in Nat
      <4>1. \A i \in 1..Len(P) : P[i] \in Nat
        BY <1>1
      <4> QED
        BY <3>2, <4>1
    <3>4. Len(P) - d \notin 1..(f - 1)
      BY <1>3, <3>2, <3>3
    <3> QED
      BY <3>1, <3>2, <3>4
  <2> QED
    <3>1. Len(P) \in Nat /\ d \in Nat /\ f \in Nat /\ f >= 1
      BY <1>1
    <3>2. d < Len(Tracked)
      BY <1>5, <2>2, <3>1
    <3>3. Len(Tracked) - d \in 1..Len(Tracked) /\ f + (Len(Tracked) - d) - 1 = Len(P) - d
      BY <1>5, <2>2, <3>1, <3>2
    <3>4. Tracked[Len(Tracked) - d] = P[Len(P) - d]
      BY <1>5, <3>3
    <3> QED
      BY <2>1, <3>2, <3>4
<1>8. StampsKept'
  <2> SUFFICES ASSUME NEW i \in 1..Len(F), F[i] <= BurstWindow
               PROVE  /\ Len(F) - i < Len(Tracked)
                      /\ Tracked[Len(Tracked) - (Len(F) - i)] = F[i]
    BY <1>4 DEF StampsKept
  <2>1. Len(F) - i \in 0..(Len(F) - 1) /\ Len(F) - (Len(F) - i) = i
    BY <1>2
  <2> QED
    BY <1>7, <2>1
<1>9. BearerTyped'
  <2>1. Len(Tracked) <= BurstTracked
    BY <1>1, <1>3, <1>5
  <2>2. lastAlert' \in (0..BurstCooldown) \union {Never}
    BY DEF BearerTyped, Rejected
  <2> QED
    BY <1>2, <1>4, <1>5, <2>1, <2>2 DEF BearerTyped
<1>10. AlertsKept'
  <2>1. CASE Len(Tracked) >= BurstThreshold /\ ~CoolingDown
    <3>1. alerts = <<>> /\ alerts' = Append(alerts, 0) /\ lastAlert' = 0
      BY <2>1 DEF Rejected, AlertsKept
    <3> QED
      BY <3>1 DEF AlertsKept, CoolingDown
  <2>2. CASE ~(Len(Tracked) >= BurstThreshold /\ ~CoolingDown)
    BY <2>2 DEF Rejected, AlertsKept, CoolingDown
  <2> QED
    BY <2>1, <2>2
<1>11. BurstTold'
  <2> SUFFICES ASSUME Len(F) = BurstThreshold, F[1] <= BurstWindow
               PROVE  CoolingDown'
    BY <1>4 DEF BurstTold
  <2>1. Len(Tracked) >= BurstThreshold
    <3>1. Len(F) - 1 \in 0..(Len(F) - 1) /\ Len(F) - (Len(F) - 1) = 1
      BY <1>2
    <3>2. Len(F) - 1 < Len(Tracked)
      BY <1>7, <3>1
    <3> QED
      BY <3>2, <1>5, <1>1, <1>3
  <2> QED
    BY <2>1 DEF Rejected, CoolingDown
<1> QED
  BY <1>8, <1>9, <1>10, <1>11

\* Everything in a deque gets older, up to the cap.
LEMMA AllOlder ==
    ASSUME NEW q \in Seq(Nat), NEW cap \in Nat
    PROVE  /\ Older(q, cap) \in Seq(0..cap) /\ Older(q, cap) \in Seq(Nat)
           /\ Len(Older(q, cap)) = Len(q)
           /\ \A i \in 1..Len(q) : Older(q, cap)[i] = IF q[i] < cap THEN q[i] + 1 ELSE cap
<1>1. Older(q, cap) = [i \in 1..Len(q) |-> IF q[i] < cap THEN q[i] + 1 ELSE cap]
  BY DEF Older
<1>2. \A i \in 1..Len(q) : (IF q[i] < cap THEN q[i] + 1 ELSE cap) \in 0..cap
  OBVIOUS
<1> QED
  BY <1>1, <1>2

\* Time passes.
LEMMA BearerTickKeeps ==
    ASSUME BearerInv, BearerTick
    PROVE  BearerInv'
<1> USE BearerAssumptions DEF BearerInv
<1>1. /\ recent401s' \in Seq(Nat) /\ Len(recent401s') = Len(recent401s)
      /\ \A i \in 1..Len(recent401s) : recent401s'[i] =
             IF recent401s[i] < BurstWindow + 1 THEN recent401s[i] + 1 ELSE BurstWindow + 1
  <2>1. recent401s' = Older(recent401s, BurstWindow + 1)
    BY DEF BearerTick
  <2>2. recent401s \in Seq(Nat)
    BY DEF BearerTyped
  <2>3. BurstWindow + 1 \in Nat
    OBVIOUS
  <2> QED
    BY <2>1, <2>2, <2>3, AllOlder
<1>2. /\ failed' \in Seq(0..(BurstWindow + 1)) /\ Len(failed') = Len(failed)
      /\ \A i \in 1..Len(failed) : failed'[i] =
             IF failed[i] < BurstWindow + 1 THEN failed[i] + 1 ELSE BurstWindow + 1
  <2>1. failed' = Older(failed, BurstWindow + 1)
    BY DEF BearerTick
  <2>2. failed \in Seq(Nat)
    BY DEF BearerTyped
  <2>3. BurstWindow + 1 \in Nat
    OBVIOUS
  <2> QED
    BY <2>1, <2>2, <2>3, AllOlder
<1>3. lastAlert' = IF CoolingDown THEN lastAlert + 1 ELSE lastAlert
  BY DEF BearerTick, CoolingDown
<1>4. BearerTyped'
  BY <1>1, <1>2, <1>3 DEF BearerTyped, CoolingDown
<1>5. StampsKept'
  <2> SUFFICES ASSUME NEW i \in 1..Len(failed), failed'[i] <= BurstWindow
               PROVE  /\ Len(failed) - i < Len(recent401s)
                      /\ recent401s'[Len(recent401s) - (Len(failed) - i)] = failed'[i]
    BY <1>1, <1>2 DEF StampsKept
  <2>1. failed[i] <= BurstWindow /\ failed[i] \in Nat
    BY <1>2 DEF BearerTyped
  <2>2. /\ Len(failed) - i < Len(recent401s)
        /\ recent401s[Len(recent401s) - (Len(failed) - i)] = failed[i]
    BY <2>1 DEF StampsKept
  <2>3. Len(recent401s) - (Len(failed) - i) \in 1..Len(recent401s)
    <3>1. Len(recent401s) \in Nat /\ Len(failed) \in Nat
      BY DEF BearerTyped
    <3> QED
      BY <2>2, <3>1
  <2> QED
    BY <1>1, <1>2, <2>1, <2>2, <2>3
<1>6. AlertsKept'
  <2> DEFINE old == Older(alerts, BurstCooldown)
  <2>1. alerts' = Young(old, BurstCooldown - 1)
    BY DEF BearerTick
  <2>2. CASE CoolingDown
    <3>1. lastAlert \in Nat /\ lastAlert < BurstCooldown
      BY <2>2 DEF CoolingDown, BearerTyped
    <3>2. old = <<lastAlert + 1>>
      BY <2>2, <3>1 DEF AlertsKept, Older
    <3> HIDE DEF old
    <3>3. PICK f \in 1..2 : /\ Young(old, BurstCooldown - 1) = SubSeq(old, f, 1)
                            /\ f <= 1 => old[f] <= BurstCooldown - 1
                            /\ \A j \in 1..(f - 1) : old[j] > BurstCooldown - 1
      <4>1. old \in Seq(Nat) /\ Len(old) = 1 /\ BurstCooldown - 1 \in Nat
        BY <3>1, <3>2
      <4>2. 1..(Len(old) + 1) = 1..2
        BY <4>1
      <4> QED
        BY ONLY <4>1, <4>2, YoungIsASuffix
    <3>4. CASE lastAlert + 1 < BurstCooldown
      <4>1. f = 1
        <5>1. f # 1 => 1 \in 1..(f - 1)
          BY <3>3
        <5>2. f # 1 => old[1] > BurstCooldown - 1
          BY <3>3, <5>1
        <5>3. old[1] = lastAlert + 1
          BY <3>2
        <5> QED
          BY <3>1, <3>3, <3>4, <5>2, <5>3
      <4>2. SubSeq(old, 1, 1) = <<lastAlert + 1>>
        <5>1. old \in Seq(Nat) /\ Len(old) = 1
          BY <3>1, <3>2
        <5>2. SubSeq(old, 1, Len(old)) = old
          BY ONLY <5>1, SubSeqFull
        <5> QED
          BY <3>2, <5>1, <5>2
      <4> QED
        <5>1. alerts' = <<lastAlert + 1>> /\ lastAlert' = lastAlert + 1
          BY <1>3, <2>1, <2>2, <3>3, <4>1, <4>2
        <5>2. CoolingDown'
          BY <3>1, <3>4, <5>1 DEF CoolingDown
        <5> QED
          BY <5>1, <5>2 DEF AlertsKept
    <3>5. CASE lastAlert + 1 = BurstCooldown
      <4>1. f = 2
        <5>1. f = 1 => lastAlert + 1 <= BurstCooldown - 1
          BY <3>2, <3>3
        <5> QED
          BY <3>1, <3>3, <3>5, <5>1
      <4>2. SubSeq(old, 2, 1) = <<>>
        BY SubSeqEmpty
      <4> QED
        <5>1. alerts' = <<>> /\ lastAlert' = lastAlert + 1
          BY <1>3, <2>1, <2>2, <3>3, <4>1, <4>2
        <5>2. ~CoolingDown'
          BY <3>1, <3>5, <5>1 DEF CoolingDown
        <5> QED
          BY <5>1, <5>2 DEF AlertsKept
    <3> QED
      BY <3>1, <3>4, <3>5
  <2>3. CASE ~CoolingDown
    <3>1. old = <<>>
      BY <2>3 DEF AlertsKept, Older
    <3> HIDE DEF old
    <3>2. Young(old, BurstCooldown - 1) = <<>>
      <4>1. old \in Seq(Nat) /\ Len(old) = 0 /\ BurstCooldown - 1 \in Nat
        BY <3>1
      <4>2. PICK f \in 1..(Len(old) + 1) : Young(old, BurstCooldown - 1) = SubSeq(old, f, Len(old))
        BY ONLY <4>1, YoungIsASuffix
      <4>3. f = 1
        BY <4>1
      <4> QED
        BY <4>1, <4>2, <4>3, SubSeqEmpty
    <3> QED
      BY <1>3, <2>1, <2>3, <3>2 DEF AlertsKept, CoolingDown
  <2> QED
    BY <2>2, <2>3
<1>7. BurstTold'
  <2> SUFFICES ASSUME Len(failed') = BurstThreshold, failed'[BurstThreshold] = 0 PROVE FALSE
    BY DEF BurstTold
  <2>1. BurstThreshold \in 1..Len(failed) /\ failed[BurstThreshold] \in Nat
    BY <1>2 DEF BearerTyped
  <2>2. failed'[BurstThreshold] >= 1
    BY <1>2, <2>1
  <2> QED
    BY <2>2
<1> QED
  BY <1>4, <1>5, <1>6, <1>7

\* http_auth.py: BurstThreshold rejections within the window raise an alert unless one was raised
\* in the cooldown before, and a cooldown never sees two.
THEOREM BurstsAreAlerted == Spec => []BurstAlerted
<1> USE BearerAssumptions
<1>2. Init => BearerInv
  BY DEF Init, BearerInit, BearerInv, BearerTyped, StampsKept, AlertsKept, CoolingDown, BurstTold
<1>3. BearerInv /\ [Next]_vars => BearerInv'
  <2> SUFFICES ASSUME BearerInv, [Next]_vars PROVE BearerInv'
    OBVIOUS
  <2>1. CASE UNCHANGED bearerVars
    BY <2>1
    DEF bearerVars, BearerInv, BearerTyped, StampsKept, AlertsKept, CoolingDown, BurstTold
  <2>2. CASE BearerReset
    BY <2>2
    DEF BearerReset, BearerInv, BearerTyped, StampsKept, AlertsKept, CoolingDown, BurstTold
  <2>3. CASE Rejected \/ BearerTick
    BY <2>3, RejectedKeeps, BearerTickKeeps
  <2>4. ProcessStep => BearerReset \/ UNCHANGED bearerVars
    BY DEF ProcessStep, Start, LoadManifest, ReadNames, Build, Stamp, FetchCredentials, Ready, Stop,
           Exit, Idle
  <2> QED
    BY <2>1, <2>2, <2>3, <2>4 DEF Next, vars, RejectRequest
<1>4. BearerInv => BurstAlerted
  <2> SUFFICES ASSUME BearerInv PROVE BurstAlerted
    OBVIOUS
  <2>1. Len(alerts) = IF CoolingDown THEN 1 ELSE 0
    BY DEF BearerInv, AlertsKept
  <2> QED
    BY <2>1 DEF BearerInv, BurstTold, BurstAlerted
<1> QED
  BY <1>2, <1>3, <1>4, PTL DEF Spec

=============================================================================
