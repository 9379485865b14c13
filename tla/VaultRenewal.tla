---------------------------- MODULE VaultRenewal ----------------------------
(***************************************************************************)
(* VaultCredentialSource: the token that fetch() has got from Vault, the   *)
(* loop that renews it, and what the process believes of it.  Time passes  *)
(* in ticks of the 60 s that the loop sleeps at least; a request takes     *)
(* less than a tick.                                                       *)
(***************************************************************************)
EXTENDS Naturals

CONSTANTS
    Period,         \* the token's lease, in ticks
    MaxTtl,         \* token_max_ttl, in ticks: no renewal goes beyond it
    MaxFailures,    \* _MAX_RENEWAL_FAILURES
    MaxStart        \* bound: ticks from fetch() to the lifespan, while modules are built

ASSUME VaultRenewalAssumptions ==
    /\ Period \in Nat \ {0}
    /\ MaxTtl \in Nat /\ Period <= MaxTtl
    /\ MaxFailures \in Nat \ {0}
    /\ MaxStart \in Nat

VARIABLES
    vault,      \* Vault answers, gets requests whose answers are lost, or is down
    renewable,  \* the policy lets the token renew itself
    reauth,     \* _reauth_enabled
    left,       \* what Vault leaves the token to live; a token with 0 is dead
    ttl,        \* what is left of its token_max_ttl
    revoked,    \* history: the token was revoked before its time
    at,         \* where the loop is, or "none" before a fetch and after close()
    wait,       \* what is left of its sleep
    late,       \* ticks that the start of the loop has taken
    lease,      \* _token_lease_duration
    since,      \* time since _last_renewal_ok_ts
    failures,   \* _consecutive_failures
    healthy,    \* _token_healthy
    deadFor     \* history: how long the token has been dead and called healthy

vaultVars == <<vault, renewable, reauth>>
tokenVars == <<left, ttl, revoked>>
loopVars == <<at, wait, late>>
beliefVars == <<lease, since, failures, healthy, deadFor>>
renewalVars == <<vaultVars, tokenVars, loopVars, beliefVars>>

Least(a, b) == IF a <= b THEN a ELSE b

RenewalTypeOK ==
    /\ vault \in {"up", "lossy", "down"}
    /\ renewable \in BOOLEAN /\ reauth \in BOOLEAN
    /\ left \in 0..Period /\ ttl \in 0..MaxTtl /\ left <= ttl
    /\ revoked \in BOOLEAN
    /\ at \in {"none", "building", "sleep", "renew", "login"}
    /\ wait \in 0..Period
    /\ late \in 0..MaxStart
    /\ lease \in 0..Period
    /\ since \in 0..Period
    /\ failures \in 0..(MaxFailures + 1)
    /\ healthy \in BOOLEAN
    /\ deadFor \in Nat

\* What __init__ sets, and a process without Vault keeps.
NoToken ==
    /\ left = 0 /\ ttl = 0 /\ revoked = FALSE
    /\ at = "none" /\ wait = 0 /\ late = 0
    /\ lease = 0 /\ since = 0 /\ failures = 0 /\ healthy = TRUE /\ deadFor = 0

RenewalInit ==
    /\ vault \in {"up", "lossy", "down"}
    /\ renewable \in BOOLEAN /\ reauth \in BOOLEAN
    /\ NoToken

-----------------------------------------------------------------------------
\* _renewal_loop: two thirds of the lease, and no less than a tick.
SleepFor(l) == IF (2 * l) \div 3 < 1 THEN 1 ELSE (2 * l) \div 3

\* _login with its answer: a token with the life that its role gives it.
Issued ==
    /\ left' = Period /\ ttl' = MaxTtl /\ revoked' = FALSE
    /\ lease' = Period /\ since' = 0 /\ deadFor' = 0

\* fetch: log in and read the secret, before the event loop runs.
Fetch ==
    /\ vault = "up"
    /\ Issued
    /\ at' = "building"
    /\ UNCHANGED <<vaultVars, wait, late, failures, healthy>>

\* start_renewal
StartRenewal ==
    /\ at = "building"
    /\ at' = "sleep"
    /\ wait' = SleepFor(lease)
    /\ late' = 0
    /\ UNCHANGED <<vaultVars, tokenVars, beliefVars>>

\* close(), or the process ends; the client forgets its token, Vault need not.
CloseRenewal ==
    /\ left' = 0 /\ ttl' = 0 /\ revoked' = FALSE
    /\ at' = "none" /\ wait' = 0 /\ late' = 0
    /\ lease' = 0 /\ since' = 0 /\ failures' = 0 /\ healthy' = TRUE /\ deadFor' = 0
    /\ UNCHANGED vaultVars

\* The sleep is over.
Wake ==
    /\ at = "sleep" /\ wait = 0
    /\ at' = "renew"
    /\ UNCHANGED <<vaultVars, tokenVars, wait, late, beliefVars>>

\* Mutation of Settle: unhealthy only beyond the third failure.
SettleLater(n, newLease) ==
    /\ failures' = n
    /\ healthy' = (n <= MaxFailures)
    /\ at' = "sleep"
    /\ wait' = SleepFor(newLease)

\* The end of _renew_once: health follows the streak, the callback is called, and the loop
\* goes back to sleep, on the lease it has now.
Settle(n, newLease) ==
    /\ failures' = n
    /\ healthy' = (n < MaxFailures)
    /\ at' = "sleep"
    /\ wait' = SleepFor(newLease)

\* _should_attempt_reauth, after the n-th failure in a row
ShouldAttemptReauth(forbidden, n) == forbidden \/ n >= MaxFailures

\* The except branch of _renew_once.
RenewalFailed(forbidden) ==
    LET n == Least(failures + 1, MaxFailures + 1)
    IN  /\ IF reauth /\ ShouldAttemptReauth(forbidden, n)
           THEN failures' = n /\ at' = "login" /\ UNCHANGED <<wait, healthy>>
           ELSE Settle(n, lease)
        /\ UNCHANGED <<lease, since>>
        /\ deadFor' = IF healthy' THEN deadFor ELSE 0

\* Mutation of Renewed: the lease of the answer is not stored.
RenewedLeaseKept ==
    /\ vault = "up" /\ left > 0 /\ renewable
    /\ left' = Least(Period, ttl)
    /\ UNCHANGED lease
    /\ since' = 0 /\ deadFor' = 0
    /\ Settle(0, lease)
    /\ UNCHANGED <<ttl, revoked>>

\* Vault extends the lease, as far as the token's maximum allows.
Renewed ==
    /\ vault = "up" /\ left > 0 /\ renewable
    /\ left' = Least(Period, ttl)
    /\ lease' = Least(Period, ttl)
    /\ since' = 0 /\ deadFor' = 0
    /\ Settle(0, Least(Period, ttl))
    /\ UNCHANGED <<ttl, revoked>>

\* It does, and the answer is lost.
RenewedUnheard ==
    /\ vault = "lossy" /\ left > 0 /\ renewable
    /\ left' = Least(Period, ttl)
    /\ RenewalFailed(FALSE)
    /\ UNCHANGED <<ttl, revoked>>

\* 403: the token is dead, or may not renew itself.
Refused ==
    /\ vault = "up" /\ (left = 0 \/ ~renewable)
    /\ RenewalFailed(TRUE)
    /\ UNCHANGED tokenVars

NoAnswer ==
    /\ vault \in {"lossy", "down"}
    /\ RenewalFailed(FALSE)
    /\ UNCHANGED tokenVars

\* _renew_once up to a second request
RenewOnce ==
    /\ at = "renew"
    /\ Renewed \/ RenewedUnheard \/ Refused \/ NoAnswer
    /\ UNCHANGED <<vaultVars, late>>

\* Mutation of Reauthenticated: the streak is not reset.
ReauthenticatedStillFailed == vault = "up" /\ Issued /\ Settle(failures, Period)

Reauthenticated == vault = "up" /\ Issued /\ Settle(0, Period)

ReauthFailed ==
    /\ vault \in {"lossy", "down"}
    /\ UNCHANGED <<lease, since>>
    /\ Settle(failures, lease)
    /\ deadFor' = IF healthy' THEN deadFor ELSE 0
    /\ UNCHANGED tokenVars

\* _attempt_reauth: a whole new login.
AttemptReauth ==
    /\ at = "login"
    /\ Reauthenticated \/ ReauthFailed
    /\ UNCHANGED <<vaultVars, late>>

LoopStep == Wake \/ RenewOnce \/ AttemptReauth

\* A tick passes while modules are built, or in the loop's sleep.
VaultTick ==
    /\ \/ at = "building" /\ late < MaxStart /\ late' = late + 1 /\ UNCHANGED wait
       \/ at = "sleep" /\ wait > 0 /\ wait' = wait - 1 /\ UNCHANGED late
    /\ left' = IF left = 0 THEN 0 ELSE left - 1
    /\ ttl' = IF ttl = 0 THEN 0 ELSE ttl - 1
    /\ since' = Least(since + 1, Period)
    /\ deadFor' = IF healthy /\ left = 0 THEN deadFor + 1 ELSE 0
    /\ UNCHANGED <<vaultVars, revoked, at, lease, failures, healthy>>

\* Vault and the way to it change at any time, and an operator may revoke the token.
VaultChanges ==
    /\ vault' \in {"up", "lossy", "down"} \ {vault}
    /\ UNCHANGED <<renewable, reauth, tokenVars, loopVars, beliefVars>>

Revoke ==
    /\ left > 0
    /\ left' = 0 /\ ttl' = 0 /\ revoked' = TRUE
    /\ UNCHANGED <<vaultVars, loopVars, beliefVars>>

-----------------------------------------------------------------------------
\* _MAX_RENEWAL_FAILURES: however a token dies, it is not called healthy for longer than
\* it takes to start the loop and to fail that often, whatever is lost, renewed or logged in
\* in between.
TokenDeathTold == deadFor <= MaxStart + MaxFailures * SleepFor(lease)

\* credential_health: while seconds_to_expiry_est is positive the token has that long to
\* live, although Vault shortens leases towards token_max_ttl and answers get lost.  Only a
\* revocation is not foreseen.
ExpiryNotOverstated ==
    at # "none" /\ ~revoked /\ since < lease => lease - since <= left

=============================================================================
