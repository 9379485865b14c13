----------------------------- MODULE BearerAuth -----------------------------
(***************************************************************************)
(* BearerTokenVerifier: bursts of rejected requests and the one alert that *)
(* each of them raises.  Stamps are kept as ages, in units of the class's  *)
(* time constants.                                                         *)
(***************************************************************************)
EXTENDS Naturals, Sequences

CONSTANTS
    BurstWindow,    \* _BURST_WINDOW_SECONDS
    BurstThreshold, \* _BURST_THRESHOLD
    BurstCooldown,  \* _BURST_COOLDOWN_SECONDS
    BurstTracked,   \* _BURST_MAX_TRACKED
    Never           \* Python's None

ASSUME BearerAssumptions ==
    /\ BurstWindow \in Nat /\ BurstCooldown \in Nat \ {0}
    /\ BurstThreshold \in Nat \ {0}
    /\ BurstTracked \in Nat /\ BurstThreshold <= BurstTracked
    /\ Never \notin Nat

VARIABLES
    recent401s, \* the deque: ages, the oldest first; an age beyond the window is BurstWindow + 1
    lastAlert,  \* age of _last_alert_monotonic, no more than BurstCooldown
    failed,     \* history: the ages of the last BurstThreshold rejections, likewise
    alerts      \* history: the ages of the alerts of the last BurstCooldown

bearerVars == <<recent401s, lastAlert, failed, alerts>>

BearerInit ==
    /\ recent401s = <<>>
    /\ lastAlert = Never
    /\ failed = <<>>
    /\ alerts = <<>>

-----------------------------------------------------------------------------
\* deque(maxlen=n).append
Pushed(q, n) == LET r == Append(q, 0) IN IF Len(r) > n THEN Tail(r) ELSE r

\* What popping the stamps older than max off the left leaves.
Young(ages, max) ==
    LET first == CHOOSE i \in 1..(Len(ages) + 1) :
                     /\ i <= Len(ages) => ages[i] <= max
                     /\ \A j \in 1..(i - 1) : ages[j] > max
    IN  SubSeq(ages, first, Len(ages))

\* _register_failure_and_check, first half: append, and pop what is older than the window.
Tracked == Young(Pushed(recent401s, BurstTracked), BurstWindow)

CoolingDown == lastAlert # Never /\ lastAlert < BurstCooldown

\* Mutation of Rejected: the stamp is taken at every burst, alerted or not.
RejectedStamping ==
    LET burst == Len(Tracked) >= BurstThreshold
        fire  == burst /\ ~CoolingDown
    IN  /\ recent401s' = Tracked
        /\ lastAlert' = IF burst THEN 0 ELSE lastAlert
        /\ failed' = Pushed(failed, BurstThreshold)
        /\ alerts' = IF fire THEN Append(alerts, 0) ELSE alerts

\* verify_token rejects a request: an alert if there are enough in the window, and the last
\* alert is long enough ago.
Rejected ==
    LET fire == Len(Tracked) >= BurstThreshold /\ ~CoolingDown
    IN  /\ recent401s' = Tracked
        /\ lastAlert' = IF fire THEN 0 ELSE lastAlert
        /\ failed' = Pushed(failed, BurstThreshold)
        /\ alerts' = IF fire THEN Append(alerts, 0) ELSE alerts

Older(ages, cap) ==
    [i \in DOMAIN ages |-> IF ages[i] < cap THEN ages[i] + 1 ELSE cap]

BearerTick ==
    /\ bearerVars # <<<<>>, Never, <<>>, <<>>>>
    /\ recent401s' = Older(recent401s, BurstWindow + 1)
    /\ lastAlert' = IF lastAlert # Never /\ lastAlert < BurstCooldown
                    THEN lastAlert + 1 ELSE lastAlert
    /\ failed' = Older(failed, BurstWindow + 1)
    /\ alerts' = Young(Older(alerts, BurstCooldown), BurstCooldown - 1)

\* A new process has seen nothing.
BearerReset ==
    /\ recent401s' = <<>> /\ lastAlert' = Never
    /\ failed' = <<>> /\ alerts' = <<>>

-----------------------------------------------------------------------------
\* 401-burst detection: BurstThreshold rejections within the window raise an alert, unless
\* one was raised in the cooldown before; and no two alerts lie within a cooldown, however
\* long the client keeps on and however many stamps the deque has dropped.
BurstAlerted ==
    /\ Len(alerts) <= 1
    /\ (/\ Len(failed) = BurstThreshold
        /\ failed[BurstThreshold] = 0
        /\ failed[1] <= BurstWindow) => Len(alerts) = 1

=============================================================================
