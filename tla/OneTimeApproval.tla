--------------------------- MODULE OneTimeApproval ---------------------------
(***************************************************************************)
(* What signed approvals promise, whoever runs them: a request is open     *)
(* once, an operator grants an open request at most once, a grant lasts    *)
(* for a while, and while it lasts one call may be admitted by it, one     *)
(* more after every restart of the process that remembers the admissions.  *)
(***************************************************************************)
EXTENDS Naturals

CONSTANTS Requests,     \* the requests that may be made
          Callers,      \* the calls that may be admitted
          MaxRestarts   \* bound: how often the process restarts

VARIABLES
    st,       \* st[r]: where request r stands
    users,    \* users[r]: the calls admitted by r's grant
    fresh,    \* fresh[r]: the running process has admitted no call by r
    restarts

vars == <<st, users, fresh, restarts>>

States == {"idle", "open", "granted", "ended"}

Init ==
    /\ st = [r \in Requests |-> "idle"]
    /\ users = [r \in Requests |-> {}]
    /\ fresh = [r \in Requests |-> TRUE]
    /\ restarts = 0

Open(r) ==
    /\ st[r] = "idle"
    /\ st' = [st EXCEPT ![r] = "open"]
    /\ UNCHANGED <<users, fresh, restarts>>

Grant(r) ==
    /\ st[r] = "open"
    /\ st' = [st EXCEPT ![r] = "granted"]
    /\ UNCHANGED <<users, fresh, restarts>>

\* Denied, lapsed or never to be made: any of them may end together.
End(R) ==
    /\ st' = [r \in Requests |-> IF r \in R THEN "ended" ELSE st[r]]
    /\ UNCHANGED <<users, fresh, restarts>>

\* Call c is admitted by the grant of r.  c has made no request, and makes none now.
Admit(c, r) ==
    /\ st[r] = "granted"
    /\ fresh[r]
    /\ \A q \in Requests : c \notin users[q]
    /\ st[c] = "idle"
    /\ st' = [st EXCEPT ![c] = "ended"]
    /\ users' = [users EXCEPT ![r] = @ \union {c}]
    /\ fresh' = [fresh EXCEPT ![r] = FALSE]
    /\ UNCHANGED restarts

\* The process forgets what it admitted, and what it was about to ask.
Restart(R) ==
    /\ restarts < MaxRestarts
    /\ restarts' = restarts + 1
    /\ fresh' = [r \in Requests |-> TRUE]
    /\ \A r \in R : st[r] = "idle"
    /\ st' = [r \in Requests |-> IF r \in R THEN "ended" ELSE st[r]]
    /\ UNCHANGED users

Next ==
    \/ \E r \in Requests : Open(r) \/ Grant(r)
    \/ \E R \in SUBSET Requests : End(R) \/ Restart(R)
    \/ \E c \in Callers, r \in Requests : Admit(c, r)

Spec == Init /\ [][Next]_vars

============================================================================
