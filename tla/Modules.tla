------------------------------ MODULE Modules -------------------------------
(***************************************************************************)
(* The tool modules of one proxy process: build_server with its dependency *)
(* gates, the lifespan that starts and stops the modules, the self-healer  *)
(* that retries those that failed, the Vault renewal beside it, and the    *)
(* health file that all of them write.  One action per await; build_server *)
(* is synchronous and goes module by module.                               *)
(***************************************************************************)
EXTENDS Naturals, FiniteSets

CONSTANTS
    Mods,           \* the manifest's modules
    Proxies,        \* those of type mcp_proxy, which ask their upstream what to list
    Tools,          \* names of methods
    None,           \* Python's None
    GateTimeout,    \* dependency_wait_timeout_seconds
    GateBudget,     \* DEFAULT_TOTAL_GATE_BUDGET_SECONDS
    ConnectTimeout, \* _CONNECT_TIMEOUT_SECONDS, for all addresses of the host
    BaseDelay,      \* DEFAULT_BASE_DELAY_SECONDS
    MaxDelay,       \* DEFAULT_MAX_DELAY_SECONDS
    MaxFailures     \* _MAX_RENEWAL_FAILURES

ASSUME ModulesAssumptions ==
    /\ None \notin Mods
    /\ Proxies \subseteq Mods
    /\ GateTimeout \in Nat /\ GateBudget \in Nat /\ ConnectTimeout \in Nat
    /\ BaseDelay \in Nat \ {0}
    /\ MaxDelay \in Nat
    /\ BaseDelay <= MaxDelay
    /\ MaxFailures \in Nat \ {0}

VARIABLES
    phase,          \* build, startup, report, serving, stopping, stopped
    dep,            \* what an attempt at a module meets now: success, or what it raises at
    budget,         \* DependencyGateBudget._remaining
    waited,         \* history: the time that build_server has spent in gates
    health,         \* module_health[m]["status"], or none before the build
    boot,           \* the instance build_server made: none, made, begun, shut
    heal,           \* the instance the last retry made
    published,      \* instance_registry[m]: which of the two
    offers,         \* what get_tool_methods() lists, of the boot's instance and the retry's
    tools,          \* which instance the child server has under a name; gone if torn down
    started,        \* the lifespan's shutdown list
    delays,         \* ModuleSelfHealer._delays; 0 is no entry
    promised,       \* history: the delay logged as next_retry_seconds
    slept,          \* history: the loop's sleep since then
    loop,           \* where the retry task is, and at which module
    due,            \* modules still to be tried in this round
    failures,       \* VaultCredentialSource._consecutive_failures
    token,          \* _token_healthy
    seen,           \* the token's health that the lifespan has read, until its report
    file            \* the health file

vars == <<phase, dep, budget, waited, health, boot, heal, published, offers, tools,
          started, delays, promised, slept, loop, due, failures, token, seen, file>>
gateVars == <<budget, waited>>
instVars == <<boot, heal, published, offers, tools, started>>
loopVars == <<delays, promised, slept, loop, due>>
vaultVars == <<failures, token>>

Retryable == {"failed_init", "failed_startup"}
Statuses  == {"none", "instantiated", "failed_import", "running"} \union Retryable
States    == {"none", "made", "begun", "shut"}
NoLoop    == [at |-> "none", mod |-> None]
Sleeping  == [at |-> "sleep", mod |-> None]
Attempting == {"init", "start", "undo", "alert"}
Delays    == 0..MaxDelay
Instances == Mods \X {"boot", "heal"}

Lesser(a, b) == IF a < b THEN a ELSE b
Minus(a, b)  == IF a > b THEN a - b ELSE 0

TypeOK ==
    /\ phase \in {"build", "startup", "report", "serving", "stopping", "stopped"}
    /\ dep \in [Mods -> {"up", "noInit", "noStart", "broken"}]
    /\ budget \in 0..GateBudget
    /\ waited \in Nat
    /\ health \in [Mods -> Statuses]
    /\ boot \in [Mods -> States]
    /\ heal \in [Mods -> States \ {"made"}]
    /\ published \in [Mods -> {"none", "boot", "heal"}]
    /\ offers \in [Instances -> SUBSET Tools]
    /\ tools \in [Mods -> [Tools -> {"none", "boot", "heal", "gone"}]]
    /\ started \subseteq Instances
    /\ delays \in [Mods -> Delays]
    /\ promised \in [Mods -> Delays]
    /\ slept \in [Mods -> Delays]
    /\ loop \in [at : {"none", "sleep"} \union Attempting, mod : Mods \union {None}]
    /\ due \subseteq Mods
    /\ failures \in 0..MaxFailures
    /\ token \in BOOLEAN
    /\ seen \in BOOLEAN
    /\ file \in [failed : SUBSET Mods, token : BOOLEAN]

Init ==
    /\ phase = "build"
    /\ dep \in [Mods -> {"up", "noInit", "noStart", "broken"}]
    /\ budget = GateBudget
    /\ waited = 0
    /\ health = [m \in Mods |-> "none"]
    /\ boot = [m \in Mods |-> "none"]
    /\ heal = [m \in Mods |-> "none"]
    /\ published = [m \in Mods |-> "none"]
    /\ offers = [i \in Instances |-> {}]
    /\ tools = [m \in Mods |-> [t \in Tools |-> "none"]]
    /\ started = {}
    /\ delays = [m \in Mods |-> 0]
    /\ promised = [m \in Mods |-> 0]
    /\ slept = [m \in Mods |-> 0]
    /\ loop = NoLoop
    /\ due = {}
    /\ failures = 0
    /\ token = TRUE
    /\ seen = TRUE
    /\ file = [failed |-> {}, token |-> TRUE]

\* _write_health_file, in place in one step (os.replace).
WriteFile(h, t) == file' = [failed |-> {m \in Mods : h[m] # "running"}, token |-> t]

Pending == {m \in Mods : health[m] \in Retryable}

\* The methods of a fresh instance: fixed by the class, or what the upstream lists now.
Lists(m) == IF m \in Proxies THEN SUBSET Tools ELSE {Tools}

\* Mutation of Register: a name that is taken is left alone.
RegisterFree(m, list, instance) ==
    tools' = [tools EXCEPT ![m] =
                  [t \in Tools |-> IF t \in list /\ @[t] = "none" THEN instance ELSE @[t]]]

\* _register_module_tools: each name is added to the child server, or replaced there.  No
\* name is ever taken off.
Register(m, list, instance) ==
    tools' = [tools EXCEPT ![m] = [t \in Tools |-> IF t \in list THEN instance ELSE @[t]]]

-----------------------------------------------------------------------------
\* build_server.

\* DependencyGateBudget.allowance
Allowance == Lesser(GateTimeout, budget)

\* Mutation of Gate: what a gate took is not taken off the budget.
GateUncounted ==
    \E elapsed \in 0..(Allowance + ConnectTimeout) :
        /\ Allowance = 0 => elapsed = 0
        /\ waited' = waited + elapsed
        /\ UNCHANGED budget

\* _gate_local_dependency: poll until the port is up or the allowance is over.  The last
\* connect may begin before the deadline and run its own timeout beyond it.
Gate ==
    \E elapsed \in 0..(Allowance + ConnectTimeout) :
        /\ Allowance = 0 => elapsed = 0
        /\ waited' = waited + elapsed
        /\ budget' = Minus(budget, elapsed)

\* One module of the manifest: the import, the gate, the instance and its tools.
Build(m) ==
    /\ phase = "build"
    /\ health[m] = "none"
    /\ \/ /\ dep[m] = "broken"
          /\ health' = [health EXCEPT ![m] = "failed_import"]
          /\ UNCHANGED <<gateVars, boot, published, offers, tools>>
       \/ /\ dep[m] = "noInit"
          /\ Gate
          /\ health' = [health EXCEPT ![m] = "failed_init"]
          /\ UNCHANGED <<boot, published, offers, tools>>
       \/ /\ dep[m] \in {"noStart", "up"}
          /\ Gate
          /\ health' = [health EXCEPT ![m] = "instantiated"]
          /\ boot' = [boot EXCEPT ![m] = "made"]
          /\ published' = [published EXCEPT ![m] = "boot"]
          /\ \E list \in Lists(m) :
                 /\ offers' = [offers EXCEPT ![<<m, "boot">>] = list]
                 /\ Register(m, list, "boot")
    /\ UNCHANGED <<phase, dep, heal, started, loopVars, vaultVars, seen, file>>

-----------------------------------------------------------------------------
\* The lifespan.

\* build_server has returned, and the budget of its gates is gone.  start_renewal, then every
\* instance's startup() at once, listed before it is awaited.
Enter ==
    /\ phase = "build"
    /\ \A m \in Mods : health[m] # "none"
    /\ phase' = "startup"
    /\ budget' = 0
    /\ waited' = 0
    /\ boot' = [m \in Mods |-> IF boot[m] = "made" THEN "begun" ELSE boot[m]]
    /\ started' = {<<m, "boot">> : m \in {n \in Mods : boot[n] = "made"}}
    /\ UNCHANGED <<dep, health, heal, published, offers, tools, loopVars, vaultVars, seen, file>>

\* The gather is over: any of the startups may have raised, and the token's health is read
\* before the alerts on optional modules are awaited.
StartupDone ==
    /\ phase = "startup"
    /\ \E failed \in SUBSET {m \in Mods : boot[m] = "begun"} :
           health' = [m \in Mods |-> IF boot[m] # "begun" THEN health[m]
                                     ELSE IF m \in failed THEN "failed_startup"
                                     ELSE "running"]
    /\ phase' = "report"
    /\ seen' = token
    /\ UNCHANGED <<dep, gateVars, instVars, loopVars, vaultVars, file>>

\* The file is written from what was read, and the healer started on what has failed:
\* at once for an error that may pass, at the cap for one that looks permanent.
Report ==
    /\ phase = "report"
    /\ phase' = "serving"
    /\ WriteFile(health, seen)
    /\ \E d \in [Mods -> {BaseDelay, MaxDelay}] :
           /\ delays' = [m \in Mods |-> IF m \in Pending THEN d[m] ELSE 0]
           /\ promised' = delays'
    /\ loop' = IF Pending = {} THEN NoLoop ELSE Sleeping
    /\ seen' = TRUE
    /\ UNCHANGED <<dep, gateVars, health, instVars, slept, due, vaultVars>>

\* ModuleSelfHealer.close: the task is cancelled at the await it is in.
Stop ==
    /\ phase = "serving"
    /\ phase' = "stopping"
    /\ loop' = NoLoop
    /\ due' = {}
    /\ UNCHANGED <<dep, gateVars, health, instVars, delays, promised, slept, vaultVars,
                   seen, file>>

\* shutdown() of everything on the list.
ShutDown ==
    /\ phase = "stopping"
    /\ phase' = "stopped"
    /\ boot' = [m \in Mods |-> IF <<m, "boot">> \in started THEN "shut" ELSE boot[m]]
    /\ heal' = [m \in Mods |-> IF <<m, "heal">> \in started THEN "shut" ELSE heal[m]]
    /\ UNCHANGED <<dep, gateVars, health, published, offers, tools, started, loopVars,
                   vaultVars, seen, file>>

-----------------------------------------------------------------------------
\* ModuleSelfHealer._loop and _attempt, _retry_module and _retry_and_track.

\* From the end of one attempt to the next await: another due module, or a sleep, or the
\* end of a loop that has nothing left to heal.
GoOn(rest, waiting) ==
    \/ /\ rest # {}
       /\ \E m \in rest :
              /\ loop' = [at |-> "init", mod |-> m]
              /\ due' = rest \ {m}
    \/ /\ rest = {}
       /\ loop' = IF \E m \in Mods : waiting[m] > 0
                      THEN Sleeping ELSE NoLoop
       /\ due' = {}

Waiting == {m \in Mods : delays[m] > 0}

\* Mutation of CountDown: a module that is not due keeps its whole delay.
CountDownNot(sleep) == delays

\* What is left of the delays of those that are not due.
CountDown(sleep) ==
    [m \in Mods |-> IF delays[m] > sleep THEN delays[m] - sleep ELSE delays[m]]

\* The sleep of the shortest delay is over.
Wake ==
    /\ loop.at = "sleep"
    /\ \E first \in Waiting :
           /\ \A m \in Waiting : delays[first] <= delays[m]
           /\ delays' = CountDown(delays[first])
           /\ slept' = [m \in Mods |-> IF m \in Waiting THEN slept[m] + delays[first]
                                                        ELSE slept[m]]
           /\ GoOn({m \in Waiting : delays[m] <= delays[first]}, delays)
    /\ UNCHANGED <<phase, dep, gateVars, health, instVars, promised, vaultVars, seen, file>>

\* Mutation of Reschedule: the cap is left out.
RescheduleUncapped(m) ==
    \E d \in {2 * delays[m], MaxDelay} :
        /\ delays' = [delays EXCEPT ![m] = d]
        /\ promised' = [promised EXCEPT ![m] = d]
        /\ slept' = [slept EXCEPT ![m] = 0]
        /\ GoOn(due, delays')

\* Mutation of Reschedule: an error that looks permanent is not tried again.
RescheduleOrGiveUp(m) ==
    \E d \in {Lesser(2 * delays[m], MaxDelay), 0} :
        /\ delays' = [delays EXCEPT ![m] = d]
        /\ promised' = [promised EXCEPT ![m] = d]
        /\ slept' = [slept EXCEPT ![m] = 0]
        /\ GoOn(due, delays')

\* A failed attempt: twice what the map holds, up to the cap, or the cap.
Reschedule(m) ==
    \E d \in {Lesser(2 * delays[m], MaxDelay), MaxDelay} :
        /\ delays' = [delays EXCEPT ![m] = d]
        /\ promised' = [promised EXCEPT ![m] = d]
        /\ slept' = [slept EXCEPT ![m] = 0]
        /\ GoOn(due, delays')

At(place) == loop.at = place

\* Mutation of Track: a recovered instance is not listed for shutdown.
TrackNot(m) == UNCHANGED started

\* _retry_and_track
Track(m) == started' = started \union {<<m, "heal">>}

\* The registry shared by the status tool, /health and the file.
Publish(m) == published' = [published EXCEPT ![m] = "heal"]

\* Mutation of Rewrite: nobody is told of the recovery.
RewriteNot == UNCHANGED file

\* _rewrite_health_file
Rewrite == WriteFile(health', token)

\* Instantiation in a worker thread raises.
InitFails ==
    /\ At("init")
    /\ dep[loop.mod] = "noInit"
    /\ health' = [health EXCEPT ![loop.mod] = "failed_init"]
    /\ Reschedule(loop.mod)
    /\ UNCHANGED <<phase, dep, gateVars, instVars, vaultVars, seen, file>>

\* A fresh instance, and its startup() begins.
InitDone ==
    /\ At("init")
    /\ dep[loop.mod] \in {"up", "noStart"}
    /\ heal' = [heal EXCEPT ![loop.mod] = "begun"]
    /\ \E list \in Lists(loop.mod) : offers' = [offers EXCEPT ![<<loop.mod, "heal">>] = list]
    /\ loop' = [loop EXCEPT !.at = "start"]
    /\ UNCHANGED <<phase, dep, gateVars, health, boot, published, tools, started, delays,
                   promised, slept, due, vaultVars, seen, file>>

\* startup(), or the registration after it, raises: the instance is to be torn down.  What
\* was registered by then stays on the child server.
StartFails ==
    /\ At("start")
    /\ dep[loop.mod] # "up"
    /\ \E list \in SUBSET offers[<<loop.mod, "heal">>] : Register(loop.mod, list, "gone")
    /\ health' = [health EXCEPT ![loop.mod] = "failed_startup"]
    /\ loop' = [loop EXCEPT !.at = "undo"]
    /\ UNCHANGED <<phase, dep, gateVars, boot, heal, published, offers, started, delays,
                   promised, slept, due, vaultVars, seen, file>>

TornDown ==
    /\ At("undo")
    /\ heal' = [heal EXCEPT ![loop.mod] = "shut"]
    /\ Reschedule(loop.mod)
    /\ UNCHANGED <<phase, dep, gateVars, health, boot, published, offers, tools,
                   started, vaultVars, seen, file>>

\* From startup's return to the recovery alert there is no await: tools, registry, status,
\* shutdown list, delays and health file in one step.
StartDone ==
    /\ At("start")
    /\ dep[loop.mod] = "up"
    /\ Register(loop.mod, offers[<<loop.mod, "heal">>], "heal")
    /\ Publish(loop.mod)
    /\ health' = [health EXCEPT ![loop.mod] = "running"]
    /\ Track(loop.mod)
    /\ delays' = [delays EXCEPT ![loop.mod] = 0]
    /\ promised' = [promised EXCEPT ![loop.mod] = 0]
    /\ slept' = [slept EXCEPT ![loop.mod] = 0]
    /\ Rewrite
    /\ loop' = [loop EXCEPT !.at = "alert"]
    /\ UNCHANGED <<phase, dep, gateVars, boot, heal, offers, due, vaultVars, seen>>

Alerted ==
    /\ At("alert")
    /\ GoOn(due, delays)
    /\ UNCHANGED <<phase, dep, gateVars, health, instVars, delays, promised, slept,
                   vaultVars, seen, file>>

HealStep ==
    phase = "serving" /\
    (Wake \/ InitFails \/ InitDone \/ StartFails \/ TornDown \/ StartDone \/ Alerted)

-----------------------------------------------------------------------------
\* VaultCredentialSource._renew_once: a renewal, and where it fails and that is allowed, a
\* fresh login.  A transition rewrites the health file.
Renew ==
    /\ phase \in {"startup", "report", "serving", "stopping"}
    /\ \E n \in {0, Lesser(failures + 1, MaxFailures)} :
           /\ failures' = n
           /\ token' = (n < MaxFailures)
           /\ IF token' # token THEN WriteFile(health, token') ELSE UNCHANGED file
    /\ UNCHANGED <<phase, dep, gateVars, health, instVars, loopVars, seen>>

\* A dependency comes up or goes down.  A missing import stays missing.
DependencyChanges ==
    /\ \E m \in Mods, s \in {"up", "noInit", "noStart"} :
           /\ dep[m] \notin {"broken", s}
           /\ dep' = [dep EXCEPT ![m] = s]
    /\ UNCHANGED <<phase, gateVars, health, instVars, loopVars, vaultVars, seen, file>>

-----------------------------------------------------------------------------
Next ==
    \/ \E m \in Mods : Build(m)
    \/ Enter \/ StartupDone \/ Report \/ Stop \/ ShutDown
    \/ HealStep \/ Renew \/ DependencyChanges

Spec == Init /\ [][Next]_vars

\* What is on the main thread or the event loop is run; a startup, a teardown, an alert and
\* the worker thread come to an end.
FairSpec ==
    /\ Spec
    /\ WF_vars(\E m \in Mods : Build(m))
    /\ WF_vars(Enter \/ StartupDone \/ Report)
    /\ WF_vars(HealStep)

-----------------------------------------------------------------------------
\* A module that is called running is served: the instance that reports on it (vikunja#517)
\* has begun and will be shut down, and the calls that reach it are those of the tools it
\* lists, every one of them.  A tool that it does not list may still be bound to an instance
\* that failed: the child server drops no name.
RunningServes ==
    phase = "serving" =>
        \A m \in Mods : health[m] = "running" =>
            /\ {t \in Tools : tools[m][t] = published[m]} = offers[<<m, published[m]>>]
            /\ <<m, published[m]>> \in started
            /\ \/ published[m] = "boot" /\ boot[m] = "begun"
               \/ published[m] = "heal" /\ heal[m] = "begun"

\* The health file names exactly the modules that are down, whoever wrote it last: the
\* lifespan, the self-healer or the Vault renewal.
FileTellsModules ==
    phase = "serving" => file.failed = {m \in Mods : health[m] # "running"}

\* A module is retried when the loop has slept the delay that was logged for it, however
\* often the other modules woke the loop meanwhile.
PromiseKept ==
    /\ At("sleep") => \A m \in Waiting : delays[m] + slept[m] = promised[m]
    /\ At("init") => \A m \in due \union {loop.mod} : slept[m] = promised[m]

\* No instance that served is left running: the replaced one of the start included.
AllShutDown ==
    phase = "stopped" =>
        \A m \in Mods :
            /\ boot[m] # "begun"
            /\ published[m] = "heal" => heal[m] = "shut"

\* All gates together wait no longer than the budget and the one connect that was under way
\* when it ran out, however many modules have a local dependency.
GateBounded == waited <= GateBudget + ConnectTimeout

\* A module whose dependency comes up and stays up is running in the end, without a restart.
FailedModulesHeal ==
    \A m \in Mods :
        <>[](dep[m] = "up") => <>(health[m] = "running" \/ phase \in {"stopping", "stopped"})

=============================================================================
