--------------------------- MODULE ModulesProofs ----------------------------
(***************************************************************************)
(* What is called running is served and shut down, the health file follows *)
(* the statuses, every logged delay is kept and the gates stay within      *)
(* their budget, for any set of modules and any delays.                    *)
(***************************************************************************)
EXTENDS Modules, TLAPS

Starting == {"build", "startup", "report"}

\* The instance that reports on m has begun and is listed for shutdown.
Serves(m) ==
    /\ <<m, published[m]>> \in started
    /\ \/ published[m] = "boot" /\ boot[m] = "begun"
       \/ published[m] = "heal" /\ heal[m] = "begun"

\* The gates: while there is budget, nothing beyond it has been waited.
GateInv ==
    \/ waited + budget <= GateBudget
    \/ budget = 0 /\ waited <= GateBudget + ConnectTimeout

\* The instances: what each phase of the process knows of them.
StartInv ==
    /\ phase \in Starting =>
           /\ loop = NoLoop /\ due = {}
           /\ \A m \in Mods : /\ delays[m] = 0 /\ slept[m] = 0 /\ promised[m] = 0
                              /\ published[m] # "heal" /\ heal[m] = "none"
    /\ phase = "build" => \A m \in Mods :
           /\ boot[m] \in {"none", "made"}
           /\ health[m] # "running"
           /\ boot[m] = "made" => published[m] = "boot"
    /\ phase = "startup" => \A m \in Mods :
           /\ health[m] # "running"
           /\ boot[m] = "begun" => published[m] = "boot"
    /\ phase # "build" => \A m \in Mods : boot[m] # "made"
    /\ phase \in {"report", "serving"} =>
           \A m \in Mods : health[m] = "running" => Serves(m)
    /\ \A m \in Mods : boot[m] = "begun" => <<m, "boot">> \in started
    /\ \A m \in Mods : published[m] = "heal" =>
           /\ health[m] = "running"
           /\ <<m, "heal">> \in started
    /\ phase = "stopped" =>
           \A m \in Mods : /\ boot[m] # "begun"
                           /\ published[m] = "heal" => heal[m] = "shut"

\* The names bound to an instance of m are those that it lists.
Bound(m, instance) ==
    \A t \in Tools : tools[m][t] = instance <=> t \in offers[<<m, instance>>]

\* The tools: registering a name takes it from whichever instance had it, and a module that
\* never recovered has none of a retry's.
ToolsInv ==
    \A m \in Mods :
        /\ health[m] = "none" => \A t \in Tools : tools[m][t] = "none"
        /\ phase \in {"build", "startup"} /\ boot[m] # "none" => Bound(m, "boot")
        /\ health[m] = "running" => Bound(m, published[m])
        /\ published[m] # "heal" => \A t \in Tools : tools[m][t] # "heal"

\* The retry task: what it works on has failed and is not running, and it has slept what it
\* promised.
LoopInv ==
    /\ phase # "serving" => loop = NoLoop /\ due = {}
    /\ phase = "serving" => \A m \in Waiting : health[m] \in Retryable
    /\ due \subseteq Waiting
    /\ loop.mod \notin due
    /\ At("none") \/ At("sleep") => due = {} /\ loop.mod = None
    /\ At("init") \/ At("start") \/ At("undo") => loop.mod \in Waiting
    /\ At("start") => heal[loop.mod] = "begun"
    /\ At("alert") => loop.mod \in Mods \ Waiting
    /\ phase = "serving" => \A m \in Waiting \ (due \union {loop.mod}) :
           delays[m] + slept[m] = promised[m]
    /\ \A m \in due : slept[m] = promised[m]
    /\ At("init") => slept[loop.mod] = promised[loop.mod]

FileInv == phase = "serving" => file.failed = {m \in Mods : health[m] # "running"}

ModulesInv == TypeOK /\ GateInv /\ StartInv /\ ToolsInv /\ LoopInv /\ FileInv

\* Nothing has been built: the invariant holds.
LEMMA InitModules == Init => ModulesInv
BY ModulesAssumptions
DEF Init, ModulesInv, TypeOK, GateInv, StartInv, ToolsInv, LoopInv, FileInv, States, Statuses,
    Retryable, NoLoop, Delays, Starting, Attempting, Waiting, At

\* A name that is registered is bound to the instance given; every other keeps what it had.
LEMMA Registered ==
    ASSUME TypeOK, NEW m \in Mods, NEW list \in SUBSET Tools,
           NEW instance \in {"boot", "heal", "gone"}, Register(m, list, instance)
    PROVE  /\ tools' \in [Mods -> [Tools -> {"none", "boot", "heal", "gone"}]]
           /\ \A n \in Mods \ {m} : tools'[n] = tools[n]
           /\ \A t \in Tools : tools'[m][t] = IF t \in list THEN instance ELSE tools[m][t]
BY DEF TypeOK, Register

\* A fresh instance lists its own methods, and no other instance lists others than before.
LEMMA Listed ==
    ASSUME TypeOK, NEW m \in Mods, NEW i \in {"boot", "heal"}, NEW list \in Lists(m),
           offers' = [offers EXCEPT ![<<m, i>>] = list]
    PROVE  /\ list \in SUBSET Tools
           /\ offers' \in [Instances -> SUBSET Tools]
           /\ offers'[<<m, i>>] = list
           /\ \A n \in Mods, j \in {"boot", "heal"} :
                  <<n, j>> # <<m, i>> => offers'[<<n, j>>] = offers[<<n, j>>]
<1>1. list \in SUBSET Tools /\ <<m, i>> \in Instances
  BY DEF Lists, Instances
<1>2. \A n \in Mods, j \in {"boot", "heal"} : <<n, j>> \in Instances
  BY DEF Instances
<1> QED
  BY <1>1, <1>2 DEF TypeOK

\* Where no tool is registered and no module is called running anew, the tools stay right.
LEMMA ToolsKept ==
    ASSUME ToolsInv, UNCHANGED <<published, offers, tools>>,
           phase' \in {"build", "startup"} =>
               /\ phase \in {"build", "startup"}
               /\ \A m \in Mods : boot'[m] # "none" => boot[m] # "none",
           \A m \in Mods : health'[m] \in {"none", "running"} => health'[m] = health[m]
    PROVE  ToolsInv'
<1>1. \A m, instance : Bound(m, instance)' <=> Bound(m, instance)
  BY DEF Bound
<1> QED
  BY <1>1 DEF ToolsInv

\* A gate keeps the sum: it waits within its allowance but for one connect.
LEMMA GateKeeps ==
    ASSUME TypeOK, GateInv, Gate
    PROVE  /\ GateInv'
           /\ budget' \in 0..GateBudget
           /\ waited' \in Nat
BY ModulesAssumptions DEF TypeOK, GateInv, Gate, Allowance, Lesser, Minus

\* Each step of build_server keeps the invariant.
LEMMA BuildKeeps ==
    ASSUME ModulesInv, NEW m \in Mods, Build(m)
    PROVE  ModulesInv'
<1>1. GateInv' /\ budget' \in 0..GateBudget /\ waited' \in Nat
  BY GateKeeps DEF ModulesInv, Build, GateInv, TypeOK, gateVars
<1>2. /\ phase = "build" /\ health[m] = "none" /\ TypeOK /\ ToolsInv
      /\ UNCHANGED <<phase, dep, heal, started, delays, promised, slept, loop, due, failures,
                     token, seen, file>>
  BY DEF ModulesInv, Build, loopVars, vaultVars
<1>3. ASSUME dep[m] \in {"noStart", "up"} PROVE TypeOK' /\ ToolsInv'
  <2>0. /\ health' = [health EXCEPT ![m] = "instantiated"]
        /\ boot' = [boot EXCEPT ![m] = "made"]
        /\ published' = [published EXCEPT ![m] = "boot"]
        /\ \E list \in Lists(m) : /\ offers' = [offers EXCEPT ![<<m, "boot">>] = list]
                                  /\ Register(m, list, "boot")
    BY <1>3 DEF Build
  <2> PICK list \in Lists(m) :
          /\ offers' = [offers EXCEPT ![<<m, "boot">>] = list]
          /\ Register(m, list, "boot")
    BY <2>0
  <2>1. /\ list \in SUBSET Tools
        /\ offers' \in [Instances -> SUBSET Tools]
        /\ offers'[<<m, "boot">>] = list
        /\ \A n \in Mods, j \in {"boot", "heal"} :
               <<n, j>> # <<m, "boot">> => offers'[<<n, j>>] = offers[<<n, j>>]
    BY <1>2, Listed
  <2>2. /\ tools' \in [Mods -> [Tools -> {"none", "boot", "heal", "gone"}]]
        /\ \A n \in Mods \ {m} : tools'[n] = tools[n]
        /\ \A t \in Tools : tools'[m][t] = IF t \in list THEN "boot" ELSE tools[m][t]
    BY <1>2, <2>1, Registered
  <2>3. TypeOK'
    BY <1>1, <1>2, <2>0, <2>1, <2>2 DEF TypeOK, States, Statuses
  <2>4. ToolsInv'
    <3> SUFFICES ASSUME NEW n \in Mods
                 PROVE  /\ health'[n] = "none" => \A t \in Tools : tools'[n][t] = "none"
                        /\ boot'[n] # "none" => Bound(n, "boot")'
                        /\ health'[n] # "running"
                        /\ \A t \in Tools : tools'[n][t] # "heal"
      BY DEF ToolsInv
    <3>1. CASE n = m
      <4>1. \A t \in Tools : tools[m][t] = "none"
        BY <1>2 DEF ModulesInv, ToolsInv
      <4>2. \A t \in Tools : tools'[m][t] = IF t \in list THEN "boot" ELSE "none"
        BY <2>2, <4>1
      <4>3. health'[n] = "instantiated"
        BY <1>2, <2>0, <3>1 DEF TypeOK
      <4> QED
        BY <2>1, <3>1, <4>2, <4>3 DEF Bound
    <3>2. CASE n # m
      <4>1. /\ health'[n] = health[n] /\ boot'[n] = boot[n] /\ tools'[n] = tools[n]
            /\ offers'[<<n, "boot">>] = offers[<<n, "boot">>]
        BY <1>2, <2>0, <2>1, <2>2, <3>2 DEF TypeOK
      <4>2. health[n] # "running" /\ published[n] # "heal"
        BY <1>2 DEF ModulesInv, StartInv, Starting
      <4>3. Bound(n, "boot") => Bound(n, "boot")'
        BY <4>1 DEF Bound
      <4> QED
        BY <1>2, <4>1, <4>2, <4>3 DEF ToolsInv
    <3> QED
      BY <3>1, <3>2
  <2> QED
    BY <2>3, <2>4
<1>4. ASSUME dep[m] \notin {"noStart", "up"} PROVE TypeOK' /\ ToolsInv'
  <2>1. /\ UNCHANGED <<boot, published, offers, tools>>
        /\ \E status \in {"failed_import", "failed_init"} :
               health' = [health EXCEPT ![m] = status]
    BY <1>4 DEF Build
  <2>2. TypeOK'
    BY <1>1, <1>2, <2>1 DEF TypeOK, Statuses, Retryable
  <2>3. ToolsInv'
    BY <1>2, <2>1, ToolsKept DEF ModulesInv, TypeOK
  <2> QED
    BY <2>2, <2>3
<1>5. TypeOK' /\ ToolsInv'
  BY <1>3, <1>4
<1>6. StartInv'
  BY DEF ModulesInv, Build, TypeOK, StartInv, Serves, Starting, loopVars
<1>7. LoopInv' /\ FileInv'
  BY <1>2 DEF ModulesInv, LoopInv, FileInv, Waiting, At
<1> QED
  BY <1>1, <1>5, <1>6, <1>7 DEF ModulesInv

\* The lifespan keeps the invariant.
LEMMA LifespanKeeps ==
    ASSUME ModulesInv, Enter \/ StartupDone \/ Report \/ Stop \/ ShutDown
    PROVE  ModulesInv'
<1> USE ModulesAssumptions
    DEF ModulesInv, States, Statuses, Retryable, NoLoop, Delays, Starting, Attempting,
        gateVars, instVars, loopVars, vaultVars, TypeOK, GateInv
<1>1. CASE Enter
  <2>1. TypeOK' /\ GateInv'
    BY <1>1 DEF Enter, Instances
  <2>2. StartInv'
    BY <1>1 DEF Enter, StartInv, Serves
  <2>3. LoopInv' /\ FileInv'
    BY <1>1 DEF Enter, LoopInv, FileInv, Waiting, At
  <2>4. ToolsInv'
    BY <1>1, ToolsKept DEF Enter
  <2> QED
    BY <2>1, <2>2, <2>3, <2>4
<1>2. CASE StartupDone
  <2>1. TypeOK' /\ GateInv'
    BY <1>2 DEF StartupDone
  <2>2. StartInv'
    BY <1>2 DEF StartupDone, StartInv, Serves
  <2>3. LoopInv' /\ FileInv'
    BY <1>2 DEF StartupDone, LoopInv, FileInv, Waiting, At
  <2>4. ToolsInv'
    <3>1. /\ phase = "startup" /\ phase' = "report" /\ ToolsInv
          /\ published' = published /\ offers' = offers /\ tools' = tools
          /\ \A m \in Mods : /\ health'[m] = "none" => health[m] = "none"
                             /\ health'[m] = "running" => /\ boot[m] = "begun"
                                                          /\ published[m] = "boot"
      BY <1>2 DEF StartupDone, StartInv
    <3>2. ASSUME NEW m \in Mods
          PROVE  /\ Bound(m, "boot") => Bound(m, "boot")'
                 /\ published[m] = "boot" => Bound(m, published[m])' = Bound(m, "boot")'
      BY ONLY <3>1 DEF Bound
    <3> QED
      BY ONLY <3>1, <3>2 DEF ToolsInv
  <2> QED
    BY <2>1, <2>2, <2>3, <2>4
<1>3. CASE Report
  <2>1. TypeOK' /\ GateInv'
    BY <1>3 DEF Report, WriteFile, StartInv, Sleeping
  <2>2. StartInv'
    BY <1>3 DEF Report, StartInv, Serves, Sleeping
  <2>3. LoopInv'
    <3>1. /\ phase = "report" /\ phase' = "serving" /\ due = {} /\ UNCHANGED <<due, health, slept>>
          /\ \A m \in Mods : slept[m] = 0
          /\ loop' = IF Pending = {} THEN NoLoop ELSE Sleeping
      BY <1>3 DEF Report, StartInv
    <3>2. /\ promised' = delays'
          /\ \A m \in Mods : delays'[m] \in Nat /\ (delays'[m] > 0 => m \in Pending)
      BY <1>3 DEF Report
    <3> QED
      BY ONLY <3>1, <3>2 DEF LoopInv, Waiting, At, Pending, NoLoop, Sleeping
  <2>4. FileInv'
    BY <1>3 DEF Report, FileInv, WriteFile
  <2>5. ToolsInv'
    BY <1>3, ToolsKept DEF Report
  <2> QED
    BY <2>1, <2>2, <2>3, <2>4, <2>5
<1>4. CASE Stop
  <2>1. TypeOK' /\ GateInv'
    BY <1>4 DEF Stop
  <2>2. StartInv'
    BY <1>4 DEF Stop, StartInv, Serves
  <2>3. LoopInv' /\ FileInv'
    BY <1>4 DEF Stop, LoopInv, FileInv, Waiting, At
  <2>4. ToolsInv'
    BY <1>4, ToolsKept DEF Stop
  <2> QED
    BY <2>1, <2>2, <2>3, <2>4
<1>5. CASE ShutDown
  <2>1. TypeOK' /\ GateInv'
    BY <1>5 DEF ShutDown
  <2>2. StartInv'
    BY <1>5 DEF ShutDown, StartInv, Serves
  <2>3. LoopInv' /\ FileInv'
    BY <1>5 DEF ShutDown, LoopInv, FileInv, Waiting, At
  <2>4. ToolsInv'
    <3>1. phase' = "stopped" /\ UNCHANGED <<published, offers, tools, health>>
      BY <1>5 DEF ShutDown
    <3> QED
      BY <3>1, ToolsKept
  <2> QED
    BY <2>1, <2>2, <2>3, <2>4
<1> QED
  BY <1>1, <1>2, <1>3, <1>4, <1>5

\* Where the retry task goes on: to one of the modules left, or to sleep if there is none.
LEMMA GoesOn ==
    ASSUME NEW rest \in SUBSET Mods, NEW waiting, GoOn(rest, waiting)
    PROVE  /\ loop' \in [at : {"none", "sleep"} \union Attempting, mod : Mods \union {None}]
           /\ due' \subseteq rest
           /\ \/ /\ loop'.at = "init" /\ loop'.mod \in rest
                 /\ due' = rest \ {loop'.mod}
              \/ /\ loop'.at \in {"none", "sleep"} /\ loop'.mod = None
                 /\ rest = {} /\ due' = {}
<1>1. CASE rest # {}
  BY <1>1 DEF GoOn, Attempting
<1>2. CASE rest = {}
  BY <1>2 DEF GoOn, NoLoop, Sleeping, Attempting
<1> QED
  BY <1>1, <1>2

\* The end of a failed attempt: the new delay is promised, and the task goes on.
LEMMA Rescheduled ==
    ASSUME ModulesInv, phase = "serving", At("init") \/ At("undo"), Reschedule(loop.mod)
    PROVE  /\ loop.mod \in Mods /\ loop.mod \notin due /\ due \in SUBSET Mods
           /\ \E d \in 1..MaxDelay :
                  /\ delays' = [delays EXCEPT ![loop.mod] = d]
                  /\ promised' = [promised EXCEPT ![loop.mod] = d]
                  /\ slept' = [slept EXCEPT ![loop.mod] = 0]
                  /\ GoOn(due, delays')
<1>1. /\ loop.mod \in Mods /\ loop.mod \notin due /\ due \in SUBSET Mods
      /\ delays[loop.mod] \in 1..MaxDelay
  BY ModulesAssumptions DEF ModulesInv, TypeOK, LoopInv, Waiting, At, Delays
<1>2. {Lesser(2 * delays[loop.mod], MaxDelay), MaxDelay} \subseteq 1..MaxDelay
  BY <1>1, ModulesAssumptions DEF Lesser
<1> QED
  BY <1>1, <1>2 DEF Reschedule

\* The invariant on what the loop has to do, from one failed attempt to the next await.
LEMMA RescheduledLoop ==
    ASSUME ModulesInv, phase = "serving", phase' = phase, At("init") \/ At("undo"),
           Reschedule(loop.mod),
           \A m \in Mods : health[m] \in Retryable => health'[m] \in Retryable
    PROVE  /\ LoopInv'
           /\ delays' \in [Mods -> Delays] /\ promised' \in [Mods -> Delays]
           /\ slept' \in [Mods -> Delays] /\ due' \subseteq Mods
           /\ loop' \in [at : {"none", "sleep"} \union Attempting, mod : Mods \union {None}]
<1> PICK d \in 1..MaxDelay :
        /\ delays' = [delays EXCEPT ![loop.mod] = d]
        /\ promised' = [promised EXCEPT ![loop.mod] = d]
        /\ slept' = [slept EXCEPT ![loop.mod] = 0]
        /\ GoOn(due, delays')
  BY Rescheduled
<1>1. loop.mod \in Mods /\ loop.mod \notin due /\ due \in SUBSET Mods
  BY Rescheduled
<1>2. /\ loop' \in [at : {"none", "sleep"} \union Attempting, mod : Mods \union {None}]
      /\ due' \subseteq due
      /\ \/ /\ loop'.at = "init" /\ loop'.mod \in due
            /\ due' = due \ {loop'.mod}
         \/ /\ loop'.at \in {"none", "sleep"} /\ loop'.mod = None
            /\ due = {} /\ due' = {}
  BY <1>1, GoesOn
<1>3. /\ delays' \in [Mods -> Delays] /\ promised' \in [Mods -> Delays]
      /\ slept' \in [Mods -> Delays]
  BY <1>1, ModulesAssumptions DEF ModulesInv, TypeOK, Delays
<1>4. Waiting' = Waiting
  BY <1>1, ModulesAssumptions DEF ModulesInv, TypeOK, LoopInv, Waiting, At, Delays
<1>5. LoopInv'
  BY <1>1, <1>2, <1>3, <1>4, ModulesAssumptions
  DEF ModulesInv, TypeOK, LoopInv, Waiting, At, Delays
<1> QED
  BY <1>1, <1>2, <1>3, <1>5

\* Each await of the retry task keeps the invariant.
LEMMA HealKeeps ==
    ASSUME ModulesInv, HealStep
    PROVE  ModulesInv'
<1> USE ModulesAssumptions DEF Statuses, Retryable, Starting
<1>0. phase = "serving" /\ phase' = "serving"
  BY DEF HealStep, Wake, InitFails, InitDone, StartFails, TornDown, StartDone, Alerted
<1>1. CASE Wake
  <2> PICK first \in Waiting :
          /\ \A m \in Waiting : delays[first] <= delays[m]
          /\ delays' = CountDown(delays[first])
          /\ slept' = [m \in Mods |-> IF m \in Waiting THEN slept[m] + delays[first]
                                                       ELSE slept[m]]
          /\ GoOn({m \in Waiting : delays[m] <= delays[first]}, delays)
    BY <1>1 DEF Wake
  <2> DEFINE rest == {m \in Waiting : delays[m] <= delays[first]}
  <2>1. /\ due = {} /\ loop.mod = None
        /\ \A m \in Waiting : delays[m] + slept[m] = promised[m]
    <3>1. /\ due = {} /\ loop.mod = None
          /\ \A m \in Waiting \ (due \union {loop.mod}) : delays[m] + slept[m] = promised[m]
      BY <1>0, <1>1 DEF ModulesInv, LoopInv, Wake, At
    <3>2. Waiting \ (due \union {loop.mod}) = Waiting
      BY <3>1 DEF Waiting
    <3> QED
      BY <3>1, <3>2
  <2>2. first \in Mods /\ Waiting \subseteq Mods /\ rest \subseteq Mods /\ first \in rest
    BY DEF Waiting, ModulesInv, TypeOK, Delays
  <2>3. /\ loop' \in [at : {"none", "sleep"} \union Attempting, mod : Mods \union {None}]
        /\ loop'.at = "init" /\ loop'.mod \in rest /\ due' = rest \ {loop'.mod}
    BY <2>2, GoesOn
  <2>4. /\ \A m \in Mods : /\ delays[m] \in Delays /\ slept[m] \in Delays
                           /\ promised[m] \in Delays
        /\ delays[first] > 0
    BY <2>2 DEF ModulesInv, TypeOK, Waiting
  <2>5. /\ delays' \in [Mods -> Delays]
        /\ \A m \in Mods : delays'[m] = IF m \in Waiting \ rest
                                            THEN delays[m] - delays[first] ELSE delays[m]
        /\ \A m \in Mods : delays'[m] > 0 <=> delays[m] > 0
    BY <2>2, <2>4 DEF CountDown, Delays, Waiting
  <2>6. /\ slept' \in [Mods -> Delays]
        /\ \A m \in Waiting : slept'[m] = slept[m] + delays[first]
    BY <2>1, <2>2, <2>4 DEF Delays
  <2>7. Waiting' = Waiting
    BY <2>5 DEF Waiting
  <2>8. /\ \A m \in rest : slept'[m] = promised[m]
        /\ \A m \in Waiting \ rest : delays'[m] + slept'[m] = promised[m]
    BY <2>1, <2>2, <2>4, <2>5, <2>6 DEF Delays
  <2>9. UNCHANGED <<phase, dep, gateVars, health, instVars, promised, vaultVars, seen, file>>
    BY <1>1 DEF Wake
  <2>10. LoopInv'
    BY <1>0, <2>2, <2>3, <2>7, <2>8, <2>9 DEF ModulesInv, LoopInv, At
  <2>11. TypeOK'
    BY <2>2, <2>3, <2>5, <2>6, <2>9
    DEF ModulesInv, TypeOK, gateVars, instVars, vaultVars
  <2>12. GateInv' /\ StartInv' /\ FileInv'
    BY <1>0, <2>9 DEF ModulesInv, GateInv, StartInv, FileInv, Serves, gateVars, instVars
  <2>13. ToolsInv'
    BY <2>9, ToolsKept DEF ModulesInv, instVars
  <2> QED
    BY <2>10, <2>11, <2>12, <2>13 DEF ModulesInv
<1>2. CASE InitFails
  <2>1. loop.mod \in Waiting /\ loop.mod \in Mods /\ health[loop.mod] \in Retryable
    BY <1>0, <1>2 DEF InitFails, ModulesInv, TypeOK, LoopInv, Waiting, At
  <2>2. \A m \in Mods : health[m] \in Retryable => health'[m] \in Retryable
    BY <1>2, <2>1 DEF InitFails, ModulesInv, TypeOK
  <2>3. /\ LoopInv'
        /\ delays' \in [Mods -> Delays] /\ promised' \in [Mods -> Delays]
        /\ slept' \in [Mods -> Delays] /\ due' \subseteq Mods
        /\ loop' \in [at : {"none", "sleep"} \union Attempting, mod : Mods \union {None}]
    BY <1>0, <1>2, <2>2, RescheduledLoop DEF InitFails
  <2>4. TypeOK' /\ GateInv'
    BY <1>2, <2>1, <2>3
    DEF InitFails, ModulesInv, TypeOK, GateInv, gateVars, instVars, vaultVars
  <2>5. StartInv' /\ FileInv'
    BY <1>0, <1>2, <2>1
    DEF InitFails, ModulesInv, TypeOK, StartInv, FileInv, Serves, instVars
  <2>6. ToolsInv'
    BY <1>0, <1>2, <2>1, ToolsKept DEF InitFails, ModulesInv, TypeOK, instVars
  <2> QED
    BY <2>3, <2>4, <2>5, <2>6 DEF ModulesInv
<1>3. CASE InitDone
  <2>1. /\ loop.mod \in Waiting /\ loop.mod \in Mods /\ health[loop.mod] \in Retryable
        /\ loop' = [at |-> "start", mod |-> loop.mod]
    BY <1>0, <1>3 DEF InitDone, ModulesInv, TypeOK, LoopInv, Waiting, At
  <2> PICK list \in Lists(loop.mod) : offers' = [offers EXCEPT ![<<loop.mod, "heal">>] = list]
    BY <1>3 DEF InitDone
  <2>5. /\ offers' \in [Instances -> SUBSET Tools]
        /\ \A n \in Mods, j \in {"boot", "heal"} :
               <<n, j>> # <<loop.mod, "heal">> => offers'[<<n, j>>] = offers[<<n, j>>]
    BY <2>1, Listed DEF ModulesInv
  <2>2. TypeOK' /\ GateInv'
    BY <1>3, <2>1, <2>5
    DEF InitDone, ModulesInv, TypeOK, GateInv, States, Attempting, gateVars, vaultVars
  <2>6. ToolsInv'
    <3>1. \A n \in Mods : health[n] = "running" => /\ n # loop.mod
                                                  /\ published[n] \in {"boot", "heal"}
      BY <1>0, <2>1 DEF ModulesInv, StartInv, Serves
    <3> QED
      BY <1>0, <1>3, <2>5, <3>1 DEF InitDone, ModulesInv, ToolsInv, Bound
  <2>3. StartInv' /\ FileInv'
    BY <1>0, <1>3, <2>1 DEF InitDone, ModulesInv, TypeOK, StartInv, FileInv, Serves
  <2>4. LoopInv'
    BY <1>0, <1>3, <2>1 DEF InitDone, ModulesInv, TypeOK, LoopInv, Waiting, At
  <2> QED
    BY <2>2, <2>3, <2>4, <2>6 DEF ModulesInv
<1>4. CASE StartFails
  <2>1. /\ loop.mod \in Waiting /\ loop.mod \in Mods /\ health[loop.mod] \in Retryable
        /\ loop' = [at |-> "undo", mod |-> loop.mod]
    BY <1>0, <1>4 DEF StartFails, ModulesInv, TypeOK, LoopInv, Waiting, At
  <2> PICK list \in SUBSET offers[<<loop.mod, "heal">>] : Register(loop.mod, list, "gone")
    BY <1>4 DEF StartFails
  <2>5. list \in SUBSET Tools
    BY <2>1 DEF ModulesInv, TypeOK, Instances
  <2>6. /\ tools' \in [Mods -> [Tools -> {"none", "boot", "heal", "gone"}]]
        /\ \A n \in Mods \ {loop.mod} : tools'[n] = tools[n]
        /\ \A t \in Tools : tools'[loop.mod][t] = IF t \in list THEN "gone"
                                                  ELSE tools[loop.mod][t]
    BY <2>1, <2>5, Registered DEF ModulesInv
  <2>2. TypeOK' /\ GateInv'
    BY <1>4, <2>1, <2>6
    DEF StartFails, ModulesInv, TypeOK, GateInv, Attempting, gateVars, vaultVars
  <2>7. ToolsInv'
    <3>1. /\ UNCHANGED <<phase, boot, published, offers>>
          /\ health' = [health EXCEPT ![loop.mod] = "failed_startup"]
      BY <1>4 DEF StartFails
    <3>2. \A n \in Mods \ {loop.mod} : health'[n] = health[n]
      BY <3>1 DEF ModulesInv, TypeOK
    <3>3. health'[loop.mod] = "failed_startup"
      BY <2>1, <3>1 DEF ModulesInv, TypeOK
    <3> QED
      BY <1>0, <2>6, <3>1, <3>2, <3>3 DEF ModulesInv, ToolsInv, Bound
  <2>3. StartInv' /\ FileInv'
    BY <1>0, <1>4, <2>1 DEF StartFails, ModulesInv, TypeOK, StartInv, FileInv, Serves
  <2>4. LoopInv'
    BY <1>0, <1>4, <2>1 DEF StartFails, ModulesInv, TypeOK, LoopInv, Waiting, At
  <2> QED
    BY <2>2, <2>3, <2>4, <2>7 DEF ModulesInv
<1>5. CASE TornDown
  <2>1. loop.mod \in Waiting /\ loop.mod \in Mods /\ health[loop.mod] \in Retryable
    BY <1>0, <1>5 DEF TornDown, ModulesInv, TypeOK, LoopInv, Waiting, At
  <2>2. /\ LoopInv'
        /\ delays' \in [Mods -> Delays] /\ promised' \in [Mods -> Delays]
        /\ slept' \in [Mods -> Delays] /\ due' \subseteq Mods
        /\ loop' \in [at : {"none", "sleep"} \union Attempting, mod : Mods \union {None}]
    BY <1>0, <1>5, RescheduledLoop DEF TornDown
  <2>3. TypeOK' /\ GateInv'
    BY <1>5, <2>1, <2>2
    DEF TornDown, ModulesInv, TypeOK, GateInv, States, gateVars, vaultVars
  <2>4. StartInv' /\ FileInv'
    BY <1>0, <1>5, <2>1 DEF TornDown, ModulesInv, TypeOK, StartInv, FileInv, Serves
  <2>5. ToolsInv'
    BY <1>0, <1>5, ToolsKept DEF TornDown, ModulesInv
  <2> QED
    BY <2>2, <2>3, <2>4, <2>5 DEF ModulesInv
<1>6. CASE StartDone
  <2>1. /\ loop.mod \in Waiting /\ loop.mod \in Mods
        /\ loop' = [at |-> "alert", mod |-> loop.mod]
        /\ heal[loop.mod] = "begun"
    BY <1>0, <1>6 DEF StartDone, ModulesInv, TypeOK, LoopInv, Waiting, At
  <2> DEFINE list == offers[<<loop.mod, "heal">>]
  <2>6. list \in SUBSET Tools
    BY <2>1 DEF ModulesInv, TypeOK, Instances
  <2>7. /\ tools' \in [Mods -> [Tools -> {"none", "boot", "heal", "gone"}]]
        /\ \A n \in Mods \ {loop.mod} : tools'[n] = tools[n]
        /\ \A t \in Tools : tools'[loop.mod][t] = IF t \in list THEN "heal"
                                                  ELSE tools[loop.mod][t]
    BY <1>6, <2>1, <2>6, Registered DEF StartDone, ModulesInv
  <2>2. TypeOK' /\ GateInv'
    <3>1. started' \subseteq Instances
      BY <1>6, <2>1 DEF StartDone, Track, Instances, ModulesInv, TypeOK
    <3>2. /\ UNCHANGED <<phase, dep, budget, waited, boot, heal, offers, due, failures, token,
                         seen>>
          /\ published' = [published EXCEPT ![loop.mod] = "heal"]
          /\ health' = [health EXCEPT ![loop.mod] = "running"]
          /\ delays' = [delays EXCEPT ![loop.mod] = 0]
          /\ promised' = [promised EXCEPT ![loop.mod] = 0]
          /\ slept' = [slept EXCEPT ![loop.mod] = 0]
          /\ file' = [failed |-> {m \in Mods : health'[m] # "running"}, token |-> token]
      BY <1>6 DEF StartDone, Publish, Rewrite, WriteFile, gateVars, vaultVars
    <3> QED
      BY <2>1, <2>7, <3>1, <3>2 DEF ModulesInv, TypeOK, GateInv, Attempting, Delays
  <2>8. ToolsInv'
    <3>1. /\ published[loop.mod] # "heal"
          /\ \A n \in Mods \ {loop.mod} :
                 health'[n] = health[n] /\ published'[n] = published[n]
          /\ health'[loop.mod] = "running" /\ published'[loop.mod] = "heal"
      <4>1. health[loop.mod] \in Retryable
        BY <1>0, <2>1 DEF ModulesInv, LoopInv
      <4> QED
        BY <1>6, <2>1, <4>1 DEF StartDone, Publish, ModulesInv, TypeOK, StartInv
    <3>2. \A t \in Tools : tools[loop.mod][t] # "heal"
      BY <2>1, <3>1 DEF ModulesInv, ToolsInv
    <3>3. offers' = offers /\ phase' = "serving"
      BY <1>0, <1>6 DEF StartDone
    <3>4. Bound(loop.mod, published[loop.mod])'
      <4>1. \A t \in Tools : tools'[loop.mod][t] = "heal" <=> t \in offers'[<<loop.mod, "heal">>]
        BY ONLY <2>7, <3>2, <3>3
      <4>2. loop' = [loop EXCEPT !.at = "alert"] /\ loop'.mod = loop.mod
        BY <1>6, <2>1 DEF StartDone
      <4> QED
        BY ONLY <3>1, <4>1, <4>2 DEF Bound
    <3>5. ASSUME NEW m \in Mods
          PROVE  /\ health'[m] = "none" => \A t \in Tools : tools'[m][t] = "none"
                 /\ health'[m] = "running" => Bound(m, published[m])'
                 /\ published'[m] # "heal" => \A t \in Tools : tools'[m][t] # "heal"
      <4>1. CASE m = loop.mod
        <5>1. loop'.mod = m
          BY <2>1, <4>1
        <5> QED
          BY ONLY <3>1, <3>4, <4>1, <5>1
      <4>2. CASE m # loop.mod
        <5>1. /\ health[m] = "none" => \A t \in Tools : tools[m][t] = "none"
              /\ health[m] = "running" => Bound(m, published[m])
              /\ published[m] # "heal" => \A t \in Tools : tools[m][t] # "heal"
          BY DEF ModulesInv, ToolsInv
        <5>2. health'[m] = health[m] /\ published'[m] = published[m] /\ tools'[m] = tools[m]
          BY <2>7, <3>1, <4>2
        <5>3. Bound(m, published[m])' <=> Bound(m, published[m])
          BY ONLY <3>3, <5>2 DEF Bound
        <5> QED
          BY ONLY <5>1, <5>2, <5>3
      <4> QED
        BY ONLY <4>1, <4>2
    <3> QED
      BY ONLY <3>3, <3>5 DEF ToolsInv
  <2>3. StartInv'
    BY <1>0, <1>6, <2>1
    DEF StartDone, Publish, Track, ModulesInv, TypeOK, StartInv, Serves
  <2>4. LoopInv'
    BY <1>0, <1>6, <2>1 DEF StartDone, ModulesInv, TypeOK, LoopInv, Waiting, At
  <2>5. FileInv'
    BY <1>6 DEF StartDone, Rewrite, WriteFile, FileInv
  <2> QED
    BY <2>2, <2>3, <2>4, <2>5, <2>8 DEF ModulesInv
<1>7. CASE Alerted
  <2>1. /\ due \in SUBSET Mods /\ due \subseteq Waiting
        /\ loop.mod \notin Waiting
    BY <1>7 DEF Alerted, ModulesInv, TypeOK, LoopInv, At
  <2>2. /\ loop' \in [at : {"none", "sleep"} \union Attempting, mod : Mods \union {None}]
        /\ due' \subseteq due
        /\ \/ /\ loop'.at = "init" /\ loop'.mod \in due
              /\ due' = due \ {loop'.mod}
           \/ /\ loop'.at \in {"none", "sleep"} /\ loop'.mod = None
              /\ due = {} /\ due' = {}
    BY <1>7, <2>1, GoesOn DEF Alerted
  <2>3. TypeOK' /\ GateInv'
    BY <1>7, <2>1, <2>2
    DEF Alerted, ModulesInv, TypeOK, GateInv, gateVars, instVars, vaultVars
  <2>4. StartInv' /\ FileInv'
    BY <1>0, <1>7 DEF Alerted, ModulesInv, StartInv, FileInv, Serves, instVars
  <2>5. LoopInv'
    BY <1>0, <1>7, <2>1, <2>2 DEF Alerted, ModulesInv, LoopInv, Waiting, At, instVars
  <2>6. ToolsInv'
    BY <1>7, ToolsKept DEF Alerted, ModulesInv, instVars
  <2> QED
    BY <2>3, <2>4, <2>5, <2>6 DEF ModulesInv
<1> QED
  BY <1>1, <1>2, <1>3, <1>4, <1>5, <1>6, <1>7 DEF HealStep

\* The Vault renewal and the dependencies keep the invariant.
LEMMA OutsideKeeps ==
    ASSUME ModulesInv, Renew \/ DependencyChanges
    PROVE  ModulesInv'
<1> USE ModulesAssumptions
    DEF ModulesInv, gateVars, instVars, loopVars, vaultVars
<1>1. CASE Renew
  <2> PICK n \in {0, Lesser(failures + 1, MaxFailures)} :
          /\ failures' = n
          /\ token' = (n < MaxFailures)
          /\ IF token' # token THEN WriteFile(health, token') ELSE UNCHANGED file
    BY <1>1 DEF Renew
  <2>1. TypeOK'
    <3>1. failures' \in 0..MaxFailures
      BY DEF TypeOK, Lesser
    <3>2. token' \in BOOLEAN
      OBVIOUS
    <3>3. file' \in [failed : SUBSET Mods, token : BOOLEAN]
      <4>1. CASE WriteFile(health, token')
        BY <3>2, <4>1 DEF WriteFile
      <4>2. CASE UNCHANGED file
        BY <4>2 DEF TypeOK
      <4> QED
        BY <4>1, <4>2
    <3> QED
      BY <1>1, <3>1, <3>2, <3>3 DEF Renew, TypeOK
  <2>2. GateInv' /\ StartInv' /\ LoopInv'
    BY <1>1 DEF Renew, GateInv, StartInv, LoopInv, Serves, Waiting, At
  <2>3. FileInv'
    BY <1>1 DEF Renew, FileInv, WriteFile
  <2>4. ToolsInv'
    BY <1>1, ToolsKept DEF Renew
  <2> QED
    BY <2>1, <2>2, <2>3, <2>4
<1>2. CASE DependencyChanges
  <2>1. ToolsInv'
    BY <1>2, ToolsKept DEF DependencyChanges
  <2> QED
    BY <1>2, <2>1
    DEF DependencyChanges, TypeOK, GateInv, StartInv, LoopInv, FileInv, Serves, Waiting, At
<1> QED
  BY <1>1, <1>2

\* The invariant holds of every state of the process.
LEMMA ModulesInvariant == Spec => []ModulesInv
<1>1. ModulesInv /\ [Next]_vars => ModulesInv'
  <2> SUFFICES ASSUME ModulesInv, [Next]_vars PROVE ModulesInv'
    OBVIOUS
  <2>1. CASE Next
    BY <2>1, BuildKeeps, LifespanKeeps, HealKeeps, OutsideKeeps DEF Next
  <2>2. CASE UNCHANGED vars
    BY <2>2
    DEF vars, ModulesInv, TypeOK, GateInv, StartInv, ToolsInv, LoopInv, FileInv, Serves, Bound,
        Waiting, At
  <2> QED
    BY <2>1, <2>2
<1> QED
  BY <1>1, InitModules, PTL DEF Spec

-----------------------------------------------------------------------------
\* Every variable stays in its range: no delay passes the cap, whatever the loop does.
THEOREM ModulesTyped == Spec => []TypeOK
<1>1. ModulesInv => TypeOK
  BY DEF ModulesInv
<1> QED
  BY <1>1, ModulesInvariant, PTL

\* For any number of modules, failing and recovering in any order, the tools of a module that
\* is called running and the instance that reports on them are of one instance, begun and on
\* the shutdown list.
THEOREM RunningAreServed == Spec => []RunningServes
<1>1. ModulesInv => RunningServes
  <2> SUFFICES ASSUME ModulesInv, phase = "serving", NEW m \in Mods, health[m] = "running"
               PROVE  /\ {t \in Tools : tools[m][t] = published[m]} = offers[<<m, published[m]>>]
                      /\ <<m, published[m]>> \in started
                      /\ \/ published[m] = "boot" /\ boot[m] = "begun"
                         \/ published[m] = "heal" /\ heal[m] = "begun"
    BY DEF RunningServes
  <2>1. Serves(m) /\ Bound(m, published[m])
    BY DEF ModulesInv, StartInv, ToolsInv
  <2>2. offers[<<m, published[m]>>] \in SUBSET Tools
    BY <2>1 DEF Serves, ModulesInv, TypeOK, Instances
  <2> QED
    BY <2>1, <2>2 DEF Serves, Bound
<1> QED
  BY <1>1, ModulesInvariant, PTL

\* While the process serves, the health file names exactly the modules that are down.
THEOREM FileIsTrue == Spec => []FileTellsModules
<1>1. ModulesInv => FileTellsModules
  BY DEF ModulesInv, FileInv, FileTellsModules
<1> QED
  BY <1>1, ModulesInvariant, PTL

\* However many modules share the loop, each is retried when the delay logged for it has
\* been slept.
THEOREM PromisesKept == Spec => []PromiseKept
<1>1. ModulesInv => PromiseKept
  <2> SUFFICES ASSUME ModulesInv PROVE PromiseKept
    OBVIOUS
  <2>1. CASE phase = "serving"
    BY <2>1, ModulesAssumptions DEF ModulesInv, TypeOK, LoopInv, PromiseKept, At, Waiting
  <2>2. CASE phase # "serving"
    BY <2>2 DEF ModulesInv, LoopInv, PromiseKept, At, NoLoop
  <2> QED
    BY <2>1, <2>2
<1> QED
  BY <1>1, ModulesInvariant, PTL

\* Whenever the process stops, no instance that served any module is left running.
THEOREM ServedAreShut == Spec => []AllShutDown
<1>1. ModulesInv => AllShutDown
  BY DEF ModulesInv, StartInv, AllShutDown
<1> QED
  BY <1>1, ModulesInvariant, PTL

\* However many modules have a local dependency, all gates together stay within the budget
\* but for one connect.
THEOREM GatesEnd == Spec => []GateBounded
<1>1. ModulesInv => GateBounded
  BY ModulesAssumptions DEF ModulesInv, TypeOK, GateInv, GateBounded
<1> QED
  BY <1>1, ModulesInvariant, PTL

=============================================================================
