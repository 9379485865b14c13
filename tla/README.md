# scoped-mcp in TLA+

scoped-mcp is a proxy between one agent and its MCP tools: it scopes what each tool may
reach, limits, filters and audits the calls, and asks a human before the calls that the
manifest gates. These modules model its control: how an approval is asked for, given and used
among five kinds of process; how a call passes limiter, filters, attribution and gate; how
upstreams and tool modules are kept alive; and what a process believes of its credentials,
its manifest and its callers. Paths are relative to `src/src/scoped_mcp/` unless they begin
with `docs/`.

## Inventory

| Component | Source | State it keeps | Operations | Hard behaviour | Modelled in |
|---|---|---|---|---|---|
| HITL gate | `hitl.py` | `ConsumedSet`, request and OTP keys, audit rows | redeem, refuse, register a call | interleaving of calls, replays, fail-open audit | `HitlGate` |
| HITL endpoint | `hitl_endpoint.py`, `hitl_http.py` | none of its own | approve (bot, courier), deny, list | races between operators, partial failure | `HitlEndpoint` |
| HITL CLI | `hitl_cli.py` | none | approve, reject, list | another process, no atomic claim | `HitlCli` |
| Signing approver | `hitl_approver.py`, `hitl_signing.py` | none; statements with a lifetime | show, confirm, sign, claim, store; deny | a human's delay between read and claim | `HitlApprover` |
| Reconcile loop, events | `hitl_events.py` | its task; an outbox of files | close overdue and denied rows, emit | stale reads, crash between update and emit, liveness | `HitlReconciler` |
| Audit database | `registry_db.py` | `hitl_approvals`, `sessions`, `session_tasks`, the pool | insert, guarded update, upsert, link, open | every statement may fail silently; first use | `HitlState`, `Sessions` |
| State backend | `state.py`, `state_dragonfly.py` | keys with a TTL, sliding windows | get, set, getdel, delete, increment | atomicity, expiry, shared between processes | `HitlState`, `RateLimit` |
| Rate limiter | `contrib/rate_limit.py` | none (windows in the backend) | global limit, first matching pattern | window edge, late requests, fail-closed | `RateLimit` |
| Session attribution | `session.py` | memos of runs and links | attribute a call | stale memo, an id owned by another agent | `Sessions` |
| Middleware chain | `middleware.py`, `hooks.py` | none | fold over the list | order of the links | `CallPath`, `Payloads` |
| Filters | `contrib/arg_filter.py`, `contrib/response_filter.py` | none | match, decode, block, substitute | chained decodes, rules on each other's result | `Filters` |
| Audit log, redaction | `audit.py` | the set of secret values | audit line, redact an event, a record | passes that cut into each other | `Redaction`, `Payloads` |
| Upstream proxy | `modules/mcp_proxy.py` | the persistent client and its handle | call, reconnect, retry once | reconnect under concurrent calls, failed re-open | `McpProxy` |
| Self-healing, registry | `module_selfheal.py`, `registry.py` | status, delay and instance per module | build, retry, back off, recover, close | backoff, publication order, shutdown in a retry | `Modules` |
| Vault credentials | `credentials_vault.py` | lease, failure streak, health | fetch, renew, log in again, report | timing of renewals against the lease, lost answers | `VaultRenewal` |
| HTTP authentication | `http_auth.py` | stamps of rejected requests | verify, alert | bursts at the edge of window and deque | `BearerAuth` |
| Manifest, start-up | `manifest.py`, `identity.py`, `server.py` | manifest and its mtime | load, validate, build, serve | a file that changes while it is read | `Serve` |
| Static credentials, notification, alerts, tracing, scoping, tool modules | `credentials.py`, `hitl_notify.py`, `ops_alert.py`, `contrib/otel.py`, `scoping.py`, `modules/*` | none that changes | read, send, resolve, forward | I/O | not modelled |

How they meet: a call goes through the middleware chain; the HITL gate is one link of it and
talks to the state backend and the audit database, which the limiter and the attribution
share. The endpoint shares the gate's process, and so its event loop and its fate; the CLI and
the approver run elsewhere and meet the gate only in the backend. The reconcile loop is the one
reader of the audit rows that acts on them. The healer, the lifespan and the Vault renewal
write one health file.

What makes HITL correct:

1. one request is decided once, yields one approval, and admits one call;
2. a denied request never admits a call, whatever raced with the deny;
3. a signed statement that returns to the store is refused as long as it would verify;
4. the audit row follows: a used approval is recorded, a closed row stays closed, a request
   whose approval is still redeemable is not called expired;
5. every recorded request ends, used or reported with `hitl.closed`;
6. none of it depends on the audit database or on nobody crashing.

What makes the path of a call correct: no window of time sees more calls than its limit, and
nothing passes unmetered; a session id is handed out only to the agent that owns it; what a
memo stands for is in the database; what a filter looks for does not pass in an encoding the
rule undoes; what has run is in the audit log, and no secret value is.

What makes the upstream proxy correct: a reconnect takes down dead clients only; nothing is
left running that `shutdown()` does not know of; every call returns, whatever fails while the
lock is held; and the validation of a tool never gets weaker.

What makes the life of the modules correct: what is called running is one instance, for its
tools, its reports and its shutdown; the health file says so, whoever wrote it; a module is
retried when that was promised, and is running in the end if its dependency is up; and the
start is bounded, however many dependencies are down.

What makes a serving process correct: a dead token is soon called so, its expiry is never
overstated, and it is replaced in the end if that is configured; a burst of rejected requests
raises one alert; and a manifest that was edited is shown to be stale.

## The modules

| Module | Models | Correspondence |
|---|---|---|
| `HitlState` | the shared state and its operations | constants are the manifest's and the modules' constants; `pending`, `otp`, `tomb`, `token` are the four kinds of key; `row`, `age` the audit row; `closed` the `hitl.closed` events |
| `HitlGate` | `HitlMiddleware._handle_approval`, `_accept_preapproval`, `ConsumedSet` | one action per `await`; `cpc[c]` is where call `c` is suspended |
| `HitlReconciler` | `HitlReconciler.reconcile_once` and its loop | `rec` is the row in hand between read, update and emit |
| `HitlEndpoint` | `approve`, `deny` and the routes | `opc[o]` is where command `o` is suspended, `route[o]` which command it is |
| `HitlCli` | `scoped-mcp hitl approve`, `reject` | the same |
| `HitlApprover` | `scoped-mcp-approve`, with and without `--deny` | the same; `osig[o]` is what is left of the statement's lifetime |
| `Hitl` | the composition, with the clock, crashes and replays | `Next`, `Spec`, `FairSpec` |
| `OneTimeApproval` | the abstract promise of a signed approval | open, grant, admit, end, restart |
| `HitlSafety` | the properties and the refinement mapping | |
| `RateLimit` | `RateLimitMiddleware`, both `increment`s | `score` is the stored window, `now[c]` the time a request carries, `admitted` when the window really took the call |
| `Sessions` | `attribute_current_call`, `get_registry`, `_build_pool`, `upsert_session`, `insert_session_task`, `insert_hitl_approval` | `seen`, `linked` are the memos, `registry`, `initLock` the process's connection, `owner`, `lastSeen`, `links`, `approval` the tables |
| `CallPath` | the two in the order of `_build_middleware`, with the gate's call of the attribution, cancellation and restarts | `pc[c]` is the await at which call `c` is |
| `Filters` | both filters as operators on texts | a text is its secrets, the encodings around them and its size |
| `Redaction` | `_redact_values`, `_redact_url_userinfo`, `_redact_string`, `_sanitize_value`, `_redact_record` as operators on sequences of symbols | each symbol knows its place in the original |
| `Payloads` | a call through argument filter, handler, response filter and audit line; a string on its way into a log line | `stage` |
| `VaultRenewal` | `VaultCredentialSource`: login, loop, re-authentication, health, estimate | `left`, `ttl` are Vault's, `lease`, `since`, `failures`, `healthy` the process's |
| `BearerAuth` | `BearerTokenVerifier`'s bursts | stamps as ages |
| `Serve` | `_run_serve` and what a process does until its end; manifest edits | `step` is how far it has come; composes `VaultRenewal` and `BearerAuth` |
| `McpProxy` | one stdio instance of `McpProxyModule` | `client`, `handle`, `lock` are `_persistent_client`, `_client_handle`, `_reconnect_lock`; `alive` the clients whose transport works; `schemas`, `registered` the cache and the names; one action per `await` of `proxy_call` and `_reconnect_persistent` |
| `Modules` | `build_server`, the lifespan, `_retry_module`, `ModuleSelfHealer`, the dependency gates, the health file and the Vault transitions that rewrite it | `health` is `module_health`, `published` the instance registry, `offers` what an instance's `get_tool_methods` lists, `tools` what the child server has under each name, `started` the shutdown list, `delays` and `due` the loop's; `boot[m]` and `heal[m]` are the instances of the start and of the last retry; one action per `await` |
| `MCHitl`, `MCCallPath`, `MCPayloads`, `MCServe`, `MCProxy` | instances for TLC | |
| `HitlProofs`, `CallPathProofs`, `PayloadsProofs`, `ServeProofs`, `McpProxyProofs`, `ModulesProofs` | theorems and their proofs | |
| `RedactionProofs`, `Induction` | the lemmas about the passes of the redaction, and about recursive functions | |

Why this grain: the proxy runs on one asyncio event loop, so what it does between two awaits
is one step; the state backend runs one command or script at a time, so each is one step; the
CLI and the approver are separate processes whose steps are their backend commands.

Abstractions, and what they rely on:

- A call that finds no approval mints one fresh random id, so a request is named by the call
  that minted it. A retry is another call with the same `KeyOf`.
- A key's value is only what its reader looks at. A token's value is the command that wrote
  it, from which follow the request id, the statement and whether it is signed.
- Every timer counts down in ticks of one clock. A tick may fall between any two steps, so
  any step may take arbitrarily long. `time.time()`, the backend's TTLs and Postgres' `now()`
  are taken to agree; `CLOCK_SKEW_SECONDS` is kept where the code adds it.
- In the HITL modules one agent, one proxy process. Requests of other agents live under other
  key prefixes, and the belongs-to-agent checks, which no request of the model can fail, are
  left out. `CallPath` has several processes and agents.
- A signature is its signer: statements are made by the approver only, and a statement for
  this key is for this call's arguments. The approver's record check can fail in one way
  here, with signing off, where the record carries no arguments.
- A Postgres statement either does its work and answers, or fails and does nothing
  (`DbMayFail`). In `Sessions` it may also do its work and the answer be lost.
- The reconcile's list and its tombstone read are one step. The update after them is guarded
  and a separate step, so anything read too early is only skipped.
- A backend error or a killed process ends a command at any step (`OpDies`); the endpoint's
  token write is the one place where the code goes on after an error, and has its own actions.
- A tombstone (3600 s) outlives the timeout and grace of its request; a manifest with a
  timeout over 3480 s would not satisfy this.
- Events are on (`agent_bus_hitl_emit`) and the registry is configured, so the reconcile
  loop exists. Shadowed and ungated tools touch none of this state.
- A request to Dragonfly carries the time its client has read and is on its way for at most
  `MaxDelay`; scripts run in any order. A manifest without a global limit is one whose limit is
  larger than the number of calls. The eviction from `_linked` is left out: it costs one more
  write. `_seen` drops any other entry when it is full, where the code drops the oldest.
- What a regular expression matches is a model value; a base64 layer, percent-encoding, size
  limits and an accidental decode are kept. `refused` has the layers that are not strict base64,
  for `-`, `_` or a padding that is missing: only `urlsafe_base64` undoes these, as
  `tests/test_contrib/test_arg_filter.py:391` says. Five shape expressions of the redaction are
  one: a run of hex digits between word boundaries.
- Of the alphabet of a logged string the redaction tells apart hex digits and decimal ones, other
  word characters, the quotes, the backslash, `/`, `@`, `://`, `%s` and white space. JSON escapes
  `"` and the backslash; `repr()` the backslash, and `'` only where the same string has a `"`.
  Ports, queries and fragments are left out of the URLs, and of `repr()` and JSON the characters
  that they escape in any string alike. A record's argument that is not a string is in the
  message as it is; a container's `repr()` of the strings in it is not modelled.
- Vault's ticks are the 60 s that the renewal loop sleeps at least, and a request is shorter
  than a tick. A lease under a minute is not modelled. The secret bundle is read once, with the
  first login.
- Of a manifest `Serve` keeps the fields that `_run_serve` and the validators of several fields
  act on; those of single fields are one condition.
- A proxied call reconnects at most once, so a client of the proxy is named by the call that
  opened it. `list_tools` answers with any list or fails. A request may be cancelled at any of
  its awaits, by an MCP cancellation that FastMCP turns into `CancelledError`. The lifespan ends
  (`Shutdown`) when no call is being served. A connection that a call opens for itself is in
  nobody else's state, and only ends. A dead transport may also show as another error, which
  is not retried.
- What a module's instance lists is fixed by its class, but for an `mcp_proxy`, which asks its
  upstream and may list other tools each time it is made. `Register` binds names and takes none
  off, so a name that is bound to an instance that failed stays so if the next does not list it.
- A module's dependency decides what an attempt at it meets: `noInit` makes the constructor
  raise, `noStart` the startup or the registration after it, `broken` is a class that cannot be
  imported. At the start any startup may fail. What stands for an error is only whether it looks
  permanent, and that may be either at each failure.
- A retried module stops being retried once it runs, so of each module two instances matter: the
  first and the latest. `build_server` takes the modules in manifest order, the model in any.
  A gate without a local URL takes no time. Alerts are awaits that change nothing.

## The runs

| Run | Bounds | Properties | What it shows |
|---|---|---|---|
| `HitlOff` | `MCHitl`: mode off; bot, courier, deny; 2 calls and 2 commands over 1 restart, or 3 calls with the bot only and no restart (`Crowds`) | `TypeOK`, `DecidedOnce`, `DeniedNeverRuns`, `UseIsRecorded`, `OneCallPerRequest` | unsigned approvals are decided once, a deny is final, the use is recorded, and of two retries on one approval one is admitted |
| `HitlEnforce` | `MCHitl`: mode enforce; sign, sign --deny, CLI reject; 2 calls, 2 commands; database failures; 1 restart | `DeniedNeverRuns`, `NeverExpiredWhileRedeemable`, `RowsSettle` | the same for signed approvals; expiry waits for the signature, closed rows stay closed |
| `HitlReplay` | `MCHitl`: mode enforce; sign, sign --deny; 3 calls, 1 command; statements come back; lifetime 2, skew 1; 1 restart | `SignedOncePerProcess`, `ImplementsOneTimeApproval` | replays are refused while they verify; the protocol implements `OneTimeApproval` |
| `HitlLive` | `MCHitl`: mode observe; sign, sign --deny, CLI approve; 2 calls, 2 commands; fair | `EveryRequestEnds` | whoever decides and however they die, a recorded request ends |
| `CallPath` | `MCCallPath`: 2 calls with one run id; 3 processes, 2 of one agent; 1 pattern; limits 1, windows 2, requests late by at most 1, clock 0 to 2; memo of 1 run, refresh 2; 1 restart; both backends | `TypeOK`, `WindowBound`, `NothingUnmetered`, `OwnLiveSession`, `MemoIsWritten`, `PoolOpenedOnce` | limits, attribution and the gate's rows, while replies are lost, statements fail, and calls are cancelled anywhere |
| `Payloads` | `MCPayloads`: 2 patterns, at most 2 layers, lists of up to 3 rules; strings of up to 4 symbols out of 8, and some of 5 and 6 that begin with a URL or end in a value, cut into a record's template and argument in every way; 14 values of secret variables, 3 of which do not count | `EncodedIsCaught`, `NothingMatchedDelivered`, `ExecutedIsLogged`, `NothingHeldInLog`, `WholeValueGoes`, `UserinfoGone` | what the filters let through, and what the log keeps |
| `Serve` | `MCServe`: Vault with stdio, environment with http; period 4, maximum 9, 3 failures, start at most 2 ticks; 2 newer mtimes; burst of 3 of 5 in 2, cooldown 4; fair | `TokenDeathTold`, `ExpiryNotOverstated`, `BurstAlerted`, `StaleShown`, `TokenComesBack` | what a process says of its token, its manifest and its callers is true, and the token comes back |
| `Proxy` | `MCProxy`: 3 calls, 2 tools of which 1 is allowed; fair | `TypeOK`, `NoOrphan`, `WorkingClientStays`, `StrictStaysStrict`, `EveryCallReturns` | reconnects under concurrent deaths, failed opens and cancelled requests |
| `Modules` | 2 modules, 1 of them an `mcp_proxy`; 1 tool name, which a list may lack; delays 1 to 3; gates of 1, budget 1, connect 1; 1 failure of a renewal; fair | `TypeOK`, `RunningServes`, `FileTellsModules`, `PromiseKept`, `AllShutDown`, `GateBounded`, `FailedModulesHeal` | start, retries, recoveries, renewals and shutdown in any order |
| `HitlClosedOnce` | `MCHitl`: off; deny; 1 call, 1 command | `ClosedOnce` (violated) | finding 1 |
| `HitlApprovedEnds` | `MCHitl`: off; bot; 2 calls, 1 command; fair | `ApprovedRowEnds` (violated) | finding 2 |
| `ProxyHealed` | `MCProxy`: 2 calls | `PeerHealed` (violated) | finding 3 |

In HITL, calls share one key (`OneKey`), the worst case. Times to live are one or two ticks:
enough for each timer to be running, about to end and over at any step, since a tick may come
anywhere. In `HitlEnforce` a statement lives three ticks and its record one, so that a statement
outlives its record by more than the strict comparison with `now()` allows for. Calls and
commands are interchangeable, so the safety runs use symmetry; the liveness run does not.
`HitlOff` explores two parts of one state space, as its constraint says: with a third call,
only the bot's commands and no restart. Two commands are enough for the races between
operators, because each property is about a pair of them; what holds for any number is proved.

In `CallPath` two calls and limits of one make every window full at once, and one run presented
by two agents, or by two processes of one, is every conflict the tables know. A window of two
with a clock to two lets an entry be just young enough and just too old. In `Payloads` five
symbols hold a value next to, inside and across another, or a URL with userinfo and delimiter;
and two layers of base64, in either alphabet, are one more than any one decode step takes off.
The values have each kind of quote, are numbers, bare origins with and without a slash, a URL
with a path, and one ends in "://"; without any one of the exceptions that the properties make
for these, TLC finds them violated. In `Serve` a period of
4 sleeps 2 ticks, so a renewal, a failure and the end of the lease fall on different ticks, and
the maximum is not a multiple of the period, so that Vault shortens the last lease; the two
halves of the instance, Vault under stdio and bearer checks under http, share no state but the
process's own. The burst constants are of the code's kind: a cooldown (4, 300 s in the code) longer
than the window (2, 60 s), and a deque (5, 256) longer than the threshold (3, 5).

Two modules are the least that share the loop, the gates' budget and the file; with a cap of 3
the doubled delay is cut off, and a module that is counted down comes due in between the
other's. `RunningServes` speaks of each tool by itself, so one name is enough: the proxy's
instances list it or do not, each on its own. One failed renewal is enough to turn the token's
health; that it takes several is in `Serve`. The dependencies come and go without a bound. Three
proxied calls are enough for the lock: one that reconnects, one that waits for it and one that
begins meanwhile; nothing in `McpProxy` is bounded but the sets.

Each property of a passing run has a mutant in `PROJECT.json`: a definition next to the one it
stands in for, marked "Mutation of".

Deadlock is checked in the HITL runs: `Tick` is always enabled, as time is. Elsewhere it is not,
because these systems may stop: in `Proxy`, once every call has returned and the instance is
closed (that no call is stuck is `EveryCallReturns`); in `Modules`, when the process has ended
(that the loop is not stuck before is `FailedModulesHeal`); in `CallPath`, when the clock is at
its bound and all calls have ended (that no lock is left behind is `PoolOpenedOnce`); in
`Payloads`, at the end of a call or a line; in `Serve`, where a process without an identity
never starts, and the file's mtime has a bound.

### Fairness

`FairSpec` of `Hitl` assumes `WF(Tick)`, time passes, and `WF(ReconcileStep)`, the loop that
`ensure_started` has put on the event loop comes round every `RECONCILE_INTERVAL_SECONDS` and
`_run` survives every exception. Nothing is assumed of operators, agents, or calls half way.
The liveness run has no restart, because after one the loop waits for a call that
nobody owes (`ensure_started` is called from `__call__`), and no failing database, which could
fail for ever.

In `McpProxy`, `FairSpec` assumes `WF(Progress(c))` for each call: the upstream answers each
request or its pipe breaks, an open ends in one way or another, and the event loop gives
every task its turn. `call_tool` and `__aenter__` have no timeout of their own, so this is an
assumption about the upstream. Cancellation is not part of it.

In `Modules`, `FairSpec` assumes that the main thread goes on (`Build`, `Enter`, `StartupDone`,
`Report`) and so does the retry task (`HealStep`): a constructor, a `startup()`, a `shutdown()`
and an alert come to an end in one way or another, and a sleep is over at some time. That is an
assumption about the modules, none of which is given a timeout by the healer.

In `Serve`, `Spec` assumes `WF` of the renewal loop's steps, which is a task of the event loop
whose requests have a timeout, and of the tick that passes while modules are built or the loop
sleeps. Vault, the operator and the clients owe nothing: `TokenComesBack` has Vault's being there
to stay as its premise.

### Findings

1. **A request can be reported closed twice.** A deny that overtakes the gate's row insertion
   emits at once; the row is inserted after it and later expires, with a second event.
   `docs/manifest-schema.md` says once. No slow step is needed in the deny: the run allows no
   tick while an endpoint command is under way.
2. **An approved and unused row never ends.** The reconcile lists `pending` rows only, so a
   row approved at the endpoint whose token lapses stays `approved`.
   `docs/manifest-schema.md` says a request that "expires unused" is closed.
3. **A failed reconnect passes for a healed one.** The client is `None` from the moment a
   reconnect begins; if it fails or is cancelled, who waited for the lock finds the client
   changed, and calls `None.call_tool`. Nobody reconnects after that.

Two divergences that need no interleaving, and so no run: `list_pending`
(`hitl_endpoint.py:213-220`) and `scoped-mcp hitl list` (`hitl_cli.py:94-98`) skip the
`preapproved:` and `otp:` keys but not `denied:`, whose value `"1"` decodes to an int, so the
pending list fails for up to an hour after a deny, although its docstring (`:209`) promises the
requests. And `tool_inventory` (`modules/mcp_proxy.py:423`) counts the schema cache, to which
every refresh adds what the upstream has gained, although its docstrings (`:395`, `:518`) speak
of the tools that are served.

## The proofs

TLAPS proves, for every value of the constants that satisfies the assumptions:

| Module | Theorem | States |
|---|---|---|
| `HitlProofs` | `TypeCorrect` | `Spec => []TypeOK` |
| | `ClaimedOnce` | `Spec => []DecidedOnce` |
| | `DeniedStaysDenied` | `Spec => []DeniedNeverRuns` |
| | `OneCallOnly` | `~StoreMayReplay => (Spec => []OneCallPerRequest)` |
| | `SignedOnce` | `Mode = "enforce" => (Spec => []SignedOncePerProcess)` |
| | `UseRecorded` | `~DbMayFail => (Spec => []UseIsRecorded)` |
| | `NeverExpired` | `Spec => []NeverExpiredWhileRedeemable` |
| | `RowsStay` | `Routes \intersect {"bot", "courier", "deny"} = {} => (Spec => RowsSettle)` |
| | `OneTimeApprovals` | `Mode = "enforce" => (Spec => ImplementsOneTimeApproval)` |
| `CallPathProofs` | `WindowsBounded` | `Spec => []WindowBound` (of `CallPath`) |
| | `NothingGoesUnmetered` | `Spec => []NothingUnmetered` |
| | `CallPathTyped` | `Spec => []TypeOK` |
| | `OnePoolOpened` | `Spec => []PoolOpenedOnce` |
| | `MemosAreWritten` | `Spec => []MemoIsWritten` |
| | `SessionIsOwn` | `Spec => []OwnLiveSession` |
| `PayloadsProofs` | `EncodedIsBlocked` | `Spec => []EncodedIsCaught` |
| | `NothingMatchedGoesOut` | `Spec => []NothingMatchedDelivered` |
| | `EveryEndIsLogged` | `Spec => []ExecutedIsLogged` |
| | `NoValueIsWritten` | `Spec => []NothingHeldInLog` |
| | `NoPartIsWritten` | `Spec => []WholeValueGoes` |
| | `NoUserinfoIsWritten` | `Spec => []UserinfoGone` |
| `ServeProofs` | `DeathIsTold` | `Spec => []TokenDeathTold` |
| | `ExpiryIsSafe` | `Spec => []ExpiryNotOverstated` |
| | `StaleIsShown` | `Spec => []StaleShown` |
| | `BurstsAreAlerted` | `Spec => []BurstAlerted` |
| `McpProxyProofs` | `ProxyTyped` | `Spec => []TypeOK` |
| | `NothingOrphaned` | `Spec => []NoOrphan` |
| | `WorkingClientKept` | `Spec => WorkingClientStays` |
| | `NeverDemoted` | `Spec => StrictStaysStrict` |
| `ModulesProofs` | `ModulesTyped` | `Spec => []TypeOK` |
| | `RunningAreServed` | `Spec => []RunningServes` |
| | `FileIsTrue` | `Spec => []FileTellsModules` |
| | `PromisesKept` | `Spec => []PromiseKept` |
| | `ServedAreShut` | `Spec => []AllShutDown` |
| | `GatesEnd` | `Spec => []GateBounded` |

The assumptions are those of the modules, and TLC evaluates them in every run. `HitlAssumptions`:
the ranges of the constants, and `MaxLifetime <= ExpiryGrace`, both 120 in the code; calls and
commands may be infinitely many. `RateLimitAssumptions`: finitely many calls, limits and windows
are numbers, a pattern's bucket is not the global one. `SessionsAssumptions`: ids are ids, and
none of them is the mark for a row that is missing. `CallPathAssumptions` and `ServeAssumptions`:
a bound is a number. `VaultRenewalAssumptions`: the lease is positive and no longer than the
maximum. `BearerAssumptions`: the deque holds a burst. `ProxyAssumptions`: names are distinct and
what is allowed is a tool. `ModulesAssumptions`: delays are positive and the base is not over the
cap. `FiltersAssumptions`: None is no text. `RedactionAssumptions`: no secret value has a
placeholder's symbol in it, and lengths are numbers, the least length of a value and of a hex
run positive. `PayloadsAssumptions`: rules, arguments, responses and strings are what they are
called, the symbols of a string know their places, and positions are the five. Held values,
strings, rules and responses may be infinitely many and of any length.

The argument, for HITL:

- `TypeInv` adds to `TypeOK` that a command that has started names a request, and so does a
  token's writer and the command an admitted call used. Without it `oid[o]` could be `None`
  where the code dereferences an id.
- `ClaimInv`: a request that has been claimed is not pending, and its gate is past
  `setPending`, so it never becomes pending again; and no two commands have claimed it. The
  middle part is what makes the third inductive: ids are never reused.
- `TokenInv`: a command of a claiming route has a token in the store, or has admitted a call,
  only if it claimed its request; and a denying command writes no token. With `ClaimInv`,
  a denied request has one claim, the deny's, and so no claiming token.
- `SpentInv`: a token that has admitted a call is in no key and admits no other. GETDEL keeps
  it, and a command writes its token once. It fails where the store brings tokens back, which
  is why `OneCallOnly` assumes `~StoreMayReplay`. Two admitted calls of one request would have
  used tokens of two commands, both of which claimed it: `ClaimInv` says there is one.
- `MemoryInv`: under enforce each used token is a claimed, signed statement, and as long as
  the process that admitted it lives the `ConsumedSet` holds its id at least as long as the
  statement verifies. After a restart the set is empty, and so the property is
  per process: `usedIn[c]` counts the restarts.
- `Recorded`: a call that an endpoint approval admitted has its update still to come, or the
  row does not say "approved". Nothing says so again, because only the command that claimed the
  request does, and that one has written its token and is done.
- `AgeInv`: a row is inserted after its record was written, so as long as the record can be
  claimed, the row's age and what is left of the record make up no more than the timeout; so a
  claimed statement and its row's age make up no more than timeout and lifetime. `ExpiredInv`:
  what the reconcile has in hand as expired is overdue and stays so, and a row is expired because
  it was overdue, or by the endpoint command that claimed it. An overdue row has no claimed
  statement with time left, since the lifetime is not over the grace; and who claimed at the
  endpoint did not sign.
- `RoutesInv`: without endpoint commands all updates are guarded, and by `AgeInv` a row's call
  has done its one insertion.
- The refinement: `BeginInv`, a call that has not asked has neither record nor approval, makes
  a request's standing (`StandingOK`) one of idle, open, granted and ended. A step of the gate is
  Open, Admit or nothing in the abstract, a claim of a signer is Grant, another claim or an
  expiry is End, a new process is Restart, and everything else a stutter; each is a
  lemma, and `SafeInv` and `MemoryInv` are what makes Admit's guards true.

For the path of a call:

- An entry that has been dropped from a window was admitted at least `Window` less the delay ago,
  because the caller that dropped it carried a time no later than the clock and its own time is
  no later than when it was admitted. So what was admitted within that time is still in the
  window, and a window holds no more than its limit.
- `FrameInv`: what a call carries over an await is still true: the row is its agent's, because
  the upsert never changes an owner. `PoolInv`: whoever holds the lock is opening the pool, and
  then there is none. `MemoInv`: a memo is of a row that this agent owns, no younger than the
  row. `LinksInv`: links and the calls that are about to insert one are no more than the calls,
  which types the table.

For a process:

- `DeathInv`: while the token is called healthy, the time it has been dead and what is left of
  the sleep are no more than the start and one sleep for each failure so far. Products of unknowns
  are beyond the solver, so `Sleeps(n, l)` is kept closed but for two lemmas.
- An answer can only be lost after Vault has extended the lease, so `lease - since` falls behind
  what the token has; `StaleInv`: the stamp is no later than the file, and earlier exactly when
  somebody has written a later one since.

- `BearerInv`: the last `BurstThreshold` rejections that lie within the window are at the right
  end of the deque, whatever was dropped at its left (`StampsKept`), and the
  alert of the last cooldown is the one whose stamp is kept (`AlertsKept`). A burst is alerted
  when its last rejection comes, or an alert is cooling down (`BurstTold`). `YoungIsASuffix` is
  what popping from the left leaves.

For payloads:

- `CallInv`: at each stage of a call the rules, the arguments, the response and the audit line
  are those of one call, and what is delivered is one of the outcomes of `FilterResponse`. A
  block rule whose pattern is under encodings that its steps undo meets, after as many steps as
  there are layers, a form that has it on its face: `FormsStep` unrolls the chain, and the
  exception is where a step decodes by accident. For the response, what rule `k` has left has
  none of the patterns of the block and redact rules up to `k`, and no later rule adds any.
- `LineInv`: a line is what the passes make of its source, or of the record's parts. A string
  is rewritten from the left, a piece at a time, so a claim about what comes out is proved for
  every suffix (`RewrittenIn`, by induction over the length). What the passes put in are
  placeholders, which no value has in it. So a value that stands in the result stood in what
  the pass was given (`Carries`): no pass brings a value about, and the first leaves none
  (`ValuesPass`), `PassKeepsValueless` says so for the others. Between two passes there is the
  escaping of JSON or `repr()`, and that is why `Values` has each value escaped as well: an
  escaped value in the escaped string is a value in the string (`EscapedValue`, for any set of
  special characters). What `repr()` escapes of a value in a string is what it escapes of the
  value alone, unless that has a `'` and the string a `"` that the value has not (`QuotedAlike`).
  A record whose parts are put together is searched once more as a whole; `RecordIsClean` is
  about that.
- That no part of a value is left is a claim about the places of its symbols (`ValueGone`). The
  search goes from the left and takes the longest at each position, so a value is found whole,
  or a longer one from the same position, unless one that began before it reaches into it:
  which is the property's exception, stated over the string that is searched (`Seen`), because
  escaped values may overlap where the values do not.
- What becomes of userinfo is a claim about two places at a time, so it takes more: for each pass
  there is a trace (`Traces`), which says where each symbol that is left has been. By
  `RedactedFacts` a trace over all passes takes away what stands between a "://" and an @ of its
  run (`BracketsGone`), keeps a "://" in front of what is left of a run (`LeftEndsStay`), and
  loses an @ only with all that is between it and a "://" (`AtsGoWithUrls`). In a field the
  first is all that is needed. A record whose parts are redacted one by one is put together from
  two traces (`SplicedTraces`), and redacted again. If both ends are in the same part, that part
  has lost the userinfo already (`BothInArgument`, `BothInMessage`). Otherwise either what is
  between them is gone, or both ends are still there, or something opens the run in front of
  them, and the last pass takes it (`IntoArgument`, `OutOfArgument`, `EndsMeet`). The exceptions
  are where that fails, and TLC finds `UserinfoGone` violated without any one of them.

For the proxy, `LinkInv`: the client, if there is one, is the handle's, and nothing works but
what the handle holds; `LockInv`: what is true at each await under the lock; `DeadInv`: a
client that failed a call is dead for good, because a call opens its client once and nobody
has read it before. So the client that the re-check finds unchanged is a dead one.

For the modules, `StartInv`: what each phase of the process knows of the instances, and that
what begins is listed first; `LoopInv`: the retry task works only on modules that are down, so
a recovered instance is never replaced, and what is left of each delay and what has been slept
make up what was logged; `ToolsInv`: the names that are bound to the instance of a running module
are those that it lists, and nothing is bound to a retry's instance before there is one, so
registering by name is enough although nothing is ever taken off; `GateInv`: until the budget is
used up, what was waited and what is left make up no more than it. The range of `slept` in
`TypeOK` follows only with `LoopInv`.

Each invariant is preserved action by action, and frame lemmas (`GateFrame`, `OpFrame` and
their like) keep the steps that touch nothing relevant short.

Definitions by recursion over sequences (the chain of decode steps, the rules in their order, a
pass over a string, the deque) are recursive functions here, and claims about them are proved
by induction with a set in the place of a predicate (module `Induction`): that a set of numbers
has a least element follows from the library's theorem that inclusion is well-founded on finite
sets.

Only model-checked: liveness (`EveryRequestEnds`, `EveryCallReturns`, `FailedModulesHeal`,
`TokenComesBack`), which is beyond the prover. Every invariant of a run has a theorem.

## Not modelled, and why

Whole components:

- the HITL notification and the ops alerts: best effort after the decision, failures are logged
  and change nothing;
- static credentials: one read at start-up, no state;
- tracing: spans, no state;
- scoping: pure functions on paths and names whose promise is about the file system's resolution
  of links, which a model would have to assume;
- the tool modules: adapters that send one request per call; their state is outside this program;
- the file outbox of the events, log sinks, rotation and layout; synthesized signatures and the
  capping of results in the proxy; the status and health routes, which only read.

Left out of the HITL model on purpose, each because the code makes no promise there:

- two CLI approvals of one request (or one against the endpoint): nothing is claimed, so two
  tokens may be written and two calls admitted;
- a CLI reject against an approver that has already claimed: the row is closed `denied` while
  the statement is redeemable;
- a crash between the reconcile's update and its emit: the event is lost;
- a courier's wrong OTP: it is burnt and the row set to denied, while the bot may still approve;
- events other than `hitl.closed`, the notification, the outbox: written, never read.

Residuals that the properties name as exceptions, because the code has them:

- redaction: values that are short, numbers or bare origins are no secrets to it and stay in the log
  (`audit.py:268`, `:280`, `tests/test_audit.py:647`); and so does a value with a `'` in something
  that is logged by `repr()` and has a `"` elsewhere, because it is written with `\'` there and
  the set has only what `repr()` makes of the value alone. The comment at `audit.py:306`, "the same
  secret as repr() and JSON escape it", does not see that case;
- filters: a string whose secret is matched as it stands, and encoded elsewhere in the same
  string, keeps the encoded one; a string that is base64 by accident hides what is quoted in it, and
  url-safe base64 is none to a rule without `urlsafe_base64`;
  keys of dicts and binary payloads are not scanned;
- userinfo: in a record whose arguments are strings, a
  second "://" may hide what is between the first and it, a value that ends in "://" takes with it
  the sign that a URL has been there, and a template with a conversion too
  many may lose one in a URL and be formatted after all; a value over the "://" or the @ of a URL
  leaves the rest of it; a value that begins earlier and reaches into another takes only its
  own part;
- a response that the filter blocks is logged `tool_error` although the tool has run, and a call
  that is cancelled has no audit line;
- a manifest that is edited between its load and its stamp, that keeps an older mtime, or that is
  missing at the stamp is never shown as stale; the file is read twice, so the names whose values
  are redacted may be another file's;
- the bind check comes after the login to Vault, so a refused start has used the secret id; the
  stamp of a burst is set also when the alert cannot be sent.

Left out of the properties of `Modules`, because the code does not keep them:

- a tool that an instance registered before it failed, and that the running one does not list,
  stays bound to the one that failed, and fails when it is called;
- a retry that is cancelled in its `startup()` by the shutdown leaves its instance running:
  `except Exception` does not see the cancellation, and the instance is in no list yet;
- the delays of a module need not grow: the loop doubles what is left in the map that it also
  counts down;
- the token's health in the file can be stale: the lifespan reads it, awaits alerts, and writes it
  over what a renewal wrote meanwhile (`StartupDone`, `Renew`, `Report`);
- a single gate may wait one connect longer than its timeout, so `GateBounded` adds it.

## Plan

Done: the HITL protocol with its refinement, the path of a call, payloads, a serving process, the
upstream proxy and the modules, each checked; theorems for all but liveness.
What is left, most important first:

1. The event outbox: file stamps, its 2 s bound, and a reader that may see a file twice.
2. An HTTP upstream in `McpProxy`: a connection per call, next to the persistent one.
3. Scoping as operators on paths, against a reference resolution of links.
4. Runs for what `Modules` does not keep (above), where a text of the repository says otherwise.

## Running it

    tlc -config HitlOff.cfg MCHitl          # HitlEnforce, HitlReplay, HitlLive alike
    tlc -config CallPath.cfg MCCallPath
    tlc -config Payloads.cfg MCPayloads
    tlc -config Serve.cfg MCServe
    tlc -config Proxy.cfg MCProxy
    tlc -config Modules.cfg Modules
    tlapm HitlProofs.tla                    # and each other module ...Proofs
