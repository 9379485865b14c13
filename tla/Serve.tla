------------------------------- MODULE Serve --------------------------------
(***************************************************************************)
(* A proxy process from `scoped-mcp run` to its end: identity, manifest,   *)
(* what is built from it, credentials, and then the server with the Vault  *)
(* renewal and the bearer check, while the operator edits the manifest and *)
(* starts the process again.  One action per read of something that others *)
(* may change in between.                                                  *)
(***************************************************************************)
EXTENDS VaultRenewal, BearerAuth

CONSTANTS
    Manifests,      \* what an operator writes, as records of the fields that _run_serve acts on
    Missing,        \* no file
    Defined,        \* the environment variables that are set
    MaxMtime        \* bound: how often an edit gets a newer mtime

ASSUME ServeAssumptions == Missing \notin Manifests /\ MaxMtime \in Nat

VARIABLES
    args,       \* transport, whether host and port will do, and what the environment has
    disk,       \* the manifest file
    mtime,      \* its modification time
    step,       \* how far the process has come
    loaded,     \* the manifest it runs on
    stamp,      \* manifest_mtime_at_load, None if it could not be read
    edited      \* history: whether the file was edited before or after the stamp was taken

fileVars == <<disk, mtime>>
processVars == <<step, loaded, stamp, edited>>
vars == <<args, fileVars, processVars, renewalVars, bearerVars>>

Args == [transport : {"stdio", "http"}, bindable : BOOLEAN, bearer : BOOLEAN,
         identity : BOOLEAN, approle : BOOLEAN]

Init ==
    /\ args \in Args
    /\ disk \in Manifests
    /\ mtime = 0
    /\ step = "down" /\ loaded = Missing /\ stamp = Never /\ edited = "none"
    /\ RenewalInit
    /\ BearerInit

-----------------------------------------------------------------------------
\* The manifest.

\* The model validators, by the part that they are about.
ValidCredentials(m) == (m.source = "file" => m.path) /\ (m.source = "vault" => m.vault)
ValidStateBackend(m) == m.backend = "dragonfly" => m.url
ValidNotify(m) == m.notify # "log" => m.target
ValidSigning(m) == m.signing # "off" => m.key
NoSelfApproval(m) == ~(m.signing = "enforce" /\ m.hitlMode = "interactive")
HitlHasDragonfly(m) == m.gated => m.backend = "dragonfly"
ValidAudit(m) == m.emits => m.commsDir
ValidModules(m) == m.modules # {} /\ \A x \in m.modules : x.complete

\* Manifest.model_validate; m.fields stands for the validators of single fields.
Valid(m) ==
    /\ m.fields
    /\ ValidCredentials(m) /\ ValidStateBackend(m) /\ ValidNotify(m) /\ ValidSigning(m)
    /\ NoSelfApproval(m) /\ HitlHasDragonfly(m) /\ ValidAudit(m) /\ ValidModules(m)

\* _expand_env_vars
Expands(m) == m.vars \subseteq Defined

\* load_manifest: the file is there, its ${VAR}s are set, it parses, and it is valid.
Loads(m) == m # Missing /\ Expands(m) /\ m.parses /\ Valid(m)

\* build_server refuses a module that is neither available nor failed to import.
KnownModules(m) == \A x \in m.modules : x.known

-----------------------------------------------------------------------------
\* The process.

Enter(s) == step' = s /\ UNCHANGED <<loaded, stamp, edited>>

\* sys.exit, on any exception or SIGTERM: what the process knew goes with it.
Exit ==
    /\ step' = "down" /\ loaded' = Missing /\ stamp' = Never /\ edited' = "none"
    /\ CloseRenewal
    /\ BearerReset

Idle == UNCHANGED <<renewalVars, bearerVars>>

\* AgentContext.from_env
Start ==
    /\ step = "down" /\ args.identity
    /\ Enter("load")
    /\ Idle

LoadManifest ==
    /\ step = "load"
    /\ IF Loads(disk)
       THEN step' = "names" /\ loaded' = disk /\ UNCHANGED <<stamp, edited>> /\ Idle
       ELSE Exit

\* manifest_env_var_names reads the file again, for the names whose values are to be
\* redacted; it does not look at anything else.
ReadNames ==
    /\ step = "names"
    /\ IF disk # Missing THEN Enter("build") /\ Idle ELSE Exit

\* _build_http_auth
Authenticates == args.transport = "http" => args.bearer

\* State backend, filters, middleware and, under http, the bearer verifier: each may refuse.
Build ==
    /\ step = "build"
    /\ \/ Authenticates /\ Enter("stamp") /\ Idle
       \/ Exit

\* build_server, up to the credentials.
Stamp ==
    /\ step = "stamp"
    /\ IF KnownModules(loaded)
       THEN /\ step' = IF loaded.source = "vault" THEN "fetch" ELSE "modules"
            /\ stamp' = IF disk # Missing THEN mtime ELSE Never
            /\ UNCHANGED <<loaded, edited>>
            /\ Idle
       ELSE Exit

\* VaultCredentialSource() and fetch()
FetchCredentials ==
    /\ step = "fetch"
    /\ \/ args.approle /\ Fetch /\ Enter("modules") /\ UNCHANGED bearerVars
       \/ Exit

\* _check_http_bind
Binds == args.transport = "http" => args.bindable

\* Mutation of Ready: the file's time is read when the server is built.
ReadyStamping ==
    /\ step = "modules"
    /\ IF ~Binds
       THEN Exit
       ELSE /\ step' = "serving" /\ UNCHANGED <<loaded, edited>>
            /\ stamp' = IF disk # Missing THEN mtime ELSE Never
            /\ IF loaded.source = "vault" THEN StartRenewal ELSE UNCHANGED renewalVars
            /\ UNCHANGED bearerVars

\* The modules are built; _check_http_bind, server.run() and the lifespan.
Ready ==
    /\ step = "modules"
    /\ IF ~Binds
       THEN Exit
       ELSE /\ Enter("serving")
            /\ IF loaded.source = "vault" THEN StartRenewal ELSE UNCHANGED renewalVars
            /\ UNCHANGED bearerVars

Stop == step = "serving" /\ Exit

ProcessStep == Start \/ LoadManifest \/ ReadNames \/ Build \/ Stamp \/ FetchCredentials \/ Ready \/ Stop

-----------------------------------------------------------------------------
\* What happens while it serves.

RejectRequest == step = "serving" /\ args.transport = "http" /\ Rejected

\* The operator writes or removes the file.  Its clock may not have moved on since.
Edit ==
    /\ disk' \in (Manifests \union {Missing}) \ {disk}
    /\ mtime' \in {mtime, mtime + 1} /\ mtime' <= MaxMtime
    /\ edited' = CASE step \in {"fetch", "modules", "serving"} /\ mtime' > mtime -> "after"
                   [] step \in {"down", "load"} -> "none"
                   [] OTHER -> IF edited = "after" THEN "after" ELSE "before"

VaultEnvironment == step # "down" /\ at # "none" /\ (VaultChanges \/ Revoke)

Next ==
    \/ ProcessStep /\ UNCHANGED <<args, fileVars>>
    \/ RejectRequest /\ UNCHANGED <<args, fileVars, processVars, renewalVars>>
    \/ BearerTick /\ UNCHANGED <<args, fileVars, processVars, renewalVars>>
    \/ Edit /\ UNCHANGED <<args, step, loaded, stamp, renewalVars, bearerVars>>
    \/ (LoopStep \/ VaultTick \/ VaultEnvironment)
            /\ UNCHANGED <<args, fileVars, processVars, bearerVars>>

\* The renewal loop is a task of the event loop, its requests have a timeout, and time goes
\* on.
Fairness ==
    /\ WF_vars(LoopStep /\ UNCHANGED <<args, fileVars, processVars, bearerVars>>)
    /\ WF_vars(VaultTick /\ UNCHANGED <<args, fileVars, processVars, bearerVars>>)

Spec == Init /\ [][Next]_vars /\ Fairness

-----------------------------------------------------------------------------
\* _manifest_status_fields
ManifestStale == stamp # Never /\ disk # Missing /\ mtime > stamp

\* SMCP-24: a process that serves another manifest than the one in the file says so, if the
\* file was written, in a later instant, while credentials were fetched, modules were built
\* or the server ran; and says so only if somebody has written it.  (Not shown is an edit
\* between the reading of the file and the reading of its time, nor a file that was not
\* there at that moment.)
StaleShown ==
    step = "serving" /\ stamp # Never /\ disk # Missing =>
        /\ edited = "after" => ManifestStale
        /\ ManifestStale => edited # "none"

\* L1 self-heal: a serving process whose re-authentication is enabled has a live token and
\* knows it, again and again, if Vault is there to stay, although the token may reach its
\* maximum, be revoked at any time, or not be allowed to renew itself.
TokenComesBack ==
    (reauth /\ <>[](vault = "up" /\ step = "serving" /\ loaded.source = "vault"))
        => []<>(left > 0 /\ healthy)

=============================================================================
