------------------------------ MODULE MCServe -------------------------------
(***************************************************************************)
(* A manifest with credentials in Vault, served on stdio, and one without, *)
(* served on http; each beside one that is refused at another stage.       *)
(***************************************************************************)
EXTENDS Serve

Sound == [vars |-> {"URL"}, parses |-> TRUE, fields |-> TRUE,
          source |-> "env", path |-> FALSE, vault |-> FALSE,
          backend |-> "dragonfly", url |-> TRUE,
          gated |-> TRUE, hitlMode |-> "enforce", signing |-> "enforce", key |-> TRUE,
          notify |-> "ntfy", target |-> TRUE,
          emits |-> FALSE, commsDir |-> FALSE,
          modules |-> {[known |-> TRUE, complete |-> TRUE]}]

InVault == [Sound EXCEPT !.source = "vault", !.vault = TRUE]

\* Refused when it is loaded, and when the modules are looked up.
SelfApproving == [Sound EXCEPT !.hitlMode = "interactive"]
Misspelt == [Sound EXCEPT !.modules = {[known |-> FALSE, complete |-> TRUE]}]

MCManifests == {Sound, InVault, SelfApproving, Misspelt}

\* Vault with stdio, the environment with http.
MCInit ==
    /\ Init
    /\ args \in {a \in Args : a.transport = "stdio" => a.bearer /\ a.bindable}
    /\ disk = IF args.transport = "stdio" THEN InVault ELSE Sound
MCNext == Next /\ disk' # IF args.transport = "stdio" THEN Sound ELSE InVault
MCSpec == MCInit /\ [][MCNext]_vars /\ Fairness

=============================================================================
