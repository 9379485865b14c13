------------------------------- MODULE MCHitl -------------------------------
(***************************************************************************)
(* Instances of the approval protocol for TLC: every time to live is the   *)
(* shortest that still has a before and an after.                          *)
(***************************************************************************)
EXTENDS HitlSafety, FiniteSets, TLC

OneKey == [c \in Calls |-> "k"]

\* The operators and the calls are alike.
Symmetric == Permutations(Calls) \union Permutations(Ops)

\* No command of the proxy process is so slow that a tick passes while it runs: the
\* ordinary pace, under which the races that remain are the short ones.
Prompt == \A o \in Ops : InProcess(o) => opc[o] \in {"start", "done"}
PromptSpec == Init /\ [][Next /\ (age' # age => Prompt)]_vars

\* Two calls and everything else, or a third call that retries beside them when the bot has
\* decided and the process runs on.
Crowded == Cardinality({c \in Calls : cpc[c] # "start"}) > 2
Crowds == Crowded => epoch = 0 /\ \A o \in Ops : route[o] \in {"none", "bot"}

============================================================================
