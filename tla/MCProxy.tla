------------------------------ MODULE MCProxy -------------------------------
(***************************************************************************)
(* McpProxy for TLC.                                                       *)
(***************************************************************************)
EXTENDS McpProxy, TLC

Symmetric == Permutations(Calls)

=============================================================================
