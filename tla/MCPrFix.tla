------------------------------ MODULE MCPrFix ------------------------------
(***************************************************************************)
(* Small instances of PrFix for TLC.                                       *)
(***************************************************************************)
EXTENDS PrFix, TLC

\* The PRs play the same part in every action and property.
PrSymmetry == Permutations(PRs)

=============================================================================
