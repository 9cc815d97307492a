------------------------------- MODULE MCTick -------------------------------
(***************************************************************************)
(* Small instances of Tick for TLC.                                        *)
(***************************************************************************)
EXTENDS Tick, TLC

\* The issues play the same part in every action and property.
Symmetry == Permutations(Issues)

=============================================================================
