------------------------------ MODULE MCKeysign ------------------------------
(* Model values and symmetry for the runs of Keysign.                       *)
EXTENDS Keysign, TLC

CONSTANTS p1, p2

Symmetry == Permutations(Party)

=============================================================================
