------------------------------ MODULE MCKeygen ------------------------------
(* Model values and symmetry for the runs of Keygen.                        *)
EXTENDS Keygen, TLC

CONSTANTS p1, p2, p3

Symmetry == Permutations(Party)

=============================================================================
