------------------------------ MODULE MCSetup -------------------------------
(* Model values for the run of Setup.                                       *)
EXTENDS Setup

CONSTANTS p1, p2, p3, t1, t2

=============================================================================
