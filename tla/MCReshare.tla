------------------------------ MODULE MCReshare ------------------------------
(* Model values for the runs of Reshare.                                    *)
EXTENDS Reshare

CONSTANTS p1, p2, p3

=============================================================================
