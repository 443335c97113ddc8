----------------------------- MODULE MCCommands -----------------------------
(* Model values for the run of Commands.  Without the zero byte between them, *)
(* the first two names cannot be told from the third.                        *)
EXTENDS Commands

CONSTANTS p1, p2, p3

MCName == {<<1>>, <<2>>, <<1, 2>>}

=============================================================================
