----------------------------- MODULE MCSubProc ------------------------------
(* Four commands, of which as many as there are slots can be in the array. *)
EXTENDS SubProc, TLC
CONSTANTS p1, p2, p3, p4
FourCommands == {p1, p2, p3, p4}
=============================================================================
