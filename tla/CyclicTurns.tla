---------------------------- MODULE CyclicTurns ----------------------------
(***************************************************************************)
(* What a round robin promises: N parties, each gets the turn after its    *)
(* predecessor, and the turn passes on until the game is over.             *)
(***************************************************************************)
EXTENDS Integers

CONSTANT N

VARIABLES turn, over

Init == turn = 0 /\ ~over
Pass == ~over /\ turn' = (turn + 1) % N /\ UNCHANGED over
End == over' /\ UNCHANGED turn
Spec == Init /\ [][Pass \/ End]_<<turn, over>> /\ WF_<<turn, over>>(Pass)
=============================================================================
