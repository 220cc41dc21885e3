------------------------------ MODULE MCVeDEG ------------------------------
(***************************************************************************)
(* One farming pool, a user who only farms and one who holds veDEG, too.   *)
(* One DEGIS generates ten veDEG a second, up to its maximum of ten.       *)
(***************************************************************************)
EXTENDS VeDEG

CONSTANTS u1, u2

MCSpeeds == {<<5, 3>>, <<0, 0>>}

\* The second level is reached when both users stake; and what the task
\* stopPieceWise-Farming sets.
MCPieces == {[threshold |-> <<0, 3>>, reward |-> <<5, 7>>],
             [threshold |-> <<0>>, reward |-> <<0>>]}
=============================================================================
