---------------------------- MODULE MCInondation ----------------------------
(* Two networks, for TLC. *)
EXTENDS Inondation, TLC

CONSTANTS ici, ailleurs
Reseaux == {ici, ailleurs}
Symetrie == Permutations(Reseaux)
=============================================================================
