---- MODULE MCEquipe ----
(* Instances of Equipe for TLC. *)
EXTENDS Equipe, TLC

CONSTANTS p, q, r, d1, d2, s1

Deux_MC == {p, q}
Trois_MC == {p, q, r}
Demandes_MC == {d1, d2}
Scripts_MC == {s1}
====
