---- MODULE MCRevocations ----
(* Instances of Revocations for TLC. *)
EXTENDS Revocations

CONSTANTS p, q, x, y

Appareils_MC == {p, q}
Admins_MC == {p, q}
Revocables_MC == {q, x}
Revocables3_MC == {q, x, y}
Seul_MC == {p}
====
