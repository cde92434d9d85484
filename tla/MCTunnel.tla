---- MODULE MCTunnel ----
(* Instances of Tunnel for TLC. *)
EXTENDS Tunnel, TLC

CONSTANTS a, b, i1, i2, i3, i4

Bouts_MC == {a, b}
Client_MC == {a}
Indices_MC == {i1, i2, i3, i4}
Symetrie == Permutations(Indices_MC)
Init21 == (a :> 2) @@ (b :> 1)
Vies00 == (a :> 0) @@ (b :> 0)
Vies10 == (a :> 1) @@ (b :> 0)
====
