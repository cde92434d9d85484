---- MODULE MCSynchro ----
(* Instances of Synchro for TLC. *)
EXTENDS Synchro, TLC

CONSTANTS k1, k2, p1, p2

Cles_MC == {k1, k2}
Personnes_MC == {p1, p2}
Equipes_MC == {{p1}, {p1, p2}}
Revocables_MC == {k2}
Proprio_MC == (k1 :> p1) @@ (k2 :> p2)
Politiques_MC == {{<<k1, k2>>, <<k2, k1>>, <<k1, LeServeur>>}}

\* One device, for liveness.
Cle1_MC == {k1}
Proprio1_MC == k1 :> p1
Equipes1_MC == {{}, {p1}}
Politiques1_MC == {{<<k1, LeServeur>>}}
====
