---------------------------- MODULE MCAppareil ----------------------------
(* Instances of Appareil for TLC. *)
EXTENDS Appareil
CONSTANTS r1, r2
UnReseau == {r1}
DeuxReseaux == {r1, r2}
Android == {"android"}
LesDeux == {"android", "linux"}
============================================================================
