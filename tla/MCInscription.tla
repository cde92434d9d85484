---- MODULE MCInscription ----
(* Instances of Inscription for TLC. *)
EXTENDS Inscription, TLC

CONSTANTS t1, t2, d1, d2, d3, i1, k1, k2, alice, sub1, sub2

Traitements_MC == {t1, t2}
Symetrie == Permutations(Traitements_MC)
Personnes_MC == {alice}

DemandeGoogle(cle, sub, h) ==
  [cle |-> cle, nom |-> "portable", horodatage |-> h, email |-> alice, sub |-> sub,
   invitation |-> Aucun]
DemandeCle(cle, i) ==
  [cle |-> cle, nom |-> "portable", horodatage |-> 0, email |-> Aucun, sub |-> Nulle,
   invitation |-> i]

\* Two Google accounts for one email, one request dated ahead; the same device
\* key by Google and by a machine's invitation.
Demandes_MC == {d1, d2, d3}
Demande_MC ==
  (d1 :> DemandeGoogle(k1, sub1, 1)) @@ (d2 :> DemandeGoogle(k2, sub2, 0))
  @@ (d3 :> DemandeCle(k1, i1))
Invitations_MC == {i1}
Invitation_MC == i1 :> [utilisateur |-> Aucun, etiquette |-> "maison", nom |-> "portable"]
====
