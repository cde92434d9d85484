---------------------------- MODULE MCCertificats ----------------------------
(* Three devices of one person and one machine, for TLC. *)
EXTENDS Certificats

CONSTANTS k1, k2, k3, alice, maison, admins, gens, web, ssh, etoile

LesCles == {k1, k2, k3}
LesRangs == [k \in LesCles |-> IF k = k1 THEN 1 ELSE IF k = k2 THEN 2 ELSE 3]
LesAdresses == 1 .. MaxInscriptions
LesPersonnes == {alice}
LesEtiquettes == {maison}
LesGroupes == {admins, gens}
LesPorts == {web, ssh, etoile}
Repond == {web}
DAlice == [proprietaire |-> alice, etiquette |-> Vide]
LaMaison == [proprietaire |-> Vide, etiquette |-> maison]
LeDepart == {[u \in LesPersonnes |-> admins]}
LesInvites == {<<k1, DAlice>>, <<k2, DAlice>>, <<k2, LaMaison>>, <<k3, LaMaison>>}

Tous == [sorte |-> "*", de |-> Vide]
LeServeur == [sorte |-> "serveur", de |-> Vide]
Soi == [sorte |-> "soi", de |-> Vide]
G(g) == [sorte |-> "groupe", de |-> g]
Maison == [sorte |-> "etiquette", de |-> maison]

\* The shape of politique.json: people reach the machine, administrators more
\* of it and everything of their own, the server publishes.
LaPolitique ==
    {[de |-> {G(gens), G(admins)}, vers |-> {Maison}, ports |-> {web}],
     [de |-> {G(admins)}, vers |-> {Maison, Soi}, ports |-> {ssh}],
     [de |-> {LeServeur}, vers |-> {Maison}, ports |-> {etoile}]}
LesPolitiques == {LaPolitique}
=============================================================================
