-------------------------- MODULE InscriptionProofs --------------------------
(***************************************************************************)
(* What Inscription guarantees for any number of handlers, requests,       *)
(* persons, invitations and addresses: the lines of the table never share  *)
(* an address, a name, a key or a number; a key registers one device at    *)
(* most; one Google account for each email; the addresses go full round;   *)
(* a proof that was retained is not taken again.                           *)
(***************************************************************************)
EXTENDS Inscription, FiniteSetTheorems, TLAPS

LEMMA PlusPetit ==
  ASSUME NEW S \in SUBSET Nat, S # {}
  PROVE  \E x \in S : \A y \in S : x <= y
<1>1. PICK x \in S : \A y \in S : ~(<<y, x>> \in OpToRel(<, Nat))
  BY NatLessThanWellFounded, WFMin
<1>2. \A y \in S : ~(y < x)
  BY <1>1 DEF OpToRel
<1> QED  BY <1>2

LEMMA MinDe ==
  ASSUME NEW S \in SUBSET Nat, S # {}
  PROVE  Min(S) \in S /\ \A y \in S : Min(S) <= y
BY PlusPetit DEF Min

\* % between -NbAdresses and NbAdresses.
LEMMA Modulo ==
  ASSUME NEW x \in -NbAdresses .. NbAdresses - 1
  PROVE  x % NbAdresses = IF x >= 0 THEN x ELSE x + NbAdresses
BY NombresAssumption, Z3

-----------------------------------------------------------------------------
(* What Enregistrer reads and computes. *)

\* The distance of a from the last address given, without %.
LEMMA PasDe ==
  ASSUME NEW a \in Adresses, derniere \in 0 .. NbAdresses
  PROVE  /\ Pas(a) = IF a > derniere THEN a - derniere - 1 ELSE a - derniere - 1 + NbAdresses
         /\ Pas(a) \in Nat
<1>1. a - derniere - 1 \in -NbAdresses .. NbAdresses - 1
  BY NombresAssumption DEF Adresses
<1>2. Pas(a) = IF a - derniere - 1 >= 0 THEN a - derniere - 1 ELSE a - derniere - 1 + NbAdresses
  BY <1>1, Modulo DEF Pas
<1> QED  BY <1>2, NombresAssumption DEF Adresses

\* adresseLibre gives a free address, and every one before it round the ring
\* is taken.
LEMMA PremiereDuTour ==
  ASSUME derniere \in 0 .. NbAdresses, Libres # {}
  PROVE  /\ adresseLibre \in Adresses /\ adresseLibre \notin Prises
         /\ \A b \in Adresses : Pas(b) < Pas(adresseLibre) => b \in Prises
<1> DEFINE S == {Pas(a) : a \in Libres}
<1>1. Libres \subseteq Adresses
  BY DEF Libres
<1>2. S \in SUBSET Nat /\ S # {}
  BY <1>1, PasDe
<1>3. PICK m \in S : \A y \in S : m <= y
  BY <1>2, PlusPetit
<1>4. PICK a \in Libres : m = Pas(a)
  OBVIOUS
<1>5. \A b \in Libres : Pas(a) <= Pas(b)
  BY <1>3, <1>4
<1>6. adresseLibre \in Libres /\ \A b \in Libres : Pas(adresseLibre) <= Pas(b)
  BY <1>5 DEF adresseLibre
<1>7. \A b \in Adresses : Pas(b) \in Nat
  BY PasDe
<1>8. ASSUME NEW b \in Adresses, Pas(b) < Pas(adresseLibre), b \notin Prises
      PROVE  FALSE
  <2>1. b \in Libres
    BY <1>8 DEF Libres
  <2> QED  BY <2>1, <1>1, <1>6, <1>7, <1>8
<1> QED  BY <1>1, <1>6, <1>8 DEF Libres

\* The requests are more than the lines whose key is not d's: a number up to
\* Cardinality(Demandes) is always free.
LEMMA NumeroLibre ==
  ASSUME TypeOK, SansCollision, NEW d \in Demandes, \A f \in base : f.cle # Demande[d].cle
  PROVE  \E i \in 1 .. Cardinality(Demandes) : ~Pris(<<Racine(d), i>>)
<1> DEFINE N == Cardinality(Demandes)
           Porte(i) == CHOOSE f \in base : f.nom = <<Racine(d), i>>
           Auteur(i) == CHOOSE e \in Demandes : Porte(i).cle = Demande[e].cle
           F == [i \in 1 .. N |-> Auteur(i)]
<1>1. N \in Nat
  BY DemandesAssumption, FS_CardinalityType
<1>2. IsFiniteSet(Demandes \ {d}) /\ Cardinality(Demandes \ {d}) = N - 1
  BY DemandesAssumption, FS_RemoveElement
<1>3. IsFiniteSet(1 .. N) /\ Cardinality(1 .. N) = N
  BY <1>1, FS_Interval
<1>4. SUFFICES ASSUME \A i \in 1 .. N : Pris(<<Racine(d), i>>)
               PROVE  FALSE
  OBVIOUS
<1>5. \A i \in 1 .. N : Porte(i) \in base /\ Porte(i).nom = <<Racine(d), i>>
  BY <1>4 DEF Pris
<1>6. ASSUME NEW i \in 1 .. N
      PROVE  Auteur(i) \in Demandes \ {d} /\ Porte(i).cle = Demande[Auteur(i)].cle
  <2> HIDE DEF Porte
  <2>1. Porte(i) \in Fiches /\ Porte(i).cle # Demande[d].cle
    BY <1>5 DEF TypeOK
  <2>2. \E e \in Demandes : Porte(i).cle = Demande[e].cle
    BY <2>1 DEF Fiches
  <2>3. Auteur(i) \in Demandes /\ Porte(i).cle = Demande[Auteur(i)].cle
    BY <2>2
  <2> QED  BY <2>1, <2>3
<1>7. F \in [1 .. N -> Demandes \ {d}]
  BY <1>6
<1>8. PICK i, j \in 1 .. N : i # j /\ F[i] = F[j]
  <2> HIDE DEF F
  <2> QED  BY <1>1, <1>2, <1>3, <1>7, FS_PigeonHole
<1>9. Porte(i).cle = Porte(j).cle
  <2>1. F[i] = Auteur(i) /\ F[j] = Auteur(j)
    BY <1>8
  <2> HIDE DEF F, Auteur, Porte
  <2>2. Porte(i).cle = Demande[Auteur(i)].cle /\ Porte(j).cle = Demande[Auteur(j)].cle
    BY <1>6, <1>8
  <2> QED  BY <1>8, <2>1, <2>2
<1>10. Porte(i) # Porte(j)
  <2> HIDE DEF Porte
  <2> QED  BY <1>5, <1>8
<1> QED
  <2> HIDE DEF Porte
  <2> QED  BY <1>5, <1>9, <1>10 DEF SansCollision

\* The name of a new line is free, and not reserved when it is a machine's.
LEMMA NomLibre ==
  ASSUME TypeOK, SansCollision, NEW d \in Demandes, \A f \in base : f.cle # Demande[d].cle,
         NEW nom \in NomsPossibles(d)
  PROVE  /\ nom \in Racines \X (1 .. Cardinality(Demandes))
         /\ ~Pris(nom)
         /\ Etiquette(d) # Aucun => nom[1] \notin Reserves
<1> DEFINE S == {i \in 1 .. Cardinality(Demandes) : ~Pris(<<Racine(d), i>>)}
<1>1. Racine(d) \in Racines
  BY DEF Racines
<1>2. S # {} /\ S \in SUBSET Nat
  BY NumeroLibre
<1>3. 1 \in 1 .. Cardinality(Demandes)
  <2>1. Cardinality(Demandes) \in Nat
    BY DemandesAssumption, FS_CardinalityType
  <2>2. PICK i \in 1 .. Cardinality(Demandes) : ~Pris(<<Racine(d), i>>)
    BY <1>2
  <2> QED  BY <2>1, <2>2
<1>4. CASE Etiquette(d) # Aucun
  <2>1. nom = <<Racine(d), 1>> /\ ~Pris(nom) /\ Racine(d) \notin Reserves
    BY <1>4 DEF NomsPossibles
  <2>2. nom \in Racines \X (1 .. Cardinality(Demandes)) /\ nom[1] = Racine(d)
    BY <2>1, <1>1, <1>3
  <2> QED  BY <2>1, <2>2
<1>5. CASE Etiquette(d) = Aucun
  <2>1. nom = <<Racine(d), Min(S)>>
    BY <1>5 DEF NomsPossibles
  <2>2. Min(S) \in S
    <3> HIDE DEF S
    <3> QED  BY <1>2, MinDe
  <2> QED  BY <2>1, <2>2, <1>1, <1>5
<1> QED  BY <1>4, <1>5

-----------------------------------------------------------------------------
(* Types and lines: what the other invariants are proved from. *)

Occupes == [etape : {"lier", "verifier", "enregistrer", "retenir"}, d : Demandes, recue : 0 .. MaxTemps]
Subs == {Demande[d].sub : d \in Demandes}

HistoiresOK ==
  acceptes \in [Personnes -> SUBSET Subs] /\ parcouru \in [Adresses -> SUBSET Adresses]

\* LierCompte is for the Google accounts.
LierGoogle ==
  \A t \in Traitements : traitement[t].etape \in {"lier", "verifier"} => ~Inscrit(traitement[t].d)

NumerosPasses == \A f \in base : f.num < prochain

Bien == TypeOK /\ HistoiresOK /\ LierGoogle /\ SansCollision /\ NumerosPasses

LEMMA ReposDistinct == Repos.etape = "repos" /\ \A x \in Occupes : x # Repos /\ x.etape # "repos"
BY DEF Repos, Occupes

LEMMA TraitementType ==
  ASSUME TypeOK, NEW t \in Traitements
  PROVE  /\ traitement[t] \in {Repos} \cup Occupes
         /\ traitement[t].etape # "repos" =>
              traitement[t] \in Occupes /\ traitement[t].d \in Demandes /\ traitement[t].recue \in 0 .. MaxTemps
BY ReposDistinct DEF TypeOK, Occupes

\* A step of a busy handler to its next one.
LEMMA PasseType ==
  ASSUME TypeOK, NEW t \in Traitements, traitement[t].etape # "repos",
         NEW e \in {"verifier", "enregistrer", "retenir"}, Passe(t, e)
  PROVE  /\ traitement' \in [Traitements -> {Repos} \cup Occupes]
         /\ traitement'[t].etape = e /\ traitement'[t].d = traitement[t].d
         /\ traitement'[t].recue = traitement[t].recue
         /\ \A u \in Traitements : u # t => traitement'[u] = traitement[u]
<1>1. traitement[t] \in Occupes
  BY TraitementType
<1>2. [traitement[t] EXCEPT !.etape = e] \in Occupes
  BY <1>1 DEF Occupes
<1>3. traitement' = [traitement EXCEPT ![t] = [traitement[t] EXCEPT !.etape = e]]
  BY DEF Passe
<1>4. traitement \in [Traitements -> {Repos} \cup Occupes]
  BY DEF TypeOK, Occupes
<1>5. /\ [traitement[t] EXCEPT !.etape = e].etape = e
      /\ [traitement[t] EXCEPT !.etape = e].d = traitement[t].d
      /\ [traitement[t] EXCEPT !.etape = e].recue = traitement[t].recue
  BY <1>1 DEF Occupes
<1> QED  BY <1>2, <1>3, <1>4, <1>5

LEMMA FinitType ==
  ASSUME TypeOK, NEW t \in Traitements, Finit(t)
  PROVE  /\ traitement' \in [Traitements -> {Repos} \cup Occupes]
         /\ traitement'[t] = Repos
         /\ \A u \in Traitements : u # t => traitement'[u] = traitement[u]
<1>1. traitement \in [Traitements -> {Repos} \cup Occupes]
  BY DEF TypeOK, Occupes
<1> QED  BY <1>1 DEF Finit

\* A new line collides with none, and is typed.
LEMMA InsererBien ==
  ASSUME TypeOK, HistoiresOK, SansCollision, NumerosPasses, NEW d \in Demandes,
         Proprietaire(d) \in Personnes \cup {Aucun}, Inserer(d)
  PROVE  /\ base' \subseteq Fiches /\ prochain' \in 1 .. MaxNumeros + 1
         /\ derniere' \in 0 .. NbAdresses /\ parcouru' \in [Adresses -> SUBSET Adresses]
         /\ SansCollision' /\ NumerosPasses'
<1> DEFINE Ligne(nom) ==
             [num |-> Numero, cle |-> Demande[d].cle, adresse |-> adresseLibre,
              nom |-> nom, proprietaire |-> Proprietaire(d), etiquette |-> Etiquette(d)]
<1>1. PICK nom \in NomsPossibles(d) : base' = base \cup {Ligne(nom)}
  BY DEF Inserer
<1>2. derniere \in 0 .. NbAdresses /\ Libres # {} /\ prochain \in 1 .. MaxNumeros + 1
      /\ prochain <= MaxNumeros /\ MaxNumeros \in Nat /\ NbAdresses \in Nat
      /\ \A f \in base : f.cle # Demande[d].cle
  BY NombresAssumption DEF Inserer, TypeOK, NumeroRestant
<1>3. /\ nom \in Racines \X (1 .. Cardinality(Demandes)) /\ ~Pris(nom)
      /\ Etiquette(d) # Aucun => nom[1] \notin Reserves
  BY <1>1, <1>2, NomLibre
<1>4. adresseLibre \in Adresses /\ adresseLibre \notin Prises
  BY <1>2, PremiereDuTour
<1>5. Numero \in 1 .. MaxNumeros /\ Numero = prochain
  BY <1>2 DEF Numero
<1>6. Ligne(nom) \in Fiches
  <2> HIDE DEF Numero, adresseLibre, Etiquette, Proprietaire
  <2>1. Etiquette(d) \in {Etiquette(e) : e \in Demandes} /\ Demande[d].cle \in {Demande[e].cle : e \in Demandes}
    OBVIOUS
  <2> QED  BY <1>3, <1>4, <1>5, <2>1 DEF Fiches
<1>7. base' \subseteq Fiches
  BY <1>1, <1>6 DEF TypeOK
<1>8. prochain' = prochain + 1 /\ derniere' = adresseLibre
      /\ parcouru' = [a \in Adresses |->
            IF a = adresseLibre THEN {} ELSE parcouru[a] \cup Prises \cup {adresseLibre}]
  BY DEF Inserer
<1>9. Prises \subseteq Adresses
  BY NombresAssumption DEF Prises, TypeOK, Fiches, Adresses
<1>10. parcouru' \in [Adresses -> SUBSET Adresses]
  BY <1>4, <1>8, <1>9 DEF HistoiresOK
<1>11. derniere' \in 0 .. NbAdresses /\ prochain' \in 1 .. MaxNumeros + 1
  BY <1>2, <1>4, <1>8 DEF Adresses
<1>12. ASSUME NEW f \in base
       PROVE  /\ f.adresse # adresseLibre /\ f.nom # nom /\ f.cle # Demande[d].cle
              /\ f.num # Numero /\ f.num < prochain' /\ f.num \in Nat
  <2>1. f.num \in Nat
    BY DEF TypeOK, Fiches
  <2> QED  BY <1>2, <1>3, <1>4, <1>5, <1>8, <2>1 DEF Prises, Pris, NumerosPasses
<1>13. adresseLibre # AdresseServeur
  BY <1>4 DEF Prises
<1>14. SansCollision'
  <2> DEFINE l == Ligne(nom)
  <2>1. /\ l.num = Numero /\ l.cle = Demande[d].cle /\ l.adresse = adresseLibre /\ l.nom = nom
        /\ l.etiquette = Etiquette(d)
    OBVIOUS
  <2> HIDE DEF l
  <2>2. base' = base \cup {l}
    BY <1>1 DEF l
  <2>3. \A f, g \in base' : f # g =>
          f.adresse # g.adresse /\ f.nom # g.nom /\ f.cle # g.cle /\ f.num # g.num
    BY <1>12, <2>1, <2>2 DEF SansCollision
  <2>4. \A f \in base' : f.adresse # AdresseServeur /\ (f.etiquette # Aucun => f.nom[1] \notin Reserves)
    BY <1>3, <1>13, <2>1, <2>2 DEF SansCollision
  <2> QED  BY <2>3, <2>4 DEF SansCollision
<1>15. NumerosPasses'
  BY <1>1, <1>2, <1>5, <1>8, <1>12 DEF NumerosPasses
<1> QED  BY <1>7, <1>10, <1>11, <1>14, <1>15

LEMMA DemandeType ==
  ASSUME NEW d \in Demandes
  PROVE  /\ Proprietaire(d) \in Personnes \cup {Aucun}
         /\ Inscrit(d) => Demande[d].invitation \in Invitations
         /\ ~Inscrit(d) => Demande[d].email \in Personnes /\ Demande[d].sub # Nulle
BY DemandesAssumption, InvitationsAssumption DEF Proprietaire, Inscrit

LEMMA BienInit == Init => Bien
<1> SUFFICES ASSUME Init PROVE Bien
  OBVIOUS
<1>1. TypeOK
  BY NombresAssumption DEF Init, TypeOK
<1>2. HistoiresOK
  BY DEF Init, HistoiresOK
<1>3. LierGoogle /\ SansCollision /\ NumerosPasses
  BY ReposDistinct DEF Init, LierGoogle, SansCollision, NumerosPasses
<1> QED  BY <1>1, <1>2, <1>3 DEF Bien

\* What the lines are kept by: they do not change, or one goes.
LEMMA LignesGardees ==
  ASSUME SansCollision, NumerosPasses, base' \subseteq base, prochain' = prochain
  PROVE  SansCollision' /\ NumerosPasses'
BY DEF SansCollision, NumerosPasses

\* Handlers that did not move, or moved to another step, keep LierGoogle.
LEMMA LierGarde ==
  ASSUME LierGoogle, NEW t \in Traitements,
         \A u \in Traitements : u # t => traitement'[u] = traitement[u],
         \/ traitement'[t].etape \notin {"lier", "verifier"}
         \/ traitement'[t].d = traitement[t].d /\ traitement[t].etape \in {"lier", "verifier"}
  PROVE  LierGoogle'
BY DEF LierGoogle, Inscrit

LEMMA BienEnregistrer ==
  ASSUME Bien, NEW t \in Traitements, Enregistrer(t)
  PROVE  Bien'
<1> DEFINE d == traitement[t].d
<1>1. TypeOK /\ HistoiresOK /\ LierGoogle /\ SansCollision /\ NumerosPasses
  BY DEF Bien
<1>2. traitement[t].etape = "enregistrer" /\ d \in Demandes
  BY <1>1, TraitementType DEF Enregistrer
<1>3. perimees' = perimees /\ vues' = vues /\ enCreation' = enCreation /\ equipe' = equipe
      /\ maintenant' = maintenant /\ annulees' = annulees /\ creees' = creees /\ retenues' = retenues
  BY DEF Enregistrer
<1>4. CASE Refuser(d) /\ Finit(t)
  <2>1. UNCHANGED <<tables, usages, servies, acceptes, parcouru>>
    BY <1>4 DEF Refuser
  <2>2. traitement' \in [Traitements -> {Repos} \cup Occupes] /\ traitement'[t] = Repos
        /\ \A u \in Traitements : u # t => traitement'[u] = traitement[u]
    BY <1>1, <1>4, FinitType
  <2>3. TypeOK'
    BY <1>1, <1>3, <2>1, <2>2 DEF TypeOK, tables, Occupes
  <2>4. HistoiresOK' /\ SansCollision' /\ NumerosPasses'
    BY <1>1, <2>1 DEF HistoiresOK, SansCollision, NumerosPasses, tables
  <2>5. LierGoogle'
    BY <1>1, <2>2, LierGarde, ReposDistinct
  <2> QED  BY <2>3, <2>4, <2>5 DEF Bien
<1>5. CASE /\ Recevable(d) /\ (MettreAJour(d) \/ Inserer(d))
           /\ Consommer(d) /\ UNCHANGED comptes /\ Passe(t, "retenir")
           /\ usages' = IF Inscrit(d) THEN [usages EXCEPT ![Demande[d].invitation] = @ + 1] ELSE usages
           /\ acceptes' = IF Inscrit(d) THEN acceptes
                          ELSE [acceptes EXCEPT ![Demande[d].email] = @ \cup {Demande[d].sub}]
           /\ servies' = [servies EXCEPT ![d] = @ + 1]
  <2>1. traitement' \in [Traitements -> {Repos} \cup Occupes] /\ traitement'[t].etape = "retenir"
        /\ \A u \in Traitements : u # t => traitement'[u] = traitement[u]
    BY <1>1, <1>2, <1>5, PasseType
  <2>2. cles' \subseteq cles
    BY <1>5 DEF Consommer
  <2>3. usages' \in [Invitations -> Nat] /\ servies' \in [Demandes -> Nat]
    BY <1>1, <1>2, <1>5, DemandeType DEF TypeOK
  <2>4. acceptes' \in [Personnes -> SUBSET Subs]
    <3>1. Demande[d].sub \in Subs
      BY <1>2 DEF Subs
    <3> QED  BY <1>1, <1>2, <1>5, <3>1 DEF HistoiresOK
  <2>5. /\ base' \subseteq Fiches /\ prochain' \in 1 .. MaxNumeros + 1
        /\ derniere' \in 0 .. NbAdresses /\ parcouru' \in [Adresses -> SUBSET Adresses]
        /\ SansCollision' /\ NumerosPasses'
    <3>1. CASE MettreAJour(d)
      BY <1>1, <3>1, LignesGardees DEF MettreAJour, TypeOK, HistoiresOK
    <3>2. CASE Inserer(d)
      BY <1>1, <1>2, <3>2, DemandeType, InsererBien
    <3> QED  BY <1>5, <3>1, <3>2
  <2>6. TypeOK'
    BY <1>1, <1>3, <1>5, <2>1, <2>2, <2>3, <2>5 DEF TypeOK, Occupes
  <2>7. LierGoogle'
    BY <1>1, <2>1, LierGarde
  <2> QED  BY <2>4, <2>5, <2>6, <2>7 DEF Bien, HistoiresOK
<1> QED  BY <1>4, <1>5 DEF Enregistrer

\* Every other step leaves the lines alone or erases one.
LEMMA BienPas == Bien /\ [Next]_vars => Bien'
<1> SUFFICES ASSUME Bien, [Next]_vars PROVE Bien'
  OBVIOUS
<1>1. TypeOK /\ HistoiresOK /\ LierGoogle /\ SansCollision /\ NumerosPasses
  BY DEF Bien
<1>2. traitement \in [Traitements -> {Repos} \cup Occupes]
  BY <1>1 DEF TypeOK, Occupes
<1>3. ASSUME NEW t \in Traitements, NEW d \in Demandes, Recevoir(t, d)
      PROVE  Bien'
  <2> DEFINE n == [etape |-> IF Inscrit(d) THEN "enregistrer" ELSE "lier", d |-> d, recue |-> maintenant]
  <2>1. n \in Occupes /\ n.d = d /\ (n.etape \in {"lier", "verifier"} => ~Inscrit(d))
    BY <1>1 DEF Occupes, TypeOK
  <2>2. traitement' = [traitement EXCEPT ![t] = n] /\ vues' = Gardees
        /\ UNCHANGED <<tables, perimees, enCreation, equipe, maintenant, histoires>>
    BY <1>3 DEF Recevoir
  <2> HIDE DEF n
  <2>3. vues' \in [Demandes -> {Nulle} \cup (0 .. MaxTemps)]
    BY <1>1, <2>2 DEF Gardees, TypeOK
  <2>4. traitement' \in [Traitements -> {Repos} \cup Occupes]
    BY <1>2, <2>1, <2>2
  <2>5. TypeOK'
    BY <1>1, <2>2, <2>3, <2>4 DEF TypeOK, Occupes, tables, histoires
  <2>6. LierGoogle'
    BY <1>1, <1>2, <2>1, <2>2 DEF LierGoogle, Inscrit
  <2>7. HistoiresOK' /\ SansCollision' /\ NumerosPasses'
    BY <1>1, <2>2 DEF HistoiresOK, SansCollision, NumerosPasses, tables, histoires
  <2> QED  BY <2>5, <2>6, <2>7 DEF Bien
<1>4. ASSUME NEW t \in Traitements, Lier(t)
      PROVE  Bien'
  <2>1. traitement[t].etape = "lier" /\ Passe(t, "verifier") /\ Lie(Demande[traitement[t].d])
        /\ UNCHANGED <<base, prochain, derniere, cles, perimees, vues, enCreation, equipe, maintenant, histoires>>
    BY <1>4 DEF Lier
  <2>2. /\ traitement' \in [Traitements -> {Repos} \cup Occupes]
        /\ traitement'[t].d = traitement[t].d /\ traitement[t].d \in Demandes
        /\ \A u \in Traitements : u # t => traitement'[u] = traitement[u]
    BY <1>1, <2>1, PasseType, TraitementType
  <2>3. comptes' \in [Personnes -> {Nulle} \cup Subs]
    BY <1>1, <2>1, <2>2 DEF Lie, TypeOK, Subs
  <2>4. TypeOK'
    BY <1>1, <2>1, <2>2, <2>3 DEF TypeOK, Occupes, histoires, Subs
  <2>5. LierGoogle'
    BY <1>1, <2>1, <2>2, LierGarde
  <2>6. HistoiresOK' /\ SansCollision' /\ NumerosPasses'
    BY <1>1, <2>1 DEF HistoiresOK, SansCollision, NumerosPasses, histoires
  <2> QED  BY <2>4, <2>5, <2>6 DEF Bien
<1>5. ASSUME NEW t \in Traitements, Verifier(t)
      PROVE  Bien'
  <2>1. traitement[t].etape = "verifier" /\ (Passe(t, "enregistrer") \/ Finit(t))
        /\ UNCHANGED <<tables, perimees, vues, enCreation, equipe, maintenant, histoires>>
    BY <1>5 DEF Verifier
  <2>2. /\ traitement' \in [Traitements -> {Repos} \cup Occupes]
        /\ traitement'[t].etape \notin {"lier", "verifier"}
        /\ \A u \in Traitements : u # t => traitement'[u] = traitement[u]
    BY <1>1, <2>1, PasseType, FinitType, ReposDistinct
  <2>3. TypeOK'
    BY <1>1, <2>1, <2>2 DEF TypeOK, Occupes, histoires, tables
  <2>4. LierGoogle'
    BY <1>1, <2>2, LierGarde
  <2>5. HistoiresOK' /\ SansCollision' /\ NumerosPasses'
    BY <1>1, <2>1 DEF HistoiresOK, SansCollision, NumerosPasses, histoires, tables
  <2> QED  BY <2>3, <2>4, <2>5 DEF Bien
<1>6. ASSUME NEW t \in Traitements, Retenir(t)
      PROVE  Bien'
  <2>1. /\ traitement[t].etape = "retenir" /\ Finit(t)
        /\ vues' = [vues EXCEPT ![traitement[t].d] = traitement[t].recue]
        /\ retenues' = retenues \cup {traitement[t].d}
        /\ UNCHANGED <<tables, perimees, enCreation, equipe, maintenant, usages, annulees, creees,
                       servies, acceptes, parcouru>>
    BY <1>6 DEF Retenir
  <2>2. /\ traitement' \in [Traitements -> {Repos} \cup Occupes] /\ traitement'[t] = Repos
        /\ \A u \in Traitements : u # t => traitement'[u] = traitement[u]
        /\ traitement[t].d \in Demandes /\ traitement[t].recue \in 0 .. MaxTemps
    BY <1>1, <2>1, FinitType, TraitementType
  <2>3. TypeOK'
    BY <1>1, <2>1, <2>2 DEF TypeOK, Occupes, tables
  <2>4. LierGoogle'
    BY <1>1, <2>2, LierGarde, ReposDistinct
  <2>5. HistoiresOK' /\ SansCollision' /\ NumerosPasses'
    BY <1>1, <2>1 DEF HistoiresOK, SansCollision, NumerosPasses, tables
  <2> QED  BY <2>3, <2>4, <2>5 DEF Bien
<1>7. ASSUME NEW i \in Invitations,
             Inviter(i) \/ CreerInvitation(i) \/ AnnulerInvitation(i) \/ Perimer(i)
      PROVE  Bien'
  <2>1. UNCHANGED <<base, prochain, derniere, comptes, vues, traitement, equipe, maintenant,
                    usages, servies, retenues, acceptes, parcouru>>
    BY <1>7 DEF Inviter, CreerInvitation, AnnulerInvitation, Perimer, tables, histoires
  <2>2. /\ cles' \subseteq Invitations /\ perimees' \subseteq Invitations
        /\ enCreation' \subseteq Invitations /\ annulees' \subseteq Invitations
        /\ creees' \subseteq Invitations
    BY <1>1, <1>7 DEF Inviter, CreerInvitation, AnnulerInvitation, Perimer, tables, histoires, TypeOK
  <2>3. TypeOK'
    BY <1>1, <2>1, <2>2 DEF TypeOK
  <2> QED  BY <1>1, <2>1, <2>3 DEF Bien, HistoiresOK, SansCollision, NumerosPasses, LierGoogle
<1>8. ASSUME NEW f \in base, Supprimer(f)
      PROVE  Bien'
  <2>1. base' \subseteq base
        /\ UNCHANGED <<prochain, derniere, comptes, cles, perimees, vues, traitement, enCreation, equipe,
                       maintenant, histoires>>
    BY <1>8 DEF Supprimer
  <2>2. TypeOK'
    BY <1>1, <2>1 DEF TypeOK, histoires
  <2>3. SansCollision' /\ NumerosPasses'
    BY <1>1, <2>1, LignesGardees
  <2> QED  BY <1>1, <2>1, <2>2, <2>3 DEF Bien, HistoiresOK, LierGoogle, histoires
<1>9. CASE ChangerEquipe
  BY <1>1, <1>9 DEF ChangerEquipe, Bien, TypeOK, HistoiresOK, LierGoogle, SansCollision,
                    NumerosPasses, tables, histoires
<1>10. CASE Tic
  <2>1. maintenant' \in 0 .. MaxTemps
    BY <1>1, <1>10, NombresAssumption DEF Tic, TypeOK
  <2> QED  BY <1>1, <1>10, <2>1 DEF Tic, Bien, TypeOK, HistoiresOK, LierGoogle, SansCollision,
                    NumerosPasses, tables, histoires
<1>11. CASE Redemarrer
  <2>1. TypeOK'
    BY <1>1, <1>11 DEF Redemarrer, TypeOK, tables
  <2>2. LierGoogle'
    BY <1>11, ReposDistinct DEF Redemarrer, LierGoogle
  <2> QED  BY <1>1, <1>11, <2>1, <2>2 DEF Redemarrer, Bien, HistoiresOK, SansCollision,
                    NumerosPasses, tables
<1>12. CASE UNCHANGED vars
  BY <1>1, <1>12 DEF vars, Bien, TypeOK, HistoiresOK, LierGoogle, SansCollision,
                    NumerosPasses, tables, histoires
<1> QED
  BY <1>3, <1>4, <1>5, <1>6, <1>7, <1>8, <1>9, <1>10, <1>11, <1>12, BienEnregistrer DEF Next

LEMMA ToujoursBien == Spec => []Bien
<1> QED  BY BienInit, BienPas, PTL DEF Spec

\* Every variable keeps its type (base.go:40-126, api.go:110-215).
THEOREM InscriptionType == Spec => []TypeOK
<1>1. Bien => TypeOK
  BY DEF Bien
<1> QED  BY <1>1, ToujoursBien, PTL

\* Two lines never share an address, a name, a key or a number, whatever the
\* requests and the order in which they are served (base.go:35-38, 351-432).
THEOREM InscriptionSansCollision == Spec => []SansCollision
<1>1. Bien => SansCollision
  BY DEF Bien
<1> QED  BY <1>1, ToujoursBien, PTL

-----------------------------------------------------------------------------
(* The single-use keys. *)

\* A key exists once created only, is fresh while it exists, and leaves the
\* table by being used, cancelled or cleared as expired.
ClesInv ==
  /\ cles \cup perimees \cup annulees \subseteq creees
  /\ enCreation \cap creees = {}
  /\ \A i \in cles : usages[i] = 0 /\ i \notin annulees
  /\ \A i \in Invitations : usages[i] > 0 => i \in creees
  /\ CleUneFois

LEMMA ClesPas == Bien /\ ClesInv /\ [Next]_vars => ClesInv'
<1> SUFFICES ASSUME Bien, ClesInv, [Next]_vars PROVE ClesInv'
  OBVIOUS
<1>1. TypeOK /\ cles \subseteq Invitations /\ usages \in [Invitations -> Nat]
      /\ enCreation \subseteq Invitations /\ creees \subseteq Invitations
  BY DEF Bien, TypeOK
<1>2. ASSUME NEW t \in Traitements, Enregistrer(t)
      PROVE  ClesInv'
  <2> DEFINE d == traitement[t].d
  <2>1. d \in Demandes /\ perimees' = perimees /\ enCreation' = enCreation
        /\ annulees' = annulees /\ creees' = creees
    BY <1>1, <1>2, TraitementType DEF Enregistrer
  <2>2. CASE Refuser(d)
    BY <2>1, <2>2 DEF Refuser, tables, ClesInv, CleUneFois
  <2>3. CASE ~Inscrit(d) /\ cles' = cles /\ usages' = usages
    BY <2>1, <2>3 DEF ClesInv, CleUneFois
  <2>4. ASSUME NEW i \in cles \ perimees, cles' = cles \ {i}, usages' = [usages EXCEPT ![i] = @ + 1]
        PROVE  ClesInv'
    <3>1. usages[i] = 0 /\ i \notin annulees /\ i \in creees /\ i \in Invitations
      BY <1>1 DEF ClesInv
    <3>2. usages'[i] = 1 /\ \A j \in Invitations : j # i => usages'[j] = usages[j]
      BY <1>1, <2>4, <3>1
    <3>3. cles' \cup perimees' \cup annulees' \subseteq creees' /\ enCreation' \cap creees' = {}
      BY <2>1, <2>4 DEF ClesInv
    <3>4. \A j \in cles' : usages'[j] = 0 /\ j \notin annulees'
      BY <1>1, <2>1, <2>4, <3>2 DEF ClesInv
    <3>5. \A j \in Invitations : usages'[j] > 0 => j \in creees'
      BY <2>1, <3>1, <3>2 DEF ClesInv
    <3>6. \A j \in Invitations : usages'[j] <= 1 /\ (j \in annulees' => usages'[j] = 0)
      BY <2>1, <3>1, <3>2 DEF ClesInv, CleUneFois
    <3>7. \A j \in creees' : usages'[j] = 0 /\ j \notin annulees' \cup perimees' => j \in cles'
      BY <1>1, <2>1, <2>4, <3>2 DEF ClesInv, CleUneFois
    <3> QED  BY <3>3, <3>4, <3>5, <3>6, <3>7 DEF ClesInv, CleUneFois
  <2>5. CASE Recevable(d) /\ Consommer(d)
             /\ usages' = IF Inscrit(d) THEN [usages EXCEPT ![Demande[d].invitation] = @ + 1] ELSE usages
    BY <2>3, <2>4, <2>5 DEF Recevable, Consommer
  <2> QED  BY <1>2, <2>2, <2>5 DEF Enregistrer
<1>3. ASSUME NEW i \in Invitations, CreerInvitation(i)
      PROVE  ClesInv'
  <2>1. /\ i \in enCreation /\ cles' = (cles \ perimees) \cup {i} /\ creees' = creees \cup {i}
        /\ enCreation' = enCreation \ {i}
        /\ perimees' = perimees /\ usages' = usages /\ annulees' = annulees
    BY <1>3 DEF CreerInvitation
  <2>2. i \notin creees /\ i \notin annulees /\ usages[i] = 0
    BY <1>1, <2>1 DEF ClesInv
  <2> QED  BY <1>1, <2>1, <2>2 DEF ClesInv, CleUneFois
<1>4. ASSUME NEW i \in Invitations, AnnulerInvitation(i)
      PROVE  ClesInv'
  <2>1. /\ i \in cles \ perimees /\ cles' = cles \ {i} /\ annulees' = annulees \cup {i}
        /\ UNCHANGED <<perimees, usages, creees, enCreation>>
    BY <1>4 DEF AnnulerInvitation
  <2> QED  BY <1>1, <2>1 DEF ClesInv, CleUneFois
<1>5. ASSUME NEW i \in Invitations, Perimer(i)
      PROVE  ClesInv'
  BY <1>1, <1>5 DEF Perimer, tables, histoires, ClesInv, CleUneFois
<1>6. ASSUME NEW i \in Invitations, Inviter(i)
      PROVE  ClesInv'
  BY <1>1, <1>6 DEF Inviter, tables, histoires, ClesInv, CleUneFois
<1>7. CASE Redemarrer
  BY <1>7 DEF Redemarrer, tables, ClesInv, CleUneFois
<1>8. CASE UNCHANGED <<cles, perimees, annulees, creees, usages, enCreation>>
  BY <1>8 DEF ClesInv, CleUneFois
<1>9. ASSUME NEW t \in Traitements, NEW d \in Demandes, Recevoir(t, d)
      PROVE  ClesInv'
  BY <1>8, <1>9 DEF Recevoir, tables, histoires
<1>10. ASSUME NEW t \in Traitements, Lier(t) \/ Verifier(t) \/ Retenir(t)
       PROVE  ClesInv'
  BY <1>8, <1>10 DEF Lier, Verifier, Retenir, tables, histoires
<1>11. ASSUME NEW f \in base, Supprimer(f)
       PROVE  ClesInv'
  BY <1>8, <1>11 DEF Supprimer, histoires
<1>12. CASE ChangerEquipe \/ Tic \/ UNCHANGED vars
  BY <1>8, <1>12 DEF ChangerEquipe, Tic, vars, tables, histoires
<1> QED
  BY <1>2, <1>3, <1>4, <1>5, <1>6, <1>7, <1>9, <1>10, <1>11, <1>12 DEF Next

\* A single-use key registers one device at most, none once cancelled, and no
\* refusal costs it (base.go:256-257, 276-286, 514-516).
THEOREM InscriptionCleUneFois == Spec => []CleUneFois
<1>1. Init => ClesInv
  BY DEF Init, ClesInv, CleUneFois
<1>2. ClesInv => CleUneFois
  BY DEF ClesInv
<1> QED  BY <1>1, <1>2, ClesPas, ToujoursBien, PTL DEF Spec

-----------------------------------------------------------------------------
(* One Google account for each email. *)

\* A Google handler past its INSERT: the email has an account; past its SELECT:
\* it is the one of the request.
Tient(t) ==
  /\ traitement[t].etape \in {"verifier", "enregistrer", "retenir"} /\ ~Inscrit(traitement[t].d)
       => comptes[Demande[traitement[t].d].email] # Nulle
  /\ traitement[t].etape \in {"enregistrer", "retenir"} /\ ~Inscrit(traitement[t].d)
       => comptes[Demande[traitement[t].d].email] = Demande[traitement[t].d].sub

\* The accounts accepted for an email are the one of the table comptes.
ComptesInv ==
  /\ \A p \in Personnes : \A s \in acceptes[p] : s = comptes[p] /\ s # Nulle
  /\ \A t \in Traitements : Tient(t)

\* An account once written stays; a handler that does not move, or goes to
\* rest, keeps what it holds.
LEMMA ComptesGardes ==
  ASSUME Bien, ComptesInv, acceptes' = acceptes,
         \A p \in Personnes : comptes[p] # Nulle => comptes'[p] = comptes[p],
         \A t \in Traitements :
           \/ traitement'[t] = traitement[t] \/ traitement'[t] = Repos
           \/ Tient(t)'
  PROVE  ComptesInv'
<1>1. \A p \in Personnes : \A s \in acceptes'[p] : s = comptes'[p] /\ s # Nulle
  BY DEF ComptesInv
<1>2. ASSUME NEW t \in Traitements
      PROVE  Tient(t)'
  <2>1. CASE traitement'[t] = traitement[t]
    <3>1. CASE traitement[t].etape = "repos"
      BY <2>1, <3>1 DEF Tient
    <3>2. CASE traitement[t].etape # "repos"
      <4>1. traitement[t].d \in Demandes
        BY <3>2, TraitementType DEF Bien
      <4>2. ~Inscrit(traitement[t].d) => Demande[traitement[t].d].email \in Personnes
        BY <4>1, DemandeType
      <4>3. Tient(t)
        BY DEF ComptesInv
      <4> QED  BY <2>1, <4>2, <4>3 DEF Tient, Inscrit
    <3> QED  BY <3>1, <3>2
  <2>2. CASE traitement'[t] = Repos
    BY <2>2, ReposDistinct DEF Tient
  <2> QED  BY <2>1, <2>2
<1> QED  BY <1>1, <1>2 DEF ComptesInv

LEMMA ComptesPas == Bien /\ ComptesInv /\ [Next]_vars => ComptesInv'
<1> SUFFICES ASSUME Bien, ComptesInv, [Next]_vars PROVE ComptesInv'
  OBVIOUS
<1>1. TypeOK /\ LierGoogle /\ HistoiresOK
  BY DEF Bien
<1>2. traitement \in [Traitements -> {Repos} \cup Occupes]
  BY <1>1 DEF TypeOK, Occupes
<1>3. ASSUME NEW t \in Traitements, NEW d \in Demandes, Recevoir(t, d)
      PROVE  ComptesInv'
  <2> DEFINE n == [etape |-> IF Inscrit(d) THEN "enregistrer" ELSE "lier", d |-> d, recue |-> maintenant]
  <2>1. traitement' = [traitement EXCEPT ![t] = n] /\ comptes' = comptes /\ acceptes' = acceptes
    BY <1>3 DEF Recevoir, tables, histoires
  <2>2. n.d = d /\ (n.etape = "lier" \/ Inscrit(d))
    BY DEF n
  <2> HIDE DEF n
  <2>3. traitement'[t] = n /\ \A u \in Traitements : u # t => traitement'[u] = traitement[u]
    BY <1>2, <2>1
  <2>4. Tient(t)'
    BY <2>2, <2>3 DEF Tient, Inscrit
  <2> QED  BY <2>1, <2>3, <2>4, ComptesGardes
<1>4. ASSUME NEW t \in Traitements, Lier(t)
      PROVE  ComptesInv'
  <2> DEFINE d == traitement[t].d
  <2>1. traitement[t].etape = "lier" /\ Passe(t, "verifier") /\ Lie(Demande[d]) /\ acceptes' = acceptes
    BY <1>4 DEF Lier, histoires
  <2>2. d \in Demandes /\ ~Inscrit(d)
    BY <1>1, <2>1, TraitementType DEF LierGoogle
  <2>3. Demande[d].email \in Personnes /\ Demande[d].sub # Nulle
    BY <2>2, DemandeType
  <2>4. /\ traitement'[t].etape = "verifier" /\ traitement'[t].d = d
        /\ \A u \in Traitements : u # t => traitement'[u] = traitement[u]
    BY <1>1, <2>1, PasseType
  <2>5. /\ comptes'[Demande[d].email] # Nulle
        /\ \A p \in Personnes : comptes[p] # Nulle => comptes'[p] = comptes[p]
    BY <1>1, <2>1, <2>3 DEF Lie, TypeOK
  <2>6. Tient(t)'
    BY <2>4, <2>5 DEF Tient
  <2> QED  BY <2>1, <2>4, <2>5, <2>6, ComptesGardes
<1>5. ASSUME NEW t \in Traitements, Verifier(t)
      PROVE  ComptesInv'
  <2> DEFINE d == traitement[t].d
  <2>1. traitement[t].etape = "verifier" /\ comptes' = comptes /\ acceptes' = acceptes
        /\ \/ comptes[Demande[d].email] = Demande[d].sub /\ Passe(t, "enregistrer")
           \/ Finit(t)
    BY <1>5 DEF Verifier, tables, histoires
  <2>2. CASE Finit(t)
    BY <1>1, <2>1, <2>2, FinitType, ComptesGardes
  <2>3. CASE comptes[Demande[d].email] = Demande[d].sub /\ Passe(t, "enregistrer")
    <3>1. /\ traitement'[t].etape = "enregistrer" /\ traitement'[t].d = d
          /\ \A u \in Traitements : u # t => traitement'[u] = traitement[u]
      BY <1>1, <2>1, <2>3, PasseType
    <3>2. Tient(t)
      BY DEF ComptesInv
    <3>3. Tient(t)'
      BY <2>1, <2>3, <3>1, <3>2 DEF Tient
    <3> QED  BY <2>1, <3>1, <3>3, ComptesGardes
  <2> QED  BY <2>1, <2>2, <2>3
<1>6. ASSUME NEW t \in Traitements, Enregistrer(t)
      PROVE  ComptesInv'
  <2> DEFINE d == traitement[t].d
  <2>1. traitement[t].etape = "enregistrer" /\ Tient(t) /\ d \in Demandes
    BY <1>1, <1>6, TraitementType DEF Enregistrer, ComptesInv
  <2>2. CASE Refuser(d) /\ Finit(t)
    BY <1>1, <2>2, FinitType, ComptesGardes DEF Refuser, tables
  <2>3. CASE /\ UNCHANGED comptes /\ Passe(t, "retenir")
             /\ acceptes' = IF Inscrit(d) THEN acceptes
                            ELSE [acceptes EXCEPT ![Demande[d].email] = @ \cup {Demande[d].sub}]
    <3>1. /\ traitement'[t].etape = "retenir" /\ traitement'[t].d = d
          /\ \A u \in Traitements : u # t => traitement'[u] = traitement[u]
      BY <1>1, <2>1, <2>3, PasseType
    <3>2. Tient(t)'
      BY <2>1, <2>3, <3>1 DEF Tient
    <3>3. CASE Inscrit(d)
      BY <2>3, <3>1, <3>2, <3>3, ComptesGardes
    <3>4. CASE ~Inscrit(d)
      <4>1. Demande[d].email \in Personnes /\ Demande[d].sub # Nulle
            /\ comptes[Demande[d].email] = Demande[d].sub
        BY <2>1, <3>4, DemandeType DEF Tient
      <4>2. \A p \in Personnes : \A s \in acceptes'[p] : s = comptes'[p] /\ s # Nulle
        BY <1>1, <2>3, <3>4, <4>1 DEF ComptesInv, HistoiresOK
      <4>3. \A u \in Traitements : Tient(u)'
        BY <2>3, <3>1, <3>2 DEF ComptesInv, Tient, Inscrit
      <4> QED  BY <4>2, <4>3 DEF ComptesInv
    <3> QED  BY <3>3, <3>4
  <2> QED  BY <1>6, <2>2, <2>3 DEF Enregistrer
<1>7. ASSUME NEW t \in Traitements, Retenir(t)
      PROVE  ComptesInv'
  BY <1>1, <1>7, FinitType, ComptesGardes DEF Retenir, tables
<1>8. CASE UNCHANGED <<comptes, acceptes, traitement>>
  BY <1>8, ComptesGardes
<1>9. ASSUME NEW i \in Invitations,
             Inviter(i) \/ CreerInvitation(i) \/ AnnulerInvitation(i) \/ Perimer(i)
      PROVE  ComptesInv'
  BY <1>8, <1>9 DEF Inviter, CreerInvitation, AnnulerInvitation, Perimer, tables, histoires
<1>10. ASSUME NEW f \in base, Supprimer(f)
       PROVE  ComptesInv'
  BY <1>8, <1>10 DEF Supprimer, histoires
<1>11. CASE ChangerEquipe \/ Tic \/ UNCHANGED vars
  BY <1>8, <1>11 DEF ChangerEquipe, Tic, vars, tables, histoires
<1>12. CASE Redemarrer
  <2>1. \A t \in Traitements : traitement'[t] = Repos
    BY <1>12 DEF Redemarrer
  <2> QED  BY <1>12, <2>1, ComptesGardes DEF Redemarrer, tables
<1> QED
  BY <1>3, <1>4, <1>5, <1>6, <1>7, <1>9, <1>10, <1>11, <1>12 DEF Next

\* One Google account for each email that ever registered, however handlers
\* interleave between the INSERT and the SELECT of LierCompte (base.go:549-553).
THEOREM InscriptionCompteUnique == Spec => []CompteUnique
<1>1. Init => ComptesInv
  BY ReposDistinct DEF Init, ComptesInv, Tient
<1>2. Bien /\ ComptesInv => CompteUnique
  <2> SUFFICES ASSUME ComptesInv, NEW p \in Personnes
               PROVE  Cardinality(acceptes[p]) <= 1
    BY DEF CompteUnique
  <2>1. acceptes[p] \in SUBSET {comptes[p]}
    BY DEF ComptesInv
  <2>2. IsFiniteSet({comptes[p]}) /\ Cardinality({comptes[p]}) = 1
    BY FS_Singleton
  <2> QED  BY <2>1, <2>2, FS_Subset
<1> QED  BY <1>1, <1>2, ComptesPas, ToujoursBien, PTL DEF Spec

-----------------------------------------------------------------------------
(* The tour of the addresses. *)

\* How far b is after a on the ring.
Ecart(a, b) == IF b >= a THEN b - a ELSE b - a + NbAdresses

\* Everything between an address and the last one given was given or taken
\* since that address was given.
TourInv ==
  /\ derniere = 0 => \A a \in Adresses : parcouru[a] = Adresses
  /\ \A a \in Adresses :
       \/ parcouru[a] = Adresses
       \/ \A b \in Adresses :
            Ecart(a, b) >= 1 /\ Ecart(a, b) <= Ecart(a, derniere) => b \in parcouru[a]

\* An address of the arc from the last one given to x is met before x.
LEMMA Arc ==
  ASSUME derniere \in Adresses, NEW a \in Adresses, NEW b \in Adresses, NEW x \in Adresses, b # x,
         Ecart(a, derniere) < Ecart(a, b), Ecart(a, b) <= Ecart(a, x)
  PROVE  Pas(b) < Pas(x)
<1>1. derniere \in 0 .. NbAdresses
  BY DEF Adresses
<1>2. /\ Pas(b) = IF b > derniere THEN b - derniere - 1 ELSE b - derniere - 1 + NbAdresses
      /\ Pas(x) = IF x > derniere THEN x - derniere - 1 ELSE x - derniere - 1 + NbAdresses
  BY <1>1, PasDe
<1> QED  BY <1>2, NombresAssumption DEF Ecart, Adresses

LEMMA ArcEntier ==
  ASSUME derniere \in Adresses, NEW b \in Adresses, NEW x \in Adresses, b # x,
         Ecart(x, derniere) < Ecart(x, b)
  PROVE  Pas(b) < Pas(x)
<1>1. derniere \in 0 .. NbAdresses
  BY DEF Adresses
<1>2. /\ Pas(b) = IF b > derniere THEN b - derniere - 1 ELSE b - derniere - 1 + NbAdresses
      /\ Pas(x) = IF x > derniere THEN x - derniere - 1 ELSE x - derniere - 1 + NbAdresses
  BY <1>1, PasDe
<1> QED  BY <1>2, NombresAssumption DEF Ecart, Adresses

LEMMA EcartType ==
  ASSUME NEW a \in Adresses, NEW b \in Adresses
  PROVE  Ecart(a, b) \in Nat /\ (a # b => Ecart(a, b) >= 1) /\ Ecart(a, a) = 0
BY NombresAssumption DEF Ecart, Adresses

LEMMA TourInserer ==
  ASSUME Bien, TourInv, NEW d \in Demandes, Inserer(d)
  PROVE  /\ TourInv'
         /\ parcouru[adresseLibre] \cup Prises \cup {adresseLibre} = Adresses
<1> DEFINE x == adresseLibre
<1>1. TypeOK /\ HistoiresOK /\ Libres # {}
  BY DEF Bien, Inserer
<1>2. derniere \in 0 .. NbAdresses /\ NbAdresses \in Nat
  BY <1>1, NombresAssumption DEF TypeOK
<1>3. /\ x \in Adresses
      /\ \A b \in Adresses : Pas(b) < Pas(x) => b \in Prises
  BY <1>1, <1>2, PremiereDuTour
<1>4. /\ derniere' = x
      /\ parcouru' = [a \in Adresses |-> IF a = x THEN {} ELSE parcouru[a] \cup Prises \cup {x}]
  BY DEF Inserer
<1>5. Prises \subseteq Adresses
  BY <1>1, NombresAssumption DEF Prises, TypeOK, Fiches, Adresses
<1> HIDE DEF x
<1>6. derniere' # 0
  BY <1>3, <1>4 DEF Adresses
<1>7. ASSUME NEW a \in Adresses, parcouru'[a] # Adresses,
             NEW b \in Adresses, Ecart(a, b) >= 1, Ecart(a, b) <= Ecart(a, x)
      PROVE  b \in parcouru'[a]
  <2>1. a # x
    BY <1>7, EcartType
  <2>2. parcouru'[a] = parcouru[a] \cup Prises \cup {x}
    BY <1>4, <2>1
  <2>3. parcouru[a] # Adresses
    BY <1>3, <1>5, <1>7, <2>2
  <2>4. derniere \in Adresses
    BY <1>2, <2>3 DEF TourInv, Adresses
  <2>5. CASE Ecart(a, b) <= Ecart(a, derniere)
    BY <1>7, <2>2, <2>3, <2>5 DEF TourInv
  <2>6. CASE ~(Ecart(a, b) <= Ecart(a, derniere)) /\ b # x
    <3>1. Ecart(a, derniere) < Ecart(a, b)
      BY <2>4, <2>6, EcartType
    <3>2. Pas(b) < Pas(x)
      BY <1>3, <1>7, <2>4, <2>6, <3>1, Arc
    <3> QED  BY <1>3, <2>2, <3>2
  <2> QED  BY <2>2, <2>5, <2>6
<1>8. \A a \in Adresses :
        \/ parcouru'[a] = Adresses
        \/ \A b \in Adresses : Ecart(a, b) >= 1 /\ Ecart(a, b) <= Ecart(a, derniere)' => b \in parcouru'[a]
  BY <1>4, <1>7 DEF Ecart
<1>9. TourInv'
  BY <1>6, <1>8 DEF TourInv, Ecart
<1>10. ASSUME NEW b \in Adresses, b # x
       PROVE  b \in parcouru[x] \cup Prises
  <2>1. CASE parcouru[x] = Adresses
    BY <2>1
  <2>2. CASE parcouru[x] # Adresses
    <3>1. derniere \in Adresses
      BY <1>2, <1>3, <2>2 DEF TourInv, Adresses
    <3>2. Ecart(x, b) \in Nat /\ Ecart(x, b) >= 1 /\ Ecart(x, derniere) \in Nat
      BY <1>3, <1>10, <3>1, EcartType
    <3>3. CASE Ecart(x, b) <= Ecart(x, derniere)
      BY <1>3, <2>2, <3>2, <3>3 DEF TourInv
    <3>4. CASE Ecart(x, derniere) < Ecart(x, b)
      BY <1>3, <1>10, <3>1, <3>4, ArcEntier
    <3> QED  BY <3>2, <3>3, <3>4
  <2> QED  BY <2>1, <2>2
<1>11. parcouru[x] \cup Prises \cup {x} = Adresses
  BY <1>1, <1>3, <1>5, <1>10 DEF HistoiresOK
<1> QED  BY <1>9, <1>11 DEF x

\* The lines and the tour change by an insertion or an erasure only.
LEMMA LignesPas ==
  ASSUME [Next]_vars, Bien
  PROVE  \/ \E d \in Demandes : Inserer(d)
         \/ base' \subseteq base /\ UNCHANGED <<prochain, derniere, parcouru>>
<1>1. ASSUME NEW t \in Traitements, Enregistrer(t)
      PROVE  \/ \E d \in Demandes : Inserer(d)
             \/ base' \subseteq base /\ UNCHANGED <<prochain, derniere, parcouru>>
  <2>1. traitement[t].d \in Demandes
    BY <1>1, TraitementType DEF Enregistrer, Bien
  <2>2. \/ MettreAJour(traitement[t].d) \/ Inserer(traitement[t].d)
        \/ Refuser(traitement[t].d)
    BY <1>1 DEF Enregistrer
  <2> QED  BY <2>1, <2>2 DEF MettreAJour, Refuser, tables
<1>2. ASSUME NEW t \in Traitements,
             (\E d \in Demandes : Recevoir(t, d)) \/ Lier(t) \/ Verifier(t) \/ Retenir(t)
      PROVE  UNCHANGED <<base, prochain, derniere, parcouru>>
  BY <1>2 DEF Recevoir, Lier, Verifier, Retenir, tables, histoires
<1>3. ASSUME NEW i \in Invitations,
             Inviter(i) \/ CreerInvitation(i) \/ AnnulerInvitation(i) \/ Perimer(i)
      PROVE  UNCHANGED <<base, prochain, derniere, parcouru>>
  BY <1>3 DEF Inviter, CreerInvitation, AnnulerInvitation, Perimer, tables, histoires
<1>4. ASSUME NEW f \in base, Supprimer(f)
      PROVE  base' \subseteq base /\ UNCHANGED <<prochain, derniere, parcouru>>
  BY <1>4 DEF Supprimer, histoires
<1>5. CASE ChangerEquipe \/ Tic \/ Redemarrer \/ UNCHANGED vars
  BY <1>5 DEF ChangerEquipe, Tic, Redemarrer, vars, tables, histoires
<1> QED  BY <1>1, <1>2, <1>3, <1>4, <1>5 DEF Next

LEMMA TourPas == Bien /\ TourInv /\ [Next]_vars => TourInv'
<1> SUFFICES ASSUME Bien, TourInv, [Next]_vars PROVE TourInv'
  OBVIOUS
<1>1. CASE UNCHANGED <<derniere, parcouru>>
  BY <1>1 DEF TourInv, Ecart
<1> QED  BY <1>1, LignesPas, TourInserer

\* What enters the table is one line, at adresseLibre.
LEMMA NouvelleLigne ==
  ASSUME [Next]_vars, Bien, NEW g \in base' \ base
  PROVE  \E d \in Demandes : /\ Inserer(d) /\ g.adresse = adresseLibre /\ g.num = prochain
                             /\ g.cle = Demande[d].cle
<1>1. PICK d \in Demandes : Inserer(d)
  BY LignesPas
<1>2. PICK nom \in NomsPossibles(d) :
        g = [num |-> Numero, cle |-> Demande[d].cle, adresse |-> adresseLibre,
             nom |-> nom, proprietaire |-> Proprietaire(d), etiquette |-> Etiquette(d)]
  BY <1>1 DEF Inserer
<1>3. g.adresse = adresseLibre /\ g.num = Numero /\ g.cle = Demande[d].cle
  BY <1>2
<1> QED  BY <1>1, <1>3 DEF Numero

\* An address is given again only once every other one was given or taken
\* since, for any number of addresses (base.go:385-432).
THEOREM InscriptionTourComplet == Spec => TourComplet
<1>1. Init => TourInv
  BY DEF Init, TourInv
<1>2. Bien /\ TourInv /\ [Next]_vars
      => [\A f \in base' \ base : parcouru[f.adresse] \cup Prises \cup {f.adresse} = Adresses]_vars
  <2> SUFFICES ASSUME Bien, TourInv, [Next]_vars, NEW f \in base' \ base
               PROVE  parcouru[f.adresse] \cup Prises \cup {f.adresse} = Adresses
    OBVIOUS
  <2>1. PICK d \in Demandes : Inserer(d) /\ f.adresse = adresseLibre
    BY NouvelleLigne
  <2> QED  BY <2>1, TourInserer
<1> QED  BY <1>1, <1>2, TourPas, ToujoursBien, PTL DEF Spec, TourComplet

\* What enters the table is a new key under a number no line ever had
\* (base.go:65-67, 303-309).
THEOREM InscriptionLigneStable == Spec => LigneStable
<1>1. Bien /\ [Next]_vars
      => [\A g \in base' \ base : g.num >= prochain /\ \A f \in base : f.cle # g.cle]_vars
  <2> SUFFICES ASSUME Bien, [Next]_vars, NEW g \in base' \ base
               PROVE  g.num >= prochain /\ \A f \in base : f.cle # g.cle
    OBVIOUS
  <2>1. PICK d \in Demandes : Inserer(d) /\ g.num = prochain /\ g.cle = Demande[d].cle
    BY NouvelleLigne
  <2>2. prochain \in Nat
    BY DEF Bien, TypeOK
  <2> QED  BY <2>1, <2>2 DEF Inserer
<1> QED  BY <1>1, ToujoursBien, PTL DEF Spec, LigneStable

-----------------------------------------------------------------------------
(* The replay cache. *)

\* The cache holds every proof retained that is still in its window, and a
\* handler took its own no earlier than a window before its date.
RejeuInv ==
  /\ \A d \in retenues :
       \/ vues[d] # Nulle /\ Demande[d].horodatage <= vues[d] + FenetrePreuve
       \/ maintenant > Demande[d].horodatage + FenetrePreuve
  /\ \A t \in Traitements : traitement[t].etape # "repos" =>
       Demande[traitement[t].d].horodatage <= traitement[t].recue + FenetrePreuve

\* DejaVue forgets no proof that is still accepted.
LEMMA GardeesAssez ==
  ASSUME Bien, RejeuInv, NEW d \in retenues
  PROVE  \/ Gardees[d] # Nulle /\ Gardees[d] = vues[d] /\ Demande[d].horodatage <= vues[d] + FenetrePreuve
         \/ maintenant > Demande[d].horodatage + FenetrePreuve
<1>1. /\ d \in Demandes /\ maintenant \in Nat /\ FenetrePreuve \in Nat /\ Demande[d].horodatage \in Nat
      /\ vues[d] \in {Nulle} \cup Nat
  BY NombresAssumption, DemandesAssumption DEF Bien, TypeOK
<1>2. Gardees[d] = IF vues[d] # Nulle /\ maintenant - vues[d] > 2 * FenetrePreuve THEN Nulle ELSE vues[d]
  BY <1>1 DEF Gardees
<1>3. CASE maintenant > Demande[d].horodatage + FenetrePreuve
  BY <1>3
<1>4. CASE vues[d] # Nulle /\ Demande[d].horodatage <= vues[d] + FenetrePreuve
  BY <1>1, <1>2, <1>4
<1> QED  BY <1>3, <1>4 DEF RejeuInv

LEMMA RejeuRecevoir ==
  ASSUME Bien, RejeuInv, NEW t \in Traitements, NEW d \in Demandes, Recevoir(t, d)
  PROVE  /\ RejeuInv'
         /\ d \notin retenues
         /\ traitement'[t].d = d /\ \A u \in Traitements : u # t => traitement'[u] = traitement[u]
<1> DEFINE n == [etape |-> IF Inscrit(d) THEN "enregistrer" ELSE "lier", d |-> d, recue |-> maintenant]
<1>1. /\ traitement' = [traitement EXCEPT ![t] = n] /\ vues' = Gardees /\ vues'[d] = Nulle
      /\ Actuelle(d) /\ retenues' = retenues /\ maintenant' = maintenant
  BY DEF Recevoir, histoires
<1>2. n.d = d /\ n.recue = maintenant
  BY DEF n
<1> HIDE DEF n
<1>3. traitement \in [Traitements -> {Repos} \cup Occupes]
  BY DEF Bien, TypeOK, Occupes
<1>4. traitement'[t] = n /\ \A u \in Traitements : u # t => traitement'[u] = traitement[u]
  BY <1>1, <1>3
<1>5. /\ maintenant \in Nat /\ FenetrePreuve \in Nat /\ Demande[d].horodatage \in Nat
      /\ Demande[d].horodatage <= maintenant + FenetrePreuve
      /\ maintenant <= Demande[d].horodatage + FenetrePreuve
  <2>1. maintenant \in Nat /\ FenetrePreuve \in Nat /\ Demande[d].horodatage \in Nat
    BY NombresAssumption, DemandesAssumption DEF Bien, TypeOK
  <2> QED  BY <1>1, <2>1 DEF Actuelle
<1>6. d \notin retenues
  BY <1>1, <1>5, GardeesAssez
<1>7. \A e \in retenues' :
        \/ vues'[e] # Nulle /\ Demande[e].horodatage <= vues'[e] + FenetrePreuve
        \/ maintenant' > Demande[e].horodatage + FenetrePreuve
  BY <1>1, GardeesAssez
<1>8. \A u \in Traitements : traitement'[u].etape # "repos" =>
        Demande[traitement'[u].d].horodatage <= traitement'[u].recue + FenetrePreuve
  BY <1>2, <1>4, <1>5 DEF RejeuInv
<1> QED  BY <1>2, <1>4, <1>6, <1>7, <1>8 DEF RejeuInv

LEMMA RejeuRetenir ==
  ASSUME Bien, RejeuInv, NEW t \in Traitements, Retenir(t)
  PROVE  RejeuInv'
<1> DEFINE d == traitement[t].d
<1>1. /\ traitement[t].etape = "retenir" /\ Finit(t) /\ maintenant' = maintenant
      /\ vues' = [vues EXCEPT ![d] = traitement[t].recue] /\ retenues' = retenues \cup {d}
  BY DEF Retenir
<1>2. d \in Demandes /\ traitement[t].recue \in Nat /\ vues \in [Demandes -> {Nulle} \cup (0 .. MaxTemps)]
  BY <1>1, TraitementType DEF Bien, TypeOK
<1>3. traitement'[t] = Repos /\ \A u \in Traitements : u # t => traitement'[u] = traitement[u]
  BY <1>1, FinitType DEF Bien
<1>4. vues'[d] # Nulle /\ Demande[d].horodatage <= vues'[d] + FenetrePreuve
  BY <1>1, <1>2, AbsentsAssumption DEF RejeuInv
<1>5. retenues \subseteq Demandes
  BY DEF Bien, TypeOK
<1>6. \A e \in retenues' :
        \/ vues'[e] # Nulle /\ Demande[e].horodatage <= vues'[e] + FenetrePreuve
        \/ maintenant' > Demande[e].horodatage + FenetrePreuve
  BY <1>1, <1>2, <1>4, <1>5 DEF RejeuInv
<1>7. \A u \in Traitements : traitement'[u].etape # "repos" =>
        Demande[traitement'[u].d].horodatage <= traitement'[u].recue + FenetrePreuve
  BY <1>3, ReposDistinct DEF RejeuInv
<1> QED  BY <1>6, <1>7 DEF RejeuInv

\* The handlers between the two, a busy one that moves keeping its request.
LEMMA RejeuSuite ==
  ASSUME RejeuInv, vues' = vues, retenues' = retenues, maintenant' = maintenant,
         \A t \in Traitements :
           \/ traitement'[t] = traitement[t] \/ traitement'[t] = Repos
           \/ /\ traitement[t].etape # "repos"
              /\ traitement'[t].d = traitement[t].d /\ traitement'[t].recue = traitement[t].recue
  PROVE  RejeuInv'
<1>1. ASSUME NEW t \in Traitements, traitement'[t].etape # "repos"
      PROVE  Demande[traitement'[t].d].horodatage <= traitement'[t].recue + FenetrePreuve
  BY <1>1, ReposDistinct DEF RejeuInv
<1> QED  BY <1>1 DEF RejeuInv

\* Lier, Verifier and Enregistrer move one handler on, or to rest.
LEMMA Avance ==
  ASSUME Bien, NEW t \in Traitements, Lier(t) \/ Verifier(t) \/ Enregistrer(t)
  PROVE  /\ vues' = vues /\ retenues' = retenues /\ maintenant' = maintenant
         /\ traitement[t].etape # "repos"
         /\ \/ traitement'[t] = Repos
            \/ traitement'[t].d = traitement[t].d /\ traitement'[t].recue = traitement[t].recue
         /\ \A u \in Traitements : u # t => traitement'[u] = traitement[u]
<1>1. /\ vues' = vues /\ retenues' = retenues /\ maintenant' = maintenant
      /\ traitement[t].etape # "repos"
  BY DEF Lier, Verifier, Enregistrer, histoires
<1>2. Passe(t, "verifier") \/ Passe(t, "enregistrer") \/ Passe(t, "retenir") \/ Finit(t)
  BY DEF Lier, Verifier, Enregistrer
<1>3. TypeOK
  BY DEF Bien
<1>4. CASE Finit(t)
  BY <1>1, <1>3, <1>4, FinitType
<1>5. CASE Passe(t, "verifier") \/ Passe(t, "enregistrer") \/ Passe(t, "retenir")
  BY <1>1, <1>3, <1>5, PasseType
<1> QED  BY <1>2, <1>4, <1>5

LEMMA RejeuPas == Bien /\ RejeuInv /\ [Next]_vars => RejeuInv'
<1> SUFFICES ASSUME Bien, RejeuInv, [Next]_vars PROVE RejeuInv'
  OBVIOUS
<1>1. ASSUME NEW t \in Traitements, Lier(t) \/ Verifier(t) \/ Enregistrer(t)
      PROVE  RejeuInv'
  BY <1>1, Avance, RejeuSuite
<1>2. CASE UNCHANGED <<vues, retenues, maintenant, traitement>>
  BY <1>2, RejeuSuite
<1>3. ASSUME NEW i \in Invitations,
             Inviter(i) \/ CreerInvitation(i) \/ AnnulerInvitation(i) \/ Perimer(i)
      PROVE  RejeuInv'
  BY <1>2, <1>3 DEF Inviter, CreerInvitation, AnnulerInvitation, Perimer, histoires
<1>4. ASSUME NEW f \in base, Supprimer(f)
      PROVE  RejeuInv'
  BY <1>2, <1>4 DEF Supprimer, histoires
<1>5. CASE ChangerEquipe \/ UNCHANGED vars
  BY <1>2, <1>5 DEF ChangerEquipe, vars, histoires
<1>6. CASE Tic
  <2>1. /\ maintenant \in Nat /\ maintenant' = maintenant + 1 /\ vues' = vues /\ retenues' = retenues
        /\ traitement' = traitement
    BY <1>6 DEF Tic, histoires, Bien, TypeOK
  <2>2. \A d \in retenues : Demande[d].horodatage + FenetrePreuve \in Nat
    BY NombresAssumption, DemandesAssumption DEF Bien, TypeOK
  <2>3. \A d \in retenues' :
          \/ vues'[d] # Nulle /\ Demande[d].horodatage <= vues'[d] + FenetrePreuve
          \/ maintenant' > Demande[d].horodatage + FenetrePreuve
    BY <2>1, <2>2 DEF RejeuInv
  <2> QED  BY <2>1, <2>3 DEF RejeuInv
<1>7. CASE Redemarrer
  BY <1>7, ReposDistinct DEF Redemarrer, RejeuInv
<1> QED
  BY <1>1, <1>3, <1>4, <1>5, <1>6, <1>7, RejeuRecevoir, RejeuRetenir DEF Next

\* Once a handler has retained a proof, no later one of the same run of sasd
\* takes it again, at the edges of the two windows too (preuve.go:33-36, 96-126).
\* The cache is in memory: a restart empties it, and the history with it.
THEOREM InscriptionJamaisRepris == Spec => JamaisRepris
<1>1. Init => RejeuInv
  BY ReposDistinct DEF Init, RejeuInv
<1>2. Bien /\ RejeuInv /\ [Next]_vars
      => [\A t \in Traitements : traitement[t] = Repos /\ traitement'[t] # Repos
            => traitement'[t].d \notin retenues]_vars
  <2> SUFFICES ASSUME Bien, RejeuInv, Next, NEW t \in Traitements,
                      traitement[t] = Repos, traitement'[t] # Repos
               PROVE  traitement'[t].d \notin retenues
    BY DEF vars
  <2>1. ASSUME NEW u \in Traitements, NEW d \in Demandes, Recevoir(u, d)
        PROVE  traitement'[t].d \notin retenues
    BY <2>1, RejeuRecevoir
  <2>2. ASSUME NEW u \in Traitements, Lier(u) \/ Verifier(u) \/ Enregistrer(u)
        PROVE  FALSE
    BY <2>2, Avance, ReposDistinct
  <2>3. ASSUME NEW u \in Traitements, Retenir(u)
        PROVE  FALSE
    BY <2>3, FinitType DEF Retenir, Bien
  <2>4. CASE Redemarrer
    BY <2>4 DEF Redemarrer
  <2>5. ASSUME NEW i \in Invitations,
               Inviter(i) \/ CreerInvitation(i) \/ AnnulerInvitation(i) \/ Perimer(i)
        PROVE  FALSE
    BY <2>5 DEF Inviter, CreerInvitation, AnnulerInvitation, Perimer
  <2>6. ASSUME NEW f \in base, Supprimer(f)
        PROVE  FALSE
    BY <2>6 DEF Supprimer
  <2>7. CASE ChangerEquipe \/ Tic
    BY <2>7 DEF ChangerEquipe, Tic
  <2> QED  BY <2>1, <2>2, <2>3, <2>4, <2>5, <2>6, <2>7 DEF Next
<1> QED  BY <1>1, <1>2, RejeuPas, ToujoursBien, PTL DEF Spec, JamaisRepris
=============================================================================
