--------------------------- MODULE AppareilProofs ---------------------------
(***************************************************************************)
(* What Appareil guarantees for any number of loops, registrations,        *)
(* versions and networks, on both platforms: as long as nobody writes      *)
(* etat.json over a state he had not read, the file is never behind what   *)
(* an engine was given of the same lock.                                   *)
(***************************************************************************)
EXTENDS Appareil, TLAPS

EtatOuRien == Etats \cup {Absent}

LEMMA EtatType ==
  ASSUME NEW e \in Etats
  PROVE  /\ e.ins \in Inscriptions /\ e.cle \in Inscriptions /\ e.depuis \in Inscriptions
         /\ e.reseau \in Reseaux /\ e.version \in Versions /\ e.version \in Nat
         /\ e # Absent
BY AbsentAssumption, BornesAssumption DEF Etats, Versions

\* A state with another version: what appliquer writes.
LEMMA EtatVersion ==
  ASSUME NEW e \in Etats, NEW v \in Versions
  PROVE  /\ [e EXCEPT !.version = v] \in Etats
         /\ [e EXCEPT !.version = v].version = v
         /\ [e EXCEPT !.version = v].depuis = e.depuis
BY DEF Etats

-----------------------------------------------------------------------------
(* Types: what a loop holds goes with the place it is at. *)

\* A loop that calls has a state, and one that applies an answer has one too.
Sure(l) ==
  /\ l.dernier # Absent => l.courant # Absent
  /\ l.pc \in {"appel", "reponse", "ecrit"} => l.courant # Absent
  /\ l.pc = "reponse" => l.reponse # Absent

Sures == {l \in Boucles : Sure(l)}

\* Quitter disconnects a state, Rejoindre writes one.
TacheSure ==
  /\ tache.etape = "deconnecter" => tache.copie # Absent
  /\ tache.etape = "ecrire" => tache.neuf # Absent

Sain == TypeOK /\ boucle \in [Tours -> Sures] /\ TacheSure

LEMMA NeuveSure == Neuve \in Sures /\ Finie \in Sures
<1>1. Neuve \in Boucles
  BY DEF Neuve, Boucles
<1>2. Finie \in Boucles
  BY <1>1 DEF Finie, Neuve, Boucles
<1> QED  BY <1>1, <1>2 DEF Sures, Sure, Finie, Neuve

\* What Relue keeps of the loop and takes of the file.
LEMMA RelueType ==
  ASSUME NEW l \in Sures, fichier \in EtatOuRien
  PROVE  /\ Relue(l) \in Boucles
         /\ Relue(l).courant \in {l.courant, fichier}
         /\ Relue(l).dernier # Absent => Relue(l).courant # Absent
         /\ fichier # Absent => Relue(l).courant # Absent
         /\ Relue(l).reponse = l.reponse /\ Relue(l).annulee = l.annulee
<1>1. l \in Boucles /\ Sure(l)
  BY DEF Sures
<1>2. CASE Changee(l)
  <2>1. fichier \in Etats /\ fichier # Absent
    BY <1>2, AbsentAssumption DEF Changee, EtatOuRien
  <2> DEFINE n == [l EXCEPT !.courant = fichier, !.dernier = fichier,
                   !.pairs = IF l.courant # Absent /\ l.courant.cle # fichier.cle
                             THEN Absent ELSE @]
  <2>2. Relue(l) = n
    BY <1>2 DEF Relue
  <2>3. n \in Boucles /\ n.courant = fichier /\ n.dernier = fichier
        /\ n.reponse = l.reponse /\ n.annulee = l.annulee
    BY <1>1, <2>1 DEF Boucles
  <2> QED  BY <2>1, <2>2, <2>3
<1>3. CASE ~Changee(l)
  <2> DEFINE n == [l EXCEPT !.dernier = fichier, !.pairs = IF fichier = Absent THEN Absent ELSE @]
  <2>1. Relue(l) = n
    BY <1>3 DEF Relue
  <2>2. n \in Boucles /\ n.courant = l.courant /\ n.dernier = fichier
        /\ n.reponse = l.reponse /\ n.annulee = l.annulee
    BY <1>1 DEF Boucles, EtatOuRien
  <2>3. fichier # Absent => l.courant # Absent
    BY <1>1, <1>3 DEF Changee, Sure
  <2> QED  BY <2>1, <2>2, <2>3
<1> QED  BY <1>2, <1>3

\* What appliquer retains.
LEMMA AdopterType ==
  ASSUME NEW l \in Sures, l.pc = "reponse"
  PROVE  /\ l.courant \in Etats
         /\ Adopter(l) \in Versions /\ Adopter(l) \in Nat
         /\ l.courant.version <= Adopter(l)
<1>1. l \in Boucles /\ l.courant \in Etats /\ l.reponse \in Versions
  BY DEF Sures, Sure, Boucles
<1>2. l.courant.version \in Versions /\ l.reponse \in Nat /\ l.courant.version \in Nat
  BY <1>1, EtatType, BornesAssumption DEF Versions
<1> QED  BY <1>1, <1>2 DEF Adopter

\* The loop that goes from "reponse" to "ecrit".
LEMMA EcriteType ==
  ASSUME NEW l \in Sures, l.pc = "reponse", NEW n \in Etats
  PROVE  LET m == [l EXCEPT !.pc = "ecrit", !.reponse = Absent, !.courant = n]
         IN m \in Sures /\ m.courant = n
<1> DEFINE m == [l EXCEPT !.pc = "ecrit", !.reponse = Absent, !.courant = n]
<1>1. l \in Boucles /\ n # Absent
  BY AbsentAssumption DEF Sures
<1>2. m \in Boucles /\ m.pc = "ecrit" /\ m.courant = n
  BY <1>1 DEF Boucles
<1> QED  BY <1>1, <1>2 DEF Sures, Sure

\* The loop that gave its pairs to the engine.
LEMMA ServieType ==
  ASSUME NEW l \in Sures, l.courant \in Etats
  PROVE  /\ Servie(l) \in Sures /\ Servie(l).courant = l.courant
         /\ Servie(l).pairs.depuis = l.courant.depuis
         /\ Servie(l).pairs.version = l.courant.version
<1> DEFINE p == [depuis |-> l.courant.depuis, version |-> l.courant.version]
<1>1. l \in Boucles /\ Sure(l)
  BY DEF Sures
<1>2. p \in Pairs
  BY EtatType DEF Pairs
<1>3. p.depuis = l.courant.depuis /\ p.version = l.courant.version
  OBVIOUS
<1>4. Servie(l) = [l EXCEPT !.pc = "attente", !.reponse = Absent, !.pairs = p]
  BY DEF Servie
<1> HIDE DEF p
<1>5. /\ Servie(l) \in Boucles /\ Servie(l).pairs = p /\ Servie(l).courant = l.courant
      /\ Servie(l).dernier = l.dernier /\ Servie(l).pc = "attente"
  BY <1>1, <1>2, <1>4 DEF Boucles
<1> QED  BY <1>1, <1>3, <1>5, EtatType DEF Sures, Sure

\* A step of one loop, the rest of the types being as before.
LEMMA UneBoucle ==
  ASSUME Sain, NEW b \in Tours, NEW l \in Sures, boucle' = [boucle EXCEPT ![b] = l]
  PROVE  boucle' \in [Tours -> Boucles] /\ boucle' \in [Tours -> Sures]
<1>1. Sures \subseteq Boucles
  BY DEF Sures
<1> QED  BY <1>1 DEF Sain

LEMMA BouclesSures == ASSUME Sain, NEW b \in Tours
                      PROVE  boucle[b] \in Sures /\ boucle[b] \in Boucles /\ Sure(boucle[b])
BY DEF Sain, Sures

\* Cancelling a loop changes nothing of what it holds.
LEMMA CouperType ==
  ASSUME Sain
  PROVE  /\ Couper \in [Tours -> Boucles] /\ Couper \in [Tours -> Sures]
         /\ \A b \in Tours : Couper[b].courant = boucle[b].courant
<1>1. CASE arret = Absent
  BY <1>1 DEF Couper, Sain, TypeOK
<1>2. CASE arret # Absent
  <2>1. arret \in Tours
    BY <1>2 DEF Sain, TypeOK
  <2> DEFINE v == IF EnAppel(arret) THEN 1 ELSE 0
             l == boucle[arret]
             n == [l EXCEPT !.annulee = TRUE, !.appels = v]
  <2>2. l \in Boucles /\ Sure(l)
    BY <2>1, BouclesSures
  <2>3. v \in 0 .. 2
    OBVIOUS
  <2>4. Couper = [boucle EXCEPT ![arret] = n]
    BY <1>2, <2>1 DEF Couper, Sain, TypeOK
  <2> HIDE DEF v, l
  <2>5. /\ n \in Boucles /\ n.courant = l.courant /\ n.dernier = l.dernier
        /\ n.pc = l.pc /\ n.reponse = l.reponse
    BY <2>2, <2>3 DEF Boucles
  <2> HIDE DEF n
  <2>6. n \in Sures
    BY <2>2, <2>5 DEF Sures, Sure
  <2>7. Couper \in [Tours -> Sures]
    BY <2>1, <2>4, <2>6 DEF Sain
  <2>8. Sures \subseteq Boucles
    BY DEF Sures
  <2>9. ASSUME NEW b \in Tours PROVE Couper[b].courant = boucle[b].courant
    BY <2>1, <2>4, <2>5 DEF Sain, TypeOK, l
  <2> QED  BY <2>7, <2>8, <2>9
<1> QED  BY <1>1, <1>2

\* The state Rejoindre prepares: a new lock to follow, or the one it had.
LEMMA SuiteType ==
  ASSUME Sain, NEW r \in Reseaux, NEW n \in Inscriptions
  PROVE  /\ Suite(n, r) \in Etats
         /\ \/ Suite(n, r).depuis = n /\ Suite(n, r).version = 0
            \/ /\ tache.copie # Absent
               /\ Suite(n, r).depuis = tache.copie.depuis
               /\ Suite(n, r).version = tache.copie.version
<1> DEFINE a == tache.copie
           c == IF a = Absent THEN n ELSE a.cle
           d == IF a # Absent /\ a.reseau = r THEN a.depuis ELSE n
           v == IF a # Absent /\ a.reseau = r THEN a.version ELSE 0
           e == [ins |-> n, reseau |-> r, cle |-> c, depuis |-> d, version |-> v]
<1>1. a \in Etats \cup {Absent}
  BY DEF Sain, TypeOK, Taches
<1>2. 0 \in Versions
  BY BornesAssumption DEF Versions
<1>3. c \in Inscriptions /\ d \in Inscriptions /\ v \in Versions
  BY <1>1, <1>2, EtatType
<1>4. \/ d = n /\ v = 0
      \/ a # Absent /\ d = a.depuis /\ v = a.version
  OBVIOUS
<1>5. Suite(n, r) = e
  BY DEF Suite
<1> HIDE DEF c, d, v
<1>6. e \in Etats
  BY <1>3 DEF Etats
<1>7. e.depuis = d /\ e.version = v
  OBVIOUS
<1> QED  BY <1>4, <1>5, <1>6, <1>7

-----------------------------------------------------------------------------
(* Type correctness, action by action. *)

LEMMA SainInit == Init => Sain
<1> SUFFICES ASSUME Init PROVE Sain
  OBVIOUS
<1>1. Neuve \in Sures /\ Neuve \in Boucles
  BY NeuveSure DEF Sures
<1>2. Repos \in Taches /\ Repos.etape = "repos"
  BY DEF Repos, Taches
<1>3. 0 \in Versions /\ 0 \in 0 .. MaxInscriptions
  BY BornesAssumption DEF Versions
<1> QED  BY <1>1, <1>2, <1>3 DEF Init, Sain, TypeOK, TacheSure

LEMMA ReposSur == /\ Repos \in Taches /\ Repos.copie = Absent /\ Repos.neuf = Absent
                  /\ Repos.etape = "repos"
BY DEF Repos, Taches

\* The steps of a loop that leave the file and the history alone.
LEMMA SainLoin ==
  ASSUME Sain, NEW b \in Tours,
         TicAppel(b) \/ TicSansAppel(b) \/ Servir(b) \/ AppelPerdu(b) \/ Finir(b) \/ Panne(b)
  PROVE  /\ Sain' /\ UNCHANGED <<fichier, tache, inscrits, histoire>>
         /\ \A c \in Tours : boucle'[c].courant \in {boucle[c].courant, fichier, Absent}
<1> DEFINE l == boucle[b]
<1>0. l \in Sures /\ l \in Boucles /\ Sure(l) /\ fichier \in EtatOuRien
  BY BouclesSures DEF Sain, TypeOK, EtatOuRien
<1> SUFFICES ASSUME NEW n \in Sures, n.courant \in {l.courant, fichier, Absent},
                    boucle' = [boucle EXCEPT ![b] = n],
                    UNCHANGED <<plateforme, fichier, pont, tache, serveur, histoire>>
             PROVE  /\ Sain' /\ UNCHANGED <<fichier, tache, inscrits, histoire>>
                    /\ \A c \in Tours : boucle'[c].courant \in {boucle[c].courant, fichier, Absent}
  <2> DEFINE But == \E n \in Sures : /\ n.courant \in {l.courant, fichier, Absent}
                                     /\ boucle' = [boucle EXCEPT ![b] = n]
  <2>0. UNCHANGED <<plateforme, fichier, pont, tache, serveur, histoire>>
    BY DEF TicAppel, TicSansAppel, Tic, Servir, AppelPerdu, Finir, Panne
  <2>1. CASE TicAppel(b)
    <3> DEFINE r == Relue(l)
               k == IF l.annulee THEN r.appels + 1 ELSE r.appels
               n == [r EXCEPT !.pc = "appel", !.appels = k]
    <3>1. r \in Boucles /\ r.courant \in {l.courant, fichier} /\ r.courant # Absent
      BY <1>0, <2>1, RelueType DEF TicAppel
    <3>2. r.appels = l.appels /\ l.appels \in 0 .. 2 /\ l.appels < 2
      BY <1>0, <2>1 DEF Relue, TicAppel, Tic, Boucles
    <3>3. k \in 0 .. 2
      BY <3>2
    <3>4. boucle' = [boucle EXCEPT ![b] = n]
      BY <2>1 DEF TicAppel, Sain, TypeOK
    <3> HIDE DEF r, k
    <3>5. n \in Boucles /\ n.courant = r.courant /\ n.pc = "appel" /\ n.dernier = r.dernier
      BY <3>1, <3>3 DEF Boucles
    <3>6. n \in Sures
      BY <3>1, <3>5 DEF Sures, Sure
    <3> QED  BY <2>0, <3>1, <3>4, <3>5, <3>6
  <2>2. CASE TicSansAppel(b)
    <3> DEFINE r == Relue(l)
               n == [r EXCEPT !.pc = "attente"]
    <3>1. /\ r \in Boucles /\ r.courant \in {l.courant, fichier}
          /\ r.dernier # Absent => r.courant # Absent
      BY <1>0, RelueType
    <3>2. boucle' = [boucle EXCEPT ![b] = n]
      BY <2>2 DEF TicSansAppel, Sain, TypeOK
    <3> HIDE DEF r
    <3>3. n \in Boucles /\ n.courant = r.courant /\ n.pc = "attente" /\ n.dernier = r.dernier
      BY <3>1 DEF Boucles
    <3>4. n \in Sures
      BY <3>1, <3>3 DEF Sures, Sure
    <3> QED  BY <2>0, <3>1, <3>2, <3>3, <3>4
  <2>3. CASE Servir(b)
    <3>1. l.pc = "appel" /\ l.courant \in Etats
      BY <1>0, <2>3, AbsentAssumption DEF Servir, Sure, Boucles
    <3> DEFINE v == sert[l.courant.reseau]
               n1 == [l EXCEPT !.pc = "reponse", !.reponse = v]
               n2 == [l EXCEPT !.pc = "attente", !.pairs = Absent]
    <3>2. v \in Versions /\ v # Absent
      BY <3>1, EtatType, AbsentAssumption DEF Sain, TypeOK
    <3>3. \/ boucle' = [boucle EXCEPT ![b] = n1]
          \/ boucle' = [boucle EXCEPT ![b] = n2]
      BY <2>3 DEF Servir, Sain, TypeOK
    <3> HIDE DEF v
    <3>4. /\ n1 \in Boucles /\ n1.courant = l.courant /\ n1.dernier = l.dernier
          /\ n1.pc = "reponse" /\ n1.reponse = v
      BY <1>0, <3>2 DEF Boucles
    <3>5. /\ n2 \in Boucles /\ n2.courant = l.courant /\ n2.dernier = l.dernier
          /\ n2.pc = "attente"
      BY <1>0 DEF Boucles
    <3>6. n1 \in Sures /\ n2 \in Sures
      BY <1>0, <3>1, <3>2, <3>4, <3>5, AbsentAssumption DEF Sures, Sure
    <3> HIDE DEF n1, n2
    <3> QED  BY <2>0, <3>3, <3>4, <3>5, <3>6
  <2>4. CASE AppelPerdu(b)
    <3> DEFINE n == [l EXCEPT !.pc = "attente", !.reponse = Absent]
    <3>1. boucle' = [boucle EXCEPT ![b] = n]
      BY <2>4 DEF AppelPerdu, Sain, TypeOK
    <3>2. n \in Boucles /\ n.courant = l.courant /\ n.dernier = l.dernier /\ n.pc = "attente"
      BY <1>0 DEF Boucles
    <3>3. n \in Sures
      BY <1>0, <3>2 DEF Sures, Sure
    <3> QED  BY <2>0, <3>1, <3>2, <3>3
  <2>5. CASE Finir(b) \/ Panne(b)
    <3>1. boucle' = [boucle EXCEPT ![b] = Finie] /\ Finie.courant = Absent
      BY <2>5 DEF Finir, Panne, Finie, Neuve
    <3> QED  BY <2>0, <3>1, NeuveSure
  <2> QED  BY <2>1, <2>2, <2>3, <2>4, <2>5
<1>1. boucle' \in [Tours -> Boucles] /\ boucle' \in [Tours -> Sures]
  BY UneBoucle
<1>2. \A c \in Tours : boucle'[c].courant \in {boucle[c].courant, fichier, Absent}
  BY DEF Sain, TypeOK
<1> QED  BY <1>1, <1>2 DEF Sain, TypeOK, TacheSure, pont, serveur, histoire

\* A step that leaves the file and the history alone, or erases the file: no
\* loop learns more than the file, and what Rejoindre will write is not new.
Calme ==
  /\ fichier' \in {fichier, Absent}
  /\ UNCHANGED <<inscrits, histoire>>
  /\ \A c \in Tours : boucle'[c].courant \in {boucle[c].courant, fichier, Absent}
  /\ \/ UNCHANGED tache
     \/ /\ tache'.etape # "ecrire"
        /\ tache'.copie \in {tache.copie, fichier, Absent}
        /\ tache'.neuf \in {tache.neuf, Absent}

\* The steps of Demarrer, Arreter and Tuer.
LEMMA SainPont ==
  ASSUME Sain, Arreter \/ Tuer \/ \E b \in Tours : Demarrer(b)
  PROVE  Sain' /\ Calme
<1> USE DEF pont, serveur, histoire
<1>1. CASE Arreter
  <2>1. boucle' = Couper /\ arret' = Absent
        /\ UNCHANGED <<plateforme, fichier, attente, tache, serveur, histoire>>
    BY <1>1 DEF Arreter
  <2> QED  BY <2>1, CouperType DEF Sain, TypeOK, TacheSure, Calme
<1>2. CASE Tuer
  <2>1. boucle' \in [Tours -> Boucles] /\ boucle' \in [Tours -> Sures]
        /\ \A c \in Tours : boucle'[c].courant \in {boucle[c].courant, Absent}
    <3>1. Finie \in Sures /\ Finie \in Boucles /\ Finie.courant = Absent
      BY NeuveSure DEF Sures, Finie, Neuve
    <3>2. boucle' = [b \in Tours |-> IF Vivante(b) THEN Finie ELSE boucle[b]]
      BY <1>2 DEF Tuer
    <3>3. boucle \in [Tours -> Boucles] /\ boucle \in [Tours -> Sures]
      BY DEF Sain, TypeOK
    <3> QED  BY <3>1, <3>2, <3>3
  <2>2. \/ tache' = Repos /\ arret' = Absent /\ attente' = Absent
        \/ UNCHANGED <<tache, pont>>
    BY <1>2 DEF Tuer, Repose
  <2>3. UNCHANGED <<plateforme, fichier, serveur, histoire>>
    BY <1>2 DEF Tuer
  <2> QED  BY <2>1, <2>2, <2>3, ReposSur DEF Sain, TypeOK, TacheSure, Calme
<1>3. ASSUME NEW b \in Tours, Demarrer(b) PROVE Sain' /\ Calme
  <2> DEFINE l == Couper[b]
             n == [l EXCEPT !.pc = "debut"]
  <2>1. l \in Boucles /\ Sure(l) /\ l.courant = boucle[b].courant
    BY CouperType DEF Sures
  <2>2. boucle' = [Couper EXCEPT ![b] = n]
    BY <1>3, CouperType DEF Demarrer
  <2> HIDE DEF l
  <2>3. n \in Boucles /\ n.courant = l.courant /\ n.pc = "debut" /\ n.dernier = l.dernier
    BY <2>1 DEF Boucles
  <2>4. n \in Sures
    BY <2>1, <2>3 DEF Sures, Sure
  <2> HIDE DEF n
  <2>5. boucle' \in [Tours -> Boucles] /\ boucle' \in [Tours -> Sures]
        /\ \A c \in Tours : boucle'[c].courant = boucle[c].courant
    BY <2>1, <2>2, <2>3, <2>4, CouperType
  <2>6. arret' \in Tours \cup {Absent}
    BY <1>3 DEF Demarrer, Sain, TypeOK
  <2>7. UNCHANGED <<plateforme, fichier, attente, tache, serveur, histoire>>
    BY <1>3 DEF Demarrer
  <2> QED  BY <2>5, <2>6, <2>7 DEF Sain, TypeOK, TacheSure, Calme
<1> QED  BY <1>1, <1>2, <1>3

\* Of Rejoindre and Quitter, the steps that do not prepare or write a state.
LEMMA SainTache ==
  ASSUME Sain,
         \/ RejLire \/ RejEchouer
         \/ QuitterDebut \/ QuitterLire \/ QuitterDeconnecter \/ QuitterEffacer
  PROVE  Sain' /\ Calme
<1> USE DEF pont, serveur, histoire
<1>0. fichier \in Etats \cup {Absent} /\ tache \in Taches
  BY DEF Sain, TypeOK
<1>1. CASE RejLire
  <2> DEFINE t == [etape |-> "inscrire", copie |-> fichier, neuf |-> Absent]
  <2>1. tache' = t /\ UNCHANGED <<plateforme, fichier, boucle, pont, serveur, histoire>>
    BY <1>1 DEF RejLire
  <2>2. t \in Taches /\ t.etape = "inscrire" /\ t.copie = fichier /\ t.neuf = Absent
    BY <1>0 DEF Taches
  <2> HIDE DEF t
  <2> QED  BY <2>1, <2>2 DEF Sain, TypeOK, TacheSure, Calme
<1>2. CASE RejEchouer
  BY <1>2, ReposSur DEF RejEchouer, Repose, Sain, TypeOK, TacheSure, Calme
<1> DEFINE tA == [Repos EXCEPT !.etape = "attendre"]
           tE == [Repos EXCEPT !.etape = "effacer"]
           tD == [Repos EXCEPT !.etape = "deconnecter", !.copie = fichier]
<1>3. /\ tA \in Taches /\ tA.etape = "attendre" /\ tA.copie = Absent /\ tA.neuf = Absent
      /\ tE \in Taches /\ tE.etape = "effacer" /\ tE.copie = Absent /\ tE.neuf = Absent
      /\ tD \in Taches /\ tD.etape = "deconnecter" /\ tD.copie = fichier /\ tD.neuf = Absent
  BY <1>0, ReposSur DEF Taches
<1>4. CASE QuitterDebut
  <2>1. UNCHANGED <<plateforme, fichier, serveur, histoire>> /\ fichier # Absent
    BY <1>4 DEF QuitterDebut
  <2>2. CASE plateforme = "android"
    <3>1. boucle' = Couper /\ arret' = Absent /\ attente' = arret /\ tache' = tA
      BY <1>4, <2>2 DEF QuitterDebut
    <3> HIDE DEF tA
    <3> QED  BY <1>3, <2>1, <3>1, CouperType DEF Sain, TypeOK, TacheSure, Calme
  <2>3. CASE plateforme # "android"
    <3>1. tache' = tD /\ UNCHANGED <<boucle, pont>>
      BY <1>4, <2>3 DEF QuitterDebut
    <3> HIDE DEF tD
    <3> QED  BY <1>3, <2>1, <3>1 DEF Sain, TypeOK, TacheSure, Calme
  <2> QED  BY <2>2, <2>3
<1>5. CASE QuitterLire
  <2>1. /\ attente' = Absent /\ UNCHANGED <<plateforme, fichier, boucle, arret, serveur, histoire>>
        /\ tache' = IF fichier = Absent THEN tE ELSE tD
    BY <1>5 DEF QuitterLire
  <2> HIDE DEF tE, tD
  <2> QED  BY <1>3, <2>1 DEF Sain, TypeOK, TacheSure, Calme
<1>6. CASE QuitterDeconnecter
  <2> DEFINE e == tache.copie
             j == [jetons EXCEPT ![e.reseau][e.cle] = Absent]
  <2>1. e \in Etats
    BY <1>0, <1>6 DEF QuitterDeconnecter, Sain, TacheSure, Taches
  <2>2. e.reseau \in Reseaux /\ e.cle \in Inscriptions
    BY <2>1, EtatType
  <2>3. jetons' \in {jetons, j}
    BY <1>6 DEF QuitterDeconnecter
  <2> HIDE DEF e
  <2>4. j \in [Reseaux -> [Inscriptions -> Inscriptions \cup {Absent}]]
    BY <2>2 DEF Sain, TypeOK
  <2> HIDE DEF j
  <2>5. tache' = tE /\ UNCHANGED <<plateforme, fichier, boucle, pont, inscrits, publie, sert, histoire>>
    BY <1>6 DEF QuitterDeconnecter
  <2> HIDE DEF tE
  <2> QED  BY <1>3, <2>3, <2>4, <2>5 DEF Sain, TypeOK, TacheSure, Calme
<1>7. CASE QuitterEffacer
  BY <1>7, ReposSur DEF QuitterEffacer, Repose, Sain, TypeOK, TacheSure, Calme
<1> QED  BY <1>1, <1>2, <1>4, <1>5, <1>6, <1>7

\* The server.
LEMMA SainServeur ==
  ASSUME Sain, NEW r \in Reseaux,
         Publier(r) \/ Reculer(r) \/ \E k \in Inscriptions : Retirer(r, k)
  PROVE  Sain' /\ Calme
<1> USE DEF pont, serveur, histoire
<1>1. CASE Publier(r)
  <2>1. publie[r] \in Versions /\ publie[r] \in Nat /\ publie[r] < MaxVersion
    BY <1>1, BornesAssumption DEF Publier, Sain, TypeOK, Versions
  <2>2. publie[r] + 1 \in Versions
    BY <2>1, BornesAssumption DEF Versions
  <2> QED  BY <1>1, <2>2 DEF Publier, Sain, TypeOK, TacheSure, Calme
<1>2. CASE Reculer(r)
  <2>1. sert[r] \in Versions /\ sert[r] > 0
    BY <1>2 DEF Reculer, Sain, TypeOK
  <2>2. sert[r] - 1 \in Versions
    BY <2>1, BornesAssumption DEF Versions
  <2> QED  BY <1>2, <2>2 DEF Reculer, Sain, TypeOK, TacheSure, Calme
<1>3. ASSUME NEW k \in Inscriptions, Retirer(r, k) PROVE Sain' /\ Calme
  BY <1>3 DEF Retirer, Sain, TypeOK, TacheSure, Calme
<1> QED  BY <1>1, <1>2, <1>3

\* The four steps that are not Calme.
LEMMA SainEcrire ==
  ASSUME Sain, NEW b \in Tours, Ecrire(b), UNCHANGED <<plateforme, pont, tache, serveur>>
  PROVE  /\ Sain' /\ boucle[b].courant \in Etats
         /\ fichier' \in Etats /\ boucle'[b].courant = fichier'
         /\ fichier'.depuis = boucle[b].courant.depuis
         /\ fichier'.version > boucle[b].courant.version
         /\ \A c \in Tours \ {b} : boucle'[c].courant = boucle[c].courant
<1> DEFINE l == boucle[b]
           v == Adopter(l)
           n == [l.courant EXCEPT !.version = v]
           m == [l EXCEPT !.pc = "ecrit", !.reponse = Absent, !.courant = n]
<1>1. l \in Sures /\ l.pc = "reponse" /\ v # l.courant.version
  BY BouclesSures DEF Ecrire
<1>2. l.courant \in Etats /\ v \in Versions /\ v \in Nat /\ l.courant.version <= v
  BY <1>1, AdopterType
<1>3. l.courant.version \in Nat
  BY <1>2, EtatType
<1>4. fichier' = n /\ boucle' = [boucle EXCEPT ![b] = m]
      /\ croise' = (croise \/ fichier \notin {boucle[b].courant, fichier'}) /\ retenue' = retenue
  BY DEF Ecrire, Sain, TypeOK
<1> HIDE DEF v
<1>5. n \in Etats /\ n.version = v /\ n.depuis = l.courant.depuis
  BY <1>2, EtatVersion
<1> HIDE DEF n
<1>6. m \in Sures /\ m.courant = n
  BY <1>1, <1>5, EcriteType
<1> HIDE DEF m, l
<1>7. boucle' \in [Tours -> Boucles] /\ boucle' \in [Tours -> Sures]
  BY <1>4, <1>6, UneBoucle
<1>8. croise' \in BOOLEAN
  BY <1>4 DEF Sain, TypeOK
<1>9. Sain'
  BY <1>4, <1>5, <1>7, <1>8 DEF Sain, TypeOK, TacheSure, pont, serveur
<1>10. boucle'[b].courant = n /\ \A c \in Tours \ {b} : boucle'[c].courant = boucle[c].courant
  BY <1>4, <1>6 DEF Sain, TypeOK
<1>11. n.version > l.courant.version
  BY <1>1, <1>2, <1>3, <1>5
<1> QED  BY <1>2, <1>4, <1>5, <1>9, <1>10, <1>11 DEF l

LEMMA SainDonner ==
  ASSUME Sain, NEW b \in Tours, Donner(b), UNCHANGED <<plateforme, pont, tache, serveur>>
  PROVE  /\ Sain' /\ UNCHANGED <<fichier, croise>> /\ boucle[b].courant \in Etats
         /\ \A c \in Tours : boucle'[c].courant = boucle[c].courant
         /\ LET e == boucle[b].courant
            IN retenue' = [retenue EXCEPT ![e.depuis] = IF @ < e.version THEN e.version ELSE @]
<1> DEFINE l == boucle[b]
           e == l.courant
           n == Servie(l)
<1>1. l \in Sures /\ l \in Boucles /\ Sure(l) /\ l.pc \in {"reponse", "ecrit"}
  BY BouclesSures DEF Donner
<1>2. e \in Etats
  BY <1>1 DEF Sure, Boucles
<1>3. n \in Sures /\ n.courant = e /\ n.pairs.depuis = e.depuis /\ n.pairs.version = e.version
  BY <1>1, <1>2, ServieType
<1>4. boucle' = [boucle EXCEPT ![b] = n] /\ UNCHANGED <<fichier, croise>>
  BY DEF Donner, Sain, TypeOK
<1> HIDE DEF n
<1>5. boucle'[b] = n /\ \A c \in Tours : boucle'[c].courant = boucle[c].courant
  BY <1>3, <1>4 DEF Sain, TypeOK
<1>6. retenue' = [retenue EXCEPT ![e.depuis] = IF @ < e.version THEN e.version ELSE @]
  <2> DEFINE p == boucle'[b].pairs
  <2>1. p.depuis = e.depuis /\ p.version = e.version
    BY <1>3, <1>5
  <2>2. retenue' = [retenue EXCEPT ![p.depuis] = IF @ < p.version THEN p.version ELSE @]
    BY DEF Donner, Retenir
  <2> HIDE DEF p, e
  <2> QED  BY <2>1, <2>2
<1>7. e.depuis \in Inscriptions /\ e.version \in Versions
  BY <1>2, EtatType
<1> HIDE DEF e, l
<1>8. retenue' \in [Inscriptions -> Versions]
  BY <1>6, <1>7 DEF Sain, TypeOK
<1>9. boucle' \in [Tours -> Boucles] /\ boucle' \in [Tours -> Sures]
  BY <1>3, <1>4, UneBoucle
<1>10. Sain'
  BY <1>4, <1>8, <1>9 DEF Sain, TypeOK, TacheSure, pont, serveur
<1> QED  BY <1>2, <1>4, <1>5, <1>6, <1>10 DEF e, l

LEMMA SainInscrire ==
  ASSUME Sain, NEW r \in Reseaux, RejInscrire(r)
  PROVE  /\ Sain' /\ UNCHANGED <<fichier, boucle, histoire>>
         /\ inscrits' = inscrits + 1 /\ inscrits' \in Inscriptions
         /\ \/ tache' = Repos
            \/ /\ tache'.etape = "ecrire" /\ tache'.copie = tache.copie
               /\ tache'.neuf = Suite(inscrits + 1, r)
<1> USE DEF pont, serveur, histoire
<1> DEFINE n == inscrits + 1
           e == Suite(n, r)
           t == [tache EXCEPT !.etape = "ecrire", !.neuf = e]
           j == [jetons EXCEPT ![r][e.cle] = e.ins]
<1>1. inscrits \in Nat /\ inscrits < MaxInscriptions /\ MaxInscriptions \in Nat
  BY BornesAssumption DEF RejInscrire, Sain, TypeOK
<1>2. n \in Inscriptions /\ n \in 0 .. MaxInscriptions
  BY <1>1 DEF Inscriptions
<1>3. /\ inscrits' = n /\ jetons' = j
      /\ UNCHANGED <<plateforme, fichier, boucle, pont, publie, sert, histoire>>
      /\ tache' = t \/ tache' = Repos
  BY DEF RejInscrire, Repose
<1> HIDE DEF n
<1>4. e \in Etats
  BY <1>2, SuiteType
<1>5. e.cle \in Inscriptions /\ e.ins \in Inscriptions /\ e # Absent
  BY <1>4, EtatType
<1> HIDE DEF e
<1>6. t \in Taches /\ t.etape = "ecrire" /\ t.neuf = e /\ t.copie = tache.copie
  BY <1>4 DEF Sain, TypeOK, Taches
<1>7. j \in [Reseaux -> [Inscriptions -> Inscriptions \cup {Absent}]]
  BY <1>5 DEF Sain, TypeOK
<1> HIDE DEF t, j
<1>8. Sain'
  BY <1>2, <1>3, <1>5, <1>6, <1>7, ReposSur DEF Sain, TypeOK, TacheSure
<1> QED  BY <1>2, <1>3, <1>6, <1>8 DEF n, e

LEMMA SainRejEcrire ==
  ASSUME Sain, RejEcrire
  PROVE  /\ Sain' /\ UNCHANGED <<boucle, inscrits, retenue>>
         /\ fichier' = tache.neuf /\ fichier' \in Etats /\ tache' = Repos
         /\ croise' = (croise \/ fichier # tache.copie)
<1> USE DEF pont, serveur, histoire
<1>1. tache.neuf \in Etats /\ fichier' = tache.neuf
  BY DEF RejEcrire, Sain, TypeOK, TacheSure, Taches
<1>2. croise' = (croise \/ fichier # tache.copie) /\ croise' \in BOOLEAN
  BY DEF RejEcrire, Sain, TypeOK
<1>3. tache' = Repos /\ UNCHANGED <<plateforme, boucle, pont, serveur, retenue>>
  BY DEF RejEcrire, Repose
<1> QED  BY <1>1, <1>2, <1>3, ReposSur DEF Sain, TypeOK, TacheSure

\* Every step is one of the four, or Calme.
LEMMA Pas ==
  ASSUME Sain, [Next]_vars
  PROVE  /\ Sain'
         /\ \/ Calme
            \/ \E b \in Tours : Ecrire(b) /\ UNCHANGED <<plateforme, pont, tache, serveur>>
            \/ \E b \in Tours : Donner(b) /\ UNCHANGED <<plateforme, pont, tache, serveur>>
            \/ \E r \in Reseaux : RejInscrire(r)
            \/ RejEcrire
<1>1. ASSUME NEW b \in Tours, Appliquer(b)
      PROVE  /\ Sain'
             /\ \/ Ecrire(b) /\ UNCHANGED <<plateforme, pont, tache, serveur>>
                \/ Donner(b) /\ UNCHANGED <<plateforme, pont, tache, serveur>>
  BY <1>1, SainEcrire, SainDonner DEF Appliquer
<1>2. ASSUME NEW b \in Tours,
             TicAppel(b) \/ TicSansAppel(b) \/ Servir(b) \/ AppelPerdu(b) \/ Finir(b) \/ Panne(b)
      PROVE  Sain' /\ Calme
  BY <1>2, SainLoin DEF Calme
<1>3. ASSUME NEW b \in Tours, Boucler(b)
      PROVE  \/ Appliquer(b) \/ Demarrer(b)
             \/ TicAppel(b) \/ TicSansAppel(b) \/ Servir(b) \/ AppelPerdu(b) \/ Finir(b) \/ Panne(b)
  BY <1>3 DEF Boucler
<1>4. CASE UNCHANGED vars
  BY <1>4 DEF vars, serveur, pont, histoire, Sain, TypeOK, TacheSure, Calme
<1>5. CASE \E b \in Tours : Boucler(b)
  BY <1>1, <1>2, <1>3, <1>5, SainPont
<1>6. CASE Arreter
  BY <1>6, SainPont
<1>7. CASE Travailler
  BY <1>7, SainTache, SainInscrire, SainRejEcrire DEF Travailler
<1>8. CASE Environ
  BY <1>8, SainServeur, SainPont DEF Environ
<1> QED  BY <1>4, <1>5, <1>6, <1>7, <1>8 DEF Next

LEMMA ToujoursSain == Spec => []Sain
BY SainInit, Pas, PTL DEF Spec

\* Type correctness of the file, of the loops, of the task and of the server
\* (appareil.go:35-53, 127-351, pont.go:97-225).
THEOREM AppareilType == Spec => []TypeOK
BY ToujoursSain, PTL DEF Sain

-----------------------------------------------------------------------------
(* The file is not behind the engines. *)

\* Nobody knows a lock of a registration that was not made.
Ancien(e) == e # Absent => e.depuis <= inscrits
Frais ==
  /\ Ancien(fichier) /\ Ancien(tache.copie) /\ Ancien(tache.neuf)
  /\ \A b \in Tours : Ancien(boucle[b].courant)
  /\ \A i \in Inscriptions : i > inscrits => retenue[i] = 0

\* What Rejoindre is about to write follows what it read, or is a lock nobody
\* else knows.
Autre(e, d) == e # Absent => e.depuis # d
NeufJuste ==
  LET n == tache.neuf
  IN tache.etape = "ecrire" =>
       \/ /\ tache.copie # Absent
          /\ n.depuis = tache.copie.depuis /\ n.version = tache.copie.version
       \/ /\ n.version = 0 /\ retenue[n.depuis] = 0 /\ Autre(fichier, n.depuis)
          /\ \A b \in Tours : Autre(boucle[b].courant, n.depuis)

\* Without a crossing no loop is ahead of the file it read.
Devance(e) == e # Absent /\ e.depuis = fichier.depuis => e.version <= fichier.version
PasEnAvance ==
  ~croise /\ fichier # Absent => \A b \in Tours : Devance(boucle[b].courant)

Fidele == Frais /\ NeufJuste /\ PasEnAvance /\ RienOublie

LEMMA FideleInit == Init => Fidele
<1> SUFFICES ASSUME Init PROVE Fidele
  OBVIOUS
<1>1. \A b \in Tours : boucle[b].courant = Absent
  BY DEF Init, Neuve
<1> QED
  BY <1>1, ReposSur
     DEF Init, Fidele, Frais, Ancien, NeufJuste, PasEnAvance, RienOublie

\* The types the four parts need.
LEMMA FideleTypes ==
  ASSUME Sain
  PROVE  /\ fichier \in Etats \cup {Absent}
         /\ tache.copie \in Etats \cup {Absent} /\ tache.neuf \in Etats \cup {Absent}
         /\ \A b \in Tours : boucle[b].courant \in Etats \cup {Absent}
         /\ inscrits \in Nat /\ croise \in BOOLEAN
         /\ \A i \in Inscriptions : i \in Nat /\ retenue[i] \in Nat /\ retenue[i] \in Versions
         /\ retenue \in [Inscriptions -> Versions]
BY BornesAssumption DEF Sain, TypeOK, Taches, Boucles, Versions, Inscriptions

LEMMA FideleCalme ==
  ASSUME Sain, Fidele, Calme
  PROVE  Fidele'
<1> USE DEF histoire
<1>1. /\ fichier' \in {fichier, Absent} /\ inscrits' = inscrits
      /\ croise' = croise /\ retenue' = retenue
      /\ \A c \in Tours : boucle'[c].courant \in {boucle[c].courant, fichier, Absent}
  BY DEF Calme
<1>2. /\ tache'.copie \in {tache.copie, fichier, Absent}
      /\ tache'.neuf \in {tache.neuf, Absent}
      /\ tache'.etape = "ecrire" => tache' = tache
  BY DEF Calme
<1>3. Frais'
  BY <1>1, <1>2 DEF Fidele, Frais, Ancien
<1>4. NeufJuste'
  BY <1>1, <1>2 DEF Fidele, NeufJuste, Autre
<1>5. PasEnAvance'
  <2> SUFFICES ASSUME ~croise', fichier' # Absent, NEW b \in Tours,
                      boucle'[b].courant # Absent, boucle'[b].courant.depuis = fichier'.depuis
               PROVE  boucle'[b].courant.version <= fichier'.version
    BY DEF PasEnAvance, Devance
  <2>1. fichier' = fichier /\ fichier \in Etats
    BY <1>1, FideleTypes
  <2>2. CASE boucle'[b].courant = boucle[b].courant
    BY <1>1, <2>1, <2>2 DEF Fidele, PasEnAvance, Devance
  <2>3. CASE boucle'[b].courant = fichier
    BY <2>1, <2>3, EtatType
  <2> QED  BY <1>1, <2>2, <2>3
<1>6. RienOublie'
  BY <1>1 DEF Fidele, RienOublie
<1> QED  BY <1>3, <1>4, <1>5, <1>6 DEF Fidele

\* appliquer writes what it read, with a newer version.
LEMMA FideleEcrire ==
  ASSUME Sain, Fidele, NEW b \in Tours, Ecrire(b),
         UNCHANGED <<plateforme, pont, tache, serveur>>
  PROVE  Fidele'
<1> USE DEF serveur
<1> DEFINE e == boucle[b].courant
<1>1. /\ e \in Etats /\ fichier' \in Etats /\ boucle'[b].courant = fichier'
      /\ fichier'.depuis = e.depuis /\ fichier'.version > e.version
      /\ \A c \in Tours \ {b} : boucle'[c].courant = boucle[c].courant
  BY SainEcrire
<1>2. /\ croise' = (croise \/ fichier \notin {e, fichier'})
      /\ UNCHANGED <<retenue, tache, inscrits>>
  BY DEF Ecrire
<1>3. /\ e.depuis \in Inscriptions /\ e.depuis \in Nat /\ e.version \in Nat
      /\ fichier'.version \in Nat /\ e # Absent /\ fichier' # Absent
  BY <1>1, EtatType, BornesAssumption DEF Inscriptions
<1> HIDE DEF e
<1>4. Frais'
  BY <1>1, <1>2, <1>3 DEF Fidele, Frais, Ancien, e
<1>5. NeufJuste'
  BY <1>1, <1>2, <1>3 DEF Fidele, NeufJuste, Autre, e
<1>6. ASSUME ~croise' PROVE fichier = fichier' \/ (fichier = e /\ fichier # Absent)
  BY <1>2, <1>3, <1>6
<1>7. PasEnAvance'
  <2> SUFFICES ASSUME ~croise', NEW c \in Tours,
                      boucle'[c].courant # Absent, boucle'[c].courant.depuis = fichier'.depuis
               PROVE  boucle'[c].courant.version <= fichier'.version
    BY DEF PasEnAvance, Devance
  <2>1. CASE c = b
    BY <1>1, <1>3, <2>1
  <2>2. CASE c # b
    <3>1. /\ boucle'[c].courant = boucle[c].courant /\ boucle[c].courant \in Etats
          /\ ~croise /\ fichier # Absent
      BY <1>1, <1>2, <1>3, <1>6, <2>2, FideleTypes
    <3>2. boucle[c].courant.depuis = fichier.depuis
      BY <1>1, <1>6, <3>1
    <3>3. boucle[c].courant.version <= fichier.version
      BY <3>1, <3>2 DEF Fidele, PasEnAvance, Devance
    <3>4. boucle[c].courant.version \in Nat
      BY <3>1, EtatType
    <3> QED  BY <1>1, <1>3, <1>6, <3>1, <3>3, <3>4
  <2> QED  BY <2>1, <2>2
<1>8. RienOublie'
  <2> SUFFICES ASSUME ~croise' PROVE retenue'[fichier'.depuis] <= fichier'.version
    BY DEF RienOublie
  <2>1. ~croise /\ fichier # Absent /\ fichier.depuis = e.depuis
    BY <1>1, <1>2, <1>3, <1>6
  <2>2. retenue[e.depuis] <= fichier.version /\ retenue[e.depuis] \in Nat
    BY <1>3, <2>1, FideleTypes DEF Fidele, RienOublie
  <2> QED  BY <1>1, <1>2, <1>3, <1>6, <2>1, <2>2
<1> QED  BY <1>4, <1>5, <1>7, <1>8 DEF Fidele

\* The engine is given what the loop read, which the file is not behind.
LEMMA FideleDonner ==
  ASSUME Sain, Fidele, NEW b \in Tours, Donner(b),
         UNCHANGED <<plateforme, pont, tache, serveur>>
  PROVE  Fidele'
<1> USE DEF serveur
<1> DEFINE e == boucle[b].courant
           v == IF retenue[e.depuis] < e.version THEN e.version ELSE retenue[e.depuis]
<1>1. /\ e \in Etats /\ UNCHANGED <<fichier, croise, tache, inscrits>>
      /\ \A c \in Tours : boucle'[c].courant = boucle[c].courant
      /\ retenue' = [retenue EXCEPT ![e.depuis] = v]
  BY SainDonner
<1>2. e.depuis \in Inscriptions /\ e.depuis \in Nat /\ e.version \in Nat /\ e # Absent
  BY <1>1, EtatType, BornesAssumption DEF Inscriptions
<1>3. \A i \in Inscriptions : retenue'[i] = IF i = e.depuis THEN v ELSE retenue[i]
  BY <1>1, FideleTypes
<1>4. Frais'
  <2>1. /\ Ancien(fichier)' /\ Ancien(tache.copie)' /\ Ancien(tache.neuf)'
        /\ \A c \in Tours : Ancien(boucle[c].courant)'
    BY <1>1 DEF Fidele, Frais, Ancien
  <2>2. e.depuis <= inscrits /\ inscrits \in Nat
    BY <1>2, FideleTypes DEF Fidele, Frais, Ancien
  <2>3. ASSUME NEW i \in Inscriptions, i > inscrits PROVE retenue'[i] = 0
    <3>1. i \in Nat /\ i # e.depuis
      BY <1>2, <2>2, <2>3, FideleTypes
    <3> QED  BY <1>3, <2>3, <3>1 DEF Fidele, Frais
  <2> QED  BY <1>1, <2>1, <2>3 DEF Frais
<1>5. NeufJuste'
  <2> SUFFICES ASSUME tache.etape = "ecrire" PROVE NeufJuste'
    BY <1>1 DEF NeufJuste
  <2>1. tache.neuf.depuis \in Inscriptions
    BY FideleTypes, EtatType DEF Sain, TacheSure
  <2>2. Autre(e, tache.neuf.depuis) => retenue'[tache.neuf.depuis] = retenue[tache.neuf.depuis]
    BY <1>2, <1>3, <2>1 DEF Autre
  <2> QED  BY <1>1, <2>2 DEF Fidele, NeufJuste
<1>6. PasEnAvance'
  BY <1>1 DEF Fidele, PasEnAvance, Devance
<1>7. RienOublie'
  <2> SUFFICES ASSUME ~croise, fichier # Absent PROVE retenue'[fichier.depuis] <= fichier.version
    BY <1>1 DEF RienOublie
  <2>1. fichier.depuis \in Inscriptions
    BY FideleTypes, EtatType
  <2>2. retenue[fichier.depuis] <= fichier.version
    BY DEF Fidele, RienOublie
  <2>3. e.depuis = fichier.depuis => e.version <= fichier.version
    BY <1>2 DEF Fidele, PasEnAvance, Devance
  <2> QED  BY <1>3, <2>1, <2>2, <2>3
<1> QED  BY <1>4, <1>5, <1>6, <1>7 DEF Fidele

\* A registration: the lock it may have to retain is a new one.
LEMMA FideleInscrire ==
  ASSUME Sain, Fidele, NEW r \in Reseaux, RejInscrire(r)
  PROVE  Fidele'
<1> DEFINE n == inscrits + 1
           e == Suite(n, r)
<1>1. /\ UNCHANGED <<fichier, boucle, croise, retenue>>
      /\ inscrits' = n /\ n \in Inscriptions
      /\ \/ tache' = Repos
         \/ /\ tache'.etape = "ecrire" /\ tache'.copie = tache.copie
            /\ tache'.neuf = e
  BY SainInscrire DEF histoire
<1>2. \/ e.depuis = n /\ e.version = 0
      \/ /\ tache.copie # Absent
         /\ e.depuis = tache.copie.depuis /\ e.version = tache.copie.version
  BY <1>1, SuiteType
<1>3. inscrits \in Nat
  BY FideleTypes
<1> HIDE DEF e
<1>4. ASSUME NEW x \in Etats \cup {Absent}, Ancien(x) PROVE Ancien(x)' /\ Autre(x, n)
  <2>1. CASE x = Absent
    BY <2>1 DEF Ancien, Autre
  <2>2. CASE x \in Etats
    <3>1. x.depuis \in Nat /\ x.depuis <= inscrits
      BY <1>4, <2>2, EtatType, BornesAssumption DEF Ancien, Inscriptions
    <3> QED  BY <1>1, <1>3, <3>1 DEF Ancien, Autre
  <2> QED  BY <2>1, <2>2
<1>5. /\ fichier \in Etats \cup {Absent} /\ Ancien(fichier)
      /\ tache.copie \in Etats \cup {Absent} /\ Ancien(tache.copie)
      /\ \A b \in Tours : boucle[b].courant \in Etats \cup {Absent} /\ Ancien(boucle[b].courant)
  BY FideleTypes DEF Fidele, Frais
<1>6. Ancien(tache.copie)'
  <2>1. CASE tache' = Repos
    BY <2>1, ReposSur DEF Ancien
  <2>2. CASE tache'.copie = tache.copie
    BY <1>1, <1>4, <1>5, <2>2 DEF Ancien
  <2> QED  BY <1>1, <2>1, <2>2
<1>7. Ancien(tache.neuf)'
  <2>1. CASE tache' = Repos
    BY <2>1, ReposSur DEF Ancien
  <2>2. CASE tache'.neuf = e
    <3>1. e.depuis <= n
      <4>1. CASE e.depuis = n
        BY <1>3, <4>1
      <4>2. CASE tache.copie # Absent /\ e.depuis = tache.copie.depuis
        <5>1. tache.copie \in Etats
          BY <4>2, FideleTypes
        <5>2. tache.copie.depuis \in Nat /\ tache.copie.depuis <= inscrits
          BY <1>5, <4>2, <5>1, EtatType, BornesAssumption DEF Ancien, Inscriptions
        <5> QED  BY <1>3, <4>2, <5>2
      <4> QED  BY <1>2, <4>1, <4>2
    <3> QED  BY <1>1, <2>2, <3>1 DEF Ancien
  <2> QED  BY <1>1, <2>1, <2>2
<1>8. Frais'
  <2>1. Ancien(fichier)' /\ \A b \in Tours : Ancien(boucle[b].courant)'
    BY <1>1, <1>4, <1>5 DEF Ancien
  <2>2. \A i \in Inscriptions : i > inscrits' => retenue'[i] = 0
    BY <1>1, <1>3, FideleTypes DEF Fidele, Frais
  <2> QED  BY <1>6, <1>7, <2>1, <2>2 DEF Frais
<1>9. NeufJuste'
  <2>1. Autre(fichier, n) /\ \A b \in Tours : Autre(boucle[b].courant, n)
    BY <1>4, <1>5
  <2>2. retenue[n] = 0
    BY <1>1, <1>3 DEF Fidele, Frais
  <2>3. CASE tache' = Repos
    BY <2>3, ReposSur DEF NeufJuste
  <2>4. CASE tache'.copie = tache.copie /\ tache'.neuf = e
    BY <1>1, <1>2, <2>1, <2>2, <2>4 DEF NeufJuste, Autre
  <2> QED  BY <1>1, <2>3, <2>4
<1>10. PasEnAvance' /\ RienOublie'
  BY <1>1 DEF Fidele, PasEnAvance, Devance, RienOublie
<1> QED  BY <1>8, <1>9, <1>10 DEF Fidele

\* Rejoindre writes what follows the file it read, unless the file changed.
LEMMA FideleRejEcrire ==
  ASSUME Sain, Fidele, RejEcrire
  PROVE  Fidele'
<1> DEFINE n == tache.neuf
<1>1. /\ UNCHANGED <<boucle, inscrits, retenue>> /\ fichier' = n /\ n \in Etats
      /\ tache' = Repos /\ croise' = (croise \/ fichier # tache.copie)
      /\ tache.etape = "ecrire"
  BY SainRejEcrire DEF RejEcrire
<1>2. n # Absent /\ n.depuis \in Inscriptions
  BY <1>1, EtatType
<1>3. Frais'
  <2>1. Ancien(fichier)'
    BY <1>1 DEF Fidele, Frais, Ancien
  <2>2. Ancien(tache.copie)' /\ Ancien(tache.neuf)'
    BY <1>1, ReposSur DEF Ancien
  <2>3. \A b \in Tours : Ancien(boucle[b].courant)'
    BY <1>1 DEF Fidele, Frais, Ancien
  <2>4. \A i \in Inscriptions : i > inscrits' => retenue'[i] = 0
    BY <1>1 DEF Fidele, Frais
  <2> QED  BY <2>1, <2>2, <2>3, <2>4 DEF Frais
<1>4. NeufJuste'
  BY <1>1, ReposSur DEF NeufJuste
<1>5. ASSUME ~croise' PROVE ~croise /\ fichier = tache.copie
  BY <1>1, <1>5
<1> HIDE DEF n
<1>6. \/ /\ tache.copie # Absent
         /\ n.depuis = tache.copie.depuis /\ n.version = tache.copie.version
      \/ /\ n.version = 0 /\ retenue[n.depuis] = 0
         /\ \A b \in Tours : Autre(boucle[b].courant, n.depuis)
  BY <1>1 DEF Fidele, NeufJuste, n
<1>7. PasEnAvance' /\ RienOublie'
  <2>1. CASE croise'
    BY <2>1 DEF PasEnAvance, RienOublie
  <2>2. CASE ~croise' /\ tache.copie # Absent
             /\ n.depuis = tache.copie.depuis /\ n.version = tache.copie.version
    <3>1. ~croise /\ fichier # Absent /\ n.depuis = fichier.depuis /\ n.version = fichier.version
      BY <1>5, <2>2
    <3> QED  BY <1>1, <3>1 DEF Fidele, PasEnAvance, Devance, RienOublie
  <2>3. CASE ~croise' /\ n.version = 0 /\ retenue[n.depuis] = 0
             /\ \A b \in Tours : Autre(boucle[b].courant, n.depuis)
    BY <1>1, <2>3 DEF PasEnAvance, Devance, Autre, RienOublie
  <2> QED  BY <1>1, <1>6, <2>1, <2>2, <2>3
<1> QED  BY <1>3, <1>4, <1>7 DEF Fidele

LEMMA FidelePas ==
  ASSUME Sain, Fidele, [Next]_vars
  PROVE  Fidele'
BY Pas, FideleCalme, FideleEcrire, FideleDonner, FideleInscrire, FideleRejEcrire

\* appliquer, Rejoindre, Quitter: as long as nobody writes over a state he had
\* not read, the file of a lock is never behind what an engine was given of it,
\* so that a restart forgets nothing (appareil.go:127-179, 248-280, 316-351).
THEOREM AppareilRienOublie == Spec => []RienOublie
<1>1. Spec => []Fidele
  BY ToujoursSain, FideleInit, FidelePas, PTL DEF Spec
<1>2. Fidele => RienOublie
  BY DEF Fidele
<1> QED  BY <1>1, <1>2, PTL
=============================================================================
