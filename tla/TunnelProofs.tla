---------------------------- MODULE TunnelProofs ----------------------------
(***************************************************************************)
(* Theorems about Tunnel, for any number of initiations, packets, restarts *)
(* and indices, and about the window of Session, for every size and set of *)
(* readers.  The two modules share no variable.                            *)
(*                                                                         *)
(* Tunnel.  Socle holds the types, the finite network and what the answers *)
(* say of each other; it alone bounds the rank of an answer.  LesPas then  *)
(* writes every step as one of seven effects on the sessions of one end,   *)
(* and each property has its own inductive invariant over these effects,   *)
(* beside Socle: IndicesInv (the table is the disjoint union of the        *)
(* indices of three sessions and a handshake), RepondeurConfirme itself,   *)
(* OrigineInv (an answer names each session held), DatesInv (the sessions  *)
(* of one initiator are in the order of their dates) and PointInv.         *)
(* ScelleInv, over OrigineInv and DatesInv, says of the keys that seal     *)
(* what every step needs to be a step of TunnelIdeal.                      *)
(***************************************************************************)
EXTENDS Tunnel, Session, FiniteSetTheorems, TLAPS

-----------------------------------------------------------------------------
(* The two ends, and the bounds. *)

LEMMA DeuxBouts ==
  ASSUME NEW e \in Bouts
  PROVE  /\ Autre(e) \in Bouts /\ Autre(e) # e /\ Autre(Autre(e)) = e
         /\ \A f \in Bouts : f = e \/ f = Autre(e)
<1>1. PICK a, b \in Bouts : a # b /\ Bouts = {a, b}
  BY BoutsAssumption
<1>2. ASSUME NEW f \in Bouts
      PROVE  Autre(f) \in Bouts /\ Autre(f) # f
  <2>1. \E g \in Bouts : g # f
    BY <1>1
  <2> QED  BY <2>1 DEF Autre
<1>3. Autre(e) \in Bouts /\ Autre(e) # e /\ Autre(Autre(e)) \in Bouts /\ Autre(Autre(e)) # Autre(e)
  BY <1>2
<1> QED  BY <1>1, <1>3

LEMMA MaxDeux ==
  ASSUME NEW g \in [Bouts -> Nat]
  PROVE  Max({g[e] : e \in Bouts}) \in Nat /\ \A e \in Bouts : g[e] <= Max({g[f] : f \in Bouts})
<1> DEFINE S == {g[e] : e \in Bouts}
<1>1. PICK a, b \in Bouts : a # b /\ Bouts = {a, b}
  BY BoutsAssumption
<1>2. S = {g[a], g[b]} /\ g[a] \in Nat /\ g[b] \in Nat
  BY <1>1
<1>3. \E x \in S : \A y \in S : x >= y
  <2>1. CASE g[a] >= g[b]
    BY <1>2, <2>1
  <2>2. CASE g[b] >= g[a]
    BY <1>2, <2>2
  <2> QED  BY <1>2, <2>1, <2>2
<1>4. Max(S) \in S /\ \A y \in S : Max(S) >= y
  BY <1>3 DEF Max
<1> QED  BY <1>2, <1>4

MaxI == Max({MaxInitiations[e] : e \in Bouts})
MaxV == Max({MaxVies[e] : e \in Bouts})

LEMMA LesBornes ==
  /\ MaxI \in Nat /\ \A e \in Bouts : MaxInitiations[e] \in Nat /\ MaxInitiations[e] <= MaxI
  /\ MaxV \in Nat /\ \A e \in Bouts : MaxVies[e] \in Nat /\ MaxVies[e] <= MaxV
  /\ Horodatages = 1 .. MaxI
  /\ Reponses = 1 .. MaxI * (MaxV + 1)
BY BornesAssumption, MaxDeux DEF MaxI, MaxV, Horodatages, Reponses

LEMMA HorodatageNat == Horodatages \subseteq Nat
BY LesBornes

LEMMA HorlogeNat ==
  ASSUME TypeOK
  PROVE  horloge \in [Bouts -> Nat] /\ dernierHorodatage \in [Bouts -> Nat]
<1>1. Horodatages \cup {0} \subseteq Nat
  BY HorodatageNat
<1>2. horloge \in [Bouts -> Horodatages \cup {0}] /\ dernierHorodatage \in [Bouts -> Horodatages \cup {0}]
  BY DEF TypeOK
<1> QED  BY <1>1, <1>2

-----------------------------------------------------------------------------
(* Messages. *)

TroisTypes == {"initiation", "reponse", "donnees"}

LEMMA MessageType ==
  ASSUME NEW m \in Messages
  PROVE  /\ m.type \in TroisTypes /\ m.de \in Bouts /\ m.lieu \in Lieux \cup {Nulle}
         /\ m.type = "initiation" => m.horo \in Horodatages /\ m.indice \in Indices
         /\ m.type = "reponse" => /\ m.cle \in Cles /\ m.locale \in Indices /\ m.dest \in Indices
                                  /\ m.vie \in 0 .. MaxV
         /\ m.type = "donnees" => m.cle \in Cles /\ m.n \in 0 .. MaxPaquets - 1 /\ m.dest \in Indices
<1>1. CASE m \in [type : {"initiation"}, de : Bouts, horo : Horodatages, indice : Indices,
                  lieu : Lieux \cup {Nulle}]
  BY <1>1 DEF TroisTypes
<1>2. CASE m \in [type : {"reponse"}, de : Bouts, cle : Cles, locale : Indices, dest : Indices,
                  vie : 0 .. MaxV, lieu : Lieux \cup {Nulle}]
  BY <1>2 DEF TroisTypes
<1>3. CASE m \in [type : {"donnees"}, de : Bouts, cle : Cles, n : 0 .. MaxPaquets - 1, dest : Indices,
                  lieu : Lieux \cup {Nulle}]
  BY <1>3 DEF TroisTypes
<1> QED  BY <1>1, <1>2, <1>3 DEF Messages, MaxV

LEMMA SessionTypee ==
  ASSUME NEW s \in Sessions
  PROVE  /\ s.locale \in Indices /\ s.distante \in Indices /\ s.cle \in Cles
         /\ s.initiateur \in BOOLEAN /\ s.creee \in 0 .. MaxTemps
         /\ s.cle.par \in Bouts /\ s.cle.horo \in Horodatages /\ s.cle.rep \in Reponses
         /\ s # Nulle
BY NulleAssumption DEF Sessions, Cles

\* The address messages of e leave from is one, or nil.
LEMMA LieuEnvoiType ==
  ASSUME lieu \in Lieux, point \in Lieux \cup {Nulle}, NEW e \in Bouts
  PROVE  LieuEnvoi(e) \in Lieux \cup {Nulle} /\ (Mobile(e) => LieuEnvoi(e) \in Lieux)
BY DEF LieuEnvoi

LEMMA InitiationType ==
  ASSUME NEW e \in Bouts, NEW h \in Horodatages, NEW i \in Indices,
         LieuEnvoi(e) \in Lieux \cup {Nulle}
  PROVE  /\ Initiation(e, h, i) \in Messages
         /\ Initiation(e, h, i).type = "initiation" /\ Initiation(e, h, i).de = e
         /\ Initiation(e, h, i).lieu = LieuEnvoi(e)
BY DEF Initiation, Messages

LEMMA DonneesType ==
  ASSUME NEW e \in Bouts, NEW s \in Sessions, NEW n \in 0 .. MaxPaquets - 1,
         LieuEnvoi(e) \in Lieux \cup {Nulle}
  PROVE  /\ Donnees(e, s, n) \in Messages
         /\ Donnees(e, s, n).type = "donnees" /\ Donnees(e, s, n).de = e
         /\ Donnees(e, s, n).cle = s.cle /\ Donnees(e, s, n).lieu = LieuEnvoi(e)
BY DEF Donnees, Messages, Sessions

\* A data message sent under a counter below the bound is typed.
LEMMA SuivantType ==
  ASSUME IsFiniteSet(reseau), NEW e \in Bouts, NEW s \in Sessions, utilisable(e, s),
         LieuEnvoi(e) \in Lieux \cup {Nulle}
  PROVE  \E d \in Messages : /\ Suivant(e, s) = {d} /\ d = Donnees(e, s, Compteur(e, s))
                             /\ d.type = "donnees" /\ d.de = e /\ d.cle = s.cle
                             /\ d.lieu = LieuEnvoi(e)
<1> DEFINE M == {m \in reseau : m.type = "donnees" /\ m.de = e /\ m.cle = s.cle}
<1>1. Cardinality(M) \in Nat
  BY FS_Subset, FS_CardinalityType
<1>2. Compteur(e, s) \in 0 .. MaxPaquets - 1
  BY <1>1, BornesAssumption DEF Compteur, utilisable
<1> QED  BY <1>2, DonneesType DEF Suivant

-----------------------------------------------------------------------------
(* What a step sends. *)

\* Messages of e that answer no initiation: its data is sealed in the session
\* that is the current one after the step.
Courants(e, envois) ==
  /\ envois \subseteq Messages /\ IsFiniteSet(envois)
  /\ \A m \in envois : m.type # "reponse" /\ m.de = e /\ (Mobile(e) => m.lieu \in Lieux)
  /\ \A m \in envois : m.type = "donnees" => courante'[e] # Nulle /\ m.cle = courante'[e].cle

\* lancerPoignee goes through: the index of the last attempt is given back, a
\* new one is drawn.
Lance(e, table) ==
  /\ e \in Actifs /\ horloge[e] < MaxInitiations[e]
  /\ \E i \in Indices \ SansTentative(e, table) :
       /\ indices' = [indices EXCEPT ![e] = SansTentative(e, table) \cup {i}]
       /\ poignee' = [poignee EXCEPT ![e] = [horo |-> horloge[e] + 1, indice |-> i]]
  /\ horloge' = [horloge EXCEPT ![e] = horloge[e] + 1]

Reste(e, table) == indices' = [indices EXCEPT ![e] = table] /\ UNCHANGED <<poignee, horloge>>

LEMMA CourantsUnion ==
  ASSUME NEW e \in Bouts, NEW A, NEW B, Courants(e, A), Courants(e, B)
  PROVE  Courants(e, A \cup B)
BY FS_Union DEF Courants

LEMMA CourantsVide == ASSUME NEW e \in Bouts PROVE Courants(e, {})
BY FS_EmptySet DEF Courants

LEMMA CourantsSuivant ==
  ASSUME TypeOK, IsFiniteSet(reseau), NEW e \in Bouts, NEW s \in Sessions, utilisable(e, s),
         courante'[e] = s
  PROVE  Courants(e, Suivant(e, s))
<1>1. LieuEnvoi(e) \in Lieux \cup {Nulle} /\ (Mobile(e) => LieuEnvoi(e) \in Lieux)
  BY LieuEnvoiType DEF TypeOK
<1>2. PICK d \in Messages : Suivant(e, s) = {d} /\ d.type = "donnees" /\ d.de = e /\ d.cle = s.cle
                                  /\ d.lieu = LieuEnvoi(e)
  BY <1>1, SuivantType
<1>3. IsFiniteSet({d})
  BY FS_Singleton
<1>4. s # Nulle
  BY NulleAssumption
<1> QED  BY <1>1, <1>2, <1>3, <1>4 DEF Courants

LEMMA HorlogeSuivante ==
  ASSUME TypeOK, NEW e \in Bouts, horloge[e] < MaxInitiations[e]
  PROVE  horloge[e] + 1 \in Horodatages
<1>1. horloge[e] \in Horodatages \cup {0}
  BY DEF TypeOK
<1>2. /\ MaxInitiations[e] \in Nat /\ MaxInitiations[e] <= MaxI /\ MaxI \in Nat
      /\ Horodatages = 1 .. MaxI
  BY LesBornes
<1> QED  BY <1>1, <1>2

\* What a call of lancerPoignee does to the table, the handshake and the network.
LEMMA TenterEffet ==
  ASSUME TypeOK, NEW e \in Bouts, NEW table, NEW envois, Courants(e, envois),
         Tenter(e, table, envois)
  PROVE  /\ \E tous : Courants(e, tous) /\ reseau' = reseau \cup tous
         /\ Lance(e, table) \/ Reste(e, table)
<1>1. CASE lancerPoignee(e, table, envois)
  <2>1. LieuEnvoi(e) \in Lieux \cup {Nulle} /\ (Mobile(e) => LieuEnvoi(e) \in Lieux)
    BY LieuEnvoiType DEF TypeOK
  <2>2. /\ e \in Actifs /\ horloge[e] < MaxInitiations[e]
        /\ horloge' = [horloge EXCEPT ![e] = horloge[e] + 1]
    BY <1>1 DEF lancerPoignee
  <2>3. PICK i \in Indices \ SansTentative(e, table) :
          /\ indices' = [indices EXCEPT ![e] = SansTentative(e, table) \cup {i}]
          /\ poignee' = [poignee EXCEPT ![e] = [horo |-> horloge[e] + 1, indice |-> i]]
          /\ reseau' = reseau \cup envois \cup {Initiation(e, horloge[e] + 1, i)}
    BY <1>1 DEF lancerPoignee
  <2>4. horloge[e] + 1 \in Horodatages
    BY <2>2, HorlogeSuivante
  <2>5. Courants(e, {Initiation(e, horloge[e] + 1, i)})
    <3>1. /\ Initiation(e, horloge[e] + 1, i) \in Messages
          /\ Initiation(e, horloge[e] + 1, i).type = "initiation"
          /\ Initiation(e, horloge[e] + 1, i).de = e
          /\ Initiation(e, horloge[e] + 1, i).lieu = LieuEnvoi(e)
      BY <2>1, <2>3, <2>4, InitiationType
    <3>2. IsFiniteSet({Initiation(e, horloge[e] + 1, i)})
      BY FS_Singleton
    <3> QED  BY <2>1, <3>1, <3>2 DEF Courants
  <2>6. Courants(e, envois \cup {Initiation(e, horloge[e] + 1, i)})
    BY <2>5, CourantsUnion
  <2>7. reseau' = reseau \cup (envois \cup {Initiation(e, horloge[e] + 1, i)})
    BY <2>3
  <2> QED  BY <2>2, <2>3, <2>6, <2>7 DEF Lance
<1>2. CASE SansPoignee(e, table, envois)
  BY <1>2 DEF SansPoignee, Reste
<1> QED  BY <1>1, <1>2 DEF Tenter

LEMMA TentativeType ==
  ASSUME TypeOK, NEW e \in Bouts, NEW table \in SUBSET Indices, Lance(e, table) \/ Reste(e, table)
  PROVE  /\ indices' \in [Bouts -> SUBSET Indices]
         /\ poignee' \in [Bouts -> [horo : Horodatages, indice : Indices] \cup {Nulle}]
         /\ horloge' \in [Bouts -> Horodatages \cup {0}]
<1>1. CASE Lance(e, table)
  <2>1. horloge[e] + 1 \in Horodatages
    BY <1>1, HorlogeSuivante DEF Lance
  <2>2. SansTentative(e, table) \subseteq Indices
    BY DEF SansTentative
  <2>3. PICK i \in Indices \ SansTentative(e, table) :
          /\ indices' = [indices EXCEPT ![e] = SansTentative(e, table) \cup {i}]
          /\ poignee' = [poignee EXCEPT ![e] = [horo |-> horloge[e] + 1, indice |-> i]]
    BY <1>1 DEF Lance
  <2>4. horloge' = [horloge EXCEPT ![e] = horloge[e] + 1]
    BY <1>1 DEF Lance
  <2>5. [horo |-> horloge[e] + 1, indice |-> i] \in [horo : Horodatages, indice : Indices]
    BY <2>1
  <2> QED  BY <2>1, <2>2, <2>3, <2>4, <2>5 DEF TypeOK
<1>2. CASE Reste(e, table)
  BY <1>2 DEF TypeOK, Reste
<1> QED  BY <1>1, <1>2

-----------------------------------------------------------------------------
(* The answers. *)

\* The answers of an engine bear the rank of each; those of its present life
\* are for initiations no newer than the last one it took.
ReponsesOK ==
  /\ \A m \in reseau : m.type = "reponse" =>
       /\ m.cle.par = Autre(m.de) /\ m.vie <= vie[m.de]
       /\ m.vie = vie[m.de] => m.cle.horo <= dernierHorodatage[m.de]
       /\ m.cle.rep \in 1 .. NbReponses(m.de)
  /\ \A m1, m2 \in reseau :
       m1.type = "reponse" /\ m2.type = "reponse" /\ m1.de = m2.de /\ m1.cle.rep = m2.cle.rep => m1 = m2
  /\ InitiationUneFois

\* What recevoirDonnees holds between its two locks: a data message of the other
\* end, and the session that opened it.
EnCoursOK ==
  \A e \in Bouts : enCours[e] # Nulle =>
    /\ enCours[e].msg.type = "donnees" /\ enCours[e].msg.de = Autre(e)
    /\ enCours[e].msg.cle = enCours[e].session.cle

Socle == TypeOK /\ IsFiniteSet(reseau) /\ ReponsesOK /\ EnCoursOK

LEMMA ReponsesGardees ==
  ASSUME TypeOK, ReponsesOK, NEW envois, reseau' = reseau \cup envois,
         \A m \in envois : m.type # "reponse",
         \A e \in Bouts : /\ vie[e] \in Nat /\ vie'[e] \in Nat
                          /\ \/ vie'[e] = vie[e] /\ dernierHorodatage'[e] = dernierHorodatage[e]
                             \/ vie'[e] > vie[e]
  PROVE  ReponsesOK'
<1>1. \A m \in reseau' : m.type = "reponse" => m \in reseau
  OBVIOUS
<1>2. \A m \in reseau : m.type = "reponse" => m.de \in Bouts /\ m.vie \in Nat
  BY MessageType, LesBornes DEF TypeOK
<1>3. \A e \in Bouts : NbReponses(e)' = NbReponses(e)
  <2>1. ASSUME NEW e \in Bouts
        PROVE  {m \in reseau' : m.type = "reponse" /\ m.de = e} = {m \in reseau : m.type = "reponse" /\ m.de = e}
    BY <1>1
  <2> QED  BY <2>1 DEF NbReponses
<1>4. ASSUME NEW m \in reseau', m.type = "reponse"
      PROVE  /\ m.cle.par = Autre(m.de) /\ m.vie <= vie'[m.de]
             /\ m.vie = vie'[m.de] => m.cle.horo <= dernierHorodatage'[m.de]
             /\ m.cle.rep \in 1 .. NbReponses(m.de)'
  <2>1. m \in reseau /\ m.de \in Bouts /\ m.vie \in Nat
    BY <1>1, <1>2, <1>4
  <2>2. /\ m.cle.par = Autre(m.de) /\ m.vie <= vie[m.de]
        /\ m.vie = vie[m.de] => m.cle.horo <= dernierHorodatage[m.de]
        /\ m.cle.rep \in 1 .. NbReponses(m.de)
    BY <1>4, <2>1 DEF ReponsesOK
  <2> QED  BY <1>3, <2>1, <2>2
<1>5. InitiationUneFois'
  BY <1>1 DEF ReponsesOK, InitiationUneFois
<1> QED  BY <1>1, <1>4, <1>5 DEF ReponsesOK

\* A step that sends nothing, and may start an end again.
LEMMA ReponsesMemes ==
  ASSUME TypeOK, ReponsesOK, reseau' = reseau,
         \A e \in Bouts : /\ vie[e] \in Nat /\ vie'[e] \in Nat
                          /\ \/ vie'[e] = vie[e] /\ dernierHorodatage'[e] = dernierHorodatage[e]
                             \/ vie'[e] > vie[e]
  PROVE  ReponsesOK'
<1> DEFINE envois == {}
<1>1. reseau' = reseau \cup envois /\ \A m \in envois : m.type # "reponse"
  OBVIOUS
<1> HIDE DEF envois
<1> QED  BY <1>1, ReponsesGardees

\* There is room for one more answer while a newer initiation comes: the
\* answers of an engine differ by its life or by the date of the initiation.
LEMMA RangLibre ==
  ASSUME Socle, NEW e \in Bouts, NEW h \in Horodatages, h > dernierHorodatage[e]
  PROVE  NbReponses(e) \in Nat /\ NbReponses(e) + 1 \in Reponses
<1> DEFINE R == {m \in reseau : m.type = "reponse" /\ m.de = e}
           P == (0 .. MaxV) \X (1 .. MaxI)
           F == [m \in R |-> <<m.vie, m.cle.horo>>]
<1>1. TypeOK /\ IsFiniteSet(reseau) /\ ReponsesOK
  BY DEF Socle
<1>2. IsFiniteSet(R) /\ Cardinality(R) \in Nat
  BY <1>1, FS_Subset, FS_CardinalityType
<1>3. IsFiniteSet(P) /\ Cardinality(P) = (MaxV + 1) * MaxI
  <2>1. IsFiniteSet(0 .. MaxV) /\ Cardinality(0 .. MaxV) = MaxV + 1
    BY LesBornes, FS_Interval
  <2>2. IsFiniteSet(1 .. MaxI) /\ Cardinality(1 .. MaxI) = MaxI
    BY LesBornes, FS_Interval
  <2> DEFINE A == 0 .. MaxV
             B == 1 .. MaxI
  <2>3. IsFiniteSet(A) /\ IsFiniteSet(B) /\ Cardinality(A) = MaxV + 1 /\ Cardinality(B) = MaxI
    BY <2>1, <2>2
  <2>4. P = A \X B
    OBVIOUS
  <2> HIDE DEF A, B, P
  <2> QED  BY <2>3, <2>4, FS_Product
<1>4. ASSUME NEW m \in R
      PROVE  /\ m.vie \in 0 .. MaxV /\ m.cle.horo \in 1 .. MaxI
             /\ m.cle.par = Autre(e) /\ (m.vie = vie[e] => m.cle.horo <= dernierHorodatage[e])
  <2>1. m \in Messages /\ m.type = "reponse" /\ m.de = e
    BY <1>1 DEF TypeOK
  <2>2. m.cle \in Cles /\ m.vie \in 0 .. MaxV
    BY <2>1, MessageType
  <2> QED  BY <1>1, <2>1, <2>2, LesBornes DEF ReponsesOK, Cles
<1>5. h \in Nat /\ dernierHorodatage[e] \in Nat /\ vie[e] \in 0 .. MaxV /\ h \in 1 .. MaxI
  <2>1. vie[e] \in Nat /\ vie[e] <= MaxVies[e] /\ dernierHorodatage[e] \in Horodatages \cup {0}
    BY <1>1 DEF TypeOK
  <2> QED  BY <2>1, LesBornes
<1>6. <<vie[e], h>> \in P
  BY <1>5
<1>7. F \in [R -> P \ {<<vie[e], h>>}]
  <2>1. ASSUME NEW m \in R
        PROVE  <<m.vie, m.cle.horo>> \in P /\ <<m.vie, m.cle.horo>> # <<vie[e], h>>
    BY <1>4, <1>5
  <2> QED  BY <2>1
<1>8. ASSUME NEW m1 \in R, NEW m2 \in R, F[m1] = F[m2]
      PROVE  m1 = m2
  <2>1. m1.vie = m2.vie /\ m1.cle.horo = m2.cle.horo /\ m1.cle.par = m2.cle.par /\ m1.de = m2.de
    BY <1>4, <1>8
  <2> QED  BY <1>1, <2>1 DEF ReponsesOK, InitiationUneFois
<1>9. IsFiniteSet(P \ {<<vie[e], h>>}) /\ Cardinality(P \ {<<vie[e], h>>}) = (MaxV + 1) * MaxI - 1
  <2> HIDE DEF P
  <2> QED  BY <1>3, <1>6, FS_RemoveElement
<1>10. F \in Injection(R, P \ {<<vie[e], h>>})
  <2> HIDE DEF F, P, R
  <2>1. IsInjective(F)
    BY <1>7, <1>8 DEF IsInjective
  <2> QED  BY <1>7, <2>1 DEF Injection
<1>11. Cardinality(R) <= (MaxV + 1) * MaxI - 1
  <2> HIDE DEF F, P, R
  <2> QED  BY <1>9, <1>10, FS_Injection
<1>12. (MaxV + 1) * MaxI = MaxI * (MaxV + 1) /\ (MaxV + 1) * MaxI \in Nat
  BY LesBornes
<1>13. NbReponses(e) = Cardinality(R)
  BY DEF NbReponses
<1> HIDE DEF R
<1> DEFINE K == (MaxV + 1) * MaxI
<1>14. Reponses = 1 .. K /\ K \in Nat /\ Cardinality(R) <= K - 1
  BY <1>11, <1>12, LesBornes
<1> HIDE DEF K
<1> QED  BY <1>2, <1>13, <1>14

-----------------------------------------------------------------------------
(* What each action does, without its LETs. *)

Garde(s) == IF Jeune(s) THEN s ELSE Nulle
Finies(e) == {Places(e)[k].locale : k \in {j \in 1 .. 3 : Places(e)[j] # Nulle /\ ~Jeune(Places(e)[j])}}

LEMMA PlaceType ==
  ASSUME TypeOK, NEW e \in Bouts
  PROVE  /\ courante[e] \in Sessions \cup {Nulle} /\ precedente[e] \in Sessions \cup {Nulle}
         /\ suivante[e] \in Sessions \cup {Nulle}
BY DEF TypeOK

LEMMA EnvoyerClairEffet ==
  ASSUME TypeOK, IsFiniteSet(reseau), NEW e \in Bouts, EnvoyerClair(e)
  PROVE  /\ \E tous : Courants(e, tous) /\ reseau' = reseau \cup tous
         /\ Lance(e, indices[e]) \/ Reste(e, indices[e])
         /\ attente' \in [Bouts -> 0 .. MaxAttente]
         /\ UNCHANGED <<temps, courante, precedente, suivante, dernierHorodatage, recus, enCours,
                        vie, lieu, point>>
<1>1. UNCHANGED <<temps, courante, precedente, suivante, dernierHorodatage, recus, enCours,
                  vie, lieu, point>>
  BY DEF EnvoyerClair
<1>2. attente' \in [Bouts -> 0 .. MaxAttente]
  <2>1. attente \in [Bouts -> 0 .. MaxAttente] /\ MaxAttente \in Nat
    BY BornesAssumption DEF TypeOK
  <2>2. Attendre(e) => attente' \in [Bouts -> 0 .. MaxAttente]
    BY <2>1 DEF Attendre
  <2> QED  BY <2>1, <2>2 DEF EnvoyerClair
<1>3. CASE ~Jeune(courante[e])
  <2>1. Tenter(e, indices[e], {})
    BY <1>3 DEF EnvoyerClair
  <2> QED  BY <1>1, <1>2, <2>1, CourantsVide, TenterEffet
<1>4. CASE Jeune(courante[e])
  <2> DEFINE envois == Suivant(e, courante[e])
  <2>1. utilisable(e, courante[e]) /\ courante[e] \in Sessions
    BY <1>4, PlaceType DEF EnvoyerClair, Jeune
  <2>2. Courants(e, envois)
    BY <1>1, <2>1, CourantsSuivant
  <2>3. Tenter(e, indices[e], envois) \/ SansPoignee(e, indices[e], envois)
    BY <1>4 DEF EnvoyerClair
  <2> HIDE DEF envois
  <2>4. CASE Tenter(e, indices[e], envois)
    BY <1>1, <1>2, <2>2, <2>4, TenterEffet
  <2>5. CASE SansPoignee(e, indices[e], envois)
    BY <1>1, <1>2, <2>2, <2>5 DEF SansPoignee, Reste
  <2> QED  BY <2>3, <2>4, <2>5
<1> QED  BY <1>3, <1>4

LEMMA MinuterieEffet ==
  ASSUME TypeOK, IsFiniteSet(reseau), NEW e \in Bouts, Minuterie(e)
  PROVE  /\ \E tous : Courants(e, tous) /\ reseau' = reseau \cup tous
         /\ Lance(e, indices[e] \ Finies(e)) \/ Reste(e, indices[e] \ Finies(e))
         /\ courante' = [courante EXCEPT ![e] = Garde(courante[e])]
         /\ precedente' = [precedente EXCEPT ![e] = Garde(precedente[e])]
         /\ suivante' = [suivante EXCEPT ![e] = Garde(suivante[e])]
         /\ attente' \in [Bouts -> 0 .. MaxAttente]
         /\ UNCHANGED <<temps, dernierHorodatage, recus, enCours, vie, lieu, point>>
<1> DEFINE c == Garde(courante[e])
           table == indices[e] \ Finies(e)
<1>1. /\ courante' = [courante EXCEPT ![e] = Garde(courante[e])]
      /\ precedente' = [precedente EXCEPT ![e] = Garde(precedente[e])]
      /\ suivante' = [suivante EXCEPT ![e] = Garde(suivante[e])]
      /\ UNCHANGED <<temps, dernierHorodatage, recus, enCours, vie, lieu, point>>
  BY DEF Minuterie, Garde
<1>2. PICK envois \in {{}} \cup (IF c # Nulle /\ utilisable(e, c) THEN {Suivant(e, c)} ELSE {}) :
        Tenter(e, table, envois) \/ SansPoignee(e, table, envois)
  BY DEF Minuterie, Garde, Finies
<1>3. attente' \in [Bouts -> 0 .. MaxAttente]
  <2>1. attente \in [Bouts -> 0 .. MaxAttente] /\ MaxAttente \in Nat
    BY BornesAssumption DEF TypeOK
  <2>2. attente' = attente \/ attente' = [attente EXCEPT ![e] = 0]
    BY DEF Minuterie
  <2> QED  BY <2>1, <2>2
<1>4. Courants(e, envois)
  <2>1. CASE envois = {}
    BY <2>1, CourantsVide
  <2>2. CASE c # Nulle /\ utilisable(e, c) /\ envois = Suivant(e, c)
    <3>1. c \in Sessions
      BY <2>2, PlaceType DEF Garde
    <3>2. courante'[e] = c
      BY <1>1 DEF TypeOK
    <3> HIDE DEF c
    <3> QED  BY <2>2, <3>1, <3>2, CourantsSuivant
  <2> QED  BY <1>2, <2>1, <2>2
<1> HIDE DEF table
<1>5. CASE Tenter(e, table, envois)
  <2>1. (\E tous : Courants(e, tous) /\ reseau' = reseau \cup tous) /\ (Lance(e, table) \/ Reste(e, table))
    BY <1>4, <1>5, TenterEffet
  <2> QED  BY <1>1, <1>3, <2>1 DEF table
<1>6. CASE SansPoignee(e, table, envois)
  <2>1. (\E tous : Courants(e, tous) /\ reseau' = reseau \cup tous) /\ (Lance(e, table) \/ Reste(e, table))
    BY <1>4, <1>6 DEF SansPoignee, Reste
  <2> QED  BY <1>1, <1>3, <2>1 DEF table
<1> QED  BY <1>2, <1>5, <1>6

\* The session an answer opens.
LEMMA SessionOuverteType ==
  ASSUME TypeOK, NEW m \in reseau, m.type = "reponse"
  PROVE  SessionOuverte(m) \in Sessions
<1>1. m \in Messages /\ temps \in 0 .. MaxTemps
  BY DEF TypeOK
<1>2. m.cle \in Cles /\ m.locale \in Indices /\ m.dest \in Indices
  BY <1>1, MessageType
<1> QED  BY <1>1, <1>2 DEF SessionOuverte, Sessions

LEMMA RecevoirReponseEffet ==
  ASSUME TypeOK, NEW e \in Bouts, RecevoirReponse(e)
  PROVE  \E m \in reseau :
           /\ m.type = "reponse" /\ m.de = Autre(e) /\ SessionOuverte(m) \in Sessions
           /\ enCours[e] = Nulle
           /\ poignee[e] # Nulle /\ poignee[e].indice = m.dest
           /\ m.cle.par = e /\ m.cle.horo = poignee[e].horo
           /\ indices' = [indices EXCEPT ![e] = Sans(indices[e], precedente[e])]
           /\ precedente' = [precedente EXCEPT ![e] = courante[e]]
           /\ courante' = [courante EXCEPT ![e] = SessionOuverte(m)]
           /\ poignee' = [poignee EXCEPT ![e] = Nulle]
           /\ attente' = [attente EXCEPT ![e] = 0]
           /\ \E tous : Courants(e, tous) /\ reseau' = reseau \cup tous
           /\ UNCHANGED <<temps, suivante, dernierHorodatage, recus, enCours, horloge, vie, lieu, point>>
<1>1. PICK m \in Arrives(e, "reponse") :
        /\ enCours[e] = Nulle
        /\ poignee[e] # Nulle /\ poignee[e].indice = m.dest
        /\ m.cle.par = e /\ m.cle.horo = poignee[e].horo
        /\ indices' = [indices EXCEPT ![e] = Sans(indices[e], precedente[e])]
        /\ precedente' = [precedente EXCEPT ![e] = courante[e]]
        /\ courante' = [courante EXCEPT ![e] = SessionOuverte(m)]
        /\ poignee' = [poignee EXCEPT ![e] = Nulle]
        /\ attente' = [attente EXCEPT ![e] = 0]
        /\ reseau' = reseau \cup
             {Donnees(e, SessionOuverte(m), n) : n \in 0 .. (IF attente[e] = 0 THEN 1 ELSE attente[e]) - 1}
        /\ UNCHANGED <<temps, suivante, dernierHorodatage, recus, enCours, horloge, vie, lieu, point>>
  BY DEF RecevoirReponse, Clore
<1>2. m \in reseau /\ m.type = "reponse" /\ m.de = Autre(e)
  BY DEF Arrives
<1> DEFINE s == SessionOuverte(m)
           p == IF attente[e] = 0 THEN 1 ELSE attente[e]
           G == [n \in 0 .. p - 1 |-> Donnees(e, s, n)]
           T == {Donnees(e, s, n) : n \in 0 .. p - 1}
<1>3. s \in Sessions
  BY <1>2, SessionOuverteType
<1>4. p \in Nat /\ p <= MaxPaquets /\ MaxPaquets \in Nat
  BY BornesAssumption DEF TypeOK
<1>5. LieuEnvoi(e) \in Lieux \cup {Nulle} /\ (Mobile(e) => LieuEnvoi(e) \in Lieux)
  BY LieuEnvoiType DEF TypeOK
<1> HIDE DEF p, s
<1>6. IsFiniteSet(T)
  <2>1. G \in Surjection(0 .. p - 1, T)
    BY DEF Surjection
  <2>2. IsFiniteSet(0 .. p - 1)
    BY <1>4, FS_Interval
  <2> HIDE DEF G, T
  <2> QED  BY <2>1, <2>2, FS_Surjection
<1>7. Courants(e, T)
  <2>1. \A n \in 0 .. p - 1 : n \in 0 .. MaxPaquets - 1
    BY <1>4
  <2>2. \A n \in 0 .. p - 1 : /\ Donnees(e, s, n) \in Messages /\ Donnees(e, s, n).type = "donnees"
                              /\ Donnees(e, s, n).de = e /\ Donnees(e, s, n).lieu = LieuEnvoi(e)
    BY <1>3, <1>5, <2>1, DonneesType
  <2>3. \A n \in 0 .. p - 1 : Donnees(e, s, n).cle = s.cle
    BY DEF Donnees
  <2>4. courante'[e] = s /\ s # Nulle
    BY <1>1, <1>3, NulleAssumption DEF s, TypeOK
  <2>5. T \subseteq Messages /\ \A d \in T : d.type # "reponse" /\ d.de = e /\ (Mobile(e) => d.lieu \in Lieux)
                                    /\ d.cle = s.cle
    BY <1>5, <2>2, <2>3
  <2> HIDE DEF T
  <2> QED  BY <1>6, <2>5, <2>4 DEF Courants
<1>8. reseau' = reseau \cup T
  BY <1>1 DEF p, s
<1> QED
  <2> HIDE DEF T
  <2>1. \E tous : Courants(e, tous) /\ reseau' = reseau \cup tous
    BY <1>7, <1>8
  <2> QED  BY <1>1, <1>2, <1>3, <2>1 DEF s

LEMMA FinDonneesEffet ==
  ASSUME TypeOK, IsFiniteSet(reseau), NEW e \in Bouts, FinDonnees(e)
  PROVE  /\ enCours[e] # Nulle /\ enCours[e].session \in Sessions
         /\ enCours[e].msg \in reseau /\ enCours[e].msg \in Messages
         /\ \/ /\ enCours[e].session = suivante[e]
               /\ indices' = [indices EXCEPT ![e] = Sans(indices[e], precedente[e])]
               /\ precedente' = [precedente EXCEPT ![e] = courante[e]]
               /\ courante' = [courante EXCEPT ![e] = suivante[e]]
               /\ suivante' = [suivante EXCEPT ![e] = Nulle]
            \/ UNCHANGED <<indices, precedente, courante, suivante>>
         /\ Suivre(e, enCours[e].msg)
         /\ recus' = [recus EXCEPT ![e] = recus[e] \cup {[cle |-> enCours[e].msg.cle, n |-> enCours[e].msg.n]}]
         /\ enCours' = [enCours EXCEPT ![e] = Nulle]
         /\ \E tous : Courants(e, tous) /\ reseau' = reseau \cup tous
         /\ UNCHANGED <<temps, poignee, dernierHorodatage, attente, horloge, vie, lieu>>
<1> DEFINE s == enCours[e].session
           m == enCours[e].msg
           promue == s = suivante[e]
           c == IF promue THEN s ELSE courante[e]
<1>1. enCours[e] \in [session : Sessions, msg : Messages] /\ enCours[e] # Nulle /\ m \in reseau
  BY DEF FinDonnees, TypeOK
<1>2. s \in Sessions /\ m \in Messages
  BY <1>1
<1>3. /\ recus' = [recus EXCEPT ![e] = recus[e] \cup {[cle |-> m.cle, n |-> m.n]}]
      /\ indices' = IF promue THEN [indices EXCEPT ![e] = Sans(indices[e], precedente[e])] ELSE indices
      /\ precedente' = IF promue THEN [precedente EXCEPT ![e] = courante[e]] ELSE precedente
      /\ courante' = [courante EXCEPT ![e] = c]
      /\ suivante' = IF promue THEN [suivante EXCEPT ![e] = Nulle] ELSE suivante
      /\ Suivre(e, m)
      /\ enCours' = [enCours EXCEPT ![e] = Nulle]
      /\ UNCHANGED <<temps, poignee, dernierHorodatage, attente, horloge, vie, lieu>>
  BY DEF FinDonnees, Promue
<1>4. \/ UNCHANGED reseau
      \/ /\ e \notin Actifs /\ c # Nulle /\ utilisable(e, c)
         /\ reseau' = reseau \cup {[d EXCEPT !.lieu = point'] : d \in Suivant(e, c)}
  BY DEF FinDonnees, Promue
<1> HIDE DEF s, m
<1>5. \E tous : Courants(e, tous) /\ reseau' = reseau \cup tous
  <2>1. CASE UNCHANGED reseau
    BY <2>1, CourantsVide
  <2>2. CASE /\ e \notin Actifs /\ c # Nulle /\ utilisable(e, c)
             /\ reseau' = reseau \cup {[d EXCEPT !.lieu = point'] : d \in Suivant(e, c)}
    <3>1. c \in Sessions
      BY <1>2, <2>2, PlaceType
    <3>2. LieuEnvoi(e) \in Lieux \cup {Nulle}
      BY LieuEnvoiType DEF TypeOK
    <3>3. courante'[e] = c /\ c # Nulle
      BY <1>3, <2>2 DEF TypeOK
    <3> HIDE DEF c
    <3>4. PICK d \in Messages : /\ Suivant(e, c) = {d} /\ d = Donnees(e, c, Compteur(e, c))
                                /\ d.type = "donnees" /\ d.de = e /\ d.cle = c.cle
      BY <2>2, <3>1, <3>2, SuivantType
    <3>5. point' \in Lieux \cup {Nulle}
      <4>1. m.lieu \in Lieux \cup {Nulle} /\ point \in Lieux \cup {Nulle}
        BY <1>2, MessageType DEF TypeOK
      <4> QED  BY <1>3, <4>1 DEF Suivre
    <3> DEFINE x == [d EXCEPT !.lieu = point']
    <3>6. x \in Messages /\ x.type = "donnees" /\ x.de = e /\ x.cle = c.cle
      <4>1. d \in [type : {"donnees"}, de : Bouts, cle : Cles, n : 0 .. MaxPaquets - 1, dest : Indices,
                   lieu : Lieux \cup {Nulle}]
        BY <3>4 DEF Messages
      <4>2. x \in [type : {"donnees"}, de : Bouts, cle : Cles, n : 0 .. MaxPaquets - 1, dest : Indices,
                   lieu : Lieux \cup {Nulle}]
        BY <3>5, <4>1
      <4> QED  BY <3>4, <4>1, <4>2 DEF Messages
    <3>7. reseau' = reseau \cup {x}
      BY <2>2, <3>4
    <3> HIDE DEF x
    <3>8. Courants(e, {x})
      BY <2>2, <3>6, <3>3, FS_Singleton DEF Courants, Mobile
    <3> QED  BY <3>7, <3>8
  <2> QED  BY <1>4, <2>1, <2>2
<1>6. \/ /\ s = suivante[e]
         /\ indices' = [indices EXCEPT ![e] = Sans(indices[e], precedente[e])]
         /\ precedente' = [precedente EXCEPT ![e] = courante[e]]
         /\ courante' = [courante EXCEPT ![e] = suivante[e]]
         /\ suivante' = [suivante EXCEPT ![e] = Nulle]
      \/ UNCHANGED <<indices, precedente, courante, suivante>>
  <2>1. CASE promue
    BY <1>3, <2>1
  <2>2. CASE ~promue
    <3>1. [courante EXCEPT ![e] = courante[e]] = courante
      BY DEF TypeOK
    <3> QED  BY <1>3, <2>2, <3>1
  <2> QED  BY <2>1, <2>2
<1> QED  BY <1>1, <1>2, <1>3, <1>5, <1>6 DEF s, m

\* The answer of e to m, and the session it opens.
Repond(e, m, i) ==
  [type |-> "reponse", de |-> e, cle |-> [par |-> Autre(e), horo |-> m.horo, rep |-> NbReponses(e) + 1],
   locale |-> i, dest |-> m.indice, vie |-> vie[e], lieu |-> m.lieu]
Repondue(e, m, i) ==
  [locale |-> i, distante |-> m.indice,
   cle |-> [par |-> Autre(e), horo |-> m.horo, rep |-> NbReponses(e) + 1],
   initiateur |-> FALSE, creee |-> temps]

LEMMA RecevoirInitiationEffet ==
  ASSUME Socle, NEW e \in Bouts, RecevoirInitiation(e)
  PROVE  \E m \in reseau, i \in Indices :
           /\ m.type = "initiation" /\ m.de = Autre(e) /\ m.horo \in Horodatages
           /\ m.horo > dernierHorodatage[e] /\ i \notin Sans(indices[e], suivante[e])
           /\ m.lieu \in Lieux \cup {Nulle} /\ (Mobile(e) => m.lieu = lieu)
           /\ Repond(e, m, i) \in Messages /\ Repondue(e, m, i) \in Sessions
           /\ indices' = [indices EXCEPT ![e] = Sans(indices[e], suivante[e]) \cup {i}]
           /\ suivante' = [suivante EXCEPT ![e] = Repondue(e, m, i)]
           /\ reseau' = reseau \cup {Repond(e, m, i)}
           /\ dernierHorodatage' = [dernierHorodatage EXCEPT ![e] = m.horo]
           /\ Suivre(e, m)
           /\ enCours[e] = Nulle
           /\ UNCHANGED <<temps, courante, precedente, poignee, attente, recus, enCours, horloge, vie, lieu>>
<1>1. PICK m \in Arrives(e, "initiation") :
        /\ Recente(e, m) /\ enCours[e] = Nulle
        /\ \E i \in Indices \ Sans(indices[e], suivante[e]) :
             /\ indices' = [indices EXCEPT ![e] = Sans(indices[e], suivante[e]) \cup {i}]
             /\ Attend(e, Repondue(e, m, i))
             /\ reseau' = reseau \cup {Repond(e, m, i)}
        /\ dernierHorodatage' = [dernierHorodatage EXCEPT ![e] = m.horo]
        /\ Suivre(e, m)
        /\ UNCHANGED <<temps, precedente, poignee, attente, recus, enCours, horloge, vie, lieu>>
  BY DEF RecevoirInitiation, Repond, Repondue
<1>2. PICK i \in Indices \ Sans(indices[e], suivante[e]) :
        /\ indices' = [indices EXCEPT ![e] = Sans(indices[e], suivante[e]) \cup {i}]
        /\ Attend(e, Repondue(e, m, i))
        /\ reseau' = reseau \cup {Repond(e, m, i)}
  BY <1>1
<1>3. /\ m \in reseau /\ m.type = "initiation" /\ m.de = Autre(e) /\ (Mobile(e) => m.lieu = lieu)
      /\ m.horo > dernierHorodatage[e]
  BY <1>1 DEF Arrives, Recente
<1>4. m \in Messages
  BY <1>3 DEF Socle, TypeOK
<1>5. m.horo \in Horodatages /\ m.indice \in Indices /\ m.lieu \in Lieux \cup {Nulle}
  BY <1>3, <1>4, MessageType
<1>6. NbReponses(e) + 1 \in Reponses
  BY <1>3, <1>5, RangLibre
<1>7. Autre(e) \in Bouts /\ temps \in 0 .. MaxTemps /\ vie[e] \in 0 .. MaxV
  <2>1. vie[e] \in Nat /\ vie[e] <= MaxVies[e] /\ temps \in 0 .. MaxTemps
    BY DEF Socle, TypeOK
  <2>2. MaxVies[e] \in Nat /\ MaxVies[e] <= MaxV /\ MaxV \in Nat
    BY LesBornes
  <2> QED  BY <2>1, <2>2, DeuxBouts
<1> DEFINE cle == [par |-> Autre(e), horo |-> m.horo, rep |-> NbReponses(e) + 1]
<1>8. cle \in Cles
  BY <1>5, <1>6, <1>7 DEF Cles
<1> HIDE DEF cle
<1>9. Repondue(e, m, i) \in Sessions
  <2>1. Repondue(e, m, i) = [locale |-> i, distante |-> m.indice, cle |-> cle,
                             initiateur |-> FALSE, creee |-> temps]
    BY DEF Repondue, cle
  <2> QED  BY <1>5, <1>7, <1>8, <2>1 DEF Sessions
<1>10. Repond(e, m, i) \in Messages
  <2>1. Repond(e, m, i) = [type |-> "reponse", de |-> e, cle |-> cle, locale |-> i,
                           dest |-> m.indice, vie |-> vie[e], lieu |-> m.lieu]
    BY DEF Repond, cle
  <2> QED  BY <1>5, <1>7, <1>8, <2>1 DEF Messages, MaxV
<1> QED  BY <1>1, <1>2, <1>3, <1>5, <1>9, <1>10 DEF Attend

-----------------------------------------------------------------------------
(* Types and answers, step by step. *)

LEMMA SocleInit == Init => Socle
<1> SUFFICES ASSUME Init PROVE Socle
  OBVIOUS
<1>1. reseau = {}
  BY DEF Init
<1>2. TypeOK
  BY BornesAssumption, LesBornes DEF Init, TypeOK
<1>3. IsFiniteSet(reseau)
  BY <1>1, FS_EmptySet
<1>4. ReponsesOK
  BY <1>1 DEF ReponsesOK, InitiationUneFois
<1>5. EnCoursOK
  BY DEF Init, EnCoursOK
<1> QED  BY <1>2, <1>3, <1>4, <1>5 DEF Socle

\* A new answer has the next rank, and is the first of its life to its
\* initiation.
LEMMA ReponsesNouvelle ==
  ASSUME Socle, NEW e \in Bouts, NEW r \in Messages, r.type = "reponse", r.de = e,
         r.cle.par = Autre(e), r.cle.horo > dernierHorodatage[e], r.cle.rep = NbReponses(e) + 1,
         r.vie = vie[e], reseau' = reseau \cup {r}, vie' = vie,
         dernierHorodatage' = [dernierHorodatage EXCEPT ![e] = r.cle.horo]
  PROVE  ReponsesOK' /\ IsFiniteSet(reseau')
<1> DEFINE R(f) == {m \in reseau : m.type = "reponse" /\ m.de = f}
<1>1. TypeOK /\ IsFiniteSet(reseau) /\ ReponsesOK
  BY DEF Socle
<1>2. IsFiniteSet(reseau')
  BY <1>1, FS_AddElement
<1>3. \A m \in reseau : m.type = "reponse" => m.de \in Bouts /\ m.vie \in Nat /\ m.cle.horo \in Nat
  <2>1. \A m \in reseau : m.type = "reponse" => m.de \in Bouts /\ m.vie \in 0 .. MaxV /\ m.cle \in Cles
    BY <1>1, MessageType DEF TypeOK
  <2> QED  BY <2>1, LesBornes DEF Cles
<1>4. r.cle.horo \in Nat /\ dernierHorodatage[e] \in Nat /\ vie[e] \in Nat /\ r.cle.horo \in Horodatages
  <2>1. r.cle \in Cles /\ vie[e] \in Nat /\ dernierHorodatage[e] \in Horodatages \cup {0}
    BY <1>1, MessageType DEF TypeOK
  <2> QED  BY <2>1, LesBornes DEF Cles
<1>5. \A f \in Bouts : IsFiniteSet(R(f)) /\ Cardinality(R(f)) \in Nat
  BY <1>1, FS_Subset, FS_CardinalityType
<1>6. NbReponses(e) \in Nat
  BY <1>5 DEF NbReponses
<1>7. r \notin reseau
  BY <1>1, <1>6 DEF ReponsesOK
<1>8. NbReponses(e)' = NbReponses(e) + 1
  <2>1. {m \in reseau' : m.type = "reponse" /\ m.de = e} = R(e) \cup {r} /\ r \notin R(e)
    BY <1>7
  <2>2. NbReponses(e) = Cardinality(R(e))
    BY DEF NbReponses
  <2> HIDE DEF R
  <2>3. Cardinality(R(e) \cup {r}) = Cardinality(R(e)) + 1
    BY <1>5, <2>1, FS_AddElement
  <2> QED  BY <2>1, <2>2, <2>3 DEF NbReponses
<1>9. \A f \in Bouts : f # e => NbReponses(f)' = NbReponses(f)
  <2>1. ASSUME NEW f \in Bouts, f # e
        PROVE  {m \in reseau' : m.type = "reponse" /\ m.de = f} = R(f)
    BY <2>1
  <2> QED  BY <2>1 DEF NbReponses
<1>10. \A f \in Bouts : /\ dernierHorodatage'[f] = IF f = e THEN r.cle.horo ELSE dernierHorodatage[f]
                        /\ dernierHorodatage[f] \in Nat
  BY <1>1, LesBornes DEF TypeOK
<1>11. ASSUME NEW m \in reseau', m.type = "reponse"
       PROVE  /\ m.cle.par = Autre(m.de) /\ m.vie <= vie'[m.de]
              /\ m.vie = vie'[m.de] => m.cle.horo <= dernierHorodatage'[m.de]
              /\ m.cle.rep \in 1 .. NbReponses(m.de)'
  <2>1. CASE m = r
    BY <1>4, <1>6, <1>8, <1>10, <2>1
  <2>2. CASE m \in reseau
    <3>1. /\ m.cle.par = Autre(m.de) /\ m.vie <= vie[m.de]
          /\ m.vie = vie[m.de] => m.cle.horo <= dernierHorodatage[m.de]
          /\ m.cle.rep \in 1 .. NbReponses(m.de)
      BY <1>1, <1>11, <2>2 DEF ReponsesOK
    <3>2. m.de \in Bouts /\ m.cle.horo \in Nat
      BY <1>3, <1>11, <2>2
    <3>3. CASE m.de = e
      BY <1>4, <1>6, <1>8, <1>10, <3>1, <3>2, <3>3
    <3>4. CASE m.de # e
      BY <1>9, <1>10, <3>1, <3>2, <3>4
    <3> QED  BY <3>3, <3>4
  <2> QED  BY <2>1, <2>2
<1>12. \A m \in reseau : m.type = "reponse" /\ m.de = e => m.cle.rep # r.cle.rep
  BY <1>1, <1>6 DEF ReponsesOK
<1>13. \A m \in reseau : m.type = "reponse" /\ m.de = e /\ m.vie = r.vie => m.cle.horo # r.cle.horo
  BY <1>1, <1>3, <1>4 DEF ReponsesOK
<1>14. \A m1, m2 \in reseau' :
         m1.type = "reponse" /\ m2.type = "reponse" /\ m1.de = m2.de /\ m1.cle.rep = m2.cle.rep => m1 = m2
  BY <1>1, <1>12 DEF ReponsesOK
<1>15. InitiationUneFois'
  BY <1>1, <1>13 DEF ReponsesOK, InitiationUneFois
<1> QED  BY <1>2, <1>11, <1>14, <1>15 DEF ReponsesOK

LEMMA SansType ==
  ASSUME NEW table \in SUBSET Indices, NEW x
  PROVE  Sans(table, x) \in SUBSET Indices
BY DEF Sans

\* A step that sends no answer and keeps the dates, or restarts an end.
LEMMA SocleCourant ==
  ASSUME Socle, NEW e \in Bouts, NEW tous, Courants(e, tous), reseau' = reseau \cup tous,
         vie' = vie /\ dernierHorodatage' = dernierHorodatage
  PROVE  IsFiniteSet(reseau') /\ reseau' \subseteq Messages /\ ReponsesOK'
<1>1. TypeOK /\ IsFiniteSet(reseau) /\ ReponsesOK
  BY DEF Socle
<1>2. IsFiniteSet(reseau') /\ reseau' \subseteq Messages
  BY <1>1, FS_Union DEF Courants, TypeOK
<1>3. \A f \in Bouts : vie[f] \in Nat
  BY <1>1 DEF TypeOK
<1> QED  BY <1>1, <1>2, <1>3, ReponsesGardees DEF Courants

\* What the first half of recevoirDonnees takes.
LEMMA DebutDonneesEffet ==
  ASSUME TypeOK, NEW e \in Bouts, DebutDonnees(e)
  PROVE  \E m \in reseau, s \in Sessions :
           /\ m.type = "donnees" /\ m.de = Autre(e) /\ m.cle = s.cle /\ m \in Messages
           /\ enCours[e] = Nulle
           /\ enCours' = [enCours EXCEPT ![e] = [session |-> s, msg |-> m]]
           /\ UNCHANGED <<temps, courante, precedente, suivante, poignee, dernierHorodatage, attente,
                          indices, recus, horloge, vie, lieu, point, reseau>>
<1>1. PICK m \in Arrives(e, "donnees"), k \in 1 .. 3 :
        /\ Places(e)[k] # Nulle /\ Places(e)[k].cle = m.cle /\ enCours[e] = Nulle
        /\ enCours' = [enCours EXCEPT ![e] = [session |-> Places(e)[k], msg |-> m]]
        /\ UNCHANGED <<temps, courante, precedente, suivante, poignee, dernierHorodatage, attente,
                       indices, recus, horloge, vie, lieu, point, reseau>>
  BY DEF DebutDonnees
<1>2. Places(e)[k] \in Sessions \cup {Nulle}
  <2>1. k = 1 \/ k = 2 \/ k = 3
    OBVIOUS
  <2>2. Places(e)[1] = courante[e] /\ Places(e)[2] = suivante[e] /\ Places(e)[3] = precedente[e]
    BY DEF Places
  <2> QED  BY <2>1, <2>2, PlaceType
<1>3. m \in reseau /\ m.type = "donnees" /\ m.de = Autre(e) /\ m \in Messages
  BY DEF Arrives, TypeOK
<1> QED  BY <1>1, <1>2, <1>3

LEMMA SoclePas == Socle /\ [Next]_vars => Socle'
<1> SUFFICES ASSUME Socle, [Next]_vars PROVE Socle'
  OBVIOUS
<1>1. TypeOK /\ IsFiniteSet(reseau) /\ ReponsesOK /\ EnCoursOK
  BY DEF Socle
<1>2. ASSUME NEW e \in Bouts, EnvoyerClair(e)
      PROVE  Socle'
  <2>1. /\ Lance(e, indices[e]) \/ Reste(e, indices[e])
        /\ attente' \in [Bouts -> 0 .. MaxAttente]
        /\ UNCHANGED <<temps, courante, precedente, suivante, dernierHorodatage, recus, enCours,
                       vie, lieu, point>>
    BY <1>1, <1>2, EnvoyerClairEffet
  <2>2. PICK tous : Courants(e, tous) /\ reseau' = reseau \cup tous
    BY <1>1, <1>2, EnvoyerClairEffet
  <2>3. indices[e] \in SUBSET Indices
    BY <1>1 DEF TypeOK
  <2>4. /\ indices' \in [Bouts -> SUBSET Indices]
        /\ poignee' \in [Bouts -> [horo : Horodatages, indice : Indices] \cup {Nulle}]
        /\ horloge' \in [Bouts -> Horodatages \cup {0}]
    BY <1>1, <2>1, <2>3, TentativeType
  <2>5. IsFiniteSet(reseau') /\ reseau' \subseteq Messages /\ ReponsesOK'
    BY <2>1, <2>2, SocleCourant
  <2>6. TypeOK'
    BY <1>1, <2>1, <2>2, <2>4, <2>5 DEF TypeOK
  <2>7. EnCoursOK'
    BY <1>1, <2>1 DEF EnCoursOK
  <2> QED  BY <2>5, <2>6, <2>7 DEF Socle
<1>3. ASSUME NEW e \in Bouts, Minuterie(e)
      PROVE  Socle'
  <2>1. /\ Lance(e, indices[e] \ Finies(e)) \/ Reste(e, indices[e] \ Finies(e))
        /\ courante' = [courante EXCEPT ![e] = Garde(courante[e])]
        /\ precedente' = [precedente EXCEPT ![e] = Garde(precedente[e])]
        /\ suivante' = [suivante EXCEPT ![e] = Garde(suivante[e])]
        /\ attente' \in [Bouts -> 0 .. MaxAttente]
        /\ UNCHANGED <<temps, dernierHorodatage, recus, enCours, vie, lieu, point>>
    BY <1>1, <1>3, MinuterieEffet
  <2>2. PICK tous : Courants(e, tous) /\ reseau' = reseau \cup tous
    BY <1>1, <1>3, MinuterieEffet
  <2>3. indices[e] \ Finies(e) \in SUBSET Indices
    BY <1>1 DEF TypeOK
  <2>4. /\ indices' \in [Bouts -> SUBSET Indices]
        /\ poignee' \in [Bouts -> [horo : Horodatages, indice : Indices] \cup {Nulle}]
        /\ horloge' \in [Bouts -> Horodatages \cup {0}]
    BY <1>1, <2>1, <2>3, TentativeType
  <2>5. IsFiniteSet(reseau') /\ reseau' \subseteq Messages /\ ReponsesOK'
    BY <2>1, <2>2, SocleCourant
  <2>6. \A place \in {courante', precedente', suivante'} : place \in [Bouts -> Sessions \cup {Nulle}]
    BY <1>1, <2>1 DEF TypeOK, Garde
  <2>7. TypeOK'
    BY <1>1, <2>1, <2>2, <2>4, <2>5, <2>6 DEF TypeOK
  <2>8. EnCoursOK'
    BY <1>1, <2>1 DEF EnCoursOK
  <2> QED  BY <2>5, <2>7, <2>8 DEF Socle
<1>4. ASSUME NEW e \in Bouts, RecevoirReponse(e)
      PROVE  Socle'
  <2>1. PICK m \in reseau :
          /\ SessionOuverte(m) \in Sessions
          /\ indices' = [indices EXCEPT ![e] = Sans(indices[e], precedente[e])]
          /\ precedente' = [precedente EXCEPT ![e] = courante[e]]
          /\ courante' = [courante EXCEPT ![e] = SessionOuverte(m)]
          /\ poignee' = [poignee EXCEPT ![e] = Nulle]
          /\ attente' = [attente EXCEPT ![e] = 0]
          /\ \E tous : Courants(e, tous) /\ reseau' = reseau \cup tous
          /\ UNCHANGED <<temps, suivante, dernierHorodatage, recus, enCours, horloge, vie, lieu, point>>
    BY <1>1, <1>4, RecevoirReponseEffet
  <2>2. PICK tous : Courants(e, tous) /\ reseau' = reseau \cup tous
    BY <2>1
  <2>3. IsFiniteSet(reseau') /\ reseau' \subseteq Messages /\ ReponsesOK'
    BY <2>1, <2>2, SocleCourant
  <2>4. Sans(indices[e], precedente[e]) \in SUBSET Indices
    BY <1>1, SansType DEF TypeOK
  <2>5. \A place \in {courante', precedente', suivante'} : place \in [Bouts -> Sessions \cup {Nulle}]
    BY <1>1, <2>1 DEF TypeOK
  <2>6. attente' \in [Bouts -> 0 .. MaxAttente]
    BY <1>1, <2>1, BornesAssumption DEF TypeOK
  <2>7. TypeOK'
    BY <1>1, <2>1, <2>2, <2>3, <2>4, <2>5, <2>6 DEF TypeOK
  <2>8. EnCoursOK'
    BY <1>1, <2>1 DEF EnCoursOK
  <2> QED  BY <2>3, <2>7, <2>8 DEF Socle
<1>5. ASSUME NEW e \in Bouts, FinDonnees(e)
      PROVE  Socle'
  <2> DEFINE paire == [cle |-> enCours[e].msg.cle, n |-> enCours[e].msg.n]
  <2>1. /\ enCours[e].msg \in Messages /\ enCours[e] # Nulle
        /\ \/ /\ indices' = [indices EXCEPT ![e] = Sans(indices[e], precedente[e])]
              /\ precedente' = [precedente EXCEPT ![e] = courante[e]]
              /\ courante' = [courante EXCEPT ![e] = suivante[e]]
              /\ suivante' = [suivante EXCEPT ![e] = Nulle]
           \/ UNCHANGED <<indices, precedente, courante, suivante>>
        /\ Suivre(e, enCours[e].msg)
        /\ recus' = [recus EXCEPT ![e] = recus[e] \cup {paire}]
        /\ enCours' = [enCours EXCEPT ![e] = Nulle]
        /\ UNCHANGED <<temps, poignee, dernierHorodatage, attente, horloge, vie, lieu>>
    BY <1>1, <1>5, FinDonneesEffet
  <2>2. PICK tous : Courants(e, tous) /\ reseau' = reseau \cup tous
    BY <1>1, <1>5, FinDonneesEffet
  <2>3. IsFiniteSet(reseau') /\ reseau' \subseteq Messages /\ ReponsesOK'
    BY <2>1, <2>2, SocleCourant
  <2>4. paire \in [cle : Cles, n : 0 .. MaxPaquets - 1]
    BY <1>1, <2>1, MessageType DEF EnCoursOK
  <2> HIDE DEF paire
  <2>5. recus' \in [Bouts -> SUBSET [cle : Cles, n : 0 .. MaxPaquets - 1]]
    BY <1>1, <2>1, <2>4 DEF TypeOK
  <2>6. Sans(indices[e], precedente[e]) \in SUBSET Indices
    BY <1>1, SansType DEF TypeOK
  <2>7. /\ indices' \in [Bouts -> SUBSET Indices]
        /\ \A place \in {courante', precedente', suivante'} : place \in [Bouts -> Sessions \cup {Nulle}]
    <3>1. /\ indices \in [Bouts -> SUBSET Indices]
          /\ courante \in [Bouts -> Sessions \cup {Nulle}]
          /\ precedente \in [Bouts -> Sessions \cup {Nulle}]
          /\ suivante \in [Bouts -> Sessions \cup {Nulle}]
      BY <1>1 DEF TypeOK
    <3>2. CASE /\ indices' = [indices EXCEPT ![e] = Sans(indices[e], precedente[e])]
               /\ precedente' = [precedente EXCEPT ![e] = courante[e]]
               /\ courante' = [courante EXCEPT ![e] = suivante[e]]
               /\ suivante' = [suivante EXCEPT ![e] = Nulle]
      <4>1. indices' \in [Bouts -> SUBSET Indices]
        BY <2>6, <3>1, <3>2
      <4>2. courante' \in [Bouts -> Sessions \cup {Nulle}]
        BY <3>1, <3>2
      <4>3. precedente' \in [Bouts -> Sessions \cup {Nulle}] /\ suivante' \in [Bouts -> Sessions \cup {Nulle}]
        BY <3>1, <3>2
      <4> QED  BY <4>1, <4>2, <4>3
    <3>3. CASE UNCHANGED <<indices, precedente, courante, suivante>>
      BY <3>1, <3>3
    <3> QED  BY <2>1, <3>2, <3>3
  <2>8. point' \in Lieux \cup {Nulle}
    BY <1>1, <2>1, MessageType DEF TypeOK, Suivre
  <2>9. TypeOK'
    BY <1>1, <2>1, <2>2, <2>3, <2>5, <2>7, <2>8 DEF TypeOK
  <2>10. EnCoursOK'
    BY <1>1, <2>1 DEF EnCoursOK, TypeOK
  <2> QED  BY <2>3, <2>9, <2>10 DEF Socle
<1>6. ASSUME NEW e \in Bouts, RecevoirInitiation(e)
      PROVE  Socle'
  <2>1. PICK m \in reseau, i \in Indices :
          /\ m.horo \in Horodatages
          /\ m.horo > dernierHorodatage[e] /\ m.lieu \in Lieux \cup {Nulle}
          /\ Repond(e, m, i) \in Messages /\ Repondue(e, m, i) \in Sessions
          /\ indices' = [indices EXCEPT ![e] = Sans(indices[e], suivante[e]) \cup {i}]
          /\ suivante' = [suivante EXCEPT ![e] = Repondue(e, m, i)]
          /\ reseau' = reseau \cup {Repond(e, m, i)}
          /\ dernierHorodatage' = [dernierHorodatage EXCEPT ![e] = m.horo]
          /\ Suivre(e, m)
          /\ UNCHANGED <<temps, courante, precedente, poignee, attente, recus, enCours, horloge, vie, lieu>>
    BY <1>6, RecevoirInitiationEffet
  <2> DEFINE x == Repond(e, m, i)
  <2>2. /\ x.type = "reponse" /\ x.de = e /\ x.cle.par = Autre(e) /\ x.cle.horo = m.horo
        /\ x.cle.rep = NbReponses(e) + 1 /\ x.vie = vie[e]
    BY DEF Repond
  <2> HIDE DEF x
  <2>3. x \in Messages /\ reseau' = reseau \cup {x}
    BY <2>1 DEF x
  <2>4. ReponsesOK' /\ IsFiniteSet(reseau')
    BY <2>1, <2>2, <2>3, ReponsesNouvelle
  <2>5. Sans(indices[e], suivante[e]) \cup {i} \in SUBSET Indices
    BY <1>1, SansType DEF TypeOK
  <2>6. \A place \in {courante', precedente', suivante'} : place \in [Bouts -> Sessions \cup {Nulle}]
    BY <1>1, <2>1 DEF TypeOK
  <2>7. point' \in Lieux \cup {Nulle}
    BY <1>1, <2>1 DEF TypeOK, Suivre
  <2>8. TypeOK'
    BY <1>1, <2>1, <2>3, <2>5, <2>6, <2>7 DEF TypeOK
  <2>9. EnCoursOK'
    BY <1>1, <2>1 DEF EnCoursOK
  <2> QED  BY <2>4, <2>8, <2>9 DEF Socle
<1>7. ASSUME NEW e \in Bouts, DebutDonnees(e)
      PROVE  Socle'
  <2>1. PICK m \in reseau, s \in Sessions :
          /\ m.type = "donnees" /\ m.de = Autre(e) /\ m.cle = s.cle /\ m \in Messages
          /\ enCours' = [enCours EXCEPT ![e] = [session |-> s, msg |-> m]]
          /\ UNCHANGED <<temps, courante, precedente, suivante, poignee, dernierHorodatage, attente,
                         indices, recus, horloge, vie, lieu, point, reseau>>
    BY <1>1, <1>7, DebutDonneesEffet
  <2>2. TypeOK'
    BY <1>1, <2>1 DEF TypeOK
  <2>3. EnCoursOK'
    BY <1>1, <2>1 DEF EnCoursOK, TypeOK
  <2>4. IsFiniteSet(reseau') /\ ReponsesOK'
    BY <1>1, <2>1, CourantsVide, SocleCourant
  <2> QED  BY <2>2, <2>3, <2>4 DEF Socle
<1>8. ASSUME NEW e \in Bouts, Redemarrer(e)
      PROVE  Socle'
  <2>1. TypeOK'
    <3>1. vie' \in [Bouts -> Nat] /\ \A f \in Bouts : vie'[f] <= MaxVies[f]
      <4>1. vie[e] < MaxVies[e] /\ vie' = [vie EXCEPT ![e] = vie[e] + 1]
        BY <1>8 DEF Redemarrer
      <4>2. vie \in [Bouts -> Nat] /\ (\A f \in Bouts : vie[f] <= MaxVies[f]) /\ MaxVies[e] \in Nat
        BY <1>1, LesBornes DEF TypeOK
      <4> QED  BY <4>1, <4>2
    <3>2. attente' \in [Bouts -> 0 .. MaxAttente]
      BY <1>1, <1>8, BornesAssumption DEF Redemarrer, TypeOK
    <3>3. /\ \A place \in {courante', precedente', suivante'} : place \in [Bouts -> Sessions \cup {Nulle}]
          /\ poignee' \in [Bouts -> [horo : Horodatages, indice : Indices] \cup {Nulle}]
          /\ dernierHorodatage' \in [Bouts -> Horodatages \cup {0}]
          /\ indices' \in [Bouts -> SUBSET Indices]
          /\ recus' \in [Bouts -> SUBSET [cle : Cles, n : 0 .. MaxPaquets - 1]]
          /\ enCours' \in [Bouts -> [session : Sessions, msg : Messages] \cup {Nulle}]
          /\ \A f \in Bouts : enCours'[f] # Nulle => enCours'[f].msg \in reseau'
          /\ point' \in Lieux \cup {Nulle}
          /\ UNCHANGED <<temps, horloge, lieu, reseau>>
      BY <1>1, <1>8 DEF Redemarrer, TypeOK
    <3> QED  BY <1>1, <3>1, <3>2, <3>3 DEF TypeOK
  <2>2. EnCoursOK'
    BY <1>1, <1>8 DEF Redemarrer, EnCoursOK, TypeOK
  <2>3. \A f \in Bouts : /\ vie[f] \in Nat /\ vie'[f] \in Nat
                         /\ \/ vie'[f] = vie[f] /\ dernierHorodatage'[f] = dernierHorodatage[f]
                            \/ vie'[f] > vie[f]
    <3>1. /\ vie' = [vie EXCEPT ![e] = vie[e] + 1]
          /\ dernierHorodatage' = [dernierHorodatage EXCEPT ![e] = 0]
      BY <1>8 DEF Redemarrer
    <3>2. vie \in [Bouts -> Nat] /\ DOMAIN dernierHorodatage = Bouts
      BY <1>1 DEF TypeOK
    <3> QED  BY <3>1, <3>2
  <2>4. reseau' = reseau
    BY <1>8 DEF Redemarrer
  <2>5. ReponsesOK'
    BY <1>1, <2>3, <2>4, ReponsesMemes
  <2> QED  BY <1>1, <2>1, <2>2, <2>4, <2>5 DEF Socle
<1>9. CASE Tic \/ Deplacer \/ UNCHANGED vars
  <2>1. /\ UNCHANGED <<courante, precedente, suivante, poignee, dernierHorodatage, attente,
                       indices, recus, enCours, horloge, vie, point, reseau>>
        /\ temps' \in 0 .. MaxTemps /\ lieu' \in Lieux
    BY <1>1, <1>9, BornesAssumption DEF Tic, Deplacer, vars, TypeOK
  <2>2. TypeOK'
    BY <1>1, <2>1 DEF TypeOK
  <2>3. EnCoursOK'
    BY <1>1, <2>1 DEF EnCoursOK
  <2>4. \A f \in Bouts : /\ vie[f] \in Nat /\ vie'[f] \in Nat
                         /\ \/ vie'[f] = vie[f] /\ dernierHorodatage'[f] = dernierHorodatage[f]
                            \/ vie'[f] > vie[f]
    BY <1>1, <2>1 DEF TypeOK
  <2>5. reseau' = reseau
    BY <2>1
  <2>6. ReponsesOK'
    BY <1>1, <2>4, <2>5, ReponsesMemes
  <2> QED  BY <1>1, <2>1, <2>2, <2>3, <2>6 DEF Socle
<1> QED
  BY <1>2, <1>3, <1>4, <1>5, <1>6, <1>7, <1>8, <1>9 DEF Next, Bout

LEMMA ToujoursSocle == Spec => []Socle
<1> QED  BY SocleInit, SoclePas, PTL DEF Spec

\* Every variable keeps its type, for any number of initiations, packets and
\* restarts (moteur.go:69-166, session.go:14-29).
THEOREM TunnelType == Spec => []TypeOK
<1>1. Socle => TypeOK
  BY DEF Socle
<1> QED  BY <1>1, ToujoursSocle, PTL

\* An initiation is answered at most once by a running engine, whatever the
\* network repeats and however often either end restarts (moteur.go:583-588).
THEOREM TunnelInitiationUneFois == Spec => []InitiationUneFois
<1>1. Socle => InitiationUneFois
  BY DEF Socle, ReponsesOK
<1> QED  BY <1>1, ToujoursSocle, PTL

-----------------------------------------------------------------------------
(* The steps, by what they do to the sessions. *)

Envoie(e) == \E tous : Courants(e, tous) /\ reseau' = reseau \cup tous

PasEnvoi(e) ==
  /\ Envoie(e)
  /\ Lance(e, indices[e]) \/ Reste(e, indices[e])
  /\ UNCHANGED <<courante, precedente, suivante, dernierHorodatage, enCours, lieu, point>>

PasMinuterie(e) ==
  /\ Envoie(e)
  /\ Lance(e, indices[e] \ Finies(e)) \/ Reste(e, indices[e] \ Finies(e))
  /\ courante' = [courante EXCEPT ![e] = Garde(courante[e])]
  /\ precedente' = [precedente EXCEPT ![e] = Garde(precedente[e])]
  /\ suivante' = [suivante EXCEPT ![e] = Garde(suivante[e])]
  /\ UNCHANGED <<dernierHorodatage, enCours, lieu, point>>

\* The handshake of e is answered by m.
PasReponse(e) ==
  /\ Envoie(e)
  /\ \E m \in reseau :
       /\ m.type = "reponse" /\ m.de = Autre(e) /\ SessionOuverte(m) \in Sessions
       /\ poignee[e] # Nulle /\ poignee[e].indice = m.dest
       /\ m.cle.par = e /\ m.cle.horo = poignee[e].horo
       /\ indices' = [indices EXCEPT ![e] = Sans(indices[e], precedente[e])]
       /\ precedente' = [precedente EXCEPT ![e] = courante[e]]
       /\ courante' = [courante EXCEPT ![e] = SessionOuverte(m)]
       /\ poignee' = [poignee EXCEPT ![e] = Nulle]
  /\ UNCHANGED <<suivante, dernierHorodatage, enCours, horloge, lieu, point>>

\* The next session of e becomes the current one.
PasPromotion(e) ==
  /\ Envoie(e)
  /\ enCours[e] # Nulle /\ enCours[e].session = suivante[e] /\ suivante[e] \in Sessions
  /\ enCours[e].msg \in reseau
  /\ indices' = [indices EXCEPT ![e] = Sans(indices[e], precedente[e])]
  /\ precedente' = [precedente EXCEPT ![e] = courante[e]]
  /\ courante' = [courante EXCEPT ![e] = suivante[e]]
  /\ suivante' = [suivante EXCEPT ![e] = Nulle]
  /\ Suivre(e, enCours[e].msg)
  /\ UNCHANGED <<poignee, dernierHorodatage, horloge, lieu>>

\* e answers m.
PasInitiation(e) ==
  /\ \E m \in reseau, i \in Indices :
       /\ m.type = "initiation" /\ m.de = Autre(e) /\ m.horo \in Horodatages
       /\ m.horo > dernierHorodatage[e] /\ i \notin Sans(indices[e], suivante[e])
       /\ Mobile(e) => m.lieu = lieu
       /\ Repond(e, m, i) \in Messages /\ Repondue(e, m, i) \in Sessions
       /\ indices' = [indices EXCEPT ![e] = Sans(indices[e], suivante[e]) \cup {i}]
       /\ suivante' = [suivante EXCEPT ![e] = Repondue(e, m, i)]
       /\ reseau' = reseau \cup {Repond(e, m, i)}
       /\ dernierHorodatage' = [dernierHorodatage EXCEPT ![e] = m.horo]
       /\ Suivre(e, m)
  /\ UNCHANGED <<courante, precedente, poignee, enCours, horloge, lieu>>

PasRedemarrer(e) ==
  /\ courante' = [courante EXCEPT ![e] = Nulle]
  /\ precedente' = [precedente EXCEPT ![e] = Nulle]
  /\ suivante' = [suivante EXCEPT ![e] = Nulle]
  /\ poignee' = [poignee EXCEPT ![e] = Nulle]
  /\ dernierHorodatage' = [dernierHorodatage EXCEPT ![e] = 0]
  /\ indices' = [indices EXCEPT ![e] = {}]
  /\ point' = IF ParRelais \/ e \in Actifs THEN point ELSE Nulle
  /\ UNCHANGED <<horloge, lieu, reseau>>

\* The sessions, the handshakes and the table stay; the point may follow the
\* message e read.
PasNeutre(e) ==
  /\ Envoie(e)
  /\ UNCHANGED <<courante, precedente, suivante, poignee, dernierHorodatage, indices, horloge>>
  /\ \/ UNCHANGED point
     \/ enCours[e] # Nulle /\ enCours[e].msg \in reseau /\ Suivre(e, enCours[e].msg)

UnPas(e) ==
  \/ PasEnvoi(e) \/ PasMinuterie(e) \/ PasReponse(e) \/ PasPromotion(e)
  \/ PasInitiation(e) \/ PasRedemarrer(e) \/ PasNeutre(e)

LEMMA LesPas ==
  ASSUME Socle, [Next]_vars
  PROVE  \E e \in Bouts : UnPas(e)
<1>1. TypeOK /\ IsFiniteSet(reseau)
  BY DEF Socle
<1>2. ASSUME NEW e \in Bouts, EnvoyerClair(e)
      PROVE  PasEnvoi(e)
  BY <1>1, <1>2, EnvoyerClairEffet DEF PasEnvoi, Envoie
<1>3. ASSUME NEW e \in Bouts, Minuterie(e)
      PROVE  PasMinuterie(e)
  BY <1>1, <1>3, MinuterieEffet DEF PasMinuterie, Envoie
<1>4. ASSUME NEW e \in Bouts, RecevoirReponse(e)
      PROVE  PasReponse(e)
  BY <1>1, <1>4, RecevoirReponseEffet DEF PasReponse, Envoie
<1>5. ASSUME NEW e \in Bouts, FinDonnees(e)
      PROVE  PasPromotion(e) \/ PasNeutre(e)
  BY <1>1, <1>5, FinDonneesEffet DEF PasPromotion, PasNeutre, Envoie
<1>6. ASSUME NEW e \in Bouts, RecevoirInitiation(e)
      PROVE  PasInitiation(e)
  BY <1>6, RecevoirInitiationEffet DEF PasInitiation
<1>7. ASSUME NEW e \in Bouts, UNCHANGED reseau
      PROVE  Envoie(e)
  BY <1>7, CourantsVide DEF Envoie
<1>8. ASSUME NEW e \in Bouts, DebutDonnees(e)
      PROVE  PasNeutre(e)
  BY <1>7, <1>8 DEF DebutDonnees, PasNeutre
<1>9. ASSUME NEW e \in Bouts, Redemarrer(e)
      PROVE  PasRedemarrer(e)
  BY <1>9 DEF Redemarrer, PasRedemarrer
<1>10. CASE Tic \/ Deplacer \/ UNCHANGED vars
  <2>1. PICK e \in Bouts : TRUE
    BY BoutsAssumption
  <2>2. /\ UNCHANGED <<courante, precedente, suivante, poignee, dernierHorodatage, indices, horloge>>
        /\ UNCHANGED <<point, reseau>>
    BY <1>10 DEF Tic, Deplacer, vars
  <2>3. PasNeutre(e)
    BY <1>7, <2>2 DEF PasNeutre
  <2> QED  BY <2>3 DEF UnPas
<1> QED
  BY <1>2, <1>3, <1>4, <1>5, <1>6, <1>8, <1>9, <1>10 DEF Next, Bout, UnPas

-----------------------------------------------------------------------------
(* The table of indices. *)

Locale(s) == IF s = Nulle THEN {} ELSE {s.locale}
Reserve(p) == IF p = Nulle THEN {} ELSE {p.indice}

\* t is the union of four sets that share nothing.
Partage(t, A, B, C, D) ==
  /\ t = A \cup B \cup C \cup D
  /\ A \cap B = {} /\ A \cap C = {} /\ A \cap D = {}
  /\ B \cap C = {} /\ B \cap D = {} /\ C \cap D = {}

\* Each session held and the handshake under way have an index of their own,
\* and the table has no other.
Partagee(e) == Partage(indices[e], Locale(courante[e]), Locale(suivante[e]),
                       Locale(precedente[e]), Reserve(poignee[e]))
IndicesInv == \A e \in Bouts : Partagee(e)

LEMMA SansLocale ==
  ASSUME NEW t, NEW s
  PROVE  Sans(t, s) = t \ Locale(s)
BY DEF Sans, Locale

LEMMA SansTentativeReserve ==
  ASSUME NEW e, NEW t
  PROVE  SansTentative(e, t) = t \ Reserve(poignee[e])
BY DEF SansTentative, Reserve

\* A handshake starts, or does not: its index replaces the last one.
LEMMA LancePartage ==
  ASSUME TypeOK, NEW e \in Bouts, NEW t, Lance(e, t) \/ Reste(e, t),
         NEW A, NEW B, NEW C, Partage(t, A, B, C, Reserve(poignee[e]))
  PROVE  Partage(indices'[e], A, B, C, Reserve(poignee'[e]))
<1>1. e \in DOMAIN indices /\ e \in DOMAIN poignee
  BY DEF TypeOK
<1>2. CASE Lance(e, t)
  <2>1. PICK i \in Indices \ SansTentative(e, t) :
          /\ indices' = [indices EXCEPT ![e] = SansTentative(e, t) \cup {i}]
          /\ poignee' = [poignee EXCEPT ![e] = [horo |-> horloge[e] + 1, indice |-> i]]
    BY <1>2 DEF Lance
  <2>2. indices'[e] = (t \ Reserve(poignee[e])) \cup {i} /\ i \notin t \ Reserve(poignee[e])
    BY <1>1, <2>1, SansTentativeReserve
  <2>3. Reserve(poignee'[e]) = {i}
    <3>1. horloge[e] + 1 \in Horodatages
      BY <1>2, HorlogeSuivante DEF Lance
    <3> DEFINE p == [horo |-> horloge[e] + 1, indice |-> i]
    <3>2. p \in [horo : Horodatages, indice : Indices] /\ p.indice = i
      BY <3>1
    <3>3. poignee'[e] = p /\ p # Nulle
      BY <1>1, <2>1, <3>2, NulleAssumption
    <3> QED  BY <3>2, <3>3 DEF Reserve
  <2> QED  BY <2>2, <2>3 DEF Partage
<1>3. CASE Reste(e, t)
  BY <1>1, <1>3 DEF Reste
<1> QED  BY <1>2, <1>3

\* The index of a session too old leaves the table with it.
LEMMA FiniesLocales ==
  ASSUME TypeOK, NEW e \in Bouts, Partagee(e)
  PROVE  Partage(indices[e] \ Finies(e), Locale(Garde(courante[e])), Locale(Garde(suivante[e])),
                 Locale(Garde(precedente[e])), Reserve(poignee[e]))
<1> DEFINE Finie(s) == IF s # Nulle /\ ~Jeune(s) THEN {s.locale} ELSE {}
<1>1. Finies(e) = Finie(courante[e]) \cup Finie(suivante[e]) \cup Finie(precedente[e])
  <2>1. Places(e)[1] = courante[e] /\ Places(e)[2] = suivante[e] /\ Places(e)[3] = precedente[e]
    BY DEF Places
  <2>2. 1 .. 3 = {1, 2, 3}
    OBVIOUS
  <2> QED  BY <2>1, <2>2 DEF Finies
<1>2. ASSUME NEW s
      PROVE  Locale(Garde(s)) = Locale(s) \ Finie(s) /\ Finie(s) \subseteq Locale(s)
  BY DEF Garde, Locale, Jeune
<1> HIDE DEF Finie
<1> QED  BY <1>1, <1>2 DEF Partagee, Partage

LEMMA IndicesInit == Init => IndicesInv
BY DEF Init, IndicesInv, Partagee, Partage, Locale, Reserve

LEMMA IndicesPas ==
  ASSUME Socle, IndicesInv, [Next]_vars
  PROVE  IndicesInv'
<1>1. TypeOK
  BY DEF Socle
<1>2. PICK e \in Bouts : UnPas(e)
  BY LesPas
<1>3. /\ \A f \in Bouts : f # e =>
           /\ indices'[f] = indices[f] /\ poignee'[f] = poignee[f] /\ courante'[f] = courante[f]
           /\ suivante'[f] = suivante[f] /\ precedente'[f] = precedente[f]
  BY <1>1, <1>2
     DEF UnPas, PasEnvoi, PasMinuterie, PasReponse, PasPromotion, PasInitiation, PasRedemarrer,
         PasNeutre, Lance, Reste, TypeOK
<1>4. ASSUME NEW f \in Bouts, f # e
      PROVE  Partagee(f)'
  BY <1>3, <1>4 DEF IndicesInv, Partagee
<1>5. /\ e \in DOMAIN indices /\ e \in DOMAIN poignee /\ e \in DOMAIN courante
      /\ e \in DOMAIN suivante /\ e \in DOMAIN precedente
  BY <1>1 DEF TypeOK
<1>6. Partagee(e)
  BY DEF IndicesInv
<1>7. Partagee(e)'
  <2>1. CASE PasEnvoi(e)
    <3>1. UNCHANGED <<courante, suivante, precedente>> /\ (Lance(e, indices[e]) \/ Reste(e, indices[e]))
      BY <2>1 DEF PasEnvoi
    <3>2. Partage(indices'[e], Locale(courante[e]), Locale(suivante[e]), Locale(precedente[e]),
                  Reserve(poignee'[e]))
      BY <1>1, <1>6, <3>1, LancePartage DEF Partagee
    <3> QED  BY <3>1, <3>2 DEF Partagee
  <2>2. CASE PasMinuterie(e)
    <3>1. /\ courante'[e] = Garde(courante[e]) /\ suivante'[e] = Garde(suivante[e])
          /\ precedente'[e] = Garde(precedente[e])
          /\ Lance(e, indices[e] \ Finies(e)) \/ Reste(e, indices[e] \ Finies(e))
      BY <1>5, <2>2 DEF PasMinuterie
    <3> DEFINE t == indices[e] \ Finies(e)
               A == Locale(Garde(courante[e]))
               B == Locale(Garde(suivante[e]))
               C == Locale(Garde(precedente[e]))
    <3>2. Partage(t, A, B, C, Reserve(poignee[e])) /\ (Lance(e, t) \/ Reste(e, t))
      BY <1>1, <1>6, <3>1, FiniesLocales
    <3>3. Locale(courante'[e]) = A /\ Locale(suivante'[e]) = B /\ Locale(precedente'[e]) = C
      BY <3>1
    <3>4. Partagee(e)' = Partage(indices'[e], Locale(courante'[e]), Locale(suivante'[e]),
                                 Locale(precedente'[e]), Reserve(poignee'[e]))
      BY DEF Partagee, Partage, Locale, Reserve
    <3> HIDE DEF t, A, B, C
    <3>5. Partage(indices'[e], A, B, C, Reserve(poignee'[e]))
      BY <1>1, <3>2, LancePartage
    <3> QED  BY <3>3, <3>4, <3>5
  <2>3. CASE PasReponse(e)
    <3>1. PICK m \in reseau :
            /\ SessionOuverte(m) \in Sessions
            /\ poignee[e] # Nulle /\ poignee[e].indice = m.dest
            /\ indices' = [indices EXCEPT ![e] = Sans(indices[e], precedente[e])]
            /\ precedente' = [precedente EXCEPT ![e] = courante[e]]
            /\ courante' = [courante EXCEPT ![e] = SessionOuverte(m)]
            /\ poignee' = [poignee EXCEPT ![e] = Nulle]
      BY <2>3 DEF PasReponse
    <3>2. suivante'[e] = suivante[e]
      BY <2>3 DEF PasReponse
    <3>3. SessionOuverte(m) # Nulle /\ SessionOuverte(m).locale = m.dest
      BY <3>1, SessionTypee DEF SessionOuverte
    <3>4. /\ indices'[e] = indices[e] \ Locale(precedente[e])
          /\ Locale(courante'[e]) = Reserve(poignee[e]) /\ Locale(precedente'[e]) = Locale(courante[e])
          /\ Reserve(poignee'[e]) = {} /\ Locale(suivante'[e]) = Locale(suivante[e])
      BY <1>5, <3>1, <3>2, <3>3, SansLocale DEF Locale, Reserve
    <3> QED  BY <1>6, <3>4 DEF Partagee, Partage
  <2>4. CASE PasPromotion(e)
    <3>1. /\ indices'[e] = indices[e] \ Locale(precedente[e])
          /\ courante'[e] = suivante[e] /\ precedente'[e] = courante[e] /\ suivante'[e] = Nulle
          /\ poignee'[e] = poignee[e]
      BY <1>5, <2>4, SansLocale DEF PasPromotion
    <3>2. /\ Locale(courante'[e]) = Locale(suivante[e]) /\ Locale(precedente'[e]) = Locale(courante[e])
          /\ Locale(suivante'[e]) = {} /\ Reserve(poignee'[e]) = Reserve(poignee[e])
      BY <3>1 DEF Locale
    <3> QED  BY <1>6, <3>1, <3>2 DEF Partagee, Partage
  <2>5. CASE PasInitiation(e)
    <3>1. PICK m \in reseau, i \in Indices :
            /\ i \notin Sans(indices[e], suivante[e]) /\ Repondue(e, m, i) \in Sessions
            /\ indices' = [indices EXCEPT ![e] = Sans(indices[e], suivante[e]) \cup {i}]
            /\ suivante' = [suivante EXCEPT ![e] = Repondue(e, m, i)]
      BY <2>5 DEF PasInitiation
    <3>2. Repondue(e, m, i) # Nulle /\ Repondue(e, m, i).locale = i
      BY <3>1, SessionTypee DEF Repondue
    <3>3. /\ indices'[e] = (indices[e] \ Locale(suivante[e])) \cup {i}
          /\ i \notin indices[e] \ Locale(suivante[e])
          /\ Locale(suivante'[e]) = {i}
      BY <1>5, <3>1, <3>2, SansLocale DEF Locale
    <3>4. UNCHANGED <<courante, precedente, poignee>>
      BY <2>5 DEF PasInitiation
    <3> QED  BY <1>6, <3>3, <3>4 DEF Partagee, Partage
  <2>6. CASE PasRedemarrer(e)
    BY <1>5, <2>6 DEF PasRedemarrer, Partagee, Partage, Locale, Reserve
  <2>7. CASE PasNeutre(e)
    BY <1>6, <2>7 DEF PasNeutre, Partagee
  <2> QED  BY <1>2, <2>1, <2>2, <2>3, <2>4, <2>5, <2>6, <2>7 DEF UnPas
<1> QED  BY <1>4, <1>7 DEF IndicesInv

\* A set that is empty or has one element.
Unite(S) == S = {} \/ \E x : S = {x}
Taille(S) == IF S = {} THEN 0 ELSE 1

LEMMA UniteTaille ==
  ASSUME NEW S, Unite(S)
  PROVE  IsFiniteSet(S) /\ Cardinality(S) = Taille(S)
<1>1. CASE S = {}
  BY <1>1, FS_EmptySet DEF Taille
<1>2. CASE S # {}
  <2>1. PICK x : S = {x}
    BY <1>2 DEF Unite
  <2> QED  BY <1>2, <2>1, FS_Singleton DEF Taille
<1> QED  BY <1>1, <1>2

LEMMA UnionSeparee ==
  ASSUME NEW S, NEW T, IsFiniteSet(S), IsFiniteSet(T), S \cap T = {}
  PROVE  IsFiniteSet(S \cup T) /\ Cardinality(S \cup T) = Cardinality(S) + Cardinality(T)
<1>1. /\ IsFiniteSet(S \cup T)
      /\ Cardinality(S \cup T) = Cardinality(S) + Cardinality(T) - Cardinality(S \cap T)
  BY FS_Union
<1>2. Cardinality(S \cap T) = 0
  BY FS_EmptySet
<1>3. Cardinality(S) \in Nat /\ Cardinality(T) \in Nat
  BY FS_CardinalityType
<1> QED  BY <1>1, <1>2, <1>3

\* Three sets of at most one element that share nothing.
LEMMA TroisUnites ==
  ASSUME NEW A, NEW B, NEW C, Unite(A), Unite(B), Unite(C),
         A \cap B = {}, A \cap C = {}, B \cap C = {}
  PROVE  /\ IsFiniteSet(A \cup B \cup C)
         /\ Cardinality(A \cup B \cup C) = Taille(A) + Taille(B) + Taille(C)
<1>1. /\ IsFiniteSet(A) /\ IsFiniteSet(B) /\ IsFiniteSet(C)
      /\ Cardinality(A) = Taille(A) /\ Cardinality(B) = Taille(B) /\ Cardinality(C) = Taille(C)
  BY UniteTaille
<1>2. IsFiniteSet(A \cup B) /\ Cardinality(A \cup B) = Taille(A) + Taille(B)
  BY <1>1, UnionSeparee
<1> DEFINE AB == A \cup B
<1>3. AB \cap C = {} /\ IsFiniteSet(AB) /\ Cardinality(AB) = Taille(A) + Taille(B)
  BY <1>2
<1> HIDE DEF AB
<1>4. IsFiniteSet(AB \cup C) /\ Cardinality(AB \cup C) = Taille(A) + Taille(B) + Taille(C)
  BY <1>1, <1>3, UnionSeparee
<1> QED  BY <1>4 DEF AB

LEMMA IndicesCompte == IndicesInv => IndicesExacts
<1> SUFFICES ASSUME IndicesInv, NEW e \in Bouts
             PROVE  LET places == {k \in 1 .. 3 : Places(e)[k] # Nulle}
                        locales == {Places(e)[k].locale : k \in places}
                        enAttente == IF poignee[e] = Nulle THEN {} ELSE {poignee[e].indice}
                    IN /\ indices[e] = locales \cup enAttente
                       /\ Cardinality(indices[e]) = Cardinality(places) + Cardinality(enAttente)
  BY DEF IndicesExacts
<1> DEFINE places == {k \in 1 .. 3 : Places(e)[k] # Nulle}
           locales == {Places(e)[k].locale : k \in places}
           A == Locale(courante[e])
           B == Locale(suivante[e])
           C == Locale(precedente[e])
           D == Reserve(poignee[e])
           Rang(s, k) == IF s = Nulle THEN {} ELSE {k}
           P == Rang(courante[e], 1)
           Q == Rang(suivante[e], 2)
           R == Rang(precedente[e], 3)
<1>1. Partage(indices[e], A, B, C, D)
  BY DEF IndicesInv, Partagee
<1>2. /\ Places(e)[1] = courante[e] /\ Places(e)[2] = suivante[e] /\ Places(e)[3] = precedente[e]
      /\ 1 .. 3 = {1, 2, 3}
  BY DEF Places
<1>3. locales = A \cup B \cup C
  BY <1>2 DEF Locale
<1>4. places = P \cup Q \cup R
  BY <1>2
<1>5. /\ Unite(A) /\ Unite(B) /\ Unite(C) /\ Unite(D)
      /\ Unite(P) /\ Unite(Q) /\ Unite(R)
  BY DEF Unite, Locale, Reserve
<1>6. P \cap Q = {} /\ P \cap R = {} /\ Q \cap R = {}
  OBVIOUS
<1>7. Taille(P) = Taille(A) /\ Taille(Q) = Taille(B) /\ Taille(R) = Taille(C)
  BY DEF Taille, Locale
<1>8. D = IF poignee[e] = Nulle THEN {} ELSE {poignee[e].indice}
  BY DEF Reserve
<1> HIDE DEF A, B, C, D, P, Q, R, Rang, places, locales
<1>9. Cardinality(places) = Taille(P) + Taille(Q) + Taille(R)
  <2>1. Unite(P) /\ Unite(Q) /\ Unite(R)
    BY <1>5
  <2>2. P \cap Q = {} /\ P \cap R = {} /\ Q \cap R = {}
    BY <1>6
  <2>3. Cardinality(P \cup Q \cup R) = Taille(P) + Taille(Q) + Taille(R)
    BY <2>1, <2>2, TroisUnites
  <2> QED  BY <1>4, <2>3
<1>10. /\ IsFiniteSet(A \cup B \cup C)
       /\ Cardinality(A \cup B \cup C) = Taille(A) + Taille(B) + Taille(C)
  <2>1. A \cap B = {} /\ A \cap C = {} /\ B \cap C = {}
    BY <1>1 DEF Partage
  <2>2. Unite(A) /\ Unite(B) /\ Unite(C)
    BY <1>5
  <2> QED  BY <2>1, <2>2, TroisUnites
<1> DEFINE ABC == A \cup B \cup C
<1>11. indices[e] = ABC \cup D /\ ABC \cap D = {}
  BY <1>1 DEF Partage
<1>12. IsFiniteSet(ABC) /\ Cardinality(ABC) = Taille(A) + Taille(B) + Taille(C)
  BY <1>10
<1> HIDE DEF ABC
<1>13. IsFiniteSet(D)
  <2>1. Unite(D)
    BY <1>5
  <2> QED  BY <2>1, UniteTaille
<1>14. Cardinality(ABC \cup D) = Cardinality(ABC) + Cardinality(D)
  BY <1>11, <1>13, <1>12, UnionSeparee
<1>15. Cardinality(indices[e]) = Cardinality(places) + Cardinality(D)
  BY <1>7, <1>9, <1>11, <1>14, <1>12
<1>16. indices[e] = locales \cup D
  BY <1>3, <1>11 DEF ABC
<1> QED  BY <1>8, <1>15, <1>16 DEF places, locales

\* The table of indices names exactly the sessions and the handshake the pair
\* holds, each under an index of its own, through every handshake, promotion,
\* expiry and restart (moteur.go:171-184, 427-432, 593-598, 646-650, 730-734,
\* 863-870).
THEOREM TunnelIndicesExacts == Spec => []IndicesExacts
<1>1. Init => Socle /\ IndicesInv
  BY SocleInit, IndicesInit
<1>2. Socle /\ IndicesInv /\ [Next]_vars => Socle' /\ IndicesInv'
  BY SoclePas, IndicesPas
<1> QED  BY <1>1, <1>2, IndicesCompte, PTL DEF Spec

-----------------------------------------------------------------------------
(* Where the sessions come from. *)

LEMMA ReseauGrandit ==
  ASSUME NEW e, UnPas(e)
  PROVE  reseau \subseteq reseau'
BY DEF UnPas, PasEnvoi, PasMinuterie, PasReponse, PasPromotion, PasInitiation, PasRedemarrer,
       PasNeutre, Envoie

\* What a step makes of the places of an end: they are kept or emptied, except
\* for the session just agreed on.
LEMMA PlacesApres ==
  ASSUME TypeOK, NEW e \in Bouts, UnPas(e), NEW f \in Bouts
  PROVE  /\ \/ courante'[f] \in {courante[f], Nulle}
            \/ f = e /\ PasReponse(e)
            \/ f = e /\ PasPromotion(e) /\ courante'[f] = suivante[f]
         /\ precedente'[f] \in {precedente[f], courante[f], Nulle}
         /\ \/ suivante'[f] \in {suivante[f], Nulle}
            \/ f = e /\ PasInitiation(e)
<1>1. CASE PasEnvoi(e)
  BY <1>1 DEF PasEnvoi
<1>2. CASE PasMinuterie(e)
  BY <1>2 DEF PasMinuterie, Garde, TypeOK
<1>3. CASE PasReponse(e)
  <2>1. PICK m \in reseau :
          /\ precedente' = [precedente EXCEPT ![e] = courante[e]]
          /\ courante' = [courante EXCEPT ![e] = SessionOuverte(m)]
    BY <1>3 DEF PasReponse
  <2>2. suivante' = suivante
    BY <1>3 DEF PasReponse
  <2>3. courante \in [Bouts -> Sessions \cup {Nulle}] /\ precedente \in [Bouts -> Sessions \cup {Nulle}]
    BY DEF TypeOK
  <2> QED  BY <1>3, <2>1, <2>2, <2>3
<1>4. CASE PasPromotion(e)
  BY <1>4 DEF PasPromotion, TypeOK
<1>5. CASE PasInitiation(e)
  BY <1>5 DEF PasInitiation, TypeOK
<1>6. CASE PasRedemarrer(e)
  BY <1>6 DEF PasRedemarrer, TypeOK
<1>7. CASE PasNeutre(e)
  BY <1>7 DEF PasNeutre
<1> QED  BY <1>1, <1>2, <1>3, <1>4, <1>5, <1>6, <1>7 DEF UnPas

LEMMA ConfirmeInit == Init => RepondeurConfirme
BY DEF Init, RepondeurConfirme

LEMMA ConfirmePas ==
  ASSUME Socle, RepondeurConfirme, [Next]_vars
  PROVE  RepondeurConfirme'
<1> DEFINE Scelle(f, s, r) == \E m \in r : m.type = "donnees" /\ m.de = Autre(f) /\ m.cle = s.cle
<1>1. TypeOK /\ EnCoursOK
  BY DEF Socle
<1>2. PICK e \in Bouts : UnPas(e)
  BY LesPas
<1>3. reseau \subseteq reseau'
  BY <1>2, ReseauGrandit
<1>4. \A f \in Bouts : \A s \in {courante[f], precedente[f]} \ {Nulle} :
        ~s.initiateur => Scelle(f, s, reseau)
  BY DEF RepondeurConfirme
<1>5. ASSUME NEW f \in Bouts, NEW s \in {courante'[f], precedente'[f]} \ {Nulle}, ~s.initiateur
      PROVE  Scelle(f, s, reseau')
  <2>1. CASE s \in {courante[f], precedente[f]}
    BY <1>3, <1>4, <1>5, <2>1
  <2>2. CASE f = e /\ PasReponse(e) /\ s = courante'[f]
    <3>1. PICK m \in reseau : courante' = [courante EXCEPT ![e] = SessionOuverte(m)]
      BY <2>2 DEF PasReponse
    <3>2. s = SessionOuverte(m)
      BY <1>1, <2>2, <3>1 DEF TypeOK
    <3> QED  BY <1>5, <3>2 DEF SessionOuverte
  <2>3. CASE f = e /\ PasPromotion(e) /\ s = suivante[f]
    <3>1. enCours[e] # Nulle /\ enCours[e].session = s /\ enCours[e].msg \in reseau
      BY <2>3 DEF PasPromotion
    <3>2. enCours[e].msg.type = "donnees" /\ enCours[e].msg.de = Autre(e) /\ enCours[e].msg.cle = s.cle
      BY <1>1, <3>1 DEF EnCoursOK
    <3> QED  BY <1>3, <2>3, <3>1, <3>2
  <2>4. /\ courante'[f] \in {courante[f], Nulle} \/ (f = e /\ PasReponse(e))
             \/ (f = e /\ PasPromotion(e) /\ courante'[f] = suivante[f])
        /\ precedente'[f] \in {precedente[f], courante[f], Nulle}
    BY <1>1, <1>2, PlacesApres
  <2> QED  BY <1>5, <2>1, <2>2, <2>3, <2>4
<1> QED  BY <1>5 DEF RepondeurConfirme

\* An end that answered a handshake uses it only once the other end has sealed
\* something with it (moteur.go:604-606, docs/protocole.md:70).
THEOREM TunnelRepondeurConfirme == Spec => []RepondeurConfirme
<1>1. Init => Socle /\ RepondeurConfirme
  BY SocleInit, ConfirmeInit
<1>2. Socle /\ RepondeurConfirme /\ [Next]_vars => Socle' /\ RepondeurConfirme'
  BY SoclePas, ConfirmePas
<1> QED  BY <1>1, <1>2, PTL DEF Spec

\* The answer a session of e was opened by.
OuvertePar(m, e, s) ==
  /\ m.type = "reponse" /\ m.cle = s.cle
  /\ IF s.initiateur THEN m.de = Autre(e) /\ m.dest = s.locale /\ m.locale = s.distante
                     ELSE m.de = e /\ m.dest = s.distante /\ m.locale = s.locale

\* A session held was opened by an answer that names it: received by the end
\* that initiated, sent by the other.
OrigineInv == \A e \in Bouts : \A s \in Tenues(e) : \E m \in reseau : OuvertePar(m, e, s)

LEMMA OrigineInit == Init => OrigineInv
BY DEF Init, OrigineInv, Tenues

LEMMA OriginePas ==
  ASSUME Socle, OrigineInv, [Next]_vars
  PROVE  OrigineInv'
<1>1. TypeOK
  BY DEF Socle
<1>2. PICK e \in Bouts : UnPas(e)
  BY LesPas
<1>3. reseau \subseteq reseau'
  BY <1>2, ReseauGrandit
<1>4. ASSUME NEW f \in Bouts, NEW s \in {courante'[f], precedente'[f], suivante'[f]}, s # Nulle
      PROVE  \E m \in reseau' : OuvertePar(m, f, s)
  <2>1. CASE s \in {courante[f], precedente[f], suivante[f]}
    BY <1>3, <1>4, <2>1 DEF OrigineInv, Tenues
  <2>2. CASE f = e /\ PasReponse(e) /\ s = courante'[f]
    <3>1. PICK m \in reseau :
            /\ m.type = "reponse" /\ m.de = Autre(e)
            /\ courante' = [courante EXCEPT ![e] = SessionOuverte(m)]
      BY <2>2 DEF PasReponse
    <3>2. s = SessionOuverte(m)
      BY <1>1, <2>2, <3>1 DEF TypeOK
    <3>3. OuvertePar(m, f, s)
      BY <2>2, <3>1, <3>2 DEF OuvertePar, SessionOuverte
    <3> QED  BY <1>3, <3>3
  <2>3. CASE f = e /\ PasInitiation(e) /\ s = suivante'[f]
    <3>1. PICK m \in reseau, i \in Indices :
            /\ suivante' = [suivante EXCEPT ![e] = Repondue(e, m, i)]
            /\ reseau' = reseau \cup {Repond(e, m, i)}
      BY <2>3 DEF PasInitiation
    <3>2. s = Repondue(e, m, i)
      BY <1>1, <2>3, <3>1 DEF TypeOK
    <3>3. OuvertePar(Repond(e, m, i), f, s)
      BY <2>3, <3>2 DEF OuvertePar, Repond, Repondue
    <3> QED  BY <3>1, <3>3
  <2>4. /\ courante'[f] \in {courante[f], Nulle} \/ (f = e /\ PasReponse(e)) \/ courante'[f] = suivante[f]
        /\ precedente'[f] \in {precedente[f], courante[f], Nulle}
        /\ suivante'[f] \in {suivante[f], Nulle} \/ (f = e /\ PasInitiation(e))
    BY <1>1, <1>2, PlacesApres
  <2> QED  BY <1>4, <2>1, <2>2, <2>3, <2>4
<1> QED  BY <1>4 DEF OrigineInv, Tenues

\* Who initiated a session is whom its keys name.
LEMMA Initie ==
  ASSUME Socle, OrigineInv, NEW e \in Bouts, NEW s \in Tenues(e)
  PROVE  s.cle.par = IF s.initiateur THEN e ELSE Autre(e)
<1>1. PICK m \in reseau : OuvertePar(m, e, s)
  BY DEF OrigineInv
<1>2. m.type = "reponse" /\ m.cle = s.cle
  BY <1>1 DEF OuvertePar
<1>3. m.cle.par = Autre(m.de)
  BY <1>2 DEF Socle, ReponsesOK
<1> QED  BY <1>1, <1>2, <1>3, DeuxBouts DEF OuvertePar

LEMMA OrigineAccord == Socle /\ OrigineInv => Accord
<1> SUFFICES ASSUME Socle, OrigineInv, NEW e \in Bouts, NEW s \in Tenues(e), NEW t \in Tenues(Autre(e)),
                    s.cle = t.cle
             PROVE  s.locale = t.distante /\ s.distante = t.locale /\ s.initiateur = ~t.initiateur
  BY DEF Accord
<1>1. Autre(e) \in Bouts /\ Autre(e) # e /\ Autre(Autre(e)) = e
  BY DeuxBouts
<1>2. s.initiateur \in BOOLEAN /\ t.initiateur \in BOOLEAN
  BY <1>1, PlaceType, SessionTypee DEF Socle, Tenues
<1>3. s.cle.par = (IF s.initiateur THEN e ELSE Autre(e))
  BY Initie
<1>4. t.cle.par = (IF t.initiateur THEN Autre(e) ELSE Autre(Autre(e)))
  BY <1>1, Initie
<1>5. s.initiateur = ~t.initiateur
  BY <1>1, <1>2, <1>3, <1>4
<1>6. PICK m \in reseau : OuvertePar(m, e, s)
  BY DEF OrigineInv
<1>7. PICK n \in reseau : OuvertePar(n, Autre(e), t)
  BY <1>1 DEF OrigineInv
<1>8. m.type = "reponse" /\ n.type = "reponse" /\ m.cle = n.cle /\ m.de = n.de
  BY <1>1, <1>2, <1>5, <1>6, <1>7 DEF OuvertePar
<1>9. m = n
  BY <1>8 DEF Socle, ReponsesOK
<1> QED  BY <1>1, <1>2, <1>5, <1>6, <1>7, <1>9 DEF OuvertePar

\* The two ends of one handshake hold opposite roles and each other's index,
\* whatever is lost, repeated or delayed and whoever restarts
\* (moteur.go:583-613, 636-662).
THEOREM TunnelAccord == Spec => []Accord
<1>1. Init => Socle /\ OrigineInv
  BY SocleInit, OrigineInit
<1>2. Socle /\ OrigineInv /\ [Next]_vars => Socle' /\ OrigineInv'
  BY SoclePas, OriginePas
<1> QED  BY <1>1, <1>2, OrigineAccord, PTL DEF Spec

-----------------------------------------------------------------------------
(* The dates of the sessions. *)

\* A session e initiated is no newer than its clock h, and older than its
\* handshake under way p; one it answered is no newer than the last initiation
\* it took, d.
Datee(e, s, h, p, d) ==
  IF s.cle.par = e THEN s.cle.horo <= h /\ (p # Nulle => s.cle.horo < h)
                   ELSE s.cle.horo <= d

\* So are all the sessions an end holds, and the next session is one it
\* answered, newer than the current one.
DatesInv ==
  \A e \in Bouts :
    /\ poignee[e] # Nulle => poignee[e].horo = horloge[e]
    /\ \A s \in Tenues(e) : Datee(e, s, horloge[e], poignee[e], dernierHorodatage[e])
    /\ suivante[e] # Nulle =>
         /\ suivante[e].cle.par = Autre(e)
         /\ courante[e] # Nulle /\ courante[e].cle.par = Autre(e)
              => courante[e].cle.horo < suivante[e].cle.horo

LEMMA DatesInit == Init => DatesInv
BY DEF Init, DatesInv, Tenues

\* The dates of e after a call of lancerPoignee.
LEMMA LanceDates ==
  ASSUME TypeOK, NEW e \in Bouts, NEW t, Lance(e, t) \/ Reste(e, t),
         poignee[e] # Nulle => poignee[e].horo = horloge[e]
  PROVE  /\ poignee'[e] # Nulle => poignee'[e].horo = horloge'[e]
         /\ \A s \in Sessions : \A d : Datee(e, s, horloge[e], poignee[e], d)
                                         => Datee(e, s, horloge'[e], poignee'[e], d)
<1>1. CASE Reste(e, t)
  BY <1>1 DEF Reste
<1>2. CASE Lance(e, t)
  <2>1. PICK i \in Indices : poignee' = [poignee EXCEPT ![e] = [horo |-> horloge[e] + 1, indice |-> i]]
    BY <1>2 DEF Lance
  <2>2. horloge' = [horloge EXCEPT ![e] = horloge[e] + 1]
    BY <1>2 DEF Lance
  <2>3. horloge'[e] = horloge[e] + 1 /\ poignee'[e].horo = horloge[e] + 1
    BY <2>1, <2>2 DEF TypeOK
  <2>4. horloge[e] \in Nat
    BY HorlogeNat
  <2>5. \A s \in Sessions : s.cle.horo \in Nat
    BY SessionTypee, HorodatageNat
  <2> QED  BY <2>3, <2>4, <2>5 DEF Datee
<1> QED  BY <1>1, <1>2

LEMMA DatesPas ==
  ASSUME Socle, DatesInv, [Next]_vars
  PROVE  DatesInv'
<1> DEFINE Suite(f) == suivante[f] # Nulle =>
                         /\ suivante[f].cle.par = Autre(f)
                         /\ courante[f] # Nulle /\ courante[f].cle.par = Autre(f)
                              => courante[f].cle.horo < suivante[f].cle.horo
           Tout(f) == /\ poignee[f] # Nulle => poignee[f].horo = horloge[f]
                      /\ \A s \in Tenues(f) : Datee(f, s, horloge[f], poignee[f], dernierHorodatage[f])
                      /\ Suite(f)
<1>1. TypeOK
  BY DEF Socle
<1>2. PICK e \in Bouts : UnPas(e)
  BY LesPas
<1>3. \A f \in Bouts : Tout(f)
  BY DEF DatesInv
<1>4. ASSUME NEW f \in Bouts, f # e
      PROVE  Tout(f)'
  <2>1. /\ poignee'[f] = poignee[f] /\ courante'[f] = courante[f] /\ suivante'[f] = suivante[f]
        /\ precedente'[f] = precedente[f] /\ horloge'[f] = horloge[f]
        /\ dernierHorodatage'[f] = dernierHorodatage[f]
    BY <1>1, <1>2, <1>4
       DEF UnPas, PasEnvoi, PasMinuterie, PasReponse, PasPromotion, PasInitiation, PasRedemarrer,
           PasNeutre, Lance, Reste, TypeOK
  <2> QED  BY <1>3, <2>1 DEF Tenues, Datee
<1>5. Autre(e) \in Bouts /\ Autre(e) # e
  BY DeuxBouts
<1>6. /\ \A s \in Tenues(e) : s \in Sessions
      /\ \A s \in Sessions : s.cle.horo \in Nat /\ s # Nulle
      /\ horloge[e] \in Nat /\ dernierHorodatage[e] \in Nat
  BY <1>1, PlaceType, SessionTypee, HorodatageNat, HorlogeNat DEF Tenues, TypeOK
<1>7. /\ e \in DOMAIN poignee /\ e \in DOMAIN courante /\ e \in DOMAIN suivante
      /\ e \in DOMAIN precedente /\ e \in DOMAIN dernierHorodatage
  BY <1>1 DEF TypeOK
<1>8. Tout(e)'
  <2>1. CASE PasEnvoi(e)
    <3>1. UNCHANGED <<courante, suivante, precedente, dernierHorodatage>> /\ (Lance(e, indices[e]) \/ Reste(e, indices[e]))
      BY <2>1 DEF PasEnvoi
    <3>2. /\ poignee'[e] # Nulle => poignee'[e].horo = horloge'[e]
          /\ \A s \in Sessions : \A d : Datee(e, s, horloge[e], poignee[e], d)
                                          => Datee(e, s, horloge'[e], poignee'[e], d)
      BY <1>1, <1>3, <3>1, LanceDates
    <3>3. Tenues(e)' = Tenues(e)
      BY <3>1 DEF Tenues
    <3> QED  BY <1>3, <1>6, <3>1, <3>2, <3>3 DEF Datee
  <2>2. CASE PasMinuterie(e)
    <3>1. /\ courante'[e] \in {courante[e], Nulle} /\ suivante'[e] \in {suivante[e], Nulle}
          /\ precedente'[e] \in {precedente[e], Nulle} /\ UNCHANGED dernierHorodatage
          /\ Lance(e, indices[e] \ Finies(e)) \/ Reste(e, indices[e] \ Finies(e))
      BY <1>7, <2>2 DEF PasMinuterie, Garde
    <3>2. /\ poignee'[e] # Nulle => poignee'[e].horo = horloge'[e]
          /\ \A s \in Sessions : \A d : Datee(e, s, horloge[e], poignee[e], d)
                                          => Datee(e, s, horloge'[e], poignee'[e], d)
      BY <1>1, <1>3, <3>1, LanceDates
    <3>3. Tenues(e)' \subseteq Tenues(e)
      BY <3>1 DEF Tenues
    <3> QED  BY <1>3, <1>6, <3>1, <3>2, <3>3 DEF Datee
  <2>3. CASE PasReponse(e)
    <3>1. PICK m \in reseau :
            /\ SessionOuverte(m) \in Sessions
            /\ poignee[e] # Nulle /\ m.cle.par = e /\ m.cle.horo = poignee[e].horo
            /\ precedente' = [precedente EXCEPT ![e] = courante[e]]
            /\ courante' = [courante EXCEPT ![e] = SessionOuverte(m)]
            /\ poignee' = [poignee EXCEPT ![e] = Nulle]
      BY <2>3 DEF PasReponse
    <3>2. UNCHANGED <<suivante, dernierHorodatage, horloge>>
      BY <2>3 DEF PasReponse
    <3> DEFINE x == SessionOuverte(m)
    <3>3. x.cle.par = e /\ x.cle.horo = horloge[e] /\ x \in Sessions
      BY <1>3, <3>1 DEF SessionOuverte
    <3> HIDE DEF x
    <3>4. courante'[e] = x /\ precedente'[e] = courante[e] /\ poignee'[e] = Nulle
      BY <1>7, <3>1 DEF x
    <3>5. \A s \in Tenues(e)' : s = x \/ s \in Tenues(e)
      BY <3>2, <3>4 DEF Tenues
    <3>6. \A s \in Tenues(e)' : Datee(e, s, horloge[e], Nulle, dernierHorodatage[e])
      BY <1>3, <1>6, <3>3, <3>5 DEF Datee
    <3> QED  BY <1>3, <1>5, <3>2, <3>3, <3>4, <3>6
  <2>4. CASE PasPromotion(e)
    <3>1. /\ courante'[e] = suivante[e] /\ precedente'[e] = courante[e] /\ suivante'[e] = Nulle
          /\ UNCHANGED <<poignee, dernierHorodatage, horloge>>
      BY <1>7, <2>4 DEF PasPromotion
    <3>2. Tenues(e)' \subseteq Tenues(e)
      BY <3>1 DEF Tenues
    <3> QED  BY <1>3, <3>1, <3>2
  <2>5. CASE PasInitiation(e)
    <3>1. PICK m \in reseau, i \in Indices :
            /\ m.horo \in Horodatages /\ m.horo > dernierHorodatage[e]
            /\ Repondue(e, m, i) \in Sessions
            /\ suivante' = [suivante EXCEPT ![e] = Repondue(e, m, i)]
            /\ dernierHorodatage' = [dernierHorodatage EXCEPT ![e] = m.horo]
      BY <2>5 DEF PasInitiation
    <3>2. UNCHANGED <<courante, precedente, poignee, horloge>>
      BY <2>5 DEF PasInitiation
    <3> DEFINE x == Repondue(e, m, i)
    <3>3. x.cle.par = Autre(e) /\ x.cle.horo = m.horo /\ x \in Sessions
      BY <3>1 DEF Repondue
    <3> HIDE DEF x
    <3>4. suivante'[e] = x /\ dernierHorodatage'[e] = m.horo
      BY <1>7, <3>1 DEF x
    <3>5. \A s \in Tenues(e)' : s = x \/ s \in Tenues(e)
      BY <3>2, <3>4 DEF Tenues
    <3>6. m.horo \in Nat
      BY <3>1, HorodatageNat
    <3>7. \A s \in Tenues(e)' : Datee(e, s, horloge[e], poignee[e], m.horo)
      BY <1>3, <1>5, <1>6, <3>1, <3>3, <3>5, <3>6 DEF Datee
    <3>8. courante[e] # Nulle /\ courante[e].cle.par = Autre(e) => courante[e].cle.horo < x.cle.horo
      <4>1. ASSUME courante[e] # Nulle, courante[e].cle.par = Autre(e)
            PROVE  courante[e].cle.horo < x.cle.horo
        <5>1. courante[e] \in Tenues(e)
          BY <4>1 DEF Tenues
        <5>2. courante[e].cle.horo <= dernierHorodatage[e] /\ courante[e].cle.horo \in Nat
          BY <1>3, <1>5, <1>6, <4>1, <5>1 DEF Datee
        <5> QED  BY <1>6, <3>1, <3>3, <3>6, <5>2
      <4> QED  BY <4>1
    <3> QED  BY <1>3, <3>2, <3>3, <3>4, <3>7, <3>8
  <2>6. CASE PasRedemarrer(e)
    <3>1. courante'[e] = Nulle /\ precedente'[e] = Nulle /\ suivante'[e] = Nulle /\ poignee'[e] = Nulle
      BY <1>7, <2>6 DEF PasRedemarrer
    <3> QED  BY <3>1 DEF Tenues
  <2>7. CASE PasNeutre(e)
    BY <1>3, <2>7 DEF PasNeutre, Tenues
  <2> QED  BY <1>2, <2>1, <2>2, <2>3, <2>4, <2>5, <2>6, <2>7 DEF UnPas
<1> QED  BY <1>4, <1>8 DEF DatesInv

\* The step that makes another session of the same initiator the current one
\* makes a newer one.
LEMMA SansRetourPas ==
  ASSUME Socle, DatesInv, [Next]_vars, NEW f \in Bouts,
         courante[f] # Nulle, courante'[f] # Nulle, courante'[f] # courante[f],
         courante'[f].cle.par = courante[f].cle.par
  PROVE  courante'[f].cle.horo > courante[f].cle.horo
<1>1. TypeOK
  BY DEF Socle
<1>2. PICK e \in Bouts : UnPas(e)
  BY LesPas
<1>3. courante[f] \in Tenues(f) /\ courante[f] \in Sessions
  BY <1>1, PlaceType DEF Tenues
<1>4. courante[f].cle.horo \in Nat
  BY <1>3, SessionTypee, HorodatageNat
<1>5. CASE f = e /\ PasReponse(e)
  <2>1. PICK m \in reseau :
          /\ poignee[e] # Nulle /\ m.cle.par = e /\ m.cle.horo = poignee[e].horo
          /\ courante' = [courante EXCEPT ![e] = SessionOuverte(m)]
    BY <1>5 DEF PasReponse
  <2>2. courante'[f] = SessionOuverte(m)
    BY <1>1, <1>5, <2>1 DEF TypeOK
  <2>3. courante'[f].cle.par = f /\ courante'[f].cle.horo = horloge[f]
    BY <1>5, <2>1, <2>2 DEF SessionOuverte, DatesInv
  <2>4. courante[f].cle.horo < horloge[f]
    BY <1>3, <1>5, <2>1, <2>3 DEF DatesInv, Datee
  <2>5. horloge[f] \in Nat
    BY <1>1, HorlogeNat
  <2> QED  BY <1>4, <2>3, <2>4, <2>5
<1>6. CASE f = e /\ PasPromotion(e) /\ courante'[f] = suivante[f]
  <2>1. suivante[f] # Nulle /\ suivante[f].cle.par = Autre(f)
    BY <1>6 DEF DatesInv
  <2>2. courante[f].cle.horo < suivante[f].cle.horo
    BY <1>6, <2>1 DEF DatesInv
  <2>3. suivante[f].cle.horo \in Nat
    BY <1>1, <2>1, PlaceType, SessionTypee, HorodatageNat
  <2> QED  BY <1>4, <1>6, <2>2, <2>3
<1>7. \/ courante'[f] \in {courante[f], Nulle}
      \/ f = e /\ PasReponse(e)
      \/ f = e /\ PasPromotion(e) /\ courante'[f] = suivante[f]
  BY <1>1, <1>2, PlacesApres
<1> QED  BY <1>5, <1>6, <1>7

\* No message, however late or often repeated, takes an end back to an older
\* handshake of the same initiator than the one it uses (moteur.go:583-588,
\* 636-662, 723-736).
THEOREM TunnelSansRetour == Spec => SansRetour
<1> DEFINE EnAvant == \A e \in Bouts :
                       courante[e] # Nulle /\ courante'[e] # Nulle /\ courante'[e] # courante[e]
                         /\ courante'[e].cle.par = courante[e].cle.par
                       => courante'[e].cle.horo > courante[e].cle.horo
<1>1. Init => Socle /\ DatesInv
  BY SocleInit, DatesInit
<1>2. Socle /\ DatesInv /\ [Next]_vars => Socle' /\ DatesInv'
  BY SoclePas, DatesPas
<1>3. Socle /\ DatesInv /\ [Next]_vars => [EnAvant]_vars
  BY SansRetourPas
<1>4. SansRetour <=> [][EnAvant]_vars
  BY DEF SansRetour
<1> HIDE DEF EnAvant
<1> QED  BY <1>1, <1>2, <1>3, <1>4, PTL DEF Spec

-----------------------------------------------------------------------------
(* The keys that seal. *)

\* Keys e sealed with were answered for, and are not those it waits to use; the
\* ones it initiated are no newer than its clock, and older than its handshake
\* under way.
ScelleInv ==
  \A e \in Bouts : \A k \in Scellees(e) :
    /\ k \in Repondues
    /\ suivante[e] # Nulle => k # suivante[e].cle
    /\ k.par = e => k.horo <= horloge[e] /\ (poignee[e] # Nulle => k.horo < horloge[e])

LEMMA ScelleInit == Init => ScelleInv
BY DEF Init, ScelleInv, Scellees

\* The keys of the next answer are new.
LEMMA CleLibre ==
  ASSUME Socle, NEW e \in Bouts, NEW h \in Horodatages, h > dernierHorodatage[e]
  PROVE  [par |-> Autre(e), horo |-> h, rep |-> NbReponses(e) + 1] \notin Repondues
<1> DEFINE k == [par |-> Autre(e), horo |-> h, rep |-> NbReponses(e) + 1]
<1>1. NbReponses(e) \in Nat
  BY RangLibre
<1>2. ASSUME NEW m \in reseau, m.type = "reponse", m.cle = k
      PROVE  FALSE
  <2>1. m.cle.par = Autre(m.de) /\ m.cle.rep \in 1 .. NbReponses(m.de) /\ m.de \in Bouts
    BY <1>2, MessageType DEF Socle, ReponsesOK, TypeOK
  <2>2. m.de = e
    BY <1>2, <2>1, DeuxBouts
  <2> QED  BY <1>1, <1>2, <2>1, <2>2
<1> QED  BY <1>2 DEF Repondues

\* A step seals with the current session of the end that takes it, or seals
\* nothing.
LEMMA ScelleesApres ==
  ASSUME NEW e \in Bouts, UnPas(e)
  PROVE  /\ \A f \in Bouts \ {e} : Scellees(f)' = Scellees(f)
         /\ \/ Scellees(e)' = Scellees(e)
            \/ courante'[e] # Nulle /\ Scellees(e)' = Scellees(e) \cup {courante'[e].cle}
<1>1. CASE Envoie(e)
  <2>1. PICK tous : Courants(e, tous) /\ reseau' = reseau \cup tous
    BY <1>1 DEF Envoie
  <2>2. \A m \in tous : m.de = e /\ (m.type = "donnees" => courante'[e] # Nulle /\ m.cle = courante'[e].cle)
    BY <2>1 DEF Courants
  <2>3. \A f \in Bouts \ {e} : Scellees(f)' = Scellees(f)
    BY <2>1, <2>2 DEF Scellees
  <2>4. CASE \E m \in tous : m.type = "donnees"
    <3>1. PICK m \in tous : m.type = "donnees"
      BY <2>4
    <3>2. courante'[e] # Nulle /\ m.cle = courante'[e].cle /\ m.de = e /\ m \in reseau'
      BY <2>1, <2>2, <3>1
    <3>3. Scellees(e)' = Scellees(e) \cup {courante'[e].cle}
      BY <2>1, <2>2, <3>1, <3>2 DEF Scellees
    <3> QED  BY <2>3, <3>2, <3>3
  <2>5. CASE ~\E m \in tous : m.type = "donnees"
    <3>1. Scellees(e)' = Scellees(e)
      BY <2>1, <2>5 DEF Scellees
    <3> QED  BY <2>3, <3>1
  <2> QED  BY <2>4, <2>5
<1>2. CASE PasInitiation(e)
  <2>1. PICK m \in reseau, i \in Indices : reseau' = reseau \cup {Repond(e, m, i)}
    BY <1>2 DEF PasInitiation
  <2>2. Repond(e, m, i).type = "reponse"
    BY DEF Repond
  <2>3. \A f \in Bouts : Scellees(f)' = Scellees(f)
    BY <2>1, <2>2 DEF Scellees
  <2> QED  BY <2>3
<1>3. CASE PasRedemarrer(e)
  BY <1>3 DEF PasRedemarrer, Scellees
<1> QED
  BY <1>1, <1>2, <1>3 DEF UnPas, PasEnvoi, PasMinuterie, PasReponse, PasPromotion, PasNeutre

\* Only an answer to an initiation adds to what is answered for.
LEMMA ReponduesApres ==
  ASSUME NEW e \in Bouts, UnPas(e)
  PROVE  /\ Repondues \subseteq Repondues'
         /\ Repondues' = Repondues \/ PasInitiation(e)
<1>1. reseau \subseteq reseau'
  BY ReseauGrandit
<1>2. CASE Envoie(e)
  <2>1. PICK tous : Courants(e, tous) /\ reseau' = reseau \cup tous
    BY <1>2 DEF Envoie
  <2>2. \A m \in tous : m.type # "reponse"
    BY <2>1 DEF Courants
  <2> QED  BY <2>1, <2>2 DEF Repondues
<1>3. CASE PasRedemarrer(e)
  BY <1>3 DEF PasRedemarrer, Repondues
<1> QED
  BY <1>1, <1>2, <1>3 DEF UnPas, PasEnvoi, PasMinuterie, PasReponse, PasPromotion, PasNeutre, Repondues

LEMMA HorlogeApres ==
  ASSUME TypeOK, NEW e \in Bouts, UnPas(e), NEW f \in Bouts
  PROVE  \/ horloge'[f] = horloge[f] /\ poignee'[f] \in {poignee[f], Nulle}
         \/ horloge'[f] = horloge[f] + 1
<1>1. ASSUME NEW t, Lance(e, t) \/ Reste(e, t)
      PROVE  \/ horloge'[f] = horloge[f] /\ poignee'[f] \in {poignee[f], Nulle}
             \/ horloge'[f] = horloge[f] + 1
  BY <1>1 DEF Lance, Reste, TypeOK
<1>2. CASE PasEnvoi(e) \/ PasMinuterie(e)
  BY <1>1, <1>2 DEF PasEnvoi, PasMinuterie
<1>3. CASE PasReponse(e) \/ PasPromotion(e) \/ PasInitiation(e) \/ PasRedemarrer(e) \/ PasNeutre(e)
  BY <1>3 DEF PasReponse, PasPromotion, PasInitiation, PasRedemarrer, PasNeutre, TypeOK
<1> QED  BY <1>2, <1>3 DEF UnPas

LEMMA ScellePas ==
  ASSUME Socle, OrigineInv, DatesInv, ScelleInv, [Next]_vars
  PROVE  ScelleInv'
<1>1. TypeOK /\ TypeOK' /\ OrigineInv' /\ DatesInv'
  BY SoclePas, OriginePas, DatesPas DEF Socle
<1>2. PICK e \in Bouts : UnPas(e)
  BY LesPas
<1>3. ASSUME NEW f \in Bouts, NEW k \in Scellees(f)
      PROVE  /\ k \in Repondues'
             /\ suivante'[f] # Nulle => k # suivante'[f].cle
             /\ k.par = f => k.horo <= horloge'[f] /\ (poignee'[f] # Nulle => k.horo < horloge'[f])
  <2>1. /\ k \in Repondues
        /\ suivante[f] # Nulle => k # suivante[f].cle
        /\ k.par = f => k.horo <= horloge[f] /\ (poignee[f] # Nulle => k.horo < horloge[f])
    BY <1>3 DEF ScelleInv
  <2>2. k \in Repondues'
    BY <1>2, <2>1, ReponduesApres
  <2>3. suivante'[f] # Nulle => k # suivante'[f].cle
    <3>1. CASE suivante'[f] \in {suivante[f], Nulle}
      BY <2>1, <3>1
    <3>2. CASE f = e /\ PasInitiation(e)
      <4>1. PICK m \in reseau, i \in Indices :
              /\ m.horo \in Horodatages /\ m.horo > dernierHorodatage[e]
              /\ suivante' = [suivante EXCEPT ![e] = Repondue(e, m, i)]
        BY <3>2 DEF PasInitiation
      <4>2. Repondue(e, m, i).cle \notin Repondues
        BY <4>1, CleLibre DEF Repondue
      <4>3. suivante'[f] = Repondue(e, m, i)
        BY <1>1, <3>2, <4>1 DEF TypeOK
      <4> QED  BY <2>1, <4>2, <4>3
    <3>3. suivante'[f] \in {suivante[f], Nulle} \/ (f = e /\ PasInitiation(e))
      BY <1>1, <1>2, PlacesApres
    <3> QED  BY <3>1, <3>2, <3>3
  <2>4. k.par = f => k.horo <= horloge'[f] /\ (poignee'[f] # Nulle => k.horo < horloge'[f])
    <3>1. \/ horloge'[f] = horloge[f] /\ poignee'[f] \in {poignee[f], Nulle}
          \/ horloge'[f] = horloge[f] + 1
      BY <1>1, <1>2, HorlogeApres
    <3>2. horloge[f] \in Nat
      BY <1>1, HorlogeNat
    <3>3. k.horo \in Nat
      <4>1. PICK m \in reseau : m.type = "donnees" /\ k = m.cle
        BY <1>3 DEF Scellees
      <4>2. m.cle \in Cles
        BY <1>1, <4>1, MessageType DEF TypeOK
      <4> QED  BY <4>1, <4>2, HorodatageNat DEF Cles
    <3> QED  BY <2>1, <3>1, <3>2, <3>3
  <2> QED  BY <2>2, <2>3, <2>4
<1>4. ASSUME courante'[e] # Nulle
      PROVE  LET k == courante'[e].cle
             IN  /\ k \in Repondues'
                 /\ suivante'[e] # Nulle => k # suivante'[e].cle
                 /\ k.par = e => k.horo <= horloge'[e] /\ (poignee'[e] # Nulle => k.horo < horloge'[e])
  <2>1. courante'[e] \in Tenues(e)'
    BY <1>4 DEF Tenues
  <2>2. courante'[e].cle \in Repondues'
    BY <1>1, <2>1 DEF OrigineInv, OuvertePar, Repondues
  <2>3. /\ Datee(e, courante'[e], horloge'[e], poignee'[e], dernierHorodatage'[e])
        /\ suivante'[e] # Nulle =>
             /\ suivante'[e].cle.par = Autre(e)
             /\ courante'[e].cle.par = Autre(e) => courante'[e].cle.horo < suivante'[e].cle.horo
    BY <1>1, <1>4, <2>1 DEF DatesInv
  <2>4. courante'[e].cle.horo \in Nat
    BY <1>1, <1>4, SessionTypee, HorodatageNat DEF TypeOK
  <2> QED  BY <2>2, <2>3, <2>4 DEF Datee
<1>5. \A f \in Bouts : \A k \in Scellees(f)' :
        k \in Scellees(f) \/ (f = e /\ courante'[e] # Nulle /\ k = courante'[e].cle)
  BY <1>2, ScelleesApres
<1> QED  BY <1>3, <1>4, <1>5 DEF ScelleInv

-----------------------------------------------------------------------------
(* The promises of TunnelIdeal. *)

\* The keys at a place of each end.
Porte(place) == [f \in Bouts |-> Cle(place[f])]

LEMMA PorteExcept ==
  ASSUME NEW p, NEW q, NEW e \in Bouts, \A f \in Bouts \ {e} : q[f] = p[f]
  PROVE  Porte(q) = [Porte(p) EXCEPT ![e] = Cle(q[e])]
BY DEF Porte

LEMMA PorteDe ==
  ASSUME NEW p, NEW e \in Bouts
  PROVE  Porte(p)[e] = Cle(p[e])
BY DEF Porte

LEMMA CleDe ==
  ASSUME NEW s \in Sessions \cup {Nulle}
  PROVE  /\ (Cle(s) # Nulle) <=> (s # Nulle)
         /\ s # Nulle => Cle(s) = s.cle /\ s.cle \in Cles
BY SessionTypee, NulleAssumption DEF Cle

\* TunnelIdeal, with its variables named as here.
LEMMA Traduction ==
  ASSUME NEW e \in Bouts
  PROVE  /\ Ideal!Sceller(e) <=>
              \/ UNCHANGED [f \in Bouts |-> Scellees(f)]
              \/ /\ Porte(courante)'[e] # Nulle
                 /\ [f \in Bouts |-> Scellees(f)]' =
                      [[f \in Bouts |-> Scellees(f)] EXCEPT ![e] = @ \cup {Porte(courante)'[e]}]
         /\ Ideal!Oublier(e) <=>
              /\ \E k \in {Porte(courante)[e], Nulle} : Porte(courante)' = [Porte(courante) EXCEPT ![e] = k]
              /\ \E k \in {Porte(precedente)[e], Nulle} : Porte(precedente)' = [Porte(precedente) EXCEPT ![e] = k]
              /\ \E k \in {Porte(suivante)[e], Nulle} : Porte(suivante)' = [Porte(suivante) EXCEPT ![e] = k]
              /\ Ideal!Sceller(e)
              /\ UNCHANGED Repondues
BY DEF Ideal!Sceller, Ideal!Oublier, Porte

LEMMA ScellerPas ==
  ASSUME TypeOK', NEW e \in Bouts, UnPas(e)
  PROVE  Ideal!Sceller(e)
<1> DEFINE S == [f \in Bouts |-> Scellees(f)]
<1>1. courante'[e] \in Sessions \cup {Nulle}
  BY DEF TypeOK
<1>2. CASE Scellees(e)' = Scellees(e)
  <2>1. \A f \in Bouts : Scellees(f)' = Scellees(f)
    BY <1>2, ScelleesApres
  <2>2. S' = S
    BY <2>1
  <2> QED  BY <2>2, Traduction
<1>3. CASE courante'[e] # Nulle /\ Scellees(e)' = Scellees(e) \cup {courante'[e].cle}
  <2>1. Porte(courante)'[e] = courante'[e].cle /\ courante'[e].cle # Nulle
    BY <1>1, <1>3, CleDe DEF Porte
  <2>2. \A f \in Bouts : Scellees(f)' = IF f = e THEN Scellees(f) \cup {Porte(courante)'[e]} ELSE Scellees(f)
    BY <1>3, <2>1, ScelleesApres
  <2>3. S' = [S EXCEPT ![e] = @ \cup {Porte(courante)'[e]}]
    BY <2>2
  <2> QED  BY <2>1, <2>3, Traduction
<1> QED  BY <1>2, <1>3, ScelleesApres

LEMMA PlacesDesAutres ==
  ASSUME TypeOK, NEW e \in Bouts, UnPas(e), NEW f \in Bouts \ {e}
  PROVE  courante'[f] = courante[f] /\ precedente'[f] = precedente[f] /\ suivante'[f] = suivante[f]
BY DEF UnPas, PasEnvoi, PasMinuterie, PasReponse, PasPromotion, PasInitiation, PasRedemarrer,
       PasNeutre, TypeOK

LEMMA PortesApres ==
  ASSUME TypeOK, NEW e \in Bouts, UnPas(e)
  PROVE  /\ Porte(courante)' = [Porte(courante) EXCEPT ![e] = Cle(courante'[e])]
         /\ Porte(precedente)' = [Porte(precedente) EXCEPT ![e] = Cle(precedente'[e])]
         /\ Porte(suivante)' = [Porte(suivante) EXCEPT ![e] = Cle(suivante'[e])]
<1>1. \A f \in Bouts \ {e} : /\ courante'[f] = courante[f] /\ precedente'[f] = precedente[f]
                             /\ suivante'[f] = suivante[f]
  BY PlacesDesAutres
<1> QED  BY <1>1 DEF Porte

\* Keeping or losing what it holds, an end may only seal.
LEMMA OublierPas ==
  ASSUME TypeOK, TypeOK', NEW e \in Bouts, UnPas(e), ~PasInitiation(e),
         courante'[e] \in {courante[e], Nulle}, precedente'[e] \in {precedente[e], Nulle},
         suivante'[e] \in {suivante[e], Nulle}
  PROVE  Ideal!Oublier(e)
<1>1. /\ Cle(courante'[e]) \in {Porte(courante)[e], Nulle}
      /\ Cle(precedente'[e]) \in {Porte(precedente)[e], Nulle}
      /\ Cle(suivante'[e]) \in {Porte(suivante)[e], Nulle}
  BY DEF Cle, Porte
<1>2. Repondues' = Repondues
  BY ReponduesApres
<1> QED  BY <1>1, <1>2, PortesApres, ScellerPas, Traduction

\* What it takes to use the keys of a session.
LEMMA NeuveDe ==
  ASSUME TypeOK, NEW e \in Bouts, NEW k, k \notin Scellees(e),
         courante[e] # Nulle /\ courante[e].cle.par = k.par => courante[e].cle.horo < k.horo
  PROVE  Ideal!Neuve(e, k)
<1>1. courante[e] \in Sessions \cup {Nulle}
  BY DEF TypeOK
<1>2. /\ (Cle(courante[e]) # Nulle) <=> (courante[e] # Nulle)
      /\ courante[e] # Nulle => Cle(courante[e]) = courante[e].cle
  BY <1>1, CleDe
<1> QED  BY <1>2 DEF Ideal!Neuve

LEMMA OuvrirPas ==
  ASSUME Socle, TypeOK', DatesInv, ScelleInv, NEW e \in Bouts, UnPas(e), PasReponse(e), ~PasInitiation(e)
  PROVE  Ideal!Ouvrir(e)
<1>1. TypeOK
  BY DEF Socle
<1>2. PICK m \in reseau :
        /\ m.type = "reponse" /\ SessionOuverte(m) \in Sessions
        /\ poignee[e] # Nulle /\ m.cle.par = e /\ m.cle.horo = poignee[e].horo
        /\ precedente' = [precedente EXCEPT ![e] = courante[e]]
        /\ courante' = [courante EXCEPT ![e] = SessionOuverte(m)]
  BY DEF PasReponse
<1>3. suivante' = suivante
  BY DEF PasReponse
<1>4. m.cle \in Repondues
  BY <1>2 DEF Repondues
<1>5. poignee[e].horo = horloge[e] /\ horloge[e] \in Nat
  BY <1>1, <1>2, HorlogeNat DEF DatesInv, TypeOK
<1>6. m.cle \notin Scellees(e)
  BY <1>2, <1>5 DEF ScelleInv
<1>7. courante[e] # Nulle /\ courante[e].cle.par = m.cle.par => courante[e].cle.horo < m.cle.horo
  <2>1. courante[e] # Nulle => courante[e] \in Tenues(e)
    BY DEF Tenues
  <2> QED  BY <1>2, <1>5, <2>1 DEF DatesInv, Datee
<1>8. Ideal!Neuve(e, m.cle)
  BY <1>1, <1>6, <1>7, NeuveDe
<1>9. courante'[e] = SessionOuverte(m) /\ precedente'[e] = courante[e]
  BY <1>1, <1>2 DEF TypeOK
<1>10. Cle(courante'[e]) = m.cle
  <2>1. SessionOuverte(m) # Nulle
    BY <1>2, NulleAssumption
  <2>2. SessionOuverte(m).cle = m.cle
    BY DEF SessionOuverte
  <2> QED  BY <1>9, <2>1, <2>2 DEF Cle
<1>11. /\ Porte(courante)' = [Porte(courante) EXCEPT ![e] = m.cle]
       /\ Porte(precedente)' = [Porte(precedente) EXCEPT ![e] = Porte(courante)[e]]
       /\ Porte(suivante)' = Porte(suivante)
  BY <1>1, <1>3, <1>9, <1>10, PortesApres DEF Porte
<1>12. Repondues' = Repondues /\ Ideal!Sceller(e)
  BY ReponduesApres, ScellerPas
<1> QED  BY <1>2, <1>4, <1>8, <1>11, <1>12 DEF Ideal!Ouvrir, Porte

LEMMA EmployerPas ==
  ASSUME Socle, TypeOK', DatesInv, ScelleInv, NEW e \in Bouts, UnPas(e), PasPromotion(e), ~PasInitiation(e)
  PROVE  Ideal!Employer(e)
<1>1. TypeOK /\ EnCoursOK
  BY DEF Socle
<1>2. /\ enCours[e] # Nulle /\ enCours[e].session = suivante[e] /\ suivante[e] \in Sessions
      /\ enCours[e].msg \in reseau
      /\ courante'[e] = suivante[e] /\ precedente'[e] = courante[e] /\ suivante'[e] = Nulle
  BY <1>1 DEF PasPromotion, TypeOK
<1> DEFINE k == suivante[e].cle
<1>3. Cle(suivante[e]) = k /\ k # Nulle /\ suivante[e] # Nulle
  BY <1>2, CleDe, NulleAssumption
<1>4. k \in Scellees(Autre(e)) /\ Autre(e) \in Bouts \ {e}
  <2>1. enCours[e].msg.type = "donnees" /\ enCours[e].msg.de = Autre(e) /\ enCours[e].msg.cle = k
    BY <1>1, <1>2 DEF EnCoursOK
  <2> QED  BY <1>2, <2>1, DeuxBouts DEF Scellees
<1>5. k \notin Scellees(e)
  BY <1>3 DEF ScelleInv
<1>6. courante[e] # Nulle /\ courante[e].cle.par = k.par => courante[e].cle.horo < k.horo
  BY <1>3 DEF DatesInv
<1>7. Ideal!Neuve(e, k)
  BY <1>1, <1>5, <1>6, NeuveDe
<1>8. /\ Porte(courante)' = [Porte(courante) EXCEPT ![e] = k]
      /\ Porte(precedente)' = [Porte(precedente) EXCEPT ![e] = Porte(courante)[e]]
      /\ Porte(suivante)' = [Porte(suivante) EXCEPT ![e] = Nulle]
      /\ Porte(suivante)[e] = k
  BY <1>1, <1>2, <1>3, PortesApres DEF Porte, Cle
<1>9. Repondues' = Repondues /\ Ideal!Sceller(e)
  BY <1>1, ReponduesApres, ScellerPas
<1> HIDE DEF k
<1> QED  BY <1>3, <1>4, <1>7, <1>8, <1>9 DEF Ideal!Employer, Porte

LEMMA RepondrePas ==
  ASSUME Socle, OrigineInv, DatesInv, ScelleInv, NEW e \in Bouts, UnPas(e), PasInitiation(e)
  PROVE  Ideal!Repondre(e)
<1>1. TypeOK
  BY DEF Socle
<1>2. PICK m \in reseau, i \in Indices :
        /\ m.horo \in Horodatages /\ m.horo > dernierHorodatage[e]
        /\ Repondue(e, m, i) \in Sessions
        /\ suivante' = [suivante EXCEPT ![e] = Repondue(e, m, i)]
        /\ reseau' = reseau \cup {Repond(e, m, i)}
  BY DEF PasInitiation
<1>3. UNCHANGED <<courante, precedente>>
  BY DEF PasInitiation
<1> DEFINE x == Repondue(e, m, i)
           k == x.cle
<1>4. k.par = Autre(e) /\ k.par # e /\ k.horo = m.horo /\ k \in Cles /\ Cle(x) = k
  BY <1>2, DeuxBouts, CleDe, NulleAssumption DEF Repondue, Cle
<1>5. k \notin Repondues
  BY <1>2, CleLibre DEF Repondue
<1>6. k \notin Scellees(e)
  BY <1>5 DEF ScelleInv
<1>7. courante[e] # Nulle /\ courante[e].cle.par = k.par => courante[e].cle.horo < k.horo
  <2>1. ASSUME courante[e] # Nulle, courante[e].cle.par = k.par
        PROVE  courante[e].cle.horo < k.horo
    <3>1. courante[e] \in Tenues(e) /\ courante[e] \in Sessions
      BY <1>1, <2>1, PlaceType DEF Tenues
    <3>2. courante[e].cle.horo <= dernierHorodatage[e]
      BY <1>4, <2>1, <3>1 DEF DatesInv, Datee
    <3>3. courante[e].cle.horo \in Nat /\ dernierHorodatage[e] \in Nat /\ m.horo \in Nat
      BY <1>1, <1>2, <3>1, SessionTypee, HorodatageNat, HorlogeNat DEF TypeOK
    <3> QED  BY <1>2, <1>4, <3>2, <3>3
  <2> QED  BY <2>1
<1>8. Ideal!Neuve(e, k)
  BY <1>1, <1>6, <1>7, NeuveDe
<1>9. suivante'[e] = x
  BY <1>1, <1>2 DEF TypeOK
<1>10. Porte(suivante)' = [Porte(suivante) EXCEPT ![e] = k]
  BY <1>1, <1>4, <1>9, PortesApres
<1>11. Repondues' = Repondues \cup {k}
  <2> DEFINE d == Repond(e, m, i)
  <2>1. d.type = "reponse" /\ d.cle = k
    BY DEF Repond, Repondue
  <2> HIDE DEF d, k
  <2>2. reseau' = reseau \cup {d}
    BY <1>2 DEF d
  <2> QED  BY <2>1, <2>2 DEF Repondues
<1>12. \A f \in Bouts : Scellees(f)' = Scellees(f)
  BY <1>2 DEF Scellees, Repond
<1> HIDE DEF k
<1> QED  BY <1>3, <1>4, <1>5, <1>8, <1>10, <1>11, <1>12 DEF Ideal!Repondre, Porte

LEMMA EntentePas ==
  ASSUME Socle, OrigineInv, DatesInv, ScelleInv, [Next]_vars
  PROVE  Ideal!Next
<1>1. TypeOK /\ TypeOK'
  BY SoclePas DEF Socle
<1>2. PICK e \in Bouts : UnPas(e)
  BY LesPas
<1>3. CASE PasInitiation(e)
  BY <1>2, <1>3, RepondrePas DEF Ideal!Next
<1>4. CASE ~PasInitiation(e) /\ PasReponse(e)
  BY <1>1, <1>2, <1>4, OuvrirPas DEF Ideal!Next
<1>5. CASE ~PasInitiation(e) /\ PasPromotion(e)
  BY <1>1, <1>2, <1>5, EmployerPas DEF Ideal!Next
<1>6. CASE ~PasInitiation(e) /\ ~PasReponse(e) /\ ~PasPromotion(e)
  <2>1. /\ courante'[e] \in {courante[e], Nulle} /\ precedente'[e] \in {precedente[e], Nulle}
        /\ suivante'[e] \in {suivante[e], Nulle}
    BY <1>1, <1>2, <1>6
       DEF UnPas, PasEnvoi, PasMinuterie, PasRedemarrer, PasNeutre, Garde, TypeOK
  <2> QED  BY <1>1, <1>2, <1>6, <2>1, OublierPas DEF Ideal!Next
<1> QED  BY <1>3, <1>4, <1>5, <1>6

\* The engines implement TunnelIdeal: whatever is lost, repeated or delayed and
\* whoever restarts, an end opens a session only with keys it never sealed
\* with, and only its current session seals, so that no nonce is used twice; it
\* never goes back to an older handshake; the end that answered waits for the
\* other (session.go:25-29, moteur.go:604-606, 636-652, 729-737).
THEOREM TunnelEntente == Spec => Entente
<1>1. Init => Socle /\ OrigineInv /\ DatesInv /\ ScelleInv
  BY SocleInit, OrigineInit, DatesInit, ScelleInit
<1>2. Socle /\ OrigineInv /\ DatesInv /\ ScelleInv /\ [Next]_vars
        => Socle' /\ OrigineInv' /\ DatesInv' /\ ScelleInv'
  BY SoclePas, OriginePas, DatesPas, ScellePas
<1>3. Init => Ideal!Init
  BY DEF Init, Ideal!Init, Cle, Scellees, Repondues
<1>4. Socle /\ OrigineInv /\ DatesInv /\ ScelleInv /\ [Next]_vars => [Ideal!Next]_Ideal!vars
  BY EntentePas
<1> QED  BY <1>1, <1>2, <1>3, <1>4, PTL DEF Spec, Entente, Ideal!Spec

-----------------------------------------------------------------------------
(* The address of the end that moves. *)

\* The end that learns an address initiates nothing, and what the other one
\* sends says where it leaves from.
PointInv ==
  /\ \A m \in reseau : Mobile(m.de) => m.lieu \in Lieux
  /\ \A e \in Bouts \ Actifs : poignee[e] = Nulle
  /\ PointConnu

LEMMA PointInit == Init => PointInv
BY DEF Init, PointInv, PointConnu, Tenues

LEMMA PointPas ==
  ASSUME Socle, PointInv, [Next]_vars
  PROVE  PointInv'
<1>1. TypeOK /\ EnCoursOK
  BY DEF Socle
<1>2. PICK e \in Bouts : UnPas(e)
  BY LesPas
<1>3. \A m \in reseau' : Mobile(m.de) => m.lieu \in Lieux
  <2>1. CASE Envoie(e)
    <3>1. PICK tous : Courants(e, tous) /\ reseau' = reseau \cup tous
      BY <2>1 DEF Envoie
    <3> QED  BY <3>1 DEF PointInv, Courants
  <2>2. CASE PasInitiation(e)
    <3>1. PICK m \in reseau, i \in Indices :
            (Mobile(e) => m.lieu = lieu) /\ reseau' = reseau \cup {Repond(e, m, i)}
      BY <2>2 DEF PasInitiation
    <3>2. Repond(e, m, i).de = e /\ Repond(e, m, i).lieu = m.lieu
      BY DEF Repond
    <3> QED  BY <1>1, <3>1, <3>2 DEF PointInv, TypeOK
  <2>3. CASE PasRedemarrer(e)
    BY <2>3 DEF PasRedemarrer, PointInv
  <2> QED
    BY <1>2, <2>1, <2>2, <2>3 DEF UnPas, PasEnvoi, PasMinuterie, PasReponse, PasPromotion, PasNeutre
<1>4. \A f \in Bouts \ Actifs : poignee'[f] = Nulle
  <2>1. CASE e \in Actifs
    BY <1>1, <1>2, <2>1
       DEF UnPas, PasEnvoi, PasMinuterie, PasReponse, PasPromotion, PasInitiation, PasRedemarrer,
           PasNeutre, Lance, Reste, PointInv, TypeOK
  <2>2. CASE e \notin Actifs
    BY <1>1, <1>2, <2>2
       DEF UnPas, PasEnvoi, PasMinuterie, PasReponse, PasPromotion, PasInitiation, PasRedemarrer,
           PasNeutre, Lance, Reste, PointInv, TypeOK
  <2> QED  BY <2>1, <2>2
<1>5. ASSUME NEW f \in Bouts \ Actifs, ~ParRelais, Tenues(f)' # {}
      PROVE  point' # Nulle
  <2>1. Mobile(Autre(f)) /\ \A g \in Bouts : g # f => g \in Actifs
    BY <1>5, BoutsAssumption, DeuxBouts DEF Mobile
  <2>2. \A m \in reseau : m.de = Autre(f) => m.lieu \in Lieux /\ m.lieu # Nulle
    BY <2>1, NulleAssumption DEF PointInv
  <2>3. CASE e # f
    <3>1. e \in Actifs
      BY <2>1, <2>3
    <3>2. point' = point
      BY <1>2, <3>1
         DEF UnPas, PasEnvoi, PasMinuterie, PasReponse, PasPromotion, PasInitiation, PasRedemarrer,
             PasNeutre, Suivre
    <3>3. courante'[f] = courante[f] /\ precedente'[f] = precedente[f] /\ suivante'[f] = suivante[f]
      BY <1>1, <1>2, <2>3
         DEF UnPas, PasEnvoi, PasMinuterie, PasReponse, PasPromotion, PasInitiation, PasRedemarrer,
             PasNeutre, TypeOK
    <3>4. Tenues(f)' = Tenues(f)
      BY <3>3 DEF Tenues
    <3> QED  BY <1>5, <3>2, <3>4 DEF PointInv, PointConnu
  <2>4. CASE e = f /\ PasInitiation(e)
    <3>1. PICK m \in reseau : m.de = Autre(e) /\ Suivre(e, m)
      BY <2>4 DEF PasInitiation
    <3> QED  BY <1>5, <2>2, <2>4, <3>1 DEF Suivre
  <2>5. CASE e = f /\ enCours[e] # Nulle /\ enCours[e].msg \in reseau /\ Suivre(e, enCours[e].msg)
    <3>1. enCours[e].msg.de = Autre(e)
      BY <1>1, <2>5 DEF EnCoursOK
    <3> QED  BY <1>5, <2>2, <2>5, <3>1 DEF Suivre
  <2>6. CASE e = f /\ PasReponse(e)
    BY <1>5, <2>6 DEF PasReponse, PointInv
  <2>7. CASE e = f /\ PasRedemarrer(e)
    <3>1. courante'[e] = Nulle /\ precedente'[e] = Nulle /\ suivante'[e] = Nulle
      BY <1>1, <2>7 DEF PasRedemarrer, TypeOK
    <3> QED  BY <1>5, <2>7, <3>1 DEF Tenues
  <2>8. CASE e = f /\ UNCHANGED point /\ (PasEnvoi(e) \/ PasMinuterie(e) \/ PasNeutre(e))
    <3>1. /\ courante'[f] \in {courante[f], Nulle} /\ precedente'[f] \in {precedente[f], Nulle}
          /\ suivante'[f] \in {suivante[f], Nulle}
      BY <1>1, <2>8 DEF PasEnvoi, PasMinuterie, PasNeutre, Garde, TypeOK
    <3>2. Tenues(f) # {}
      BY <1>5, <3>1 DEF Tenues
    <3> QED  BY <1>5, <2>8, <3>2 DEF PointInv, PointConnu
  <2> QED
    BY <1>2, <2>3, <2>4, <2>5, <2>6, <2>7, <2>8
       DEF UnPas, PasEnvoi, PasMinuterie, PasPromotion, PasNeutre
<1> QED  BY <1>3, <1>4, <1>5 DEF PointInv, PointConnu

\* The end that learns an address has one as soon as it has a session to answer
\* with, even after it started again (moteur.go:599-601, 718-722).
THEOREM TunnelPointConnu == Spec => []PointConnu
<1>1. Init => Socle /\ PointInv
  BY SocleInit, PointInit
<1>2. Socle /\ PointInv /\ [Next]_vars => Socle' /\ PointInv'
  BY SoclePas, PointPas
<1>3. PointInv => PointConnu
  BY DEF PointInv
<1> QED  BY <1>1, <1>2, <1>3, PTL DEF Spec

-----------------------------------------------------------------------------
(* The window of a session: two counters less than a window apart never share *)
(* a position of the ring.                                                     *)

\* Division with remainder.
LEMMA DivMod ==
  ASSUME NEW W \in Nat \ {0}, NEW a \in Nat
  PROVE  /\ a % W \in 0 .. W - 1
         /\ a \div W \in Int
         /\ a = W * (a \div W) + (a % W)
  BY SMT

\* Two multiples of W less than W apart are the same multiple.
LEMMA MultiplesVoisins ==
  ASSUME NEW W \in Nat \ {0}, NEW p \in Int, NEW q \in Int,
         W * p - W * q < W, W * q - W * p < W
  PROVE  p = q
<1>1. CASE p > q
  <2>1. p >= q + 1 BY <1>1
  <2>2. W * (p - q) >= W BY <2>1, SMT
  <2> QED BY <2>2, SMT
<1>2. CASE q > p
  <2>1. q >= p + 1 BY <1>2
  <2>2. W * (q - p) >= W BY <2>1, SMT
  <2> QED BY <2>2, SMT
<1> QED BY <1>1, <1>2

\* Two counters less than a window apart have different positions in the ring.
LEMMA ModInjectif ==
  ASSUME NEW W \in Nat \ {0}, NEW a \in Nat, NEW b \in Nat,
         a - b < W, b - a < W, a % W = b % W
  PROVE  a = b
<1>1. /\ a = W * (a \div W) + (a % W) /\ a \div W \in Int
      /\ b = W * (b \div W) + (b % W) /\ b \div W \in Int
  BY DivMod
<1>2. /\ W * (a \div W) - W * (b \div W) < W
      /\ W * (b \div W) - W * (a \div W) < W
  BY <1>1, SMT
<1>3. a \div W = b \div W
  BY <1>1, <1>2, MultiplesVoisins
<1> QED BY <1>1, <1>3

\* The same, for the counters and the ring of the module.
LEMMA CasesDistinctes ==
  /\ \A n \in Compteurs : bit(n) \in Cases
  /\ \A a, b \in Compteurs :
       a - b < TailleFenetre /\ b - a < TailleFenetre /\ bit(a) = bit(b) => a = b
<1>1. ASSUME NEW n \in Compteurs PROVE bit(n) \in Cases
  BY <1>1, DivMod, TailleAssumption, LimiteAssumption DEF bit, Cases, Compteurs
<1>2. ASSUME NEW a \in Compteurs, NEW b \in Compteurs,
             a - b < TailleFenetre, b - a < TailleFenetre, bit(a) = bit(b)
      PROVE  a = b
  <2>1. a \in Nat /\ b \in Nat BY LimiteAssumption DEF Compteurs
  <2> QED BY <1>2, <2>1, ModInjectif, TailleAssumption DEF bit
<1> QED BY <1>1, <1>2

-----------------------------------------------------------------------------

\* The initial window is empty.
LEMMA InvInit == SInit => Inv
<1> SUFFICES ASSUME SInit PROVE Inv
  OBVIOUS
<1> USE TailleAssumption, LimiteAssumption DEF SInit
<1>1. STypeOK
  <2>1. 0 \in Compteurs /\ 0 \in 0 .. RejeterApresN
    BY DEF Compteurs
  <2>2. lecteur \in [Lecteurs -> [etape : {"repos", "accepter"}, n : Compteurs]]
    BY <2>1
  <2>3. rendu \in [n : Compteurs, authentique : BOOLEAN, ok : BOOLEAN]
    BY <2>1
  <2> QED BY <2>1, <2>2, <2>3 DEF STypeOK
<1>2. Livres = {}
  BY DEF Livres
<1> QED BY <1>1, <1>2 DEF Inv, AuPlusUneFois, SeulEmis, FenetreJuste, EnMain

\* What accepter does when the counter is ahead of everything seen.
LEMMA AvanceJuste ==
  ASSUME Inv, NEW n \in Compteurs, n < RejeterApresN, n < compteur, Avance(n),
         bits' = BitsAvances(n), max' = n, vu' = TRUE,
         livres' = [livres EXCEPT ![n] = @ + 1]
  PROVE  /\ n \notin Livres
         /\ Livres' = Livres \cup {n}
         /\ bits' \in [Cases -> BOOLEAN]
         /\ AuPlusUneFois'
         /\ FenetreJuste'
<1> USE TailleAssumption, LimiteAssumption
<1>0. n \in Nat /\ max \in Nat /\ max \in Compteurs /\ livres \in [Compteurs -> Nat]
      /\ bits \in [Cases -> BOOLEAN] /\ vu \in BOOLEAN
  BY DEF Inv, STypeOK, Compteurs
<1>1. n \notin Livres
  BY <1>0 DEF Inv, FenetreJuste, Avance, Compteurs, Livres
<1>2. Livres' = Livres \cup {n}
  BY <1>0, <1>1 DEF Livres
<1>3. bits' \in [Cases -> BOOLEAN]
  BY <1>0 DEF BitsAvances
<1>4. AuPlusUneFois'
  BY <1>0, <1>1 DEF Inv, AuPlusUneFois, Livres
<1>5. \A k \in Livres' : k <= n
  <2>1. \A k \in Livres : k \in Nat /\ k <= max
    BY DEF Inv, FenetreJuste, Compteurs, Livres
  <2>2. Livres = {} \/ n > max
    BY DEF Inv, FenetreJuste, Avance
  <2> QED  BY <1>0, <1>2, <2>1, <2>2
<1>6. ASSUME NEW k \in Compteurs, k <= n, n - k < TailleFenetre
      PROVE  bits'[bit(k)] <=> k \in Livres'
  <2>0. k \in Nat /\ bit(k) \in Cases /\ bit(n) \in Cases
    BY <1>6, CasesDistinctes DEF Compteurs
  <2>1. CASE k = n
    BY <2>0, <2>1, <1>2 DEF BitsAvances
  <2>2. CASE k # n
    <3>1. bit(k) # bit(n)
      BY <2>2, <1>0, <1>6, CasesDistinctes DEF Compteurs
    <3>2. k \in Livres' <=> k \in Livres
      BY <2>2, <1>2
    <3>3. CASE ~vu
      BY <3>1, <3>2, <3>3, <2>0 DEF BitsAvances, Inv, FenetreJuste
    <3>4. CASE vu /\ k > max
      <4>1. k \in max + 1 .. n - 1
        BY <3>4, <1>0, <1>6, <2>2, <2>0
      <4>2. ~bits'[bit(k)]
        BY <4>1, <3>1, <2>0 DEF BitsAvances
      <4>3. k \notin Livres
        BY <3>4, <1>0, <2>0 DEF Inv, FenetreJuste, Livres, Compteurs
      <4> QED BY <4>2, <4>3, <3>2
    <3>5. CASE vu /\ k <= max
      <4>1. n > max
        BY <3>5 DEF Avance
      <4>2. n - max < TailleFenetre /\ max - k < TailleFenetre
        BY <1>0, <1>6, <2>0, <3>5, <4>1
      <4>3. ASSUME NEW j \in max + 1 .. n - 1 PROVE bit(j) # bit(k)
        <5>1. j \in Compteurs
          BY <4>3, <1>0 DEF Compteurs
        <5>2. j - k < TailleFenetre /\ k - j < TailleFenetre /\ j # k
          BY <4>3, <1>0, <1>6, <2>0, <3>5
        <5> QED BY <5>1, <5>2, CasesDistinctes
      <4>4. bits'[bit(k)] <=> bits[bit(k)]
        BY <3>1, <3>5, <4>2, <4>3, <2>0, Zenon DEF BitsAvances
      <4> QED BY <4>4, <4>2, <3>2, <3>5 DEF Inv, FenetreJuste
    <3> QED BY <3>3, <3>4, <3>5, <1>0, <2>0
  <2> QED BY <2>1, <2>2
<1>7. n \in Livres' /\ Livres' # {}
  BY <1>2
<1>8. FenetreJuste'
  BY <1>5, <1>6, <1>7 DEF FenetreJuste, bit, Compteurs
<1> QED BY <1>1, <1>2, <1>3, <1>4, <1>8

\* What accepter does with a counter of the window whose bit is clear.
LEMMA DansLaFenetreJuste ==
  ASSUME Inv, NEW n \in Compteurs, ~Avance(n), max - n < TailleFenetre, ~bits[bit(n)],
         bits' = [bits EXCEPT ![bit(n)] = TRUE], max' = max, vu' = vu,
         livres' = [livres EXCEPT ![n] = @ + 1]
  PROVE  /\ n \notin Livres
         /\ Livres' = Livres \cup {n}
         /\ bits' \in [Cases -> BOOLEAN]
         /\ AuPlusUneFois'
         /\ FenetreJuste'
<1> USE TailleAssumption, LimiteAssumption
<1>0. n \in Nat /\ max \in Nat /\ livres \in [Compteurs -> Nat] /\ bit(n) \in Cases
      /\ bits \in [Cases -> BOOLEAN] /\ vu /\ n <= max
  BY CasesDistinctes DEF Inv, STypeOK, Compteurs, Avance
<1>1. n \notin Livres
  BY <1>0 DEF Inv, FenetreJuste
<1>2. Livres' = Livres \cup {n}
  BY <1>0, <1>1 DEF Livres
<1>3. AuPlusUneFois'
  BY <1>0, <1>1 DEF Inv, AuPlusUneFois, Livres
<1>4. ASSUME NEW k \in Compteurs, k <= max, max - k < TailleFenetre
      PROVE  bits'[bit(k)] <=> k \in Livres'
  <2>0. k \in Nat /\ bit(k) \in Cases
    BY <1>4, CasesDistinctes DEF Compteurs
  <2>1. CASE k = n
    BY <2>1, <1>0, <1>2
  <2>2. CASE k # n
    <3>1. k - n < TailleFenetre /\ n - k < TailleFenetre
      BY <1>0, <1>4, <2>0
    <3>2. bit(k) # bit(n)
      BY <3>1, <2>2, CasesDistinctes
    <3>3. bits'[bit(k)] <=> bits[bit(k)]
      BY <3>2, <2>0, <1>0
    <3>4. k \in Livres' <=> k \in Livres
      BY <1>2, <2>2
    <3> QED BY <3>3, <3>4, <1>4, <1>0 DEF Inv, FenetreJuste
  <2> QED BY <2>1, <2>2
<1>5. \A k \in Livres' : k <= max
  BY <1>0, <1>2 DEF Inv, FenetreJuste
<1>6. max \in Livres'
  BY <1>0, <1>2 DEF Inv, FenetreJuste
<1>7. FenetreJuste'
  BY <1>0, <1>4, <1>5, <1>6 DEF FenetreJuste, bit, Compteurs
<1> QED BY <1>0, <1>1, <1>2, <1>3, <1>7

\* A step that hands nothing up and leaves the window alone.
LEMMA FenetreInchangee ==
  ASSUME Inv, UNCHANGED <<max, vu, bits, livres>>
  PROVE  AuPlusUneFois' /\ FenetreJuste' /\ Livres' = Livres
  BY DEF Inv, AuPlusUneFois, FenetreJuste, Livres, bit, Compteurs, Cases

\* The two ways accepter answers, and what each does.
LEMMA AccepterCas ==
  ASSUME Inv, NEW l \in Lecteurs, Accepter(l)
  PROVE  LET n == lecteur[l].n IN
         /\ n \in Compteurs /\ n < compteur /\ n < RejeterApresN
         /\ \/ /\ rendu' = [n |-> n, authentique |-> TRUE, ok |-> TRUE]
               /\ n \notin Livres
               /\ Livres' = Livres \cup {n}
               /\ max' \in {n, max}
               /\ livres' = [livres EXCEPT ![n] = @ + 1]
               /\ bits' \in [Cases -> BOOLEAN] /\ vu' = TRUE
               /\ \A k \in Livres : k - n < TailleFenetre
            \/ /\ rendu' = [n |-> n, authentique |-> TRUE, ok |-> FALSE]
               /\ UNCHANGED <<max, vu, bits, livres>>
               /\ n \in Livres \/ (max \in Livres /\ max - n >= TailleFenetre)
         /\ AuPlusUneFois' /\ FenetreJuste'
<1> DEFINE n == lecteur[l].n
<1> USE TailleAssumption, LimiteAssumption
<1>0. n \in Compteurs /\ n \in Nat /\ n < compteur /\ n < RejeterApresN /\ max \in Nat
  BY DEF Inv, STypeOK, EnMain, Accepter, Compteurs
<1>1. PICK ok \in BOOLEAN :
        /\ accepter(n, ok)
        /\ rendu' = [n |-> n, authentique |-> TRUE, ok |-> ok]
        /\ livres' = IF ok THEN [livres EXCEPT ![n] = @ + 1] ELSE livres
  BY DEF Accepter
<1>2. CASE Avance(n)
  <2>1. ok = TRUE /\ bits' = BitsAvances(n) /\ max' = n /\ vu' = TRUE
        /\ livres' = [livres EXCEPT ![n] = @ + 1]
    BY <1>0, <1>1, <1>2 DEF accepter, Compteurs
  <2>2. \A k \in Livres : k - n < TailleFenetre
    BY <1>0, <1>2 DEF Inv, FenetreJuste, Avance, Livres, Compteurs
  <2>3. /\ n \notin Livres
        /\ Livres' = Livres \cup {n}
        /\ bits' \in [Cases -> BOOLEAN]
        /\ AuPlusUneFois'
        /\ FenetreJuste'
    BY <2>1, <1>0, <1>2, AvanceJuste
  <2> QED BY <1>0, <1>1, <2>1, <2>2, <2>3
<1>3. CASE ~Avance(n)
  <2>0. vu /\ n <= max /\ max \in Livres /\ \A k \in Livres : k <= max
    BY <1>0, <1>3 DEF Avance, Inv, FenetreJuste
  <2>1. /\ ok = (max - n < TailleFenetre /\ ~bits[bit(n)])
        /\ bits' = IF ok THEN [bits EXCEPT ![bit(n)] = TRUE] ELSE bits
        /\ max' = max /\ vu' = vu
    BY <1>0, <1>1, <1>3 DEF accepter, Compteurs
  <2>2. CASE ok
    <3>1. /\ n \notin Livres
          /\ Livres' = Livres \cup {n}
          /\ bits' \in [Cases -> BOOLEAN]
          /\ AuPlusUneFois'
          /\ FenetreJuste'
      BY <2>1, <2>2, <1>0, <1>1, <1>3, DansLaFenetreJuste
    <3>2. max - n < TailleFenetre
      BY <2>1, <2>2, Zenon
    <3>3. ASSUME NEW k \in Livres PROVE k - n < TailleFenetre
      <4>1. k \in Nat /\ k <= max
        BY <2>0 DEF Livres, Compteurs
      <4> QED BY <4>1, <3>2, <1>0
    <3> QED BY <1>0, <1>1, <2>0, <2>1, <2>2, <3>1, <3>3
  <2>3. CASE ~ok
    <3>1. UNCHANGED <<max, vu, bits, livres>>
      BY <1>1, <2>1, <2>3
    <3>2. n \in Livres \/ max - n >= TailleFenetre
      <4>1. ~(max - n < TailleFenetre) \/ bits[bit(n)]
        BY <2>1, <2>3, Zenon
      <4>2. CASE ~(max - n < TailleFenetre)
        BY <4>2, <1>0
      <4>3. CASE max - n < TailleFenetre /\ bits[bit(n)]
        BY <4>3, <1>0, <2>0 DEF Inv, FenetreJuste
      <4> QED BY <4>1, <4>2, <4>3
    <3> QED BY <1>0, <1>1, <2>0, <2>3, <3>1, <3>2, FenetreInchangee
  <2> QED BY <2>2, <2>3
<1> QED BY <1>2, <1>3

\* Every step keeps the invariant.
LEMMA InvPas == Inv /\ [SNext]_svars => Inv'
<1> SUFFICES ASSUME Inv, [SNext]_svars PROVE Inv'
  OBVIOUS
<1> USE TailleAssumption, LimiteAssumption
<1>1. CASE Chiffrer
  <2>1. STypeOK' /\ EnMain'
    BY <1>1 DEF Chiffrer, Inv, STypeOK, EnMain, Compteurs, Cases
  <2>2. AuPlusUneFois' /\ FenetreJuste' /\ Livres' = Livres
    BY <1>1, FenetreInchangee DEF Chiffrer
  <2>3. SeulEmis'
    BY <1>1, <2>2 DEF Chiffrer, Inv, SeulEmis, STypeOK, Livres, Compteurs
  <2> QED BY <2>1, <2>2, <2>3 DEF Inv
<1>2. ASSUME NEW l \in Lecteurs, Ouvrir(l) PROVE Inv'
  <2>1. AuPlusUneFois' /\ FenetreJuste' /\ Livres' = Livres
    BY <1>2, FenetreInchangee DEF Ouvrir
  <2>2. SeulEmis'
    BY <1>2, <2>1 DEF Ouvrir, Inv, SeulEmis
  <2>3. PICK n \in Compteurs, authentique \in BOOLEAN :
          \/ /\ possible(n) /\ Ouvre(n, authentique)
             /\ lecteur' = [lecteur EXCEPT ![l] = [etape |-> "accepter", n |-> n]]
             /\ UNCHANGED rendu
          \/ /\ rendu' = [n |-> n, authentique |-> authentique, ok |-> FALSE]
             /\ UNCHANGED lecteur
    BY <1>2 DEF Ouvrir
  <2>4. STypeOK'
    <3>1. lecteur' \in [Lecteurs -> [etape : {"repos", "accepter"}, n : Compteurs]]
      BY <2>3 DEF Inv, STypeOK
    <3>2. rendu' \in [n : Compteurs, authentique : BOOLEAN, ok : BOOLEAN]
      <4>1. rendu' = rendu \/ rendu' = [n |-> n, authentique |-> authentique, ok |-> FALSE]
        BY <2>3, Zenon
      <4>2. [n |-> n, authentique |-> authentique, ok |-> FALSE]
              \in [n : Compteurs, authentique : BOOLEAN, ok : BOOLEAN]
        BY Zenon
      <4> QED BY <4>1, <4>2 DEF Inv, STypeOK
    <3>3. UNCHANGED <<compteur, max, vu, bits, livres>>
      BY <1>2 DEF Ouvrir
    <3> QED BY <3>1, <3>2, <3>3 DEF Inv, STypeOK
  <2>5. EnMain'
    BY <1>2, <2>3 DEF Ouvrir, Inv, STypeOK, EnMain, possible, Ouvre
  <2> QED BY <2>1, <2>2, <2>4, <2>5 DEF Inv
<1>3. ASSUME NEW l \in Lecteurs, Accepter(l) PROVE Inv'
  <2> DEFINE n == lecteur[l].n
  <2>1. lecteur' = [lecteur EXCEPT ![l].etape = "repos"] /\ compteur' = compteur
    BY <1>3 DEF Accepter
  <2>2. n \in Compteurs /\ n < compteur /\ AuPlusUneFois' /\ FenetreJuste'
    BY <1>3, AccepterCas
  <2>3. STypeOK'
    <3>1. lecteur' \in [Lecteurs -> [etape : {"repos", "accepter"}, n : Compteurs]]
      BY <2>1 DEF Inv, STypeOK
    <3>2. /\ rendu' \in [n : Compteurs, authentique : BOOLEAN, ok : BOOLEAN]
          /\ max' \in Compteurs /\ vu' \in BOOLEAN
          /\ bits' \in [Cases -> BOOLEAN]
          /\ livres' \in [Compteurs -> Nat]
      <4>1. CASE /\ rendu' = [n |-> n, authentique |-> TRUE, ok |-> TRUE]
                 /\ max' \in {n, max}
                 /\ livres' = [livres EXCEPT ![n] = @ + 1]
                 /\ bits' \in [Cases -> BOOLEAN] /\ vu' = TRUE
        BY <2>2, <4>1 DEF Inv, STypeOK
      <4>2. CASE /\ rendu' = [n |-> n, authentique |-> TRUE, ok |-> FALSE]
                 /\ UNCHANGED <<max, vu, bits, livres>>
        BY <2>2, <4>2 DEF Inv, STypeOK
      <4> QED BY <1>3, <4>1, <4>2, AccepterCas
    <3> QED BY <2>1, <3>1, <3>2 DEF Inv, STypeOK
  <2>4. EnMain'
    BY <2>1 DEF Inv, STypeOK, EnMain
  <2>5. SeulEmis'
    <3>1. Livres' = Livres \cup {n} \/ Livres' = Livres
      BY <1>3, AccepterCas, FenetreInchangee
    <3>2. \A k \in Livres' : k < compteur'
      BY <2>1, <2>2, <3>1 DEF Inv, SeulEmis
    <3>3. vu' => max' \in Livres'
      BY <2>2 DEF FenetreJuste
    <3> QED BY <3>2, <3>3 DEF SeulEmis
  <2> QED BY <2>2, <2>3, <2>4, <2>5 DEF Inv
<1>4. CASE UNCHANGED svars
  BY <1>4 DEF svars, Inv, STypeOK, AuPlusUneFois, SeulEmis, FenetreJuste, EnMain,
     Livres, bit, Compteurs, Cases
<1> QED BY <1>1, <1>2, <1>3, <1>4 DEF SNext

\* The invariant holds of every behaviour: the ring describes the window
\* (fenetre.accepter, session.go:106-135).
THEOREM SessionInv == SSpec => []Inv
  BY InvInit, InvPas, PTL DEF SSpec

\* Type correctness of the session.
THEOREM SessionType == SSpec => []STypeOK
<1>1. Inv => STypeOK BY DEF Inv
<1> QED BY <1>1, SessionInv, PTL

\* No counter is ever handed up twice, for every window size and any number
\* of readers (session.go:60-73).
THEOREM SessionAuPlusUneFois == SSpec => []AuPlusUneFois
<1>1. Inv => AuPlusUneFois BY DEF Inv
<1> QED BY <1>1, SessionInv, PTL

\* Nothing is handed up, and the window never moves, but for a sealed counter
\* (session.go:58-59).
THEOREM SessionSeulEmis == SSpec => []SeulEmis
<1>1. Inv => SeulEmis BY DEF Inv
<1> QED BY <1>1, SessionInv, PTL

-----------------------------------------------------------------------------

\* A step of the two-phase opening is a step of the atomic one, or a stutter.
LEMMA PasAtomique == Inv /\ Inv' /\ [SNext]_svars => [Ideale!Next]_Ideale!vars
<1> SUFFICES ASSUME Inv, Inv', [SNext]_svars PROVE [Ideale!Next]_Ideale!vars
  OBVIOUS
<1> USE TailleAssumption, LimiteAssumption
<1>1. CASE Chiffrer
  <2>1. Livres' = Livres
    BY <1>1 DEF Chiffrer, Livres
  <2>2. Ideale!Chiffrer
    BY <1>1, <2>1 DEF Chiffrer, Ideale!Chiffrer
  <2> QED BY <2>2 DEF Ideale!Next
<1>2. ASSUME NEW l \in Lecteurs, Ouvrir(l) PROVE [Ideale!Next]_Ideale!vars
  <2>1. Livres' = Livres /\ compteur' = compteur
    BY <1>2 DEF Ouvrir, Livres
  <2>2. PICK n \in Compteurs, authentique \in BOOLEAN :
          /\ authentique => n < compteur
          /\ \/ UNCHANGED rendu
             \/ /\ ~(possible(n) /\ Ouvre(n, authentique))
                /\ rendu' = [n |-> n, authentique |-> authentique, ok |-> FALSE]
    BY <1>2 DEF Ouvrir
  <2>3. CASE UNCHANGED rendu
    BY <2>1, <2>3 DEF Ideale!vars
  <2>4. CASE /\ ~(possible(n) /\ Ouvre(n, authentique))
             /\ rendu' = [n |-> n, authentique |-> authentique, ok |-> FALSE]
    <3>1. ~(authentique /\ Ideale!Acceptable(n))
      <4>1. SUFFICES ASSUME authentique, ~possible(n) PROVE ~Ideale!Acceptable(n)
        BY <2>2, <2>4 DEF Ouvre
      <4>2. max \in Nat /\ n \in Nat
        BY DEF Inv, STypeOK, Compteurs
      <4>3. CASE n >= RejeterApresN
        BY <4>2, <4>3 DEF Ideale!Acceptable
      <4>4. CASE n < RejeterApresN
        <5>1. vu /\ n <= max /\ (max - n >= TailleFenetre \/ bits[bit(n)])
          BY <4>1, <4>2, <4>4 DEF possible, Avance
        <5>2. max \in Livres
          BY <5>1 DEF Inv, FenetreJuste
        <5>3. CASE max - n >= TailleFenetre
          <6>1. ~(max - n < TailleFenetre)
            BY <5>3, <4>2
          <6> QED BY <5>2, <6>1 DEF Ideale!Acceptable
        <5>4. CASE max - n < TailleFenetre
          <6>1. n \in Livres
            BY <5>1, <5>4, <4>2 DEF Inv, FenetreJuste
          <6> QED BY <6>1 DEF Ideale!Acceptable
        <5> QED BY <5>3, <5>4, <4>2
      <4> QED BY <4>2, <4>3, <4>4
    <3>2. Ideale!Dechiffrer
      BY <2>1, <2>2, <2>4, <3>1 DEF Ideale!Dechiffrer, Ideale!Compteurs, Compteurs
    <3> QED BY <3>2 DEF Ideale!Next
  <2> QED BY <2>2, <2>3, <2>4
<1>3. ASSUME NEW l \in Lecteurs, Accepter(l) PROVE [Ideale!Next]_Ideale!vars
  <2> DEFINE n == lecteur[l].n
  <2>0. n \in Compteurs /\ n < compteur /\ n < RejeterApresN
    BY <1>3, AccepterCas
  <2>1. /\ n \in Compteurs /\ n \in Nat /\ n < compteur /\ n < RejeterApresN
        /\ compteur' = compteur /\ max \in Nat
    BY <1>3, <2>0 DEF Accepter, Compteurs, Inv, STypeOK
  <2>2. CASE /\ rendu' = [n |-> n, authentique |-> TRUE, ok |-> TRUE]
             /\ n \notin Livres
             /\ Livres' = Livres \cup {n}
             /\ \A k \in Livres : k - n < TailleFenetre
    <3>1. Ideale!Acceptable(n)
      BY <2>1, <2>2 DEF Ideale!Acceptable
    <3>2. Ideale!Dechiffrer
      BY <2>1, <2>2, <3>1 DEF Ideale!Dechiffrer, Ideale!Compteurs, Compteurs
    <3> QED BY <3>2 DEF Ideale!Next
  <2>3. CASE /\ rendu' = [n |-> n, authentique |-> TRUE, ok |-> FALSE]
             /\ UNCHANGED <<max, vu, bits, livres>>
             /\ n \in Livres \/ (max \in Livres /\ max - n >= TailleFenetre)
    <3>1. ~Ideale!Acceptable(n)
      <4>1. CASE n \in Livres
        BY <4>1 DEF Ideale!Acceptable
      <4>2. CASE max \in Livres /\ max - n >= TailleFenetre
        <5>1. ~(max - n < TailleFenetre)
          BY <4>2, <2>1
        <5> QED BY <4>2, <5>1 DEF Ideale!Acceptable
      <4> QED BY <2>3, <4>1, <4>2
    <3>2. Livres' = Livres
      BY <2>3, FenetreInchangee
    <3>3. Ideale!Dechiffrer
      BY <2>1, <2>3, <3>1, <3>2 DEF Ideale!Dechiffrer, Ideale!Compteurs, Compteurs
    <3> QED BY <3>3 DEF Ideale!Next
  <2> QED BY <1>3, <2>2, <2>3, AccepterCas
<1>4. CASE UNCHANGED svars
  BY <1>4 DEF svars, Ideale!vars, Livres
<1> QED BY <1>1, <1>2, <1>3, <1>4 DEF SNext

\* dechiffrer, in two critical sections over a ring of bits, implements one
\* atomic test on the set of every counter handed up: it refuses a sealed
\* counter only if it was handed up, is a window behind, or is past the limit.
THEOREM SessionAtomique == SSpec => Atomique
<1>1. SInit => Ideale!Init
  <2>1. ASSUME SInit PROVE Livres = {}
    BY <2>1, LimiteAssumption DEF SInit, Livres
  <2> QED BY <2>1 DEF SInit, Ideale!Init
<1> QED BY <1>1, PasAtomique, SessionInv, PTL DEF SSpec, Atomique, Ideale!Spec
=============================================================================
