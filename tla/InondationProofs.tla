--------------------------- MODULE InondationProofs ---------------------------
(***************************************************************************)
(* What the protection against floods guarantees for every duration, rate  *)
(* and size of table that satisfies InondationAssumption: a device is      *)
(* refused twice at most in one series of attempts, and no network passes  *)
(* more than its rate allows.                                              *)
(***************************************************************************)
EXTENDS Inondation, Integers, TLAPS

\* Every date is past, and a series of attempts does not outlast abandonnerApres.
Dates ==
  /\ \A a \in Adresses : seaux[a] # Absent => seaux[a].vu <= maintenant
  /\ depuis <= maintenant
  /\ recu # Absent => recu <= maintenant
  /\ tourne # Absent => tourne <= maintenant
  /\ debut # Absent => debut <= maintenant /\ maintenant <= debut + Abandon + 1

Regle == TypeOK /\ Dates

LEMMA Nombres ==
  /\ Temps \subseteq Nat /\ Absent \notin Temps
  /\ Plein \in Nat /\ Plein >= 1 /\ Inactif \in Nat /\ Menage \in Nat
  /\ Duree \in Nat /\ Abandon \in Nat /\ Abandon + 1 < Duree
  /\ Inactif + 1 <= Plein /\ Plein <= Menage
BY InondationAssumption, AbsentAssumption DEF Temps

LEMMA SeauType ==
  ASSUME NEW s \in Seaux
  PROVE  s.jetons \in Nat /\ s.jetons <= Plein /\ s.vu \in Temps /\ s.vu \in Nat /\ s # Absent
BY InondationAssumption, AbsentAssumption DEF Seaux, Temps

LEMMA SeauDe ==
  ASSUME Regle, NEW a \in Adresses, seaux[a] # Absent
  PROVE  /\ seaux[a] \in Seaux /\ seaux[a].jetons \in Nat /\ seaux[a].jetons <= Plein
         /\ seaux[a].vu \in Nat /\ seaux[a].vu <= maintenant /\ maintenant \in Nat
BY SeauType, Nombres DEF Regle, TypeOK, Dates

LEMMA ContenuType ==
  ASSUME Regle, NEW a \in Adresses
  PROVE  Contenu(a) \in Nat /\ Contenu(a) <= Plein
<1>1. CASE seaux[a] = Absent
  BY <1>1, Nombres DEF Contenu
<1>2. CASE seaux[a] # Absent
  BY <1>2, SeauDe, Nombres DEF Contenu, Jetons, Recharge
<1> QED  BY <1>1, <1>2

\* A table only loses buckets, those that were idle for long enough.
LEMMA OublierType ==
  ASSUME Regle, NEW delai \in Nat
  PROVE  /\ Oublier(delai) \in [Adresses -> Seaux \cup {Absent}]
         /\ \A a \in Adresses : /\ Oublier(delai)[a] \in {seaux[a], Absent}
                                /\ seaux[a] # Absent /\ Oublier(delai)[a] = Absent =>
                                      maintenant - seaux[a].vu > delai
BY DEF Oublier, Regle, TypeOK

LEMMA TableType ==
  ASSUME Regle, NEW a \in Adresses
  PROVE  /\ Table(a) \in [Adresses -> Seaux \cup {Absent}]
         /\ \A b \in Adresses : /\ Table(a)[b] \in {seaux[b], Absent}
                                /\ seaux[b] # Absent /\ Table(a)[b] = Absent =>
                                      maintenant - seaux[b].vu > Inactif
         /\ seaux[a] # Absent => Table(a) = seaux
BY OublierType, Nombres DEF Table, Regle, TypeOK

\* What autoriser leaves of the table.
LEMMA DebiterType ==
  ASSUME Regle, NEW a \in Adresses, Debiter(a)
  PROVE  /\ seaux' \in [Adresses -> Seaux \cup {Absent}]
         /\ \A b \in Adresses \ {a} : seaux'[b] = Table(a)[b]
         /\ Place(a) => /\ seaux'[a] # Absent /\ seaux'[a].vu = maintenant
                        /\ seaux'[a].jetons = IF Contenu(a) >= 1 THEN Contenu(a) - 1 ELSE 0
         /\ ~Place(a) => seaux[a] = Absent /\ seaux'[a] = Absent
         /\ \A b \in Adresses : seaux'[b] # Absent => seaux'[b].vu <= maintenant
<1> DEFINE j == IF Contenu(a) >= 1 THEN Contenu(a) - 1 ELSE 0
           s == [jetons |-> j, vu |-> maintenant]
<1>1. j \in 0 .. Plein
  BY ContenuType, Nombres
<1>2. maintenant \in Temps /\ maintenant \in Nat
  BY Nombres DEF Regle, TypeOK
<1>3. s \in Seaux
  BY <1>1, <1>2 DEF Seaux
<1>4. s.jetons = j /\ s.vu = maintenant /\ s # Absent
  BY <1>3, SeauType
<1>5. seaux' = IF ~Place(a) THEN Table(a) ELSE [Table(a) EXCEPT ![a] = s]
  BY DEF Debiter
<1> HIDE DEF s
<1>6. CASE Place(a)
  <2>1. seaux' = [Table(a) EXCEPT ![a] = s]
    BY <1>5, <1>6
  <2>2. /\ seaux' \in [Adresses -> Seaux \cup {Absent}] /\ seaux'[a] = s
        /\ \A b \in Adresses \ {a} : seaux'[b] = Table(a)[b]
    BY <1>3, <2>1, TableType
  <2>3. ASSUME NEW b \in Adresses, seaux'[b] # Absent PROVE seaux'[b].vu <= maintenant
    <3>1. CASE b = a
      BY <1>2, <1>4, <2>2, <3>1
    <3>2. CASE b # a
      <4>1. seaux'[b] = seaux[b] /\ seaux[b] # Absent
        BY <2>2, <2>3, <3>2, TableType
      <4> QED  BY <4>1, SeauDe
    <3> QED  BY <3>1, <3>2
  <2> QED  BY <1>4, <1>6, <2>2, <2>3
<1>7. CASE ~Place(a)
  <2>1. seaux' = Table(a)
    BY <1>5, <1>7
  <2>2. seaux[a] = Absent /\ Table(a)[a] = Absent
    BY <1>7, TableType DEF Place
  <2>3. ASSUME NEW b \in Adresses, seaux'[b] # Absent PROVE seaux'[b].vu <= maintenant
    BY <2>1, <2>3, TableType, SeauDe
  <2> QED  BY <1>7, <2>1, <2>2, <2>3, TableType
<1> QED  BY <1>6, <1>7

-----------------------------------------------------------------------------
(* Types and dates, action by action. *)

LEMMA RegleInit == Init => Regle
<1> SUFFICES ASSUME Init PROVE Regle
  OBVIOUS
<1>1. 0 \in Temps
  BY InondationAssumption DEF Temps
<1>2. TypeOK
  BY <1>1, Nombres DEF Init, TypeOK
<1>3. Dates
  BY DEF Init, Dates
<1> QED  BY <1>2, <1>3 DEF Regle

\* A new secret has a date that is past.
LEMMA TournerType ==
  ASSUME Regle, Tourner
  PROVE  /\ secret' \in Nat /\ tourne' \in Temps /\ tourne' <= maintenant /\ tourne' # Absent
         /\ SecretCourant = secret'
BY Nombres DEF Regle, TypeOK, Dates, Tourner, SecretCourant, TourneCourant, Perime

LEMMA AttenduType ==
  ASSUME Regle, NEW a \in Adresses
  PROVE  /\ Attendu(a) \in Cookies /\ Attendu(a) # Absent
         /\ Attendu(a).adresse = a /\ Attendu(a).secret = SecretCourant
<1>1. SecretCourant \in Nat
  BY DEF Regle, TypeOK, SecretCourant
<1> QED  BY <1>1, AbsentAssumption DEF Attendu, Cookies

LEMMA VolType ==
  ASSUME Regle, vol # Absent
  PROVE  vol \in Initiations /\ vol.point \in Adresses /\ vol.cookie \in Cookies \cup {Absent}
BY DEF Regle, TypeOK, Initiations

\* An answer to the initiation under way.
LEMMA RepondreType ==
  ASSUME Regle, vol # Absent, NEW c \in Cookies \cup {Absent}, Repondre(c)
  PROVE  /\ retour' \in Reponses /\ retour' # Absent /\ vol' = Absent
         /\ retour'.point = vol.point /\ retour'.cookie = c
<1> DEFINE r == [point |-> vol.point, cookie |-> c]
<1>1. r \in Reponses /\ r.point = vol.point /\ r.cookie = c
  BY VolType DEF Reponses
<1>2. retour' = r /\ vol' = Absent
  BY DEF Repondre
<1> HIDE DEF r
<1> QED  BY <1>1, <1>2, AbsentAssumption

LEMMA RegleAppareil ==
  ASSUME Regle, Appareil
  PROVE  Regle'
<1> USE DEF fabrique, client, chemin, fenetre
<1>1. CASE lancerPoignee
  <2> DEFINE v == [point |-> adresse, cookie |-> Joint]
  <2>1. Joint \in Cookies \cup {Absent}
    BY DEF Joint, Regle, TypeOK
  <2>2. v \in Initiations
    BY <2>1, InondationAssumption DEF Initiations, Regle, TypeOK
  <2>3. vol' = v /\ UNCHANGED <<maintenant, fabrique, seaux, adresse, cookie, recu, fenetre>>
        /\ poignee' = TRUE /\ derniere' = maintenant /\ retour' = Absent
        /\ debut' = (IF debut = Absent THEN maintenant ELSE debut)
        /\ refus' = (IF debut = Absent THEN 0 ELSE refus)
    BY <1>1 DEF lancerPoignee
  <2> HIDE DEF v
  <2>4. TypeOK'
    BY <2>2, <2>3 DEF Regle, TypeOK
  <2>5. Dates'
    BY <2>3, Nombres DEF Regle, TypeOK, Dates
  <2> QED  BY <2>4, <2>5 DEF Regle
<1>2. CASE recevoirCookie
  <2>1. retour.cookie \in Cookies
    BY <1>2 DEF recevoirCookie, Regle, TypeOK, Reponses
  <2>2. TypeOK'
    BY <1>2, <2>1 DEF recevoirCookie, Regle, TypeOK
  <2>3. Dates'
    BY <1>2, Nombres DEF recevoirCookie, Regle, TypeOK, Dates
  <2> QED  BY <2>2, <2>3 DEF Regle
<1>3. CASE recevoirReponse
  BY <1>3 DEF recevoirReponse, Regle, TypeOK, Dates
<1>4. CASE Abandonner
  BY <1>4 DEF Abandonner, Regle, TypeOK, Dates
<1>5. ASSUME NEW a \in Lieux, Deplacer(a) PROVE Regle'
  BY <1>5 DEF Deplacer, Regle, TypeOK, Dates
<1> QED  BY <1>1, <1>2, <1>3, <1>4, <1>5 DEF Appareil

LEMMA RegleServeur ==
  ASSUME Regle, Serveur
  PROVE  Regle'
<1> USE DEF fabrique, client, chemin, fenetre
<1>1. CASE RecevoirCalme
  <2>1. retour' \in Reponses /\ vol' = Absent
    BY <1>1, RepondreType DEF RecevoirCalme
  <2> QED  BY <1>1, <2>1 DEF RecevoirCalme, Regle, TypeOK, Dates
<1>2. CASE RecevoirSansPreuve
  <2>1. retour' \in Reponses /\ vol' = Absent
    BY <1>2, VolType, AttenduType, RepondreType DEF RecevoirSansPreuve
  <2>2. secret' \in Nat /\ tourne' \in Temps /\ tourne' <= maintenant
    BY <1>2, TournerType DEF RecevoirSansPreuve
  <2> QED  BY <1>2, <2>1, <2>2 DEF RecevoirSansPreuve, Regle, TypeOK, Dates
<1>3. ASSUME NEW a \in Adresses, Debiter(a) PROVE passes' \in Nat /\ oublie' \in BOOLEAN
  BY <1>3 DEF Debiter, Regle, TypeOK
<1>4. CASE RecevoirPreuve
  <2>1. retour' \in Reponses \cup {Absent} /\ vol' = Absent
    BY <1>4, RepondreType DEF RecevoirPreuve, Regle, TypeOK
  <2>2. secret' \in Nat /\ tourne' \in Temps /\ tourne' <= maintenant
    BY <1>4, TournerType DEF RecevoirPreuve
  <2>3. vol.point \in Adresses /\ Debiter(vol.point)
    BY <1>4, VolType DEF RecevoirPreuve
  <2>4. /\ seaux' \in [Adresses -> Seaux \cup {Absent}]
        /\ \A b \in Adresses : seaux'[b] # Absent => seaux'[b].vu <= maintenant
        /\ passes' \in Nat /\ oublie' \in BOOLEAN /\ UNCHANGED <<vise, depuis>>
    BY <1>3, <2>3, DebiterType DEF Debiter
  <2>5. UNCHANGED <<maintenant, client, refus>>
    BY <1>4 DEF RecevoirPreuve
  <2> QED  BY <2>1, <2>2, <2>4, <2>5 DEF Regle, TypeOK, Dates
<1>5. CASE Autre
  <2>1. secret' \in Nat /\ tourne' \in Temps /\ tourne' <= maintenant
    BY <1>5, TournerType DEF Autre
  <2> QED  BY <1>5, <2>1 DEF Autre, Regle, TypeOK, Dates
<1>6. ASSUME NEW a \in Adresses, AutrePreuve(a) PROVE Regle'
  <2>1. secret' \in Nat /\ tourne' \in Temps /\ tourne' <= maintenant
    BY <1>6, TournerType DEF AutrePreuve
  <2>2. /\ seaux' \in [Adresses -> Seaux \cup {Absent}]
        /\ \A b \in Adresses : seaux'[b] # Absent => seaux'[b].vu <= maintenant
        /\ passes' \in Nat /\ oublie' \in BOOLEAN /\ UNCHANGED <<vise, depuis>>
    BY <1>3, <1>6, DebiterType DEF Debiter, AutrePreuve
  <2>3. UNCHANGED <<maintenant, client, chemin, refus>>
    BY <1>6 DEF AutrePreuve
  <2> QED  BY <2>1, <2>2, <2>3 DEF Regle, TypeOK, Dates
<1>7. CASE Nettoyer
  <2>1. seaux' \in [Adresses -> Seaux \cup {Absent}]
        /\ \A b \in Adresses : seaux'[b] \in {seaux[b], Absent}
    BY <1>7, OublierType, Nombres DEF Nettoyer
  <2> QED  BY <1>7, <2>1 DEF Nettoyer, Regle, TypeOK, Dates
<1> QED  BY <1>1, <1>2, <1>4, <1>5, <1>6, <1>7 DEF Serveur

LEMMA RegleTic ==
  ASSUME Regle, Tic
  PROVE  /\ Regle' /\ maintenant' = maintenant + 1 /\ maintenant \in Nat
         /\ UNCHANGED <<fabrique, seaux, client, chemin, refus>>
<1> USE DEF fabrique, client, chemin, fenetre
<1>1. maintenant \in Nat /\ maintenant' = maintenant + 1 /\ maintenant' \in Temps
  BY InondationAssumption DEF Tic, Regle, TypeOK, Temps
<1>2. UNCHANGED <<fabrique, seaux, client, chemin, refus>>
  BY DEF Tic
<1>3. \/ depuis' = maintenant' /\ passes' = 0 /\ oublie' = FALSE /\ vise' = vise
      \/ UNCHANGED fenetre
  BY DEF Tic, Observer
<1>4. TypeOK'
  <2>1. /\ depuis' \in Temps /\ depuis' <= maintenant'
        /\ passes' \in Nat /\ vise' \in Adresses
    BY <1>1, <1>3, Nombres DEF Regle, TypeOK, Dates
  <2>2. oublie' \in BOOLEAN
    BY <1>3 DEF Regle, TypeOK
  <2> QED  BY <1>1, <1>2, <2>1, <2>2 DEF Regle, TypeOK
<1>5. ASSUME debut # Absent PROVE debut \in Nat /\ maintenant <= debut + Abandon
  BY <1>1, <1>5, Nombres DEF Tic, Trop, Regle, TypeOK
<1>6. \A a \in Adresses : seaux[a] # Absent => seaux[a].vu \in Nat /\ seaux[a].vu <= maintenant
  BY SeauDe
<1>7. /\ depuis \in Nat
      /\ recu # Absent => recu \in Nat
      /\ tourne # Absent => tourne \in Nat
  BY Nombres DEF Regle, TypeOK
<1>8. Dates'
  <2>1. depuis' <= maintenant'
    BY <1>1, <1>3, <1>7 DEF Regle, Dates
  <2>2. \A a \in Adresses : seaux'[a] # Absent => seaux'[a].vu <= maintenant'
    BY <1>1, <1>2, <1>6
  <2>3. /\ recu' # Absent => recu' <= maintenant'
        /\ tourne' # Absent => tourne' <= maintenant'
    BY <1>1, <1>2, <1>7 DEF Regle, Dates
  <2>4. debut' # Absent => debut' <= maintenant' /\ maintenant' <= debut' + Abandon + 1
    BY <1>1, <1>2, <1>5, Nombres DEF Regle, Dates
  <2> QED  BY <2>1, <2>2, <2>3, <2>4 DEF Dates
<1> QED  BY <1>1, <1>2, <1>4, <1>8 DEF Regle

LEMMA ReglePas ==
  ASSUME Regle, [Next]_vars
  PROVE  Regle'
<1>1. CASE PerdreAller \/ PerdreRetour
  BY <1>1 DEF PerdreAller, PerdreRetour, fabrique, client, fenetre, Regle, TypeOK, Dates
<1>2. CASE UNCHANGED vars
  BY <1>2 DEF vars, fabrique, client, chemin, fenetre, Regle, TypeOK, Dates
<1> QED  BY <1>1, <1>2, RegleAppareil, RegleServeur, RegleTic DEF Next

LEMMA ToujoursRegle == Spec => []Regle
BY RegleInit, ReglePas, PTL DEF Spec

-----------------------------------------------------------------------------
(* The rate of one network. *)

\* As long as the bucket was not forgotten too early, what it holds and what it
\* let through since the start of the window make up what it was worth.
Bilan == ~oublie => passes + Contenu(vise) <= Plein + (maintenant - depuis)

\* Forgotten or not: at most jetonsMax at once, and jetonsMax more for every
\* time the table may forget it, counted from the last use of the bucket.
BilanOubli ==
  LET k == Inactif + 1
      s == seaux[vise]
  IN IF s = Absent THEN passes * k <= (maintenant - depuis) * Plein
     ELSE IF s.vu >= depuis THEN (passes + s.jetons) * k <= Plein * k + (s.vu - depuis) * Plein
     ELSE passes = 0

Bilans == Bilan /\ BilanOubli

LEMMA Produit ==
  ASSUME NEW a \in Int, NEW b \in Int, NEW c \in Nat, a <= b
  PROVE  a * c <= b * c
<1>1. (b - a) * c >= 0
  OBVIOUS
<1>2. (b - a) * c = b * c - a * c
  OBVIOUS
<1>3. a * c \in Int /\ b * c \in Int
  OBVIOUS
<1> QED  BY <1>1, <1>2, <1>3

LEMMA Distribue ==
  ASSUME NEW a \in Int, NEW b \in Int, NEW c \in Int
  PROVE  (a + b) * c = a * c + b * c /\ a * c \in Int /\ b * c \in Int /\ a * c = c * a
OBVIOUS

LEMMA ViseType ==
  ASSUME Regle
  PROVE  /\ vise \in Adresses /\ depuis \in Nat /\ passes \in Nat /\ maintenant \in Nat
         /\ depuis <= maintenant /\ oublie \in BOOLEAN
         /\ Inactif + 1 \in Nat /\ Plein \in Nat /\ Inactif + 1 <= Plein
BY Nombres DEF Regle, TypeOK, Dates

\* The bucket is forgotten.
LEMMA BilansOubli ==
  ASSUME Regle, Bilans, UNCHANGED <<maintenant, vise, depuis, passes>>,
         seaux[vise] # Absent, seaux'[vise] = Absent,
         maintenant - seaux[vise].vu > Inactif,
         ~oublie' => ~oublie /\ Contenu(vise) = Plein
  PROVE  Bilans'
<1> DEFINE k == Inactif + 1
           j == seaux[vise].jetons
           v == seaux[vise].vu
<1>1. /\ j \in Nat /\ v \in Nat /\ v <= maintenant /\ k \in Nat
      /\ depuis \in Nat /\ maintenant \in Nat /\ depuis <= maintenant /\ passes \in Nat
      /\ Plein \in Nat
  BY SeauDe, ViseType
<1>2. Bilan'
  <2>1. Contenu(vise)' = Plein
    BY DEF Contenu
  <2> QED  BY <2>1 DEF Bilans, Bilan
<1>3. passes * k <= (maintenant - depuis) * Plein
  <2>1. CASE v >= depuis
    <3>1. (passes + j) * k <= Plein * k + (v - depuis) * Plein
      BY <2>1 DEF Bilans, BilanOubli
    <3>2. passes * k <= (passes + j) * k
      BY <1>1, Produit
    <3>3. k <= maintenant - v
      BY <1>1, Nombres
    <3> HIDE DEF k, j, v
    <3>4. k * Plein <= (maintenant - v) * Plein
      BY <1>1, <3>3, Produit
    <3>5. (maintenant - depuis) * Plein = (maintenant - v) * Plein + (v - depuis) * Plein
      <4>1. maintenant - depuis = (maintenant - v) + (v - depuis)
        BY <1>1
      <4> QED  BY <1>1, <4>1, Distribue
    <3>6. k * Plein = Plein * k
      BY <1>1, Distribue
    <3>7. /\ passes * k \in Int /\ (passes + j) * k \in Int /\ Plein * k \in Int
          /\ (v - depuis) * Plein \in Int /\ (maintenant - v) * Plein \in Int
      BY <1>1
    <3> QED  BY <3>1, <3>2, <3>4, <3>5, <3>6, <3>7
  <2>2. CASE ~(v >= depuis)
    <3>1. passes = 0
      BY <2>2 DEF Bilans, BilanOubli
    <3>2. 0 <= (maintenant - depuis) * Plein
      BY <1>1, Produit
    <3> QED  BY <1>1, <3>1, <3>2
  <2> QED  BY <2>1, <2>2
<1>4. BilanOubli'
  BY <1>3 DEF BilanOubli
<1> QED  BY <1>2, <1>4 DEF Bilans

\* What it holds now came back since its last use.
LEMMA Revenu ==
  ASSUME Regle, Bilans
  PROVE  (passes + Contenu(vise)) * (Inactif + 1)
           <= Plein * (Inactif + 1) + (maintenant - depuis) * Plein
<1> DEFINE k == Inactif + 1
           c == Contenu(vise)
           s == seaux[vise]
<1>1. /\ k \in Nat /\ c \in Nat /\ c <= Plein /\ depuis \in Nat /\ maintenant \in Nat
      /\ depuis <= maintenant /\ passes \in Nat /\ Plein \in Nat /\ k <= Plein
  BY ContenuType, ViseType
<1>2. (passes + c) * k = passes * k + c * k /\ c * k <= Plein * k
  BY <1>1, Distribue, Produit
<1>3. 0 <= (maintenant - depuis) * Plein
  BY <1>1, Produit
<1>4. /\ passes * k \in Int /\ c * k \in Int /\ Plein * k \in Int
      /\ (maintenant - depuis) * Plein \in Int
  BY <1>1
<1>5. CASE s = Absent
  <2>1. passes * k <= (maintenant - depuis) * Plein
    BY <1>5 DEF Bilans, BilanOubli
  <2> HIDE DEF k, c
  <2>2. (passes + c) * k <= Plein * k + (maintenant - depuis) * Plein
    BY <1>2, <1>4, <2>1
  <2> QED  BY <2>2 DEF k, c
<1>6. CASE s # Absent /\ s.vu >= depuis
  <2> DEFINE j == s.jetons
             v == s.vu
  <2>1. (passes + j) * k <= Plein * k + (v - depuis) * Plein
    BY <1>6 DEF Bilans, BilanOubli
  <2>2. j \in Nat /\ v \in Nat /\ v <= maintenant /\ v >= depuis
    BY <1>6, SeauDe, ViseType
  <2>3. c <= j + (maintenant - v)
    BY <1>1, <1>6, <2>2 DEF Contenu, Jetons, Recharge
  <2> HIDE DEF k, c, j, v
  <2>4. (passes + c) * k <= ((passes + j) + (maintenant - v)) * k
    <3>1. passes + c <= (passes + j) + (maintenant - v)
      BY <1>1, <2>2, <2>3
    <3>2. passes + c \in Int /\ (passes + j) + (maintenant - v) \in Int
      BY <1>1, <2>2
    <3> QED  BY <1>1, <3>1, <3>2, Produit
  <2>5. ((passes + j) + (maintenant - v)) * k = (passes + j) * k + (maintenant - v) * k
    BY <1>1, <2>2, Distribue
  <2>6. (maintenant - v) * k <= (maintenant - v) * Plein
    <3>1. k * (maintenant - v) <= Plein * (maintenant - v)
      BY <1>1, <2>2, Produit
    <3> QED  BY <1>1, <2>2, <3>1, Distribue
  <2>7. (maintenant - depuis) * Plein = (maintenant - v) * Plein + (v - depuis) * Plein
    <3>1. maintenant - depuis = (maintenant - v) + (v - depuis)
      BY <1>1, <2>2
    <3> QED  BY <1>1, <2>2, <3>1, Distribue
  <2>8. /\ (passes + c) * k \in Int /\ (passes + j) * k \in Int
        /\ (maintenant - v) * k \in Int /\ (maintenant - v) * Plein \in Int
        /\ (v - depuis) * Plein \in Int
    BY <1>1, <2>2
  <2>9. (passes + c) * k <= Plein * k + (maintenant - depuis) * Plein
    BY <1>4, <2>1, <2>4, <2>5, <2>6, <2>7, <2>8
  <2> QED  BY <2>9 DEF k, c
<1>7. CASE s # Absent /\ ~(s.vu >= depuis)
  <2>1. passes = 0
    BY <1>7 DEF Bilans, BilanOubli
  <2>2. passes * k = 0
    BY <1>1, <2>1
  <2> HIDE DEF k, c
  <2>3. (passes + c) * k <= Plein * k + (maintenant - depuis) * Plein
    BY <1>2, <1>3, <1>4, <2>2
  <2> QED  BY <2>3 DEF k, c
<1> QED  BY <1>5, <1>6, <1>7

\* The bucket is used.
LEMMA BilansPris ==
  ASSUME Regle, Bilans, UNCHANGED <<maintenant, vise, depuis, oublie>>, passes' \in Nat,
         seaux'[vise] # Absent, seaux'[vise].vu = maintenant, seaux'[vise].jetons \in Nat,
         passes' + seaux'[vise].jetons <= passes + Contenu(vise)
  PROVE  Bilans'
<1> DEFINE k == Inactif + 1
           j == seaux'[vise].jetons
           c == Contenu(vise)
<1>1. /\ k \in Nat /\ c \in Nat /\ c <= Plein /\ depuis \in Nat /\ maintenant \in Nat
      /\ depuis <= maintenant /\ passes \in Nat /\ Plein \in Nat
  BY ContenuType, ViseType
<1>2. Contenu(vise)' <= j /\ Contenu(vise)' \in Nat
  BY <1>1 DEF Contenu, Jetons, Recharge
<1>3. Bilan'
  <2> SUFFICES ASSUME ~oublie PROVE passes' + Contenu(vise)' <= Plein + (maintenant - depuis)
    BY DEF Bilan
  <2>1. passes + c <= Plein + (maintenant - depuis)
    BY DEF Bilans, Bilan
  <2> HIDE DEF k, j, c
  <2>2. passes' + j <= passes + c /\ j \in Nat
    BY DEF j, c
  <2> QED  BY <1>1, <1>2, <2>1, <2>2
<1>4. (passes' + j) * k <= Plein * k + (maintenant - depuis) * Plein
  <2>1. (passes + c) * k <= Plein * k + (maintenant - depuis) * Plein
    BY Revenu
  <2>2. passes' + j <= passes + c /\ passes' + j \in Int /\ passes + c \in Int
    BY <1>1
  <2> HIDE DEF k, j, c
  <2>3. (passes' + j) * k <= (passes + c) * k
    BY <1>1, <2>2, Produit
  <2>4. /\ (passes' + j) * k \in Int /\ (passes + c) * k \in Int
        /\ Plein * k + (maintenant - depuis) * Plein \in Int
    BY <1>1, <2>2
  <2> QED  BY <2>1, <2>3, <2>4
<1>5. BilanOubli'
  BY <1>1, <1>4 DEF BilanOubli
<1> QED  BY <1>3, <1>5 DEF Bilans

LEMMA BilansDebiter ==
  ASSUME Regle, Bilans, NEW a \in Adresses, Debiter(a), maintenant' = maintenant, Regle'
  PROVE  Bilans'
<1>1. /\ passes' = IF a = vise /\ autoriser(a) THEN passes + 1 ELSE passes
      /\ oublie' = (oublie \/ (/\ seaux[vise] # Absent /\ Table(a)[vise] = Absent
                               /\ Contenu(vise) < Plein))
      /\ UNCHANGED <<vise, depuis>>
  BY DEF Debiter
<1>2. /\ vise \in Adresses /\ passes \in Nat /\ passes' \in Nat
      /\ Contenu(vise) \in Nat /\ Contenu(vise) <= Plein
      /\ oublie \in BOOLEAN /\ Plein \in Nat
  BY ViseType, ContenuType DEF Regle, TypeOK
<1>3. CASE a = vise /\ Place(vise)
  <2>1. /\ seaux'[vise] # Absent /\ seaux'[vise].vu = maintenant
        /\ seaux'[vise].jetons = IF Contenu(vise) >= 1 THEN Contenu(vise) - 1 ELSE 0
    BY <1>3, DebiterType
  <2>2. seaux[vise] # Absent => Table(a) = seaux
    BY <1>3, TableType
  <2>3. oublie' = oublie
    BY <1>1, <1>2, <2>2
  <2>4. passes' = IF Contenu(vise) >= 1 THEN passes + 1 ELSE passes
    BY <1>1, <1>3 DEF autoriser
  <2>5. seaux'[vise].jetons \in Nat /\ passes' + seaux'[vise].jetons <= passes + Contenu(vise)
    BY <1>2, <2>1, <2>4
  <2> QED  BY <1>1, <1>2, <2>1, <2>3, <2>5, BilansPris
<1>4. CASE seaux'[vise] = seaux[vise] /\ passes' = passes /\ oublie' = oublie
  <2>1. Contenu(vise)' = Contenu(vise)
    BY <1>1, <1>4 DEF Contenu, Jetons, Recharge
  <2> QED  BY <1>1, <1>4, <2>1 DEF Bilans, Bilan, BilanOubli
<1>5. CASE a = vise /\ ~Place(vise)
  <2>1. seaux[vise] = Absent /\ seaux'[vise] = Absent
    BY <1>5, DebiterType
  <2>2. oublie' = oublie /\ passes' = passes
    BY <1>1, <1>2, <1>5, <2>1 DEF autoriser
  <2> QED  BY <1>4, <2>1, <2>2
<1>6. CASE a # vise
  <2>1. passes' = passes /\ seaux'[vise] = Table(a)[vise]
        /\ Table(a)[vise] \in {seaux[vise], Absent}
    BY <1>1, <1>2, <1>6, DebiterType, TableType
  <2>2. CASE seaux[vise] # Absent /\ Table(a)[vise] = Absent
    <3>1. maintenant - seaux[vise].vu > Inactif
      BY <1>2, <2>2, TableType
    <3>2. ~oublie' => ~oublie /\ ~(Contenu(vise) < Plein)
      BY <1>1, <2>2, Zenon
    <3>3. ~(Contenu(vise) < Plein) => Contenu(vise) = Plein
      BY <1>2
    <3> QED  BY <1>1, <2>1, <2>2, <3>1, <3>2, <3>3, BilansOubli
  <2>3. CASE ~(seaux[vise] # Absent /\ Table(a)[vise] = Absent)
    <3>1. seaux'[vise] = seaux[vise] /\ oublie' = oublie
      BY <1>1, <1>2, <2>1, <2>3
    <3> QED  BY <1>4, <2>1, <3>1
  <2> QED  BY <2>2, <2>3
<1> QED  BY <1>3, <1>5, <1>6

LEMMA BilansNettoyer ==
  ASSUME Regle, Bilans, Nettoyer
  PROVE  Bilans'
<1>1. /\ seaux' = Oublier(Menage) /\ UNCHANGED <<maintenant, vise, depuis, passes, oublie>>
      /\ vise \in Adresses
  BY ViseType DEF Nettoyer, fenetre
<1>2. CASE seaux[vise] # Absent /\ seaux'[vise] = Absent
  <2>1. maintenant - seaux[vise].vu > Menage
    BY <1>1, <1>2, OublierType, Nombres
  <2>2. /\ seaux[vise].jetons \in Nat /\ seaux[vise].vu \in Nat /\ maintenant \in Nat
    BY <1>1, <1>2, SeauDe
  <2>3. maintenant - seaux[vise].vu > Inactif /\ Contenu(vise) = Plein
    BY <1>2, <2>1, <2>2, Nombres DEF Contenu, Jetons, Recharge
  <2> QED  BY <1>1, <1>2, <2>3, BilansOubli
<1>3. CASE ~(seaux[vise] # Absent /\ seaux'[vise] = Absent)
  <2>1. seaux'[vise] = seaux[vise]
    BY <1>1, <1>3, OublierType, Nombres
  <2>2. Contenu(vise)' = Contenu(vise)
    BY <1>1, <2>1 DEF Contenu, Jetons, Recharge
  <2> QED  BY <1>1, <2>1, <2>2 DEF Bilans, Bilan, BilanOubli
<1> QED  BY <1>2, <1>3

\* Time passes; the window may start now.
LEMMA BilansTic ==
  ASSUME Regle, Bilans, Tic
  PROVE  Bilans'
<1>1. /\ Regle' /\ maintenant' = maintenant + 1 /\ seaux' = seaux
      /\ vise' = vise
  BY RegleTic DEF Tic, Observer, fenetre
<1>2. /\ depuis \in Nat /\ maintenant \in Nat /\ depuis <= maintenant /\ passes \in Nat
      /\ vise \in Adresses /\ Plein \in Nat /\ Inactif + 1 \in Nat
  BY ViseType
<1>3. Contenu(vise)' \in Nat /\ Contenu(vise)' <= Plein /\ Contenu(vise) \in Nat
  <2>1. Contenu(vise)' \in Nat /\ Contenu(vise)' <= Plein
    <3>1. CASE seaux[vise] = Absent
      BY <1>1, <1>2, <3>1 DEF Contenu
    <3>2. CASE seaux[vise] # Absent
      <4>1. seaux[vise].jetons \in Nat /\ seaux[vise].vu \in Nat /\ seaux[vise].vu <= maintenant
        BY <1>2, <3>2, SeauDe
      <4> QED  BY <1>1, <1>2, <3>2, <4>1 DEF Contenu, Jetons, Recharge
    <3> QED  BY <3>1, <3>2
  <2> QED  BY <1>2, <2>1, ContenuType
<1>4. CASE depuis' = maintenant' /\ passes' = 0
  <2>1. Bilan'
    BY <1>1, <1>2, <1>3, <1>4 DEF Bilan
  <2>2. BilanOubli'
    <3>1. CASE seaux'[vise'] = Absent
      <4>1. passes' * (Inactif + 1) = 0 /\ (maintenant' - depuis') * Plein = 0
        BY <1>1, <1>2, <1>4
      <4> QED  BY <3>1, <4>1 DEF BilanOubli
    <3>2. CASE seaux'[vise'] # Absent
      <4>1. seaux'[vise'].vu \in Nat /\ seaux'[vise'].vu <= maintenant
        BY <1>1, <1>2, <3>2, SeauDe
      <4>2. ~(seaux'[vise'].vu >= depuis')
        BY <1>1, <1>2, <1>4, <4>1
      <4> QED  BY <1>4, <3>2, <4>2 DEF BilanOubli
    <3> QED  BY <3>1, <3>2
  <2> QED  BY <2>1, <2>2 DEF Bilans
<1>5. CASE UNCHANGED fenetre
  <2>1. depuis' = depuis /\ passes' = passes /\ oublie' = oublie
    BY <1>5 DEF fenetre
  <2>2. Contenu(vise)' <= Contenu(vise) + 1
    <3>1. CASE seaux[vise] = Absent
      BY <1>1, <1>2, <3>1 DEF Contenu
    <3>2. CASE seaux[vise] # Absent
      <4>1. seaux[vise].jetons \in Nat /\ seaux[vise].vu \in Nat /\ seaux[vise].vu <= maintenant
        BY <1>2, <3>2, SeauDe
      <4> QED  BY <1>1, <1>2, <3>2, <4>1 DEF Contenu, Jetons, Recharge
    <3> QED  BY <3>1, <3>2
  <2>3. Bilan'
    BY <1>1, <1>2, <1>3, <2>1, <2>2 DEF Bilans, Bilan
  <2>4. (maintenant - depuis) * Plein <= (maintenant' - depuis) * Plein
    BY <1>1, <1>2, Produit
  <2>5. BilanOubli'
    <3>1. CASE seaux[vise] = Absent
      <4>1. passes * (Inactif + 1) <= (maintenant - depuis) * Plein
        BY <3>1 DEF Bilans, BilanOubli
      <4>2. /\ passes * (Inactif + 1) \in Int /\ (maintenant - depuis) * Plein \in Int
            /\ (maintenant' - depuis) * Plein \in Int
        BY <1>1, <1>2
      <4>3. passes * (Inactif + 1) <= (maintenant' - depuis) * Plein
        BY <2>4, <4>1, <4>2
      <4> QED  BY <1>1, <2>1, <3>1, <4>3 DEF BilanOubli
    <3>2. CASE seaux[vise] # Absent
      BY <1>1, <2>1, <3>2 DEF Bilans, BilanOubli
    <3> QED  BY <3>1, <3>2
  <2> QED  BY <2>3, <2>5 DEF Bilans
<1>6. \/ depuis' = maintenant' /\ passes' = 0
      \/ UNCHANGED fenetre
  BY DEF Tic, Observer
<1> QED  BY <1>4, <1>5, <1>6

LEMMA BilansInit == Init => Bilans
<1> SUFFICES ASSUME Init PROVE Bilans
  OBVIOUS
<1>1. /\ maintenant = 0 /\ depuis = 0 /\ passes = 0 /\ Contenu(vise) = Plein
      /\ seaux[vise] = Absent
  BY DEF Init, Contenu
<1>2. passes * (Inactif + 1) = 0 /\ (maintenant - depuis) * Plein = 0
  BY <1>1, Nombres
<1>3. Bilan
  BY <1>1, Nombres DEF Bilan
<1>4. BilanOubli
  BY <1>1, <1>2 DEF BilanOubli
<1> QED  BY <1>3, <1>4 DEF Bilans

LEMMA BilansPas ==
  ASSUME Regle, Bilans, [Next]_vars
  PROVE  Bilans'
<1> USE DEF fenetre
<1>0. Regle'
  BY ReglePas
<1>1. CASE UNCHANGED <<maintenant, seaux, fenetre>>
  <2>1. Contenu(vise)' = Contenu(vise)
    BY <1>1 DEF Contenu, Jetons, Recharge
  <2> QED  BY <1>1, <2>1 DEF Bilans, Bilan, BilanOubli
<1>2. CASE Appareil
  BY <1>1, <1>2 DEF Appareil, lancerPoignee, recevoirCookie, recevoirReponse, Abandonner, Deplacer
<1>3. CASE RecevoirCalme \/ RecevoirSansPreuve \/ Autre \/ PerdreAller \/ PerdreRetour
  BY <1>1, <1>3 DEF RecevoirCalme, RecevoirSansPreuve, Autre, PerdreAller, PerdreRetour
<1>4. CASE RecevoirPreuve
  <2>1. Debiter(vol.point) /\ maintenant' = maintenant /\ vol.point \in Adresses
    BY <1>4, VolType DEF RecevoirPreuve
  <2> QED  BY <1>0, <2>1, BilansDebiter
<1>5. ASSUME NEW a \in Adresses, AutrePreuve(a) PROVE Bilans'
  BY <1>0, <1>5, BilansDebiter DEF AutrePreuve
<1>6. CASE UNCHANGED vars
  BY <1>1, <1>6 DEF vars
<1> QED
  BY <1>2, <1>3, <1>4, <1>5, <1>6, BilansNettoyer, BilansTic DEF Next, Serveur

\* limiteur.autoriser: in any window a network passes jetonsMax and one more an
\* instant if its bucket was not forgotten before it was full; and otherwise
\* jetonsMax at once and jetonsMax each time a full table may forget it
\* (cookie.go:153-226).
THEOREM InondationDebit == Spec => []DebitBorne
<1>1. Spec => [](Regle /\ Bilans)
  <2>1. Init => Regle /\ Bilans
    BY RegleInit, BilansInit
  <2>2. Regle /\ Bilans /\ [Next]_vars => Regle' /\ Bilans'
    BY ReglePas, BilansPas
  <2> QED  BY <2>1, <2>2, PTL DEF Spec
<1>2. ASSUME Regle, Bilans PROVE DebitBorne
  <2> DEFINE k == Inactif + 1
             c == Contenu(vise)
  <2>1. /\ k \in Nat /\ c \in Nat /\ depuis \in Nat /\ maintenant \in Nat
        /\ depuis <= maintenant /\ passes \in Nat /\ Plein \in Nat
    BY <1>2, ContenuType, ViseType
  <2>2. ~oublie => passes <= Plein + (maintenant - depuis)
    BY <1>2, <2>1 DEF Bilans, Bilan
  <2>3. passes * k <= Plein * k + (maintenant - depuis) * Plein
    <3>1. (passes + c) * k <= Plein * k + (maintenant - depuis) * Plein
      BY <1>2, Revenu
    <3>2. passes * k <= (passes + c) * k
      BY <2>1, Produit
    <3> HIDE DEF k, c
    <3>3. /\ passes * k \in Int /\ (passes + c) * k \in Int
          /\ Plein * k + (maintenant - depuis) * Plein \in Int
      BY <2>1
    <3> QED  BY <3>1, <3>2, <3>3
  <2> QED  BY <2>2, <2>3 DEF DebitBorne
<1>3. Regle /\ Bilans => DebitBorne
  BY <1>2
<1> QED  BY <1>1, <1>3, PTL

-----------------------------------------------------------------------------
(* The refusals of one device. *)

\* The secret was made since this series of attempts began: it outlasts it.
Neuf == tourne # Absent /\ tourne >= debut

\* A cookie is of the secret in force, or of one that a new secret replaced
\* since this series began; the second one a device takes is of the new secret.
Cookie(c) == c.secret = secret \/ Neuf
Tenu == refus >= 1 => /\ cookie # Absent /\ cookie.adresse = adresse /\ Cookie(cookie)
                      /\ recu # Absent /\ recu >= debut
Second == refus = 2 => cookie.secret = secret /\ Neuf
EnVol == refus >= 1 /\ vol # Absent => vol.cookie = cookie /\ vol.point = adresse
Refusee == retour # Absent /\ retour.cookie # Absent
EnRetour ==
  Refusee => /\ retour.cookie.adresse = retour.point /\ Cookie(retour.cookie)
             /\ refus >= 1 => refus = 1 /\ retour.cookie.secret = secret /\ Neuf

Serie ==
  /\ retour # Absent => vol = Absent
  /\ debut # Absent => Tenu /\ Second /\ EnVol /\ EnRetour
  /\ refus <= 2

LEMMA SerieTypes ==
  ASSUME Regle
  PROVE  /\ maintenant \in Nat /\ secret \in Nat /\ refus \in Nat
         /\ tourne # Absent => tourne \in Nat /\ tourne <= maintenant
         /\ recu # Absent => recu \in Nat /\ recu <= maintenant
         /\ debut # Absent => /\ debut \in Nat /\ debut <= maintenant
                              /\ maintenant <= debut + Abandon + 1
BY Nombres DEF Regle, TypeOK, Dates

\* A secret made during the series stays; the one before may go once.
LEMMA TourneSerie ==
  ASSUME Regle, debut # Absent, Tourner
  PROVE  /\ Neuf => UNCHANGED fabrique
         /\ UNCHANGED fabrique \/ (tourne' # Absent /\ tourne' >= debut /\ secret' = secret + 1)
<1>1. CASE Perime
  <2>1. tourne' = maintenant /\ secret' = secret + 1
    BY <1>1 DEF Tourner, TourneCourant, SecretCourant
  <2>2. ~Neuf
    BY <1>1, SerieTypes, Nombres DEF Perime, Neuf
  <2>3. maintenant # Absent /\ maintenant >= debut
    BY SerieTypes, Nombres DEF Regle, TypeOK
  <2> QED  BY <2>1, <2>2, <2>3
<1>2. CASE ~Perime
  BY <1>2 DEF Tourner, TourneCourant, SecretCourant, fabrique
<1> QED  BY <1>1, <1>2

LEMMA CookieTourne ==
  ASSUME Regle, debut # Absent, Tourner, debut' = debut, NEW c, Cookie(c)
  PROVE  Cookie(c)'
BY TourneSerie DEF Cookie, Neuf, fabrique

\* The steps of the server that leave the device alone.
LEMMA SerieTourne ==
  ASSUME Regle, Serie, Tourner, UNCHANGED <<client, refus>>,
         vol' \in {vol, Absent},
         \/ retour' = retour /\ (retour = Absent \/ vol' = vol)
         \/ retour' # Absent /\ retour'.cookie = Absent /\ vol' = Absent
  PROVE  Serie'
<1> USE DEF client
<1>1. (retour # Absent => vol = Absent)'
  BY DEF Serie
<1>2. ASSUME debut # Absent PROVE (Tenu /\ Second /\ EnVol /\ EnRetour)'
  <2>1. Tenu /\ Second /\ EnVol /\ EnRetour
    BY <1>2 DEF Serie
  <2>2. Neuf => Neuf' /\ UNCHANGED fabrique
    BY <1>2, TourneSerie DEF Neuf, fabrique
  <2>3. Tenu'
    BY <1>2, <2>1, CookieTourne DEF Tenu
  <2>4. Second'
    BY <2>1, <2>2 DEF Second, fabrique
  <2>5. EnVol'
    BY <2>1 DEF EnVol
  <2>6. EnRetour'
    <3>1. CASE retour' = retour
      <4> SUFFICES ASSUME Refusee PROVE EnRetour'
        BY <3>1 DEF EnRetour, Refusee
      <4>1. Cookie(retour.cookie)'
        BY <1>2, <2>1, <3>1, CookieTourne DEF EnRetour, Cookie, Neuf
      <4>2. refus >= 1 => refus = 1 /\ retour.cookie.secret = secret' /\ Neuf'
        BY <2>1, <2>2 DEF EnRetour, fabrique
      <4> QED  BY <2>1, <3>1, <4>1, <4>2 DEF EnRetour, Refusee, Cookie, Neuf
    <3>2. CASE retour'.cookie = Absent
      BY <3>2 DEF EnRetour, Refusee
    <3> QED  BY <3>1, <3>2
  <2> QED  BY <2>3, <2>4, <2>5, <2>6
<1> QED  BY <1>1, <1>2 DEF Serie

\* A device that is refused although it joined its cookie is so because the
\* secret changed.
LEMMA SerieRefus ==
  ASSUME Regle, Serie, RecevoirSansPreuve
  PROVE  Serie'
<1> USE DEF client
<1>1. /\ vol # Absent /\ vol.cookie # Attendu(vol.point) /\ Tourner
      /\ UNCHANGED <<maintenant, seaux, client, refus, fenetre>>
  BY DEF RecevoirSansPreuve
<1>2. /\ Attendu(vol.point) \in Cookies /\ Attendu(vol.point) # Absent
      /\ Attendu(vol.point).adresse = vol.point /\ Attendu(vol.point).secret = secret'
  BY <1>1, VolType, AttenduType, TournerType
<1>3. /\ vol' = Absent /\ retour' # Absent /\ retour'.point = vol.point
      /\ retour'.cookie = Attendu(vol.point)
  BY <1>1, <1>2, RepondreType DEF RecevoirSansPreuve
<1>4. ASSUME debut # Absent PROVE (Tenu /\ Second /\ EnVol /\ EnRetour)'
  <2>1. Tenu /\ Second /\ EnVol
    BY <1>4 DEF Serie
  <2>2. Neuf => Neuf' /\ UNCHANGED fabrique
    BY <1>1, <1>4, TourneSerie DEF Neuf, fabrique
  <2>3. UNCHANGED fabrique \/ Neuf'
    BY <1>1, <1>4, TourneSerie DEF Neuf
  <2>4. Tenu'
    BY <1>1, <1>4, <2>1, CookieTourne DEF Tenu
  <2>5. Second'
    BY <1>1, <2>1, <2>2 DEF Second, fabrique
  <2>6. EnVol'
    BY <1>3 DEF EnVol
  <2>7. ASSUME refus >= 1 PROVE refus = 1 /\ Neuf'
    <3>1. /\ vol.cookie = cookie /\ vol.point = adresse /\ cookie # Absent
          /\ cookie.adresse = adresse /\ Cookie(cookie)
      BY <1>1, <2>1, <2>7 DEF EnVol, Tenu
    <3>2. cookie \in Cookies
      BY <3>1 DEF Regle, TypeOK
    <3>3. cookie.secret # secret'
      <4> SUFFICES ASSUME cookie.secret = secret' PROVE FALSE
        OBVIOUS
      <4>1. cookie = Attendu(vol.point)
        BY <1>2, <3>1, <3>2 DEF Cookies
      <4> QED  BY <1>1, <3>1, <4>1
    <3>4. refus # 2
      BY <2>1, <2>2, <3>3 DEF Second, fabrique
    <3>5. Neuf'
      BY <2>2, <2>3, <3>1, <3>3 DEF Cookie, fabrique
    <3> QED  BY <2>7, <3>4, <3>5, SerieTypes DEF Serie
  <2>8. EnRetour'
    BY <1>1, <1>2, <1>3, <2>7 DEF EnRetour, Refusee, Cookie
  <2> QED  BY <2>4, <2>5, <2>6, <2>8
<1> QED  BY <1>1, <1>3, <1>4 DEF Serie

\* The device.
LEMMA SerieAppareil ==
  ASSUME Regle, Serie, Appareil
  PROVE  Serie'
<1> USE DEF fabrique
<1>1. CASE lancerPoignee
  <2>1. /\ retour' = Absent /\ vol'.point = adresse /\ vol'.cookie = Joint
        /\ UNCHANGED <<maintenant, secret, tourne, adresse, cookie, recu>>
        /\ debut' = (IF debut = Absent THEN maintenant ELSE debut)
        /\ refus' = (IF debut = Absent THEN 0 ELSE refus)
    BY <1>1 DEF lancerPoignee
  <2>2. CASE debut = Absent
    BY <2>1, <2>2 DEF Serie, Tenu, Second, EnVol, EnRetour, Refusee
  <2>3. CASE debut # Absent
    <3>1. Tenu /\ Second /\ debut' = debut /\ refus' = refus
      BY <2>1, <2>3 DEF Serie
    <3>2. refus >= 1 => Joint = cookie
      BY <2>3, <3>1, SerieTypes, Nombres DEF Tenu, Joint
    <3>3. Tenu' /\ Second'
      BY <2>1, <3>1 DEF Tenu, Second, Cookie, Neuf
    <3>4. EnVol' /\ EnRetour'
      BY <2>1, <3>1, <3>2 DEF EnVol, EnRetour, Refusee
    <3> QED  BY <2>1, <3>1, <3>3, <3>4 DEF Serie
  <2> QED  BY <2>2, <2>3
<1>2. CASE recevoirCookie
  <2>1. /\ Refusee /\ retour.point = adresse
        /\ cookie' = retour.cookie /\ recu' = maintenant /\ retour' = Absent
        /\ refus' = (IF debut = Absent THEN 0 ELSE refus + 1)
        /\ UNCHANGED <<maintenant, secret, tourne, adresse, debut, vol>>
    BY <1>2 DEF recevoirCookie, Refusee
  <2>2. vol = Absent
    BY <2>1 DEF Serie, Refusee
  <2>3. CASE debut = Absent
    BY <2>1, <2>3 DEF Serie
  <2>4. CASE debut # Absent
    <3>1. EnRetour
      BY <2>4 DEF Serie
    <3>2. /\ retour.cookie.adresse = adresse /\ Cookie(retour.cookie)
          /\ refus >= 1 => refus = 1 /\ retour.cookie.secret = secret /\ Neuf
      BY <2>1, <3>1 DEF EnRetour
    <3>3. refus' = refus + 1 /\ refus \in Nat
      BY <2>1, <2>4, SerieTypes
    <3>4. Tenu'
      <4>1. maintenant # Absent /\ maintenant >= debut
        BY <2>4, SerieTypes, Nombres DEF Regle, TypeOK
      <4> QED  BY <2>1, <3>2, <4>1 DEF Tenu, Cookie, Neuf, Refusee
    <3>5. Second'
      BY <2>1, <3>2, <3>3 DEF Second, Neuf
    <3>6. EnVol' /\ EnRetour'
      BY <2>1, <2>2 DEF EnVol, EnRetour, Refusee
    <3>7. refus' <= 2
      BY <3>2, <3>3
    <3> QED  BY <2>1, <3>4, <3>5, <3>6, <3>7 DEF Serie
  <2> QED  BY <2>3, <2>4
<1>3. CASE recevoirReponse
  BY <1>3 DEF recevoirReponse, Serie
<1>4. CASE Abandonner
  BY <1>4 DEF Abandonner, chemin, Serie
<1>5. ASSUME NEW a \in Lieux, Deplacer(a) PROVE Serie'
  BY <1>5 DEF Deplacer, chemin, Serie, Tenu, Second, EnVol, EnRetour, Refusee, Cookie, Neuf
<1> QED  BY <1>1, <1>2, <1>3, <1>4, <1>5 DEF Appareil

LEMMA SerieMeme ==
  ASSUME Serie, UNCHANGED <<fabrique, client, refus>>, vol' \in {vol, Absent},
         \/ retour' \in {retour, Absent}
         \/ retour'.cookie = Absent /\ vol' = Absent
  PROVE  Serie'
BY DEF fabrique, client, Serie, Tenu, Second, EnVol, EnRetour, Refusee, Cookie, Neuf

LEMMA SeriePas ==
  ASSUME Regle, Serie, [Next]_vars
  PROVE  Serie'
<1>1. CASE RecevoirCalme
  BY <1>1, RepondreType, SerieMeme DEF RecevoirCalme
<1>2. CASE RecevoirPreuve
  <2>1. vol # Absent /\ Tourner /\ UNCHANGED <<client, refus>> /\ vol' = Absent
    BY <1>2 DEF RecevoirPreuve, Repondre
  <2>2. retour = Absent
    BY <2>1 DEF Serie
  <2>3. \/ retour' = retour
        \/ retour' # Absent /\ retour'.cookie = Absent
    BY <1>2, <2>1, RepondreType DEF RecevoirPreuve
  <2> QED  BY <2>1, <2>2, <2>3, SerieTourne
<1>3. CASE Autre
  BY <1>3, SerieTourne DEF Autre, chemin
<1>4. ASSUME NEW a \in Adresses, AutrePreuve(a) PROVE Serie'
  BY <1>4, SerieTourne DEF AutrePreuve, chemin
<1>5. CASE Nettoyer \/ PerdreAller \/ PerdreRetour
  BY <1>5, SerieMeme DEF Nettoyer, PerdreAller, PerdreRetour, chemin
<1>6. CASE Tic
  BY <1>6, SerieMeme DEF Tic, chemin
<1>7. CASE UNCHANGED vars
  BY <1>7, SerieMeme DEF vars, chemin
<1> QED
  BY <1>1, <1>2, <1>3, <1>4, <1>5, <1>6, <1>7, SerieRefus, SerieAppareil DEF Next, Serveur

\* moteur.recevoirCookie, fabrique.courant: a device that stays where it is and
\* joins the cookies it is given is refused twice at most in one series of
\* attempts, whatever the losses, the load and the instants at which the secret
\* changes, since a series is shorter than the life of a secret
\* (cookie.go:83-102, moteur.go:408-446, 674-697, 891-898).
THEOREM InondationRefus == Spec => []DeuxRefus
<1>1. Init => Regle /\ Serie
  <2>1. Init => Serie
    BY DEF Init, Serie
  <2> QED  BY <2>1, RegleInit
<1>2. Regle /\ Serie /\ [Next]_vars => Regle' /\ Serie'
  BY ReglePas, SeriePas
<1>3. Spec => [](Regle /\ Serie)
  BY <1>1, <1>2, PTL DEF Spec
<1>4. Regle /\ Serie => DeuxRefus
  BY DEF Serie, DeuxRefus
<1> QED  BY <1>3, <1>4, PTL
=============================================================================
