-------------------------- MODULE RevocationsProofs --------------------------
(***************************************************************************)
(* What Revocations guarantees for any number of devices, phones, keys and *)
(* versions: the version in force never goes back, and, as long as sas.sh  *)
(* never replaced a list it had not read, the list in force and the lists  *)
(* retained only lengthen, and a phone that is banned extends nothing.     *)
(***************************************************************************)
EXTENDS Revocations, TLAPS

LEMMA ListesType ==
  ASSUME NEW l \in Listes
  PROVE  l.version \in Nat /\ l.version <= MaxVersion /\ l.cles \subseteq Revocables
BY RevocationsAssumption DEF Listes

LEMMA EnVigueurType ==
  ASSUME TypeOK
  PROVE  /\ EnVigueur \in Listes
         /\ EnVigueur.version >= hote.version
         /\ EnVigueur.version >= appli.version
BY ListesType DEF TypeOK, EnVigueur

\* The list that follows is a list, longer and newer.
LEMMA AllongeeType ==
  ASSUME NEW l \in Listes, NEW nouvelles \in SUBSET Revocables, Extensible(l, nouvelles)
  PROVE  /\ Allongee(l, nouvelles) \in Listes
         /\ Allongee(l, nouvelles).version = l.version + 1
         /\ l.cles \subseteq Allongee(l, nouvelles).cles
BY RevocationsAssumption DEF Listes, Allongee, Extensible

LEMMA DepartType ==
  ASSUME NEW r \in Listes, NEW s \in Listes
  PROVE  Depart(r, s) \in Listes
BY DEF Listes, Depart

-----------------------------------------------------------------------------
(* Types. *)

LEMMA TypeInit == Init => TypeOK
<1>1. Aucune \in Listes
  BY RevocationsAssumption DEF Listes, Aucune
<1> QED  BY <1>1, RevocationsAssumption DEF Init, TypeOK

LEMMA TypePas ==
  ASSUME TypeOK, [Next]_vars
  PROVE  TypeOK'
<1> USE DEF TypeOK, fichiers, serveur, appareils
<1>0. EnVigueur \in Listes /\ Servie \in Listes
  BY EnVigueurType DEF Servie
<1>1. ASSUME NEW nouvelles \in SUBSET Revocables, ScriptSigner(nouvelles) PROVE TypeOK'
  <2>1. Allongee(Servie, nouvelles) \in Listes
    BY <1>0, <1>1, AllongeeType DEF ScriptSigner
  <2> QED  BY <1>0, <1>1, <2>1 DEF ScriptSigner
<1>2. CASE ScriptDeplacer
  <2>1. script.liste \in Listes /\ Repos \in {Repos}
    BY <1>2 DEF ScriptDeplacer, Repos
  <2>2. croise' \in BOOLEAN
    BY <1>2 DEF ScriptDeplacer
  <2> QED  BY <1>2, <2>1, <2>2 DEF ScriptDeplacer
<1>3. ASSUME NEW a \in Admins, NEW nouvelles \in SUBSET Revocables, TelephoneSigner(a, nouvelles)
      PROVE  TypeOK'
  <2> DEFINE depart == Depart(retenues[a], EnVigueur)
  <2>1. retenues[a] \in Listes
    BY RevocationsAssumption
  <2>2. depart \in Listes
    BY <1>0, <2>1, DepartType
  <2>3. Allongee(depart, nouvelles) \in Listes
    BY <1>3, <2>2, AllongeeType DEF TelephoneSigner
  <2> DEFINE n == [admin |-> a, liste |-> Allongee(depart, nouvelles), entree |-> FALSE]
  <2>4. n \in [admin : Admins, liste : Listes, entree : BOOLEAN]
    BY <2>3
  <2>5. demandes' = demandes \cup {n}
    BY <1>3 DEF TelephoneSigner
  <2> HIDE DEF n
  <2>6. demandes' \subseteq [admin : Admins, liste : Listes, entree : BOOLEAN]
    BY <2>4, <2>5
  <2> QED  BY <1>3, <2>6 DEF TelephoneSigner
<1>4. ASSUME NEW m \in demandes, ReqEntrer(m) PROVE TypeOK'
  <2>1. [m EXCEPT !.entree = TRUE] \in [admin : Admins, liste : Listes, entree : BOOLEAN]
    OBVIOUS
  <2> DEFINE n == [m EXCEPT !.entree = TRUE]
  <2>2. demandes' \subseteq demandes \cup {n}
    <3>1. demandes' = (demandes \ {m}) \cup (IF Acceptable(m) THEN {n} ELSE {})
      BY <1>4 DEF ReqEntrer
    <3> HIDE DEF n
    <3> QED  BY <3>1
  <2>3. demandes' \subseteq [admin : Admins, liste : Listes, entree : BOOLEAN]
    BY <2>1, <2>2
  <2> QED  BY <1>4, <2>3 DEF ReqEntrer
<1>5. ASSUME NEW m \in demandes, ReqVerifier(m) PROVE TypeOK'
  <2>1. m.admin \in Admins /\ m.liste \in Listes
    OBVIOUS
  <2>2. requete' \in {Repos} \cup [etape : {"ecrire", "retirer"}, admin : Admins, liste : Listes]
    BY <1>5, <2>1 DEF ReqVerifier
  <2> QED  BY <1>5, <2>2 DEF ReqVerifier
<1>6. ASSUME NEW m \in demandes, Perdre(m) PROVE TypeOK'
  BY <1>6 DEF Perdre
<1>7. CASE ReqEcrire
  <2>1. requete \in [etape : {"ecrire", "retirer"}, admin : Admins, liste : Listes]
    BY <1>7 DEF ReqEcrire, Repos
  <2>2. [requete EXCEPT !.etape = "retirer"]
          \in [etape : {"ecrire", "retirer"}, admin : Admins, liste : Listes]
    BY <2>1
  <2> QED  BY <1>7, <2>1, <2>2 DEF ReqEcrire
<1>8. CASE ReqRetirer
  BY <1>8 DEF ReqRetirer
<1>9. CASE Synchroniser \/ Arreter \/ Demarrer
  BY <1>9 DEF Synchroniser, Arreter, Demarrer
<1>10. ASSUME NEW d \in Appareils, Inscrire(d) PROVE TypeOK'
  BY <1>10 DEF Inscrire
<1>11. ASSUME NEW d \in Appareils, Demander(d) PROVE TypeOK'
  BY <1>0, <1>11 DEF Demander
<1>12. ASSUME NEW d \in Appareils, Adopter(d) PROVE TypeOK'
  <2>1. reponses[d].liste \in Listes
    BY <1>12 DEF Adopter
  <2> QED  BY <1>12, <2>1 DEF Adopter
<1>13. ASSUME NEW d \in Appareils, Oublier(d) PROVE TypeOK'
  BY <1>13 DEF Oublier
<1>14. CASE UNCHANGED vars
  BY <1>14 DEF vars
<1> QED
  BY <1>1, <1>2, <1>3, <1>4, <1>5, <1>6, <1>7, <1>8, <1>9, <1>10, <1>11, <1>12, <1>13, <1>14
     DEF Next, Script, Telephone, Handler, Appareil

\* Type correctness of the two files, of the script, of the requests and of
\* the devices (serveur.go:431-449, admin.go:287-355, sas.sh:462-472).
THEOREM RevocationsType == Spec => []TypeOK
BY TypeInit, TypePas, PTL DEF Spec

-----------------------------------------------------------------------------
(* The versions. *)

\* A list that waits to be written is newer than the one it replaces.
VersionsEnAttente ==
  /\ script # Repos => script.liste.version > hote.version
  /\ requete.etape = "ecrire" => requete.liste.version > appli.version

\* What a step leaves alone.
LEMMA MemesFichiers ==
  ASSUME UNCHANGED fichiers
  PROVE  EnVigueur' = EnVigueur /\ hote' = hote /\ appli' = appli
BY DEF fichiers, EnVigueur

LEMMA ScriptSigne ==
  ASSUME TypeOK, script # Repos
  PROVE  script.lue \in Listes /\ script.liste \in Listes /\ script.etape = "signee"
BY DEF TypeOK

LEMMA RequeteEcrit ==
  ASSUME TypeOK, requete.etape = "ecrire"
  PROVE  requete.liste \in Listes /\ requete.admin \in Admins /\ requete # Repos
BY DEF TypeOK, Repos

\* Only sas.sh writes its file, and only the handler writes the other.
LEMMA VersionsPas ==
  ASSUME TypeOK, VersionsEnAttente, [Next]_vars
  PROVE  VersionsEnAttente' /\ EnVigueur'.version >= EnVigueur.version
<1> USE DEF VersionsEnAttente
<1>0. /\ EnVigueur \in Listes /\ Servie \in Listes
      /\ EnVigueur.version >= hote.version /\ EnVigueur.version >= appli.version
      /\ Servie.version >= hote.version
      /\ hote.version \in Nat /\ appli.version \in Nat /\ EnVigueur.version \in Nat
  <2>1. EnVigueur \in Listes /\ hote \in Listes /\ appli \in Listes
    BY EnVigueurType DEF TypeOK
  <2>2. hote.version \in Nat /\ appli.version \in Nat /\ EnVigueur.version \in Nat
    BY <2>1, ListesType
  <2>3. EnVigueur.version >= hote.version /\ EnVigueur.version >= appli.version
    BY EnVigueurType
  <2>4. Servie \in Listes /\ Servie.version >= hote.version
    BY <2>1, <2>2, <2>3 DEF Servie
  <2> QED  BY <2>1, <2>2, <2>3, <2>4
<1>1. ASSUME NEW nouvelles \in SUBSET Revocables, ScriptSigner(nouvelles)
      PROVE  VersionsEnAttente' /\ EnVigueur'.version >= EnVigueur.version
  <2>1. UNCHANGED fichiers /\ requete' = requete
    BY <1>1 DEF ScriptSigner, serveur
  <2>2. Allongee(Servie, nouvelles).version = Servie.version + 1
    BY <1>0, <1>1, AllongeeType DEF ScriptSigner
  <2>3. script'.liste = Allongee(Servie, nouvelles)
    BY <1>1 DEF ScriptSigner
  <2>4. script'.liste.version > hote.version
    BY <1>0, <2>2, <2>3, ListesType
  <2> QED  BY <1>0, <2>1, <2>4, MemesFichiers
<1>2. CASE ScriptDeplacer
  <2>1. script # Repos
    BY <1>2 DEF ScriptDeplacer, Repos
  <2>2. script.liste.version > hote.version /\ script.liste.version \in Nat
    BY <2>1, ScriptSigne, ListesType
  <2>3. hote' = script.liste /\ appli' = appli /\ script' = Repos /\ requete' = requete
    BY <1>2 DEF ScriptDeplacer, serveur
  <2> QED  BY <1>0, <2>2, <2>3 DEF EnVigueur
<1>3. ASSUME NEW m \in demandes, ReqVerifier(m)
      PROVE  VersionsEnAttente' /\ EnVigueur'.version >= EnVigueur.version
  <2>1. UNCHANGED fichiers /\ script' = script
    BY <1>3 DEF ReqVerifier
  <2>2. ASSUME requete'.etape = "ecrire"
        PROVE  requete'.liste.version > appli.version
    <3>1. Recevable(m.liste) /\ requete'.liste = m.liste
      BY <1>3, <2>2 DEF ReqVerifier, Repos
    <3>2. m.liste.version > EnVigueur.version
      BY <3>1 DEF Recevable, Actuelle
    <3>3. m.liste.version \in Nat
      BY ListesType DEF TypeOK
    <3> QED  BY <1>0, <3>1, <3>2, <3>3
  <2> QED  BY <1>0, <2>1, <2>2, MemesFichiers
<1>4. CASE ReqEcrire
  <2>1. requete.liste.version > appli.version /\ requete.liste.version \in Nat
    BY <1>4, RequeteEcrit, ListesType DEF ReqEcrire
  <2>2. hote' = hote /\ script' = script
    BY <1>4 DEF ReqEcrire
  <2>3. CASE appli' = requete.liste /\ requete' = [requete EXCEPT !.etape = "retirer"]
    <3>1. requete'.etape # "ecrire"
      BY <1>4, <2>3, RequeteEcrit DEF TypeOK
    <3> QED  BY <1>0, <2>1, <2>2, <2>3, <3>1 DEF EnVigueur
  <2>4. CASE requete' = Repos /\ UNCHANGED appli
    BY <1>0, <2>2, <2>4 DEF EnVigueur, Repos
  <2> QED  BY <1>4, <2>3, <2>4 DEF ReqEcrire
<1>5. CASE ReqRetirer \/ Arreter
  <2>1. UNCHANGED fichiers /\ script' = script /\ requete' = Repos
    BY <1>5 DEF ReqRetirer, Arreter
  <2> QED  BY <1>0, <2>1, MemesFichiers DEF Repos
<1>6. ASSUME UNCHANGED fichiers, script' = script, requete' = requete
      PROVE  VersionsEnAttente' /\ EnVigueur'.version >= EnVigueur.version
  BY <1>0, <1>6, MemesFichiers
<1>7. CASE \/ \E a \in Admins : Telephone(a)
           \/ \E m \in demandes : ReqEntrer(m) \/ Perdre(m)
           \/ Synchroniser \/ Demarrer
           \/ \E d \in Appareils : Appareil(d)
           \/ UNCHANGED vars
  <2>1. UNCHANGED fichiers /\ script' = script /\ requete' = requete
    BY <1>7 DEF Telephone, TelephoneSigner, ReqEntrer, Perdre, Synchroniser, Demarrer, Appareil,
                Inscrire, Demander, Adopter, Oublier, vars, serveur
  <2> QED  BY <1>6, <2>1
<1> QED
  BY <1>1, <1>2, <1>3, <1>4, <1>5, <1>7 DEF Next, Script, Handler

\* The version in force never goes back, whoever writes and whatever fails
\* (RevocationsEnVigueur, serveur.go:431-449).
THEOREM RevocationsVersion == Spec => VersionMonte
<1>1. Init => VersionsEnAttente
  BY DEF Init, VersionsEnAttente, Repos
<1>2. TypeOK /\ VersionsEnAttente /\ [Next]_vars => VersionsEnAttente'
  BY VersionsPas
<1>3. TypeOK /\ VersionsEnAttente /\ [Next]_vars => [EnVigueur'.version >= EnVigueur.version]_vars
  BY VersionsPas
<1> QED  BY <1>1, <1>2, <1>3, RevocationsType, PTL DEF Spec, VersionMonte

-----------------------------------------------------------------------------
(* The keys. *)

\* Nothing that waits, and nothing retained, forgets a key of the list it
\* will meet, until sas.sh replaces a list it had not read.
Suite(avant, apres) == avant.version < apres.version /\ avant.cles \subseteq apres.cles

Chaine ==
  /\ requete.etape = "ecrire" => Suite(EnVigueur, requete.liste)
  /\ script # Repos => Suite(script.lue, script.liste)
  /\ \A d \in Appareils :
       /\ retenues[d].cles \subseteq EnVigueur.cles
       /\ reponses[d] # Rien =>
            /\ retenues[d].cles \subseteq reponses[d].liste.cles
            /\ reponses[d].liste.cles \subseteq EnVigueur.cles

\* A request past authentication does not ban the device that sent it.
PasSoiMeme ==
  /\ \A m \in demandes : m.entree => m.admin \notin m.liste.cles
  /\ requete.etape = "ecrire" => requete.admin \notin requete.liste.cles

Inv == TypeOK /\ PasSoiMeme /\ (~croise => Chaine)

LEMMA PasSoiMemePas ==
  ASSUME TypeOK, PasSoiMeme, [Next]_vars
  PROVE  PasSoiMeme'
<1> USE DEF PasSoiMeme
<1>1. ASSUME NEW a \in Admins, NEW nouvelles \in SUBSET Revocables, TelephoneSigner(a, nouvelles)
      PROVE  PasSoiMeme'
  <2>1. PICK l : demandes' = demandes \cup {[admin |-> a, liste |-> l, entree |-> FALSE]}
    BY <1>1 DEF TelephoneSigner
  <2>2. requete' = requete
    BY <1>1 DEF TelephoneSigner
  <2> QED  BY <2>1, <2>2
<1>2. ASSUME NEW m \in demandes, ReqEntrer(m) PROVE PasSoiMeme'
  <2> DEFINE n == [m EXCEPT !.entree = TRUE]
  <2>1. n.admin = m.admin /\ n.liste = m.liste
    BY DEF TypeOK
  <2>2. demandes' = (demandes \ {m}) \cup (IF Acceptable(m) THEN {n} ELSE {}) /\ requete' = requete
    BY <1>2 DEF ReqEntrer
  <2>3. Acceptable(m) => n.admin \notin n.liste.cles
    BY <2>1 DEF Acceptable
  <2> HIDE DEF n
  <2> QED  BY <2>2, <2>3
<1>3. ASSUME NEW m \in demandes, ReqVerifier(m) PROVE PasSoiMeme'
  <2>1. m.admin \notin m.liste.cles /\ demandes' \subseteq demandes
    BY <1>3 DEF ReqVerifier
  <2>2. requete'.etape = "ecrire" => requete'.admin = m.admin /\ requete'.liste = m.liste
    BY <1>3 DEF ReqVerifier, Repos
  <2> QED  BY <2>1, <2>2
<1>4. CASE ReqEcrire
  <2>1. requete'.etape # "ecrire"
    BY <1>4, RequeteEcrit DEF ReqEcrire, Repos, TypeOK
  <2> QED  BY <1>4, <2>1 DEF ReqEcrire
<1>5. CASE ReqRetirer \/ Arreter
  <2>1. requete'.etape # "ecrire" /\ demandes' \subseteq demandes
    BY <1>5 DEF ReqRetirer, Arreter, Repos
  <2> QED  BY <2>1
<1>6. CASE \/ Script \/ Synchroniser \/ Demarrer
           \/ \E m \in demandes : Perdre(m)
           \/ \E d \in Appareils : Appareil(d)
           \/ UNCHANGED vars
  <2>1. demandes' \subseteq demandes /\ requete' = requete
    BY <1>6 DEF Script, ScriptSigner, ScriptDeplacer, Perdre, Synchroniser, Demarrer, Appareil,
                Inscrire, Demander, Adopter, Oublier, vars, serveur
  <2> QED  BY <2>1
<1> QED
  BY <1>1, <1>2, <1>3, <1>4, <1>5, <1>6 DEF Next, Telephone, Handler

\* The list in force only lengthens.
LEMMA EnVigueurPas ==
  ASSUME Inv, VersionsEnAttente, [Next]_vars, ~croise'
  PROVE  ~croise /\ EnVigueur.cles \subseteq EnVigueur'.cles
<1> USE DEF Inv
<1>1. ~croise
  BY DEF Next, Script, ScriptSigner, ScriptDeplacer, Handler, ReqEntrer, ReqVerifier, Perdre,
         ReqEcrire, ReqRetirer, Synchroniser, Arreter, Demarrer, Telephone, TelephoneSigner,
         Appareil, Inscrire, Demander, Adopter, Oublier, vars
<1>2. Chaine
  BY <1>1
<1>3. hote.version \in Nat /\ appli.version \in Nat
  BY ListesType DEF TypeOK
<1>4. CASE ScriptDeplacer
  <2>0. croise' = (croise \/ script.lue # EnVigueur \/ requete.etape = "ecrire")
    BY <1>4 DEF ScriptDeplacer
  <2>1. script # Repos /\ script.lue = EnVigueur
    <3>1. script # Repos
      BY <1>4 DEF ScriptDeplacer, Repos
    <3>2. script.lue = EnVigueur
      BY <2>0, Zenon
    <3> QED  BY <3>1, <3>2
  <2>2. Suite(EnVigueur, script.liste)
    BY <1>2, <2>1 DEF Chaine
  <2>3. script.liste.version \in Nat
    BY <2>1, ScriptSigne, ListesType
  <2>4. hote' = script.liste /\ appli' = appli
    BY <1>4 DEF ScriptDeplacer
  <2>5. EnVigueur' = script.liste
    BY <1>3, <2>2, <2>3, <2>4 DEF EnVigueur, Suite
  <2> QED  BY <1>1, <2>2, <2>5 DEF Suite
<1>5. CASE ReqEcrire
  <2>1. Suite(EnVigueur, requete.liste) /\ hote' = hote
    BY <1>2, <1>5 DEF Chaine, ReqEcrire
  <2>2. requete.liste.version \in Nat
    BY <1>5, RequeteEcrit, ListesType DEF ReqEcrire
  <2>3. CASE appli' = requete.liste
    <3>1. EnVigueur' = requete.liste
      BY <1>3, <2>1, <2>2, <2>3 DEF EnVigueur, Suite
    <3> QED  BY <1>1, <2>1, <3>1 DEF Suite
  <2>4. CASE appli' = appli
    BY <1>1, <2>1, <2>4 DEF EnVigueur
  <2> QED  BY <1>5, <2>3, <2>4 DEF ReqEcrire
<1>6. CASE ~ScriptDeplacer /\ ~ReqEcrire
  <2>1. UNCHANGED fichiers
    BY <1>6 DEF Next, Script, ScriptSigner, Handler, ReqEntrer, ReqVerifier, Perdre, ReqRetirer,
         Synchroniser, Arreter, Demarrer, Telephone, TelephoneSigner, Appareil, Inscrire,
         Demander, Adopter, Oublier, vars
  <2> QED  BY <1>1, <2>1, MemesFichiers
<1> QED  BY <1>4, <1>5, <1>6

LEMMA ChainePas ==
  ASSUME Inv, VersionsEnAttente, [Next]_vars, ~croise'
  PROVE  /\ Chaine'
         /\ \A d \in Appareils : retenues[d].cles \subseteq retenues'[d].cles
<1>0. /\ Chaine /\ TypeOK /\ TypeOK'
      /\ EnVigueur.cles \subseteq EnVigueur'.cles
  BY EnVigueurPas, TypePas DEF Inv
<1>1. requete'.etape = "ecrire" => Suite(EnVigueur, requete.liste)' 
  <2> SUFFICES ASSUME requete'.etape = "ecrire" PROVE Suite(EnVigueur', requete'.liste)
    OBVIOUS
  <2>1. CASE ScriptDeplacer
    <3>1. croise' = (croise \/ script.lue # EnVigueur \/ requete.etape = "ecrire") /\ requete' = requete
      BY <2>1 DEF ScriptDeplacer, serveur
    <3>2. requete.etape # "ecrire"
      BY <3>1, Zenon
    <3> QED  BY <3>1, <3>2
  <2>2. CASE ReqEcrire
    <3>1. requete'.etape # "ecrire"
      BY <1>0, <2>2, RequeteEcrit DEF ReqEcrire, Repos, TypeOK
    <3> QED  BY <3>1
  <2>3. ASSUME NEW m \in demandes, ReqVerifier(m) PROVE Suite(EnVigueur', requete'.liste)
    <3>1. UNCHANGED fichiers
      BY <2>3 DEF ReqVerifier
    <3>2. Recevable(m.liste) /\ requete'.liste = m.liste
      BY <2>3 DEF ReqVerifier, Repos
    <3>3. EnVigueur.version \in Nat /\ m.liste.version \in Nat
      BY <1>0, EnVigueurType, ListesType DEF TypeOK
    <3> QED  BY <3>1, <3>2, <3>3, MemesFichiers DEF Recevable, Actuelle, Suite
  <2>4. CASE ReqRetirer \/ Arreter
    BY <2>4 DEF ReqRetirer, Arreter, Repos
  <2>5. CASE \/ \E nouvelles \in SUBSET Revocables : ScriptSigner(nouvelles)
             \/ \E x \in Admins : Telephone(x)
             \/ \E m \in demandes : ReqEntrer(m) \/ Perdre(m)
             \/ Synchroniser \/ Demarrer
             \/ \E d \in Appareils : Appareil(d)
             \/ UNCHANGED vars
    <3>1. UNCHANGED fichiers /\ requete' = requete
      BY <2>5 DEF ScriptSigner, Telephone, TelephoneSigner, ReqEntrer, Perdre, Synchroniser,
                  Demarrer, Appareil, Inscrire, Demander, Adopter, Oublier, vars, serveur
    <3> QED  BY <1>0, <3>1, MemesFichiers DEF Chaine
  <2> QED  BY <2>1, <2>2, <2>3, <2>4, <2>5 DEF Next, Script, Handler
<1>2. script' # Repos => Suite(script.lue, script.liste)'
  <2>1. ASSUME NEW nouvelles \in SUBSET Revocables, ScriptSigner(nouvelles)
        PROVE  Suite(script'.lue, script'.liste)
    <3>1. Servie \in Listes /\ Servie.version \in Nat
      BY <1>0, EnVigueurType, ListesType DEF Servie, TypeOK
    <3>2. Suite(Servie, Allongee(Servie, nouvelles))
      BY <2>1, <3>1, AllongeeType DEF ScriptSigner, Suite
    <3>3. script'.lue = Servie /\ script'.liste = Allongee(Servie, nouvelles)
      BY <2>1 DEF ScriptSigner
    <3> QED  BY <3>2, <3>3
  <2>2. CASE ScriptDeplacer
    BY <2>2 DEF ScriptDeplacer
  <2>3. CASE script' = script
    BY <1>0, <2>3 DEF Chaine
  <2>4. [Next]_vars => \/ ScriptDeplacer \/ script' = script
                        \/ \E nouvelles \in SUBSET Revocables : ScriptSigner(nouvelles)
    BY DEF Next, Script, Handler, ReqEntrer, ReqVerifier, ReqEcrire, ReqRetirer, Perdre,
           Synchroniser, Arreter, Demarrer, Telephone, TelephoneSigner, Appareil, Inscrire,
           Demander, Adopter, Oublier, vars
  <2> QED  BY <2>1, <2>2, <2>3, <2>4
<1>3. /\ \A d \in Appareils : retenues[d].cles \subseteq retenues'[d].cles
      /\ \A d \in Appareils :
           /\ retenues'[d].cles \subseteq EnVigueur'.cles
           /\ reponses'[d] # Rien =>
                /\ retenues'[d].cles \subseteq reponses'[d].liste.cles
                /\ reponses'[d].liste.cles \subseteq EnVigueur'.cles
  <2> DEFINE Juste(d) == /\ retenues[d].cles \subseteq retenues'[d].cles
                         /\ retenues'[d].cles \subseteq EnVigueur'.cles
                         /\ reponses'[d] # Rien =>
                              /\ retenues'[d].cles \subseteq reponses'[d].liste.cles
                              /\ reponses'[d].liste.cles \subseteq EnVigueur'.cles
  <2> SUFFICES ASSUME NEW d \in Appareils PROVE Juste(d)
    OBVIOUS
  <2>0. /\ retenues[d].cles \subseteq EnVigueur.cles
        /\ reponses[d] # Rien => /\ retenues[d].cles \subseteq reponses[d].liste.cles
                                  /\ reponses[d].liste.cles \subseteq EnVigueur.cles
    BY <1>0 DEF Chaine
  <2>1. CASE retenues'[d] = retenues[d] /\ reponses'[d] \in {Rien, reponses[d]}
    BY <1>0, <2>0, <2>1
  <2>2. ASSUME NEW e \in Appareils, Demander(e) PROVE Juste(d)
    <3>1. retenues' = retenues
      BY <2>2 DEF Demander
    <3>2. CASE d = e
      <4>1. reponses'[d] = [recue |-> TRUE, liste |-> EnVigueur]
        BY <1>0, <2>2, <3>2 DEF Demander, TypeOK
      <4> QED  BY <1>0, <2>0, <3>1, <4>1
    <3>3. CASE d # e
      <4>1. reponses'[d] = reponses[d]
        BY <1>0, <2>2, <3>3 DEF Demander, TypeOK
      <4> QED  BY <2>1, <3>1, <4>1
    <3> QED  BY <3>2, <3>3
  <2>3. ASSUME NEW e \in Appareils, Adopter(e) PROVE Juste(d)
    <3>1. d # e => retenues'[d] = retenues[d] /\ reponses'[d] = reponses[d]
      BY <1>0, <2>3 DEF Adopter, TypeOK
    <3>2. CASE d = e
      <4>1. reponses'[d] = Rien /\ reponses[d] # Rien
        BY <1>0, <2>3, <3>2 DEF Adopter, TypeOK
      <4>2. retenues'[d] \in {retenues[d], reponses[d].liste}
        BY <1>0, <2>3, <3>2 DEF Adopter, TypeOK
      <4> QED  BY <1>0, <2>0, <4>1, <4>2
    <3> QED  BY <2>1, <3>1, <3>2
  <2>4. ASSUME NEW e \in Appareils, Oublier(e) PROVE Juste(d)
    <3>1. retenues'[d] = retenues[d] /\ reponses'[d] \in {Rien, reponses[d]}
      BY <1>0, <2>4 DEF Oublier, TypeOK
    <3> QED  BY <2>1, <3>1
  <2>5. CASE UNCHANGED appareils
    BY <2>1, <2>5 DEF appareils
  <2>6. [Next]_vars => \/ UNCHANGED appareils
                        \/ \E e \in Appareils : Demander(e) \/ Adopter(e) \/ Oublier(e)
    BY DEF Next, Script, ScriptSigner, ScriptDeplacer, Handler, ReqEntrer, ReqVerifier, ReqEcrire,
           ReqRetirer, Perdre, Synchroniser, Arreter, Demarrer, Telephone, TelephoneSigner,
           Appareil, Inscrire, vars, appareils
  <2> QED  BY <2>2, <2>3, <2>4, <2>5, <2>6
<1> QED  BY <1>1, <1>2, <1>3 DEF Chaine

LEMMA InvInit == Init => Inv /\ VersionsEnAttente
<1> SUFFICES ASSUME Init PROVE Inv /\ VersionsEnAttente
  OBVIOUS
<1>1. TypeOK
  BY TypeInit
<1>2. VersionsEnAttente /\ PasSoiMeme
  BY DEF Init, VersionsEnAttente, PasSoiMeme, Repos
<1>3. EnVigueur = Aucune
  BY DEF Init, EnVigueur
<1>4. Chaine
  BY <1>3 DEF Init, Chaine, Repos, Rien, Aucune
<1> QED  BY <1>1, <1>2, <1>4 DEF Inv

LEMMA InvPas ==
  ASSUME Inv, VersionsEnAttente, [Next]_vars
  PROVE  Inv' /\ VersionsEnAttente'
BY TypePas, VersionsPas, PasSoiMemePas, ChainePas DEF Inv

\* A banned key stays banned, as long as sas.sh never replaced a list it had
\* not read (admin.go:283-286, 331-346).
THEOREM RevocationsSAllonge == Spec => ListeSAllonge
<1>1. Inv /\ VersionsEnAttente /\ [Next]_vars
        => [~croise' => EnVigueur.cles \subseteq EnVigueur'.cles]_vars
  BY EnVigueurPas
<1> QED  BY <1>1, InvInit, InvPas, PTL DEF Spec, ListeSAllonge

\* The list a device retains only lengthens, under the same condition
\* (client.go:351-363).
THEOREM RevocationsRetenues == Spec => RetenuesSAllongent
<1>1. Inv /\ VersionsEnAttente /\ [Next]_vars
        => [~croise' => \A d \in Appareils : retenues[d].cles \subseteq retenues'[d].cles]_vars
  BY ChainePas
<1> QED  BY <1>1, InvInit, InvPas, PTL DEF Spec, RetenuesSAllongent

\* A banned phone extends nothing, whenever its request came in
\* (admin.go:312-315, 331-346).
THEOREM RevocationsMuet == Spec => RevoqueMuet
<1>1. Inv /\ VersionsEnAttente /\ [Next]_vars
        => [~croise /\ appli' # appli => requete.admin \notin EnVigueur.cles]_vars
  <2> SUFFICES ASSUME Inv, [Next]_vars, ~croise, appli' # appli
               PROVE  requete.admin \notin EnVigueur.cles
    OBVIOUS
  <2>1. ReqEcrire
    BY DEF Next, Script, ScriptSigner, ScriptDeplacer, Handler, ReqEntrer, ReqVerifier, ReqRetirer,
           Perdre, Synchroniser, Arreter, Demarrer, Telephone, TelephoneSigner, Appareil, Inscrire,
           Demander, Adopter, Oublier, vars, fichiers
  <2> QED  BY <2>1 DEF ReqEcrire, Inv, Chaine, PasSoiMeme, Suite
<1> QED  BY <1>1, InvInit, InvPas, PTL DEF Spec, RevoqueMuet
=============================================================================
