----------------------------- MODULE Revocations -----------------------------
(***************************************************************************)
(* The signed list of the keys that are banned, from the admins who extend *)
(* it to the devices that retain it.                                       *)
(*                                                                         *)
(* Two writers, two files.  sas.sh revoquer reads the list in force, signs *)
(* the next version and renames it over its own file: no lock, no second   *)
(* look.  A phone does the same and posts the result, which the handler    *)
(* revocations of internal/serveur/admin.go compares with the list in      *)
(* force under muRevocations before it writes the other file.  The list in *)
(* force is the newer of the two (RevocationsEnVigueur).  A device adopts  *)
(* what is newer than what it retains (client.adopterRevocations).         *)
(*                                                                         *)
(* A device is its key.  Every list here is signed by the lock: signatures *)
(* are made and checked outside the model.  The absence of a list is a     *)
(* list of version 0, which behaves as nil does everywhere it is read.     *)
(***************************************************************************)
EXTENDS Naturals, FiniteSets

CONSTANTS
  Appareils,     \* public keys
  Admins,        \* the phones that hold the key of the lock
  Revocables,    \* the keys an admin may want to ban, of these devices or of others
  MaxVersion,    \* the last version, 2^64 - 1 in the code
  MaxDemandes    \* bound on the POSTs on their way or in the handler

ASSUME RevocationsAssumption ==
  /\ Admins \subseteq Appareils
  /\ MaxVersion \in Nat \ {0}
  /\ MaxDemandes \in Nat

VARIABLES
  hote,       \* /config/revocations.json, the file of sas.sh
  appli,      \* the file of the lists that come from the application
  script,     \* sas.sh revoquer between its reading and its mv
  demandes,   \* the POSTs on their way, or that wait for muRevocations
  requete,    \* the handler that holds muRevocations
  marche,     \* sasd runs
  base,       \* the keys registered
  retenues,   \* Retenu of each device: VersionRevocations and Revoquees
  reponses,   \* the answer of the server each device has not applied yet
  croise      \* history: sas.sh replaced a list it had not read

fichiers == <<hote, appli>>
serveur == <<demandes, requete, marche, base>>
appareils == <<retenues, reponses>>
vars == <<fichiers, script, serveur, appareils, croise>>

Listes == [version : 0 .. MaxVersion, cles : SUBSET Revocables]
Aucune == [version |-> 0, cles |-> {}]
Repos == [etape |-> "repos"]
Rien == [recue |-> FALSE]

TypeOK ==
  /\ hote \in Listes
  /\ appli \in Listes
  /\ script \in {Repos} \cup [etape : {"signee"}, lue : Listes, liste : Listes]
  /\ demandes \subseteq [admin : Admins, liste : Listes, entree : BOOLEAN]
  /\ requete \in {Repos} \cup [etape : {"ecrire", "retirer"}, admin : Admins, liste : Listes]
  /\ marche \in BOOLEAN
  /\ base \subseteq Appareils
  /\ retenues \in [Appareils -> Listes]
  /\ reponses \in [Appareils -> {Rien} \cup [recue : {TRUE}, liste : Listes]]
  /\ croise \in BOOLEAN

Init ==
  /\ hote = Aucune
  /\ appli = Aucune
  /\ script = Repos
  /\ demandes = {}
  /\ requete = Repos
  /\ marche = TRUE
  /\ base = Appareils
  /\ retenues = [d \in Appareils |-> Aucune]
  /\ reponses = [d \in Appareils |-> Rien]
  /\ croise = FALSE

-----------------------------------------------------------------------------
(* The lists. *)

\* RevocationsEnVigueur: on equal versions the file of sas.sh, read first.
EnVigueur == IF appli.version > hote.version THEN appli ELSE hote

\* AllongerRevocations: where the next list starts from.
Depart(retenue, servie) ==
  IF servie.version > retenue.version
  THEN [version |-> servie.version, cles |-> retenue.cles \cup servie.cles]
  ELSE retenue

\* There is a key to add and a version to give.
Extensible(depart, nouvelles) ==
  ~(nouvelles \subseteq depart.cles) /\ depart.version < MaxVersion

\* Mutant: the next list holds the new keys alone.
AllongeeSansReprendre(depart, nouvelles) == [version |-> depart.version + 1, cles |-> nouvelles]

\* The next list, signed.
Allongee(depart, nouvelles) ==
  [version |-> depart.version + 1, cles |-> depart.cles \cup nouvelles]

-----------------------------------------------------------------------------
(* sas.sh revoquer. *)

\* « sasd revocations » gives the list in force; when it cannot be asked, the
\* script takes its own file.
Servie == IF marche THEN EnVigueur ELSE hote

ScriptSigner(nouvelles) ==
  /\ script = Repos
  /\ Extensible(Servie, nouvelles)
  /\ script' = [etape |-> "signee", lue |-> Servie, liste |-> Allongee(Servie, nouvelles)]
  /\ UNCHANGED <<fichiers, serveur, appareils, croise>>

\* mv: whatever became of the list in force since it was read.  A run that is
\* interrupted before is one that never read.
ScriptDeplacer ==
  /\ script.etape = "signee"
  /\ hote' = script.liste
  /\ script' = Repos
  /\ croise' = (croise \/ script.lue # EnVigueur \/ requete.etape = "ecrire")
  /\ UNCHANGED <<appli, serveur, appareils>>

-----------------------------------------------------------------------------
(* The phone of an admin: pont.Revoquer. *)

\* It reads what it retained, asks for the list served, signs and sends.
TelephoneSigner(a, nouvelles) ==
  /\ marche
  /\ a \in base
  /\ Cardinality(demandes) < MaxDemandes
  /\ LET depart == Depart(retenues[a], EnVigueur) IN
     /\ Extensible(depart, nouvelles)
     /\ demandes' = demandes \cup
          {[admin |-> a, liste |-> Allongee(depart, nouvelles), entree |-> FALSE]}
  /\ UNCHANGED <<fichiers, script, requete, marche, base, appareils, croise>>

\* A request that never arrives; the phone was told so, or timed out.
Perdre(m) ==
  /\ m \in demandes
  /\ ~m.entree
  /\ demandes' = demandes \ {m}
  /\ UNCHANGED <<fichiers, script, requete, marche, base, appareils, croise>>

-----------------------------------------------------------------------------
(* The handler revocations. *)

\* Mutant: nothing is said of the device that asks.
AcceptableSoiMeme(m) == m.admin \in base

\* An admin does not ban the device that asks.
Acceptable(m) == m.admin \in base /\ m.admin \notin m.liste.cles

\* Before the lock: the device is known and an admin's, the list is signed.
ReqEntrer(m) ==
  /\ marche
  /\ m \in demandes /\ ~m.entree
  /\ demandes' = (demandes \ {m}) \cup
                   (IF Acceptable(m) THEN {[m EXCEPT !.entree = TRUE]} ELSE {})
  /\ UNCHANGED <<fichiers, script, requete, marche, base, appareils, croise>>

\* Mutant: only the file of sas.sh is looked at.
ActuelleHote == hote

\* The list the new one is compared with.
Actuelle == EnVigueur

\* Mutant: the keys are compared, the versions are not.
RecevableSansVersion(liste) == Actuelle.cles \subseteq liste.cles

\* Newer than the list in force, and nothing of it forgotten.
Recevable(liste) == liste.version > Actuelle.version /\ Actuelle.cles \subseteq liste.cles

\* Under muRevocations.
ReqVerifier(m) ==
  /\ m \in demandes /\ m.entree
  /\ requete = Repos
  /\ requete' = IF Recevable(m.liste)
                THEN [etape |-> "ecrire", admin |-> m.admin, liste |-> m.liste] ELSE Repos
  /\ demandes' = demandes \ {m}
  /\ UNCHANGED <<fichiers, script, marche, base, appareils, croise>>

\* ecrireAtomique: the file is replaced, or nothing happened and the request
\* is refused.
ReqEcrire ==
  /\ requete.etape = "ecrire"
  /\ \/ appli' = requete.liste /\ requete' = [requete EXCEPT !.etape = "retirer"]
     \/ requete' = Repos /\ UNCHANGED appli
  /\ UNCHANGED <<hote, script, demandes, marche, base, appareils, croise>>

\* The lines are erased one by one, then Synchroniser is called; a failure of
\* either is only logged.
ReqRetirer ==
  /\ requete.etape = "retirer"
  /\ \E effacees \in SUBSET (requete.liste.cles \cup EnVigueur.cles) : base' = base \ effacees
  /\ requete' = Repos
  /\ UNCHANGED <<fichiers, script, demandes, marche, appareils, croise>>

-----------------------------------------------------------------------------
(* sasd. *)

\* A revoked key may register again: its certificate is still valid.
Inscrire(d) ==
  /\ marche
  /\ d \notin base
  /\ base' = base \cup {d}
  /\ UNCHANGED <<fichiers, script, demandes, requete, marche, appareils, croise>>

\* Synchroniser, as far as the revocations go.
Synchroniser ==
  /\ marche
  /\ base' = base \ EnVigueur.cles
  /\ UNCHANGED <<fichiers, script, demandes, requete, marche, appareils, croise>>

\* sasd stops, at any point of a handler.
Arreter ==
  /\ marche
  /\ marche' = FALSE
  /\ requete' = Repos
  /\ demandes' = {m \in demandes : ~m.entree}
  /\ UNCHANGED <<fichiers, script, base, appareils, croise>>

Demarrer ==
  /\ ~marche
  /\ marche' = TRUE
  /\ UNCHANGED <<fichiers, script, demandes, requete, base, appareils, croise>>

-----------------------------------------------------------------------------
(* A device: one request at a time (appareil.Tenir). *)

Demander(d) ==
  /\ marche
  /\ d \in base
  /\ reponses[d] = Rien
  /\ reponses' = [reponses EXCEPT ![d] = [recue |-> TRUE, liste |-> EnVigueur]]
  /\ UNCHANGED <<fichiers, script, serveur, retenues, croise>>

\* adopterRevocations: newer than what is retained.
PlusRecente(liste, retenue) == liste.version > retenue.version

\* appliquer: what is learnt is on disk before the peers change.
Adopter(d) ==
  /\ reponses[d] # Rien
  /\ retenues' = IF PlusRecente(reponses[d].liste, retenues[d])
                 THEN [retenues EXCEPT ![d] = reponses[d].liste] ELSE retenues
  /\ reponses' = [reponses EXCEPT ![d] = Rien]
  /\ UNCHANGED <<fichiers, script, serveur, croise>>

\* The answer is lost, the disk is full, or the device stops: nothing is kept.
Oublier(d) ==
  /\ reponses[d] # Rien
  /\ reponses' = [reponses EXCEPT ![d] = Rien]
  /\ UNCHANGED <<fichiers, script, serveur, retenues, croise>>

-----------------------------------------------------------------------------

Script == ScriptDeplacer \/ \E cles \in SUBSET Revocables : ScriptSigner(cles)

Telephone(a) == \E cles \in SUBSET Revocables : TelephoneSigner(a, cles)

Handler ==
  \/ \E m \in demandes : ReqEntrer(m) \/ ReqVerifier(m) \/ Perdre(m)
  \/ ReqEcrire \/ ReqRetirer

Appareil(d) == Inscrire(d) \/ Demander(d) \/ Adopter(d) \/ Oublier(d)

Next ==
  \/ Script \/ Handler \/ Synchroniser \/ Arreter \/ Demarrer
  \/ \E a \in Admins : Telephone(a)
  \/ \E d \in Appareils : Appareil(d)

Spec == Init /\ [][Next]_vars

-----------------------------------------------------------------------------
(* Properties. *)

\* The version in force never goes back, whoever writes, in whatever order:
\* the devices would keep refusing every list until it catches up
\* (client.go:351-357).
VersionMonte == [][EnVigueur'.version >= EnVigueur.version]_vars

\* admin.go:283-286, « une liste ne fait que s'allonger »: a banned key stays
\* banned, as long as sas.sh never replaced a list it had not read.  Nothing
\* else can break it: two phones, a request repeated late, a stop between the
\* check and the writing.
ListeSAllonge == [][~croise' => EnVigueur.cles \subseteq EnVigueur'.cles]_vars

\* client.go:351-353, the list of a device « ne peut que s'allonger au fil des
\* versions », under the same condition.
RetenuesSAllongent ==
  [][~croise' => \A d \in Appareils : retenues[d].cles \subseteq retenues'[d].cles]_vars

\* A phone that is itself banned cannot extend the list, even if its request
\* had passed authentication before the ban (admin.go:312-315, 331-336).
RevoqueMuet ==
  [][~croise /\ appli' # appli => requete.admin \notin EnVigueur.cles]_vars
=============================================================================
