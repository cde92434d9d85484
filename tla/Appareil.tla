------------------------------ MODULE Appareil ------------------------------
(***************************************************************************)
(* The life of one device: its file etat.json and everything that reads    *)
(* and writes it (internal/appareil, pont/pont.go, cmd/sas).               *)
(*                                                                         *)
(* A loop is one call of Tenir.  On Android the bridge starts one at each  *)
(* Demarrer and stops it by Arreter, which waits three seconds at most; on *)
(* Linux a loop is one life of "sas demon".  Rejoindre and Quitter run one *)
(* at a time: one background thread on Android, one command on Linux.  A   *)
(* loop that asks the server waits up to twenty seconds, during which      *)
(* anything else may happen; stopping it does not interrupt the call.      *)
(*                                                                         *)
(* The two signed versions a device retains (policy and revocations) are   *)
(* one number: they are retained, carried over and written together.       *)
(***************************************************************************)
EXTENDS Naturals, FiniteSets

CONSTANTS
    MaxTours,         \* bound: calls of Demarrer, or lives of the daemon
    MaxInscriptions,  \* bound: registrations the server accepts
    MaxVersion,       \* bound: versions the administrator signs
    MaxEvenements,    \* bound: loops, registrations and versions, all together
    Reseaux,          \* networks, each with its server key and its lock
    Plateformes,      \* a subset of {"android", "linux"}
    Absent            \* no file, no state, no engine

ASSUME BornesAssumption ==
    /\ MaxTours \in Nat \ {0} /\ MaxInscriptions \in Nat \ {0} /\ MaxVersion \in Nat
    /\ MaxEvenements \in Nat
    /\ Plateformes \subseteq {"android", "linux"}

Tours == 1 .. MaxTours
Inscriptions == 1 .. MaxInscriptions
Versions == 0 .. MaxVersion

\* etat.json.  cle is the registration that generated the private key;
\* depuis, a history field, the registration since which versions are
\* carried over.
Etats == [ins : Inscriptions, cle : Inscriptions, depuis : Inscriptions,
          reseau : Reseaux, version : Versions]

\* The pairs of an engine: the retained state they were computed from.
Pairs == [depuis : Inscriptions, version : Versions]

ASSUME AbsentAssumption ==
    /\ Absent \notin Etats /\ Absent \notin Pairs /\ Absent \notin Versions
    /\ Absent \notin Tours /\ Absent \notin Inscriptions

VARIABLES
    plateforme, \* fixed at the start
    fichier,    \* etat.json
    boucle,     \* the loops: see Boucles
    arret,      \* the loop that arret and fini name, Absent if nil
    tache,      \* Rejoindre or Quitter
    attente,    \* the loop Quitter waits for, Absent if none
    jetons,     \* by network and key, the registration whose token is good
    inscrits,   \* how many registrations it made
    publie,     \* the last version signed, by network
    sert,       \* the version the server serves
    croise,     \* history: a state was written over another than the one it came from
    retenue     \* history: the last version an engine was given, by depuis

vars == <<plateforme, fichier, boucle, arret, tache, attente, jetons, inscrits,
          publie, sert, croise, retenue>>
serveur == <<jetons, inscrits, publie, sert>>
pont == <<arret, attente>>
histoire == <<croise, retenue>>

\* pc: "debut" before the first reading, "appel" and "reponse" the two halves
\* of LireReseau, "ecrit" between Ecrire and DefinirPairs, "attente" the
\* select.  appels: of a loop that was stopped, the call it was in and those it
\* began since.
Boucles == [pc : {"absente", "debut", "appel", "reponse", "ecrit", "attente", "finie"},
            courant : Etats \cup {Absent}, dernier : Etats \cup {Absent},
            pairs : Pairs \cup {Absent}, reponse : Versions \cup {Absent},
            annulee : BOOLEAN, appels : 0 .. 2]

Taches == [etape : {"repos", "inscrire", "ecrire", "attendre", "deconnecter", "effacer"},
           copie : Etats \cup {Absent}, neuf : Etats \cup {Absent}]

Repos == [etape |-> "repos", copie |-> Absent, neuf |-> Absent]

Neuve == [pc |-> "absente", courant |-> Absent, dernier |-> Absent,
          pairs |-> Absent, reponse |-> Absent, annulee |-> FALSE, appels |-> 0]

Finie == [Neuve EXCEPT !.pc = "finie"]

TypeOK ==
    /\ plateforme \in Plateformes
    /\ fichier \in Etats \cup {Absent}
    /\ boucle \in [Tours -> Boucles]
    /\ arret \in Tours \cup {Absent}
    /\ tache \in Taches
    /\ attente \in Tours \cup {Absent}
    /\ jetons \in [Reseaux -> [Inscriptions -> Inscriptions \cup {Absent}]]
    /\ inscrits \in 0 .. MaxInscriptions
    /\ publie \in [Reseaux -> Versions] /\ sert \in [Reseaux -> Versions]
    /\ croise \in BOOLEAN /\ retenue \in [Inscriptions -> Versions]

Init ==
    /\ plateforme \in Plateformes
    /\ fichier = Absent
    /\ boucle = [b \in Tours |-> Neuve]
    /\ arret = Absent
    /\ tache = Repos
    /\ attente = Absent
    /\ jetons = [r \in Reseaux |-> [k \in Inscriptions |-> Absent]] /\ inscrits = 0
    /\ publie = [r \in Reseaux |-> 0] /\ sert = [r \in Reseaux |-> 0]
    /\ croise = FALSE /\ retenue = [i \in Inscriptions |-> 0]

Permis ==
    Cardinality({b \in Tours : boucle[b].pc # "absente"}) + inscrits
      + Cardinality({v \in Reseaux \X Versions : 0 < v[2] /\ v[2] <= publie[v[1]]})
        < MaxEvenements

-----------------------------------------------------------------------------
(* Tenir *)

Vivante(b) == boucle[b].pc \notin {"absente", "finie"}

\* The top of the loop: the file if it changed, nothing to hold if it went.
\* Only another private key empties the engine.
ChangeeCle(l) == fichier # Absent /\ (l.dernier = Absent \/ l.dernier.cle # fichier.cle)
Changee(l) == fichier \notin {Absent, l.dernier}
Relue(l) ==
    IF Changee(l)
    THEN [l EXCEPT !.courant = fichier, !.dernier = fichier,
                   !.pairs = IF l.courant # Absent /\ l.courant.cle # fichier.cle
                             THEN Absent ELSE @]
    ELSE [l EXCEPT !.dernier = fichier, !.pairs = IF fichier = Absent THEN Absent ELSE @]

Tic(b) ==
    /\ boucle[b].pc \in {"debut", "attente"} /\ boucle[b].appels < 2
    /\ UNCHANGED <<plateforme, fichier, pont, tache, serveur, histoire>>

\* A tick, then a call: at once on a new file, else once the period elapsed.
\* The select may take the tick although the loop was stopped (twice at most:
\* a bound).
TicAppel(b) ==
    /\ Tic(b) /\ fichier # Absent
    /\ LET l == Relue(boucle[b])
       IN boucle' = [boucle EXCEPT ![b] =
             [l EXCEPT !.pc = "appel",
                       !.appels = IF boucle[b].annulee THEN l.appels + 1 ELSE l.appels]]

\* A tick with nothing to hold.  One without a call beside a file that did not
\* change does nothing.
TicSansAppel(b) ==
    /\ Tic(b) /\ fichier = Absent
    /\ boucle' = [boucle EXCEPT ![b] = [Relue(@) EXCEPT !.pc = "attente"]]

\* A registration answers to its token; registering the same key again, or
\* leaving, ends the former one.
Connue(e) == jetons[e.reseau][e.cle] = e.ins

\* The server answers a registration it knows, and tells the others so.
Servir(b) ==
    /\ boucle[b].pc = "appel"
    /\ boucle' = [boucle EXCEPT ![b] =
          IF Connue(@.courant)
          THEN [@ EXCEPT !.pc = "reponse", !.reponse = sert[boucle[b].courant.reseau]]
          ELSE [@ EXCEPT !.pc = "attente", !.pairs = Absent]]
    /\ UNCHANGED <<plateforme, fichier, pont, tache, serveur, histoire>>

\* No answer within twenty seconds, one refused as a whole, or a version that
\* could not be written: the engine keeps what it has.
AppelPerdu(b) ==
    /\ boucle[b].pc \in {"appel", "reponse"}
    /\ boucle' = [boucle EXCEPT ![b] = [@ EXCEPT !.pc = "attente", !.reponse = Absent]]
    /\ UNCHANGED <<plateforme, fichier, pont, tache, serveur, histoire>>

\* adopterRevocations, adopterPolitique: a version never goes back.
AdopterTout(l) == l.reponse
Adopter(l) == IF l.reponse > l.courant.version THEN l.reponse ELSE l.courant.version

\* DefinirPairs, computed from the state as it is now.
Servie(l) ==
    [l EXCEPT !.pc = "attente", !.reponse = Absent,
              !.pairs = [depuis |-> l.courant.depuis, version |-> l.courant.version]]

Retenir(b) ==
    LET p == boucle'[b].pairs
    IN retenue' = [retenue EXCEPT ![p.depuis] = IF @ < p.version THEN p.version ELSE @]

\* appliquer when a version changed: the whole state is written, then given
\* to the engine by Donner.
EcrireApresCoup(b) ==
    /\ boucle[b].pc = "reponse" /\ Adopter(boucle[b]) # boucle[b].courant.version
    /\ LET n == [boucle[b].courant EXCEPT !.version = Adopter(boucle[b])]
       IN boucle' = [boucle EXCEPT ![b] = Servie([@ EXCEPT !.courant = n])]
    /\ Retenir(b)
    /\ UNCHANGED <<fichier, croise>>
Ecrire(b) ==
    /\ boucle[b].pc = "reponse" /\ Adopter(boucle[b]) # boucle[b].courant.version
    /\ LET n == [boucle[b].courant EXCEPT !.version = Adopter(boucle[b])]
       IN /\ fichier' = n
          /\ boucle' = [boucle EXCEPT ![b] = [@ EXCEPT !.pc = "ecrit", !.reponse = Absent,
                                                       !.courant = n]]
    /\ croise' = (croise \/ fichier \notin {boucle[b].courant, fichier'})
    /\ UNCHANGED retenue

Donner(b) ==
    /\ \/ boucle[b].pc = "ecrit"
       \/ boucle[b].pc = "reponse" /\ Adopter(boucle[b]) = boucle[b].courant.version
    /\ boucle' = [boucle EXCEPT ![b] = Servie(@)]
    /\ Retenir(b)
    /\ UNCHANGED <<fichier, croise>>

Appliquer(b) ==
    /\ Ecrire(b) \/ Donner(b)
    /\ UNCHANGED <<plateforme, pont, tache, serveur>>

\* The end, once the context is cancelled.
Finir(b) ==
    /\ boucle[b].pc = "attente" /\ boucle[b].annulee
    /\ boucle' = [boucle EXCEPT ![b] = Finie]
    /\ UNCHANGED <<plateforme, fichier, pont, tache, serveur, histoire>>

\* The engine stops by itself, and the loop with it; arret still names it.
Panne(b) ==
    /\ boucle[b].pc = "attente" /\ ~boucle[b].annulee
    /\ boucle' = [boucle EXCEPT ![b] = Finie]
    /\ UNCHANGED <<plateforme, fichier, pont, tache, serveur, histoire>>

-----------------------------------------------------------------------------
(* Demarrer and Arreter *)

\* The loop in charge is cancelled.  Nobody else than Quitter really waits:
\* three seconds may always pass during one call.
EnAppel(b) == boucle[b].pc \in {"appel", "reponse"}
Couper ==
    IF arret = Absent THEN boucle
    ELSE [boucle EXCEPT ![arret] = [@ EXCEPT !.annulee = TRUE,
                                             !.appels = IF EnAppel(arret) THEN 1 ELSE 0]]

\* A call lasts twenty seconds at most: twenty-five pass only in a second one.
Rendue(b) == b # Absent => boucle[b].pc = "finie" \/ boucle[b].appels = 2

\* The service stops, on its own thread.
Arreter ==
    /\ plateforme = "android" /\ arret # Absent
    /\ arret' = Absent /\ boucle' = Couper
    /\ UNCHANGED <<plateforme, fichier, attente, tache, serveur, histoire>>

\* A new loop.  Demarrer stops the one in charge, and the application asks for
\* it only once registered; a daemon starts when none runs.
Demarrer(b) ==
    /\ Permis /\ boucle[b].pc = "absente" /\ \A c \in 1 .. b - 1 : boucle[c].pc # "absente"
    /\ IF plateforme = "android" THEN fichier # Absent /\ arret' = b
       ELSE (\A c \in Tours : ~Vivante(c)) /\ UNCHANGED arret
    /\ boucle' = [Couper EXCEPT ![b].pc = "debut"]
    /\ UNCHANGED <<plateforme, fichier, attente, tache, serveur, histoire>>

-----------------------------------------------------------------------------
(* Rejoindre *)

Repose == tache' = Repos

\* Whether to keep the key is decided on the file as it is now.
RejLire ==
    /\ tache = Repos /\ inscrits < MaxInscriptions /\ Permis
    /\ tache' = [etape |-> "inscrire", copie |-> fichier, neuf |-> Absent]
    /\ UNCHANGED <<plateforme, fichier, boucle, pont, serveur, histoire>>

\* The new state: the key, and what was retained under the same lock, go on.
Suite(n, r) ==
    LET a == tache.copie
    IN [ins |-> n, reseau |-> r,
        cle |-> IF a = Absent THEN n ELSE a.cle,
        depuis |-> IF a # Absent /\ a.reseau = r THEN a.depuis ELSE n,
        version |-> IF a # Absent /\ a.reseau = r THEN a.version ELSE 0]

\* The server registers the key; its answer may be lost, or refused because
\* the network is not the one retained (and only "sas rejoindre" can forget).
RejInscrire(r) ==
    /\ tache.etape = "inscrire" /\ inscrits < MaxInscriptions /\ Permis
    /\ inscrits' = inscrits + 1
    /\ LET e == Suite(inscrits + 1, r)
       IN /\ jetons' = [jetons EXCEPT ![r][e.cle] = e.ins]
          /\ \/ /\ tache.copie # Absent /\ plateforme = "android" => tache.copie.reseau = r
                /\ tache' = [tache EXCEPT !.etape = "ecrire", !.neuf = e]
             \/ Repose
    /\ UNCHANGED <<plateforme, fichier, boucle, pont, publie, sert, histoire>>

RejEcrire ==
    /\ tache.etape = "ecrire"
    /\ fichier' = tache.neuf
    /\ croise' = (croise \/ fichier # tache.copie)
    /\ Repose
    /\ UNCHANGED <<plateforme, boucle, pont, serveur, retenue>>

\* The server does not answer, the file cannot be written, or the command is
\* interrupted.
RejEchouer ==
    /\ tache.etape \in {"inscrire", "ecrire"}
    /\ Repose
    /\ UNCHANGED <<plateforme, fichier, boucle, pont, serveur, histoire>>

-----------------------------------------------------------------------------
(* Quitter *)

\* On Android the loop in charge is stopped and waited for; "sas quitter"
\* knows nothing of the daemon.
QuitterDebut ==
    /\ tache = Repos /\ fichier # Absent
    /\ IF plateforme = "android"
       THEN /\ boucle' = Couper /\ arret' = Absent /\ attente' = arret
            /\ tache' = [Repos EXCEPT !.etape = "attendre"]
       ELSE /\ tache' = [Repos EXCEPT !.etape = "deconnecter", !.copie = fichier]
            /\ UNCHANGED <<boucle, pont>>
    /\ UNCHANGED <<plateforme, fichier, serveur, histoire>>

QuitterLire ==
    /\ tache.etape = "attendre" /\ Rendue(attente)
    /\ attente' = Absent
    /\ tache' = IF fichier = Absent THEN [Repos EXCEPT !.etape = "effacer"]
                ELSE [Repos EXCEPT !.etape = "deconnecter", !.copie = fichier]
    /\ UNCHANGED <<plateforme, fichier, boucle, arret, serveur, histoire>>

\* The server forgets the device, unless the request is lost.
QuitterDeconnecter ==
    /\ tache.etape = "deconnecter"
    /\ LET e == tache.copie
       IN jetons' \in {jetons, IF Connue(e) THEN [jetons EXCEPT ![e.reseau][e.cle] = Absent]
                               ELSE jetons}
    /\ tache' = [Repos EXCEPT !.etape = "effacer"]
    /\ UNCHANGED <<plateforme, fichier, boucle, pont, inscrits, publie, sert, histoire>>

\* The file goes; if it cannot, the caller says so.
QuitterEffacer ==
    /\ tache.etape = "effacer"
    /\ fichier' \in {Absent, fichier}
    /\ Repose
    /\ UNCHANGED <<plateforme, boucle, pont, serveur, histoire>>

-----------------------------------------------------------------------------
(* The server, and what stops a process *)

Publier(r) ==
    /\ publie[r] < MaxVersion /\ Permis
    /\ publie' = [publie EXCEPT ![r] = @ + 1]
    /\ sert' = [sert EXCEPT ![r] = publie[r] + 1]
    /\ UNCHANGED <<plateforme, fichier, boucle, pont, tache, jetons, inscrits, histoire>>

\* The server serves an older document again: a file restored, or worse.
Reculer(r) ==
    /\ sert[r] > 0
    /\ sert' = [sert EXCEPT ![r] = @ - 1]
    /\ UNCHANGED <<plateforme, fichier, boucle, pont, tache, jetons, inscrits, publie, histoire>>

\* An administrator removes the device, or it expires.
Retirer(r, k) ==
    /\ jetons[r][k] # Absent
    /\ jetons' = [jetons EXCEPT ![r][k] = Absent]
    /\ UNCHANGED <<plateforme, fichier, boucle, pont, tache, inscrits, publie, sert, histoire>>

\* A process dies: the whole application, or the daemon.
Tuer ==
    /\ \E b \in Tours : Vivante(b)
    /\ boucle' = [b \in Tours |-> IF Vivante(b) THEN Finie ELSE boucle[b]]
    /\ IF plateforme = "android"
       THEN Repose /\ arret' = Absent /\ attente' = Absent
       ELSE UNCHANGED <<tache, pont>>
    /\ UNCHANGED <<plateforme, fichier, serveur, histoire>>

Boucler(b) ==
    \/ TicAppel(b) \/ TicSansAppel(b) \/ Servir(b) \/ AppelPerdu(b)
    \/ Appliquer(b) \/ Finir(b) \/ Panne(b) \/ Demarrer(b)

Travailler ==
    \/ RejLire \/ (\E r \in Reseaux : RejInscrire(r)) \/ RejEcrire \/ RejEchouer
    \/ QuitterDebut \/ QuitterLire \/ QuitterDeconnecter \/ QuitterEffacer

Environ ==
    \/ \E r \in Reseaux : \/ Publier(r) \/ Reculer(r)
                          \/ \E k \in Inscriptions : Retirer(r, k)
    \/ Tuer

Next ==
    \/ \E b \in Tours : Boucler(b)
    \/ Arreter \/ Travailler \/ Environ

Spec == Init /\ [][Next]_vars

\* The loop ticks every two seconds and the period elapses, again and again; a
\* server asked for ever answers some day, and what it answers is applied some
\* day.
Equitable(b) ==
    /\ WF_vars(TicAppel(b) \/ TicSansAppel(b)) /\ WF_vars(Finir(b))
    /\ SF_vars(Servir(b)) /\ SF_vars(Appliquer(b))

FairSpec == Spec /\ \A b \in Tours : Equitable(b)

-----------------------------------------------------------------------------
(* Properties *)

\* appliquer: what an engine was given is on the disk and stays there, so that
\* a device does not forget it when it restarts, whatever the server serves
\* again, and whatever stops in between, unless someone wrote over a state he
\* had not read.
RienOublie ==
    ~croise /\ fichier # Absent => retenue[fichier.depuis] <= fichier.version

\* Tenir: in the end the engine of a running loop holds the pairs of the
\* registration on the disk, not older than what the server serves; and none
\* once the file is gone or the server no longer knows the device.  The version
\* is the retained one: peers given while the server serves an older policy have
\* no inbound rules (client.go:377), which is not told apart here.
Suit(b) ==
    Vivante(b) /\ ~boucle[b].annulee =>
        IF fichier = Absent \/ ~Connue(fichier) THEN boucle[b].pairs = Absent
        ELSE /\ boucle[b].pairs # Absent
             /\ boucle[b].pairs.depuis = fichier.depuis
             /\ boucle[b].pairs.version >= sert[fichier.reseau]
MoteurSuit == \A b \in Tours : <>[]Suit(b)

\* pont.Quitter: once etat.json is erased, no loop that was stopped, and that
\* Quitter therefore waited for, writes it back.
EffaceReste ==
    [][\A b \in Tours : fichier = Absent /\ boucle[b].annulee =>
           ~(boucle[b].pc = "reponse" /\ boucle'[b].pc = "ecrit")]_vars
====
