------------------------------- MODULE Equipe --------------------------------
(***************************************************************************)
(* The team: who may register, and in which group.                         *)
(*                                                                         *)
(* Two files hold it: equipe.txt, which decides, and the list of the web   *)
(* services, which follows from it.  An admin changes them from the        *)
(* application (Serveur.membre of internal/serveur/equipe.go: the second   *)
(* file fails, the first is put back); the host changes them with sas.sh   *)
(* (changer_equipe, then rendre, which takes the lock again).  muEquipe    *)
(* separates the handlers, and a file lock separates sasd from sas.sh.     *)
(*                                                                         *)
(* A file is what is read of it: the group of each person, or nobody's.    *)
(* Comments, case and duplicated lines are left out.  The call of          *)
(* Synchroniser that ends a change is in module Synchro; here it only      *)
(* makes the two locks last.                                               *)
(***************************************************************************)
EXTENDS Naturals, FiniteSets, Functions

CONSTANTS
  Personnes,   \* emails
  Demandes,    \* the requests sasd may handle at once
  Scripts,     \* the runs of sas.sh
  Nulle        \* nobody holds the lock

ASSUME EquipeAssumption ==
  /\ Demandes \cap Scripts = {}
  /\ Nulle \notin Demandes \cup Scripts

VARIABLES
  equipe,      \* equipe.txt
  web,         \* the emails of the web services
  muEquipe,    \* the handler that holds muEquipe
  verrou,      \* the process that holds the file lock
  demandes,    \* each handler of a change
  scripts,     \* each run of sas.sh membre or retirer
  aRefaire     \* history: someone stopped between the two files

vars == <<equipe, web, muEquipe, verrou, demandes, scripts, aRefaire>>

Groupes == {"admins", "equipe"}
Dehors == "dehors"
Equipes == [Personnes -> Groupes \cup {Dehors}]

Membres(e) == {p \in Personnes : e[p] # Dehors}
Admins(e) == {p \in Personnes : e[p] = "admins"}

AvecAdmin(e) == \E p \in Personnes : e[p] = "admins"

Repos == [etape |-> "repos"]

Fin == [etape |-> "finir"]

Changement == [adresse : Personnes, groupe : Groupes \cup {Dehors}]

\* The steps at which a handler holds muEquipe, and the file lock too.
SousVerrou == {"verrou", "ecrire", "web", "remettre", "finir"}
SousMu == SousVerrou \cup {"mu"}

\* A request before it reads the file, then after; a run of sas.sh.
Debuts == [etape : {"attente", "mu", "verrou"}, moi : Personnes, change : Changement]
Ecritures == [etape : {"ecrire", "web", "remettre"}, change : Changement, avant : Equipes]
Appels == [etape : {"changer", "rendre", "liste"}, change : Changement]

\* Types, and the locks are held by those whose step says so.
TypeOK ==
  /\ equipe \in Equipes
  /\ web \subseteq Personnes
  /\ aRefaire \in BOOLEAN
  /\ demandes \in [Demandes -> {Repos, Fin} \cup Debuts \cup Ecritures]
  /\ scripts \in [Scripts -> {Repos} \cup Appels]
  /\ muEquipe \in {Nulle} \cup Demandes
  /\ \A d \in Demandes : muEquipe = d <=> demandes[d].etape \in SousMu
  /\ verrou \in {Nulle} \cup Demandes \cup Scripts
  /\ \A d \in Demandes : verrou = d <=> demandes[d].etape \in SousVerrou
  /\ \A s \in Scripts : verrou = s <=> scripts[s].etape \in {"changer", "liste"}

Init ==
  /\ equipe \in Equipes
  /\ web = Membres(equipe)
  /\ muEquipe = Nulle
  /\ verrou = Nulle
  /\ demandes = [d \in Demandes |-> Repos]
  /\ scripts = [s \in Scripts |-> Repos]
  /\ aRefaire = FALSE

-----------------------------------------------------------------------------
(* Serveur.membre. *)

Passe(d, etape) == demandes' = [demandes EXCEPT ![d].etape = etape]

\* The deferred calls: the file lock, then muEquipe.
Rendre(d) ==
  /\ demandes' = [demandes EXCEPT ![d] = Repos]
  /\ verrou' = IF verrou = d THEN Nulle ELSE verrou
  /\ muEquipe' = Nulle

\* s.admin: the device belongs to an admin, at this moment.
Arriver(d) ==
  /\ demandes[d] = Repos
  /\ \E moi \in Admins(equipe), c \in Changement :
       demandes' = [demandes EXCEPT ![d] =
                      [etape |-> "attente", moi |-> moi, change |-> c]]
  /\ UNCHANGED <<equipe, web, muEquipe, verrou, scripts, aRefaire>>

PrendreMu(d) ==
  /\ demandes[d].etape = "attente"
  /\ muEquipe = Nulle
  /\ muEquipe' = d
  /\ Passe(d, "mu")
  /\ UNCHANGED <<equipe, web, verrou, scripts, aRefaire>>

\* Mutant: sasd does not look at the lock of sas.sh.
LibreToujours == TRUE

Libre == verrou = Nulle

\* verrouillerEquipe: flock, tried for ten seconds.
Verrouiller(d) ==
  /\ demandes[d].etape = "mu"
  /\ Libre
  /\ verrou' = d
  /\ Passe(d, "verrou")
  /\ UNCHANGED <<equipe, web, muEquipe, scripts, aRefaire>>

\* Mutant: flock without a limit.
AttendreToujours(d) == FALSE /\ UNCHANGED vars

\* Mutant: the refusal returns without releasing muEquipe.
AbandonnerSansRendre(d) ==
  /\ demandes[d].etape = "mu"
  /\ verrou # Nulle
  /\ demandes' = [demandes EXCEPT ![d] = Repos]
  /\ UNCHANGED <<equipe, web, muEquipe, verrou, scripts, aRefaire>>

\* Ten seconds have passed: « équipe en cours de modification, réessayer ».
Abandonner(d) ==
  /\ demandes[d].etape = "mu"
  /\ verrou # Nulle
  /\ Rendre(d)
  /\ UNCHANGED <<equipe, web, scripts, aRefaire>>

\* Mutant: what the authentication checked is not checked again.
RefusSansRelire(e, moi, c) ==
  \/ c.adresse = moi
  \/ c.groupe = Dehors /\ e[c.adresse] = Dehors

\* refusChangement, on the team read again under the two locks.
Refus(e, moi, c) ==
  \/ c.adresse = moi
  \/ e[c.adresse] = "admins" /\ c.groupe # "admins" /\ Cardinality(Admins(e)) <= 1
  \/ e[moi] # "admins"
  \/ c.groupe = Dehors /\ e[c.adresse] = Dehors

\* The file is read again; a change that is refused, or is none, ends here.
Lire(d) ==
  /\ demandes[d].etape = "verrou"
  /\ LET c == demandes[d].change IN
     IF Refus(equipe, demandes[d].moi, c) \/ equipe[c.adresse] = c.groupe
     THEN Rendre(d)
     ELSE /\ demandes' = [demandes EXCEPT ![d] =
                            [etape |-> "ecrire", change |-> c, avant |-> equipe]]
          /\ UNCHANGED <<muEquipe, verrou>>
  /\ UNCHANGED <<equipe, web, scripts, aRefaire>>

\* The file cannot be read.
LireEnVain(d) ==
  /\ demandes[d].etape = "verrou"
  /\ Rendre(d)
  /\ UNCHANGED <<equipe, web, scripts, aRefaire>>

\* reecrireEquipe, from the text that was read.
Reecrite(d) == [demandes[d].avant EXCEPT ![demandes[d].change.adresse] = demandes[d].change.groupe]

EcrireEquipe(d) ==
  /\ demandes[d].etape = "ecrire"
  /\ \/ equipe' = Reecrite(d) /\ Passe(d, "web") /\ UNCHANGED <<muEquipe, verrou>>
     \/ Rendre(d) /\ UNCHANGED equipe
  /\ UNCHANGED <<web, scripts, aRefaire>>

\* Mutant: the first file is not put back.
EchecSansRemettre(d) == demandes' = [demandes EXCEPT ![d] = Fin]

EchecWeb(d) == Passe(d, "remettre")

EcrireWeb(d) ==
  /\ demandes[d].etape = "web"
  /\ \/ /\ web' = Membres(Reecrite(d))
        /\ aRefaire' = FALSE
        /\ demandes' = [demandes EXCEPT ![d] = Fin]
     \/ EchecWeb(d) /\ UNCHANGED <<web, aRefaire>>
  /\ UNCHANGED <<equipe, muEquipe, verrou, scripts>>

\* The old text is put back; if that fails too, both errors are logged.
Remettre(d) ==
  /\ demandes[d].etape = "remettre"
  /\ \/ equipe' = demandes[d].avant /\ UNCHANGED aRefaire
     \/ aRefaire' = TRUE /\ UNCHANGED equipe
  /\ Rendre(d)
  /\ UNCHANGED <<web, scripts>>

\* Synchroniser, the answer, and the deferred calls.
Finir(d) ==
  /\ demandes[d].etape = "finir"
  /\ Rendre(d)
  /\ UNCHANGED <<equipe, web, scripts, aRefaire>>

\* sasd stops: the kernel takes the file lock back.
Arreter ==
  /\ \E d \in Demandes : demandes[d] # Repos
  /\ demandes' = [d \in Demandes |-> Repos]
  /\ muEquipe' = Nulle
  /\ verrou' = IF verrou \in Demandes THEN Nulle ELSE verrou
  /\ aRefaire' = (aRefaire \/ \E d \in Demandes : demandes[d].etape \in {"web", "remettre"})
  /\ UNCHANGED <<equipe, web, scripts>>

-----------------------------------------------------------------------------
(* sas.sh membre and retirer: no guard on who is left. *)

\* changer_equipe takes the lock.
ChangerDebut(s) ==
  /\ scripts[s] = Repos
  /\ verrou = Nulle
  /\ verrou' = s
  /\ \E c \in Changement : scripts' = [scripts EXCEPT ![s] = [etape |-> "changer", change |-> c]]
  /\ UNCHANGED <<equipe, web, muEquipe, demandes, aRefaire>>

\* The new file, or nothing when there is nobody to remove.
Changer(s) ==
  /\ scripts[s].etape = "changer"
  /\ LET c == scripts[s].change IN
     IF c.groupe = Dehors /\ equipe[c.adresse] = Dehors
     THEN scripts' = [scripts EXCEPT ![s] = Repos] /\ UNCHANGED equipe
     ELSE /\ equipe' = [equipe EXCEPT ![c.adresse] = c.groupe]
          /\ scripts' = [scripts EXCEPT ![s].etape = "rendre"]
  /\ verrou' = Nulle
  /\ UNCHANGED <<web, muEquipe, demandes, aRefaire>>

\* rendre takes it again.
RendreDebut(s) ==
  /\ scripts[s].etape = "rendre"
  /\ verrou = Nulle
  /\ verrou' = s
  /\ scripts' = [scripts EXCEPT ![s].etape = "liste"]
  /\ UNCHANGED <<equipe, web, muEquipe, demandes, aRefaire>>

\* The list, from the file as it is now.
RendreListe(s) ==
  /\ scripts[s].etape = "liste"
  /\ web' = Membres(equipe)
  /\ aRefaire' = FALSE
  /\ scripts' = [scripts EXCEPT ![s] = Repos]
  /\ verrou' = Nulle
  /\ UNCHANGED <<equipe, muEquipe, demandes>>

\* Interrupted, or the ten seconds of flock -w 10 in rendre.
Interrompre(s) ==
  /\ scripts[s] # Repos
  /\ aRefaire' = (aRefaire \/ scripts[s].etape \in {"rendre", "liste"})
  /\ scripts' = [scripts EXCEPT ![s] = Repos]
  /\ verrou' = IF verrou = s THEN Nulle ELSE verrou
  /\ UNCHANGED <<equipe, web, muEquipe, demandes>>

-----------------------------------------------------------------------------

Membre(d) ==
  \/ Lire(d) \/ LireEnVain(d) \/ EcrireEquipe(d) \/ EcrireWeb(d) \/ Remettre(d) \/ Finir(d)

Prendre(d) == Verrouiller(d) \/ Abandonner(d)

Script(s) ==
  ChangerDebut(s) \/ Changer(s) \/ RendreDebut(s) \/ RendreListe(s) \/ Interrompre(s)

Next ==
  \/ \E d \in Demandes : Arriver(d) \/ PrendreMu(d) \/ Prendre(d) \/ Membre(d)
  \/ Arreter
  \/ \E s \in Scripts : Script(s)

Spec == Init /\ [][Next]_vars

\* sasd runs its handlers, and a Go mutex is handed over in turn.  Nothing is
\* assumed of sas.sh: someone may leave it at a prompt.
Equitable == \A d \in Demandes :
  SF_vars(PrendreMu(d)) /\ WF_vars(Prendre(d)) /\ WF_vars(Membre(d))

SpecEquitable == Spec /\ Equitable

-----------------------------------------------------------------------------
(* Properties. *)

\* Two writers never undo each other: a file that is replaced differs from the
\* one before by the line of one person, although it is written from a copy
\* read several steps earlier (verrou_equipe_unix.go:17-20).
UneSeuleLigne ==
  [][\A p, q \in Personnes : equipe'[p] # equipe[p] /\ equipe'[q] # equipe[q] => p = q]_vars

\* equipe.go:117-119, 169-170: the application leaves at least one admin, also
\* when two admins remove each other, or sas.sh changes the team in between.
AdminRestant ==
  [][(verrou \in Demandes) /\ AvecAdmin(equipe) => AvecAdmin(equipe')]_vars

\* equipe.go:108-113: the two files agree whenever nobody is at work, unless
\* someone stopped between the two (and until the next change that ends).
ListesEnAccord ==
  verrou = Nulle /\ ~aRefaire /\ (\A s \in Scripts : scripts[s].etape # "rendre")
    => web = Membres(equipe)

\* A request ends, even if sas.sh never gives the lock back
\* (verrou_equipe_unix.go:22-26).
DemandeFinit == \A d \in Demandes : []<>(demandes[d] = Repos)
=============================================================================
