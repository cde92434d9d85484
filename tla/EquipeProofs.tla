---------------------------- MODULE EquipeProofs -----------------------------
(***************************************************************************)
(* Theorems about Equipe, for any persons, requests and runs of sas.sh.    *)
(*                                                                         *)
(* A handler writes a file it read several steps before.  What makes it    *)
(* right is that the copy is still the file (Copie), that the person it    *)
(* read as admin is another than the one it changes (Copie), and that the  *)
(* list of the web services is the one of the copy (Suivie): three facts   *)
(* that only the file lock keeps true.                                     *)
(***************************************************************************)
EXTENDS Equipe, TLAPS

\* The steps between the reading and the end of the writing.
Ecrivent == {"ecrire", "web", "remettre"}

Copie(d) ==
  /\ demandes[d].etape \in Ecrivent =>
       \E m \in Personnes : m # demandes[d].change.adresse /\ demandes[d].avant[m] = "admins"
  /\ demandes[d].etape = "ecrire" => demandes[d].avant = equipe
  /\ demandes[d].etape \in {"web", "remettre"} => equipe = Reecrite(d)

\* Nobody owes the list of the web services.
Quitte == ~aRefaire /\ \A s \in Scripts : scripts[s].etape \notin {"rendre", "liste"}

Suivie ==
  Quitte =>
    /\ (\A d \in Demandes : demandes[d].etape \notin {"web", "remettre"}) => web = Membres(equipe)
    /\ \A d \in Demandes : demandes[d].etape \in {"web", "remettre"} =>
                             web = Membres(demandes[d].avant)

Inv == TypeOK /\ (\A d \in Demandes : Copie(d)) /\ Suivie

-----------------------------------------------------------------------------
(* Types. *)

\* TypeOK, in the parts the proofs use.
LEMMA Formes ==
  ASSUME TypeOK, NEW d \in Demandes
  PROVE  /\ demandes[d] \in {Repos, Fin} \cup Debuts \cup Ecritures
         /\ demandes[d].etape \in {"attente", "mu", "verrou"} => demandes[d] \in Debuts
         /\ demandes[d].etape \in Ecrivent => demandes[d] \in Ecritures
         /\ demandes[d].etape \in SousVerrou <=> verrou = d
         /\ demandes[d].etape \in SousMu <=> muEquipe = d
BY DEF TypeOK, Debuts, Ecritures, Ecrivent, Repos, Fin

LEMMA FormesScripts ==
  ASSUME TypeOK, NEW s \in Scripts
  PROVE  /\ scripts[s] # Repos => scripts[s] \in Appels
         /\ scripts[s].etape \in {"changer", "rendre", "liste"} => scripts[s] \in Appels
         /\ scripts[s].etape \in {"changer", "liste"} <=> verrou = s
BY DEF TypeOK, Appels, Repos

\* A step of one handler keeps the types if it takes only a lock that is free.
LEMMA TypeDemande ==
  ASSUME TypeOK, NEW d \in Demandes, NEW x \in {Repos, Fin} \cup Debuts \cup Ecritures,
         demandes' = [demandes EXCEPT ![d] = x], scripts' = scripts,
         equipe' \in Equipes, web' \in SUBSET Personnes, aRefaire' \in BOOLEAN,
         \/ x.etape \in SousMu /\ muEquipe' = d /\ muEquipe \in {Nulle, d}
         \/ x.etape \notin SousMu /\ muEquipe' = IF muEquipe = d THEN Nulle ELSE muEquipe,
         \/ x.etape \in SousVerrou /\ verrou' = d /\ verrou \in {Nulle, d}
         \/ x.etape \notin SousVerrou /\ verrou' = IF verrou = d THEN Nulle ELSE verrou
  PROVE  TypeOK'
<1>1. /\ demandes' \in [Demandes -> {Repos, Fin} \cup Debuts \cup Ecritures]
      /\ \A e \in Demandes : demandes'[e] = IF e = d THEN x ELSE demandes[e]
  BY DEF TypeOK
<1>2. \A e \in Demandes : muEquipe' = e <=> demandes'[e].etape \in SousMu
  BY <1>1, EquipeAssumption DEF TypeOK
<1>3. \A e \in Demandes : verrou' = e <=> demandes'[e].etape \in SousVerrou
  BY <1>1, EquipeAssumption DEF TypeOK
<1>4. \A s \in Scripts : verrou' = s <=> scripts'[s].etape \in {"changer", "liste"}
  BY EquipeAssumption DEF TypeOK
<1>5. muEquipe' \in {Nulle} \cup Demandes /\ verrou' \in {Nulle} \cup Demandes \cup Scripts
  BY DEF TypeOK
<1>6. scripts' \in [Scripts -> {Repos} \cup Appels]
  BY DEF TypeOK
<1> QED  BY <1>1, <1>2, <1>3, <1>4, <1>5, <1>6 DEF TypeOK

\* The same for a run of sas.sh.
LEMMA TypeScript ==
  ASSUME TypeOK, NEW s \in Scripts, NEW x \in {Repos} \cup Appels,
         scripts' = [scripts EXCEPT ![s] = x], demandes' = demandes, muEquipe' = muEquipe,
         equipe' \in Equipes, web' \in SUBSET Personnes, aRefaire' \in BOOLEAN,
         \/ x.etape \in {"changer", "liste"} /\ verrou' = s /\ verrou \in {Nulle, s}
         \/ x.etape \notin {"changer", "liste"} /\ verrou' = IF verrou = s THEN Nulle ELSE verrou
  PROVE  TypeOK'
<1>1. /\ scripts' \in [Scripts -> {Repos} \cup Appels]
      /\ \A t \in Scripts : scripts'[t] = IF t = s THEN x ELSE scripts[t]
  BY DEF TypeOK
<1>2. \A d \in Demandes : verrou' = d <=> demandes'[d].etape \in SousVerrou
  BY EquipeAssumption DEF TypeOK
<1>3. \A t \in Scripts : verrou' = t <=> scripts'[t].etape \in {"changer", "liste"}
  BY <1>1, EquipeAssumption DEF TypeOK
<1>4. verrou' \in {Nulle} \cup Demandes \cup Scripts
  BY DEF TypeOK
<1> QED  BY <1>1, <1>2, <1>3, <1>4 DEF TypeOK

\* What Rendre leaves.
LEMMA RendreVerrous ==
  ASSUME TypeOK, NEW d \in Demandes, demandes[d].etape \in SousMu, Rendre(d)
  PROVE  /\ demandes' = [demandes EXCEPT ![d] = Repos]
         /\ muEquipe' = (IF muEquipe = d THEN Nulle ELSE muEquipe)
         /\ verrou' = (IF verrou = d THEN Nulle ELSE verrou)
         /\ Repos.etape \notin SousMu /\ Repos.etape \notin SousVerrou
BY Formes DEF Rendre, Repos, SousMu, SousVerrou

LEMMA TypeRendre ==
  ASSUME TypeOK, NEW d \in Demandes, demandes[d].etape \in SousMu, Rendre(d), scripts' = scripts,
         equipe' \in Equipes, web' \in SUBSET Personnes, aRefaire' \in BOOLEAN
  PROVE  TypeOK'
BY RendreVerrous, TypeDemande

LEMMA ReecriteType ==
  ASSUME TypeOK, NEW d \in Demandes, demandes[d].etape \in Ecrivent
  PROVE  /\ Reecrite(d) \in Equipes
         /\ Membres(Reecrite(d)) \in SUBSET Personnes
BY Formes DEF Reecrite, Equipes, Ecritures, Changement, Membres

LEMMA TypeInit == Init => TypeOK
<1> SUFFICES ASSUME Init PROVE TypeOK
  OBVIOUS
<1>1. \A d \in Demandes : demandes[d] = Repos
  BY DEF Init
<1>2. \A s \in Scripts : scripts[s] = Repos
  BY DEF Init
<1>3. Repos.etape \notin SousMu /\ Repos.etape \notin SousVerrou
      /\ Repos.etape \notin {"changer", "liste"}
  BY DEF Repos, SousMu, SousVerrou
<1> QED  BY <1>1, <1>2, <1>3, EquipeAssumption DEF Init, TypeOK, Membres

LEMMA TypeMembre ==
  ASSUME TypeOK, NEW d \in Demandes, Membre(d)
  PROVE  TypeOK'
<1>0. /\ equipe \in Equipes /\ web \in SUBSET Personnes /\ aRefaire \in BOOLEAN
      /\ Ecrivent \subseteq SousVerrou /\ SousVerrou \subseteq SousMu
  BY DEF TypeOK, Ecrivent, SousVerrou, SousMu
<1>1. CASE Lire(d)
  <2>0. demandes[d].etape \in SousVerrou
    BY <1>1 DEF Lire, SousVerrou
  <2>1. CASE Rendre(d)
    BY <1>0, <1>1, <2>0, <2>1, TypeRendre DEF Lire
  <2>2. CASE ~Rendre(d)
    <3> DEFINE x == [etape |-> "ecrire", change |-> demandes[d].change, avant |-> equipe]
    <3>1. demandes[d] \in Debuts
      BY <1>1, Formes DEF Lire
    <3>2. x \in Ecritures /\ x.etape \in SousVerrou
      BY <1>0, <3>1 DEF Debuts, Ecritures, SousVerrou
    <3>3. demandes' = [demandes EXCEPT ![d] = x] /\ UNCHANGED <<muEquipe, verrou>>
      BY <1>1, <2>2 DEF Lire
    <3>4. verrou = d /\ muEquipe = d
      BY <1>0, <2>0, Formes
    <3> HIDE DEF x
    <3> QED  BY <1>0, <1>1, <3>2, <3>3, <3>4, TypeDemande DEF Lire
  <2> QED  BY <2>1, <2>2
<1>2. CASE LireEnVain(d) \/ Finir(d)
  <2>1. demandes[d].etape \in SousMu
    BY <1>2 DEF LireEnVain, Finir, SousMu, SousVerrou
  <2> QED  BY <1>0, <1>2, <2>1, TypeRendre DEF LireEnVain, Finir
<1>3. ASSUME demandes[d].etape \in Ecrivent, NEW e \in Ecrivent, Passe(d, e),
             UNCHANGED <<muEquipe, verrou, scripts>>,
             equipe' \in Equipes, web' \in SUBSET Personnes, aRefaire' \in BOOLEAN
      PROVE  TypeOK'
  <2> DEFINE x == [demandes[d] EXCEPT !.etape = e]
  <2>1. x \in Ecritures /\ x.etape \in SousVerrou
    BY <1>0, <1>3, Formes DEF Ecritures, Ecrivent
  <2>2. demandes' = [demandes EXCEPT ![d] = x]
    BY <1>3 DEF Passe
  <2>3. verrou = d /\ muEquipe = d
    BY <1>0, <1>3, Formes
  <2> HIDE DEF x
  <2> QED  BY <1>0, <1>3, <2>1, <2>2, <2>3, TypeDemande
<1>4. CASE EcrireEquipe(d)
  <2>1. demandes[d].etape \in Ecrivent /\ demandes[d].etape \in SousMu
    BY <1>0, <1>4 DEF EcrireEquipe, Ecrivent
  <2>2. CASE equipe' = Reecrite(d) /\ Passe(d, "web") /\ UNCHANGED <<muEquipe, verrou>>
    BY <1>0, <1>3, <1>4, <2>1, <2>2, ReecriteType DEF EcrireEquipe, Ecrivent
  <2>3. CASE Rendre(d) /\ UNCHANGED equipe
    BY <1>0, <1>4, <2>1, <2>3, TypeRendre DEF EcrireEquipe
  <2> QED  BY <1>4, <2>2, <2>3 DEF EcrireEquipe
<1>5. CASE EcrireWeb(d)
  <2>1. demandes[d].etape \in Ecrivent
    BY <1>5 DEF EcrireWeb, Ecrivent
  <2>2. CASE EchecWeb(d) /\ UNCHANGED <<web, aRefaire>>
    BY <1>0, <1>3, <1>5, <2>1, <2>2 DEF EcrireWeb, EchecWeb, Ecrivent
  <2>3. CASE /\ web' = Membres(Reecrite(d))
             /\ aRefaire' = FALSE
             /\ demandes' = [demandes EXCEPT ![d] = Fin]
    <3>1. Fin.etape \in SousVerrou /\ Fin.etape \in SousMu
      BY DEF Fin, SousVerrou, SousMu
    <3>2. verrou = d /\ muEquipe = d
      BY <1>0, <2>1, Formes
    <3> QED  BY <1>0, <1>5, <2>1, <2>3, <3>1, <3>2, ReecriteType, TypeDemande DEF EcrireWeb
  <2> QED  BY <1>5, <2>2, <2>3 DEF EcrireWeb
<1>6. CASE Remettre(d)
  <2>1. demandes[d].etape \in Ecrivent /\ demandes[d].etape \in SousMu
    BY <1>0, <1>6 DEF Remettre, Ecrivent
  <2>2. demandes[d].avant \in Equipes
    BY <2>1, Formes DEF Ecritures
  <2> QED  BY <1>0, <1>6, <2>1, <2>2, TypeRendre DEF Remettre
<1> QED  BY <1>1, <1>2, <1>4, <1>5, <1>6 DEF Membre

LEMMA TypePas ==
  ASSUME TypeOK, [Next]_vars
  PROVE  TypeOK'
<1>0. equipe \in Equipes /\ web \in SUBSET Personnes /\ aRefaire \in BOOLEAN
  BY DEF TypeOK
<1>1. ASSUME NEW d \in Demandes, Arriver(d) PROVE TypeOK'
  <2>1. PICK x \in Debuts : demandes' = [demandes EXCEPT ![d] = x] /\ x.etape = "attente"
    <3>1. PICK moi \in Personnes, c \in Changement :
            demandes' = [demandes EXCEPT ![d] = [etape |-> "attente", moi |-> moi, change |-> c]]
      BY <1>1 DEF Arriver, Admins
    <3> DEFINE y == [etape |-> "attente", moi |-> moi, change |-> c]
    <3>2. y \in Debuts /\ y.etape = "attente"
      BY DEF Debuts
    <3>3. demandes' = [demandes EXCEPT ![d] = y]
      BY <3>1
    <3> HIDE DEF y
    <3> QED  BY <3>2, <3>3
  <2>2. muEquipe # d /\ verrou # d
    BY <1>1, Formes DEF Arriver, Repos, SousMu, SousVerrou
  <2>3. x.etape \notin SousMu /\ x.etape \notin SousVerrou
    BY <2>1 DEF SousMu, SousVerrou
  <2> QED  BY <1>0, <1>1, <2>1, <2>2, <2>3, TypeDemande DEF Arriver
<1>2. ASSUME NEW d \in Demandes, PrendreMu(d) \/ Verrouiller(d) PROVE TypeOK'
  <2>1. PICK e \in {"mu", "verrou"} : Passe(d, e) /\ (e = "mu" <=> PrendreMu(d))
    BY <1>2 DEF PrendreMu, Verrouiller
  <2> DEFINE x == [demandes[d] EXCEPT !.etape = e]
  <2>2. x \in Debuts /\ x.etape = e
    BY <1>2, Formes DEF PrendreMu, Verrouiller, Debuts
  <2>3. demandes' = [demandes EXCEPT ![d] = x]
    BY <2>1 DEF Passe
  <2>4. verrou # d
    BY <1>2, Formes DEF PrendreMu, Verrouiller, SousVerrou
  <2>5. e \in SousMu /\ (e = "verrou" => e \in SousVerrou) /\ (e = "mu" => e \notin SousVerrou)
    BY DEF SousMu, SousVerrou
  <2> HIDE DEF x
  <2>6. CASE PrendreMu(d)
    BY <1>0, <2>1, <2>2, <2>3, <2>4, <2>5, <2>6, TypeDemande DEF PrendreMu
  <2>7. CASE ~PrendreMu(d)
    <3>1. Verrouiller(d) /\ e = "verrou"
      BY <1>2, <2>1, <2>7
    <3>2. muEquipe = d
      BY <3>1, Formes DEF Verrouiller, SousMu
    <3> QED  BY <1>0, <2>2, <2>3, <2>5, <3>1, <3>2, TypeDemande DEF Verrouiller, Libre
  <2> QED  BY <2>6, <2>7
<1>3. ASSUME NEW d \in Demandes, Abandonner(d) PROVE TypeOK'
  BY <1>0, <1>3, TypeRendre DEF Abandonner, SousMu
<1>4. ASSUME NEW d \in Demandes, Membre(d) PROVE TypeOK'
  BY <1>4, TypeMembre
<1>5. CASE Arreter
  <2>1. \A d \in Demandes : demandes'[d] = Repos
    BY <1>5 DEF Arreter
  <2>2. Repos.etape \notin SousMu /\ Repos.etape \notin SousVerrou
    BY DEF Repos, SousMu, SousVerrou
  <2>3. demandes' \in [Demandes -> {Repos, Fin} \cup Debuts \cup Ecritures]
    BY <1>5 DEF Arreter
  <2>4. aRefaire' \in BOOLEAN
    BY <1>5 DEF Arreter
  <2>5. muEquipe' = Nulle /\ verrou' = (IF verrou \in Demandes THEN Nulle ELSE verrou)
        /\ UNCHANGED <<equipe, web, scripts>>
    BY <1>5 DEF Arreter
  <2> QED  BY <1>0, <2>1, <2>2, <2>3, <2>4, <2>5, EquipeAssumption DEF TypeOK
<1>6. ASSUME NEW s \in Scripts, Script(s) PROVE TypeOK'
  <2>0. \A e \in {"changer", "rendre", "liste"} :
          scripts[s] # Repos => [scripts[s] EXCEPT !.etape = e] \in Appels
                                /\ [scripts[s] EXCEPT !.etape = e].etape = e
    BY FormesScripts DEF Appels
  <2>1. CASE ChangerDebut(s)
    <3>1. PICK c \in Changement :
            scripts' = [scripts EXCEPT ![s] = [etape |-> "changer", change |-> c]]
      BY <2>1 DEF ChangerDebut
    <3>2. [etape |-> "changer", change |-> c] \in Appels
      BY DEF Appels
    <3> QED  BY <1>0, <2>1, <3>1, <3>2, TypeScript DEF ChangerDebut
  <2>2. CASE Changer(s)
    <3>0. verrou = s /\ scripts[s] \in Appels /\ scripts[s] # Repos
      BY <2>2, FormesScripts DEF Changer, Repos
    <3>1. [equipe EXCEPT ![scripts[s].change.adresse] = scripts[s].change.groupe] \in Equipes
      BY <1>0, <3>0 DEF Appels, Changement, Equipes
    <3>2. equipe' \in Equipes
      BY <1>0, <2>2, <3>1 DEF Changer
    <3>3. CASE scripts' = [scripts EXCEPT ![s] = Repos]
      BY <1>0, <2>2, <3>0, <3>2, <3>3, TypeScript DEF Changer, Repos
    <3>4. CASE scripts' = [scripts EXCEPT ![s].etape = "rendre"]
      <4> DEFINE x == [scripts[s] EXCEPT !.etape = "rendre"]
      <4>1. x \in Appels /\ x.etape \notin {"changer", "liste"}
        BY <2>0, <3>0
      <4>2. scripts' = [scripts EXCEPT ![s] = x]
        BY <3>4
      <4> HIDE DEF x
      <4> QED  BY <1>0, <2>2, <3>0, <3>2, <4>1, <4>2, TypeScript DEF Changer
    <3> QED  BY <2>2, <3>3, <3>4 DEF Changer
  <2>3. CASE RendreDebut(s)
    <3> DEFINE x == [scripts[s] EXCEPT !.etape = "liste"]
    <3>1. x \in Appels /\ x.etape = "liste"
      BY <2>0, <2>3 DEF RendreDebut, Repos
    <3>2. scripts' = [scripts EXCEPT ![s] = x]
      BY <2>3 DEF RendreDebut
    <3> HIDE DEF x
    <3> QED  BY <1>0, <2>3, <3>1, <3>2, TypeScript DEF RendreDebut
  <2>4. CASE RendreListe(s)
    <3>1. verrou = s
      BY <2>4, FormesScripts DEF RendreListe
    <3> QED  BY <1>0, <2>4, <3>1, TypeScript DEF RendreListe, Repos, Membres
  <2>5. CASE Interrompre(s)
    <3>1. aRefaire' \in BOOLEAN
      BY <2>5 DEF Interrompre
    <3> QED  BY <1>0, <2>5, <3>1, TypeScript DEF Interrompre, Repos
  <2> QED  BY <1>6, <2>1, <2>2, <2>3, <2>4, <2>5 DEF Script
<1>7. CASE UNCHANGED vars
  BY <1>7 DEF vars, TypeOK
<1> QED  BY <1>1, <1>2, <1>3, <1>4, <1>5, <1>6, <1>7 DEF Next, Prendre

\* Type correctness, and the two locks are held by those whose step says so
\* (equipe.go:172-241, verrou_equipe_unix.go:27-53, sas.sh:384-406).
THEOREM EquipeType == Spec => []TypeOK
BY TypeInit, TypePas, PTL DEF Spec

-----------------------------------------------------------------------------
(* Who writes equipe.txt, and who moves. *)

\* The file changes only in the hands of the process that holds its lock.
LEMMA Ecrivain ==
  ASSUME TypeOK, [Next]_vars, equipe' # equipe
  PROVE  \/ \E d \in Demandes : verrou = d /\ EcrireEquipe(d) /\ equipe' = Reecrite(d)
                                /\ Passe(d, "web")
         \/ \E d \in Demandes : verrou = d /\ Remettre(d) /\ equipe' = demandes[d].avant
         \/ \E s \in Scripts :
              verrou = s /\ \E p \in Personnes, g \in Groupes \cup {Dehors} :
                              equipe' = [equipe EXCEPT ![p] = g]
<1>1. ASSUME NEW d \in Demandes, Arriver(d) \/ PrendreMu(d) \/ Prendre(d) PROVE FALSE
  BY <1>1 DEF Arriver, PrendreMu, Prendre, Verrouiller, Abandonner
<1>2. ASSUME NEW d \in Demandes, Membre(d)
      PROVE  \/ verrou = d /\ EcrireEquipe(d) /\ equipe' = Reecrite(d) /\ Passe(d, "web")
             \/ verrou = d /\ Remettre(d) /\ equipe' = demandes[d].avant
  <2>1. EcrireEquipe(d) \/ Remettre(d)
    BY <1>2 DEF Membre, Lire, LireEnVain, EcrireWeb, Finir
  <2>2. verrou = d
    BY <2>1, Formes DEF EcrireEquipe, Remettre, SousVerrou
  <2> QED  BY <2>1, <2>2 DEF EcrireEquipe, Remettre
<1>3. ~Arreter /\ ~UNCHANGED vars
  BY DEF Arreter, vars
<1>4. ASSUME NEW s \in Scripts, Script(s)
      PROVE  verrou = s /\ \E p \in Personnes, g \in Groupes \cup {Dehors} :
                             equipe' = [equipe EXCEPT ![p] = g]
  <2>1. Changer(s)
    BY <1>4 DEF Script, ChangerDebut, RendreDebut, RendreListe, Interrompre
  <2>2. verrou = s /\ scripts[s] \in Appels
    BY <2>1, FormesScripts DEF Changer
  <2>3. scripts[s].change \in Changement
    BY <2>2 DEF Appels
  <2> QED  BY <2>1, <2>2, <2>3 DEF Changer, Changement
<1> QED  BY <1>1, <1>2, <1>3, <1>4 DEF Next

\* A handler comes to a writing step by reading the file or by the step before.
LEMMA Avance ==
  ASSUME TypeOK, [Next]_vars, NEW d \in Demandes, demandes'[d] # demandes[d],
         demandes'[d].etape \in Ecrivent
  PROVE  Lire(d) \/ EcrireEquipe(d) \/ EcrireWeb(d)
<1>0. DOMAIN demandes = Demandes
  BY DEF TypeOK
<1>1. ASSUME NEW e \in Demandes, Arriver(e) \/ PrendreMu(e) \/ Prendre(e) PROVE FALSE
  <2>1. CASE Arriver(e) \/ Abandonner(e)
    BY <1>0, <2>1 DEF Arriver, Abandonner, Rendre, Repos, Ecrivent
  <2>2. CASE PrendreMu(e) \/ Verrouiller(e)
    BY <1>0, <2>2, Formes DEF PrendreMu, Verrouiller, Passe, Debuts, Ecrivent
  <2> QED  BY <1>1, <2>1, <2>2 DEF Prendre
<1>2. ASSUME NEW e \in Demandes, Membre(e) PROVE Lire(d) \/ EcrireEquipe(d) \/ EcrireWeb(d)
  <2>1. CASE e = d
    BY <1>0, <1>2, <2>1 DEF Membre, LireEnVain, Remettre, Finir, Rendre, Repos, Ecrivent
  <2>2. CASE e # d
    BY <1>0, <1>2, <2>2 DEF Membre, Lire, LireEnVain, EcrireEquipe, EcrireWeb, EchecWeb,
                            Remettre, Finir, Rendre, Passe
  <2> QED  BY <2>1, <2>2
<1>3. ~Arreter /\ ~UNCHANGED vars
  BY DEF Arreter, Repos, Ecrivent, vars
<1>4. ASSUME NEW s \in Scripts, Script(s) PROVE FALSE
  BY <1>4 DEF Script, ChangerDebut, Changer, RendreDebut, RendreListe, Interrompre
<1> QED  BY <1>1, <1>2, <1>3, <1>4 DEF Next

\* At most one handler is past the file lock, and then no run of sas.sh is.
LEMMA Seul ==
  ASSUME TypeOK, NEW d \in Demandes, demandes[d].etape \in SousVerrou
  PROVE  /\ verrou = d
         /\ \A e \in Demandes : demandes[e].etape \in SousVerrou => e = d
         /\ \A s \in Scripts : scripts[s].etape \notin {"changer", "liste"}
BY Formes, FormesScripts, EquipeAssumption

-----------------------------------------------------------------------------
(* The inductive invariant. *)

LEMMA CopiePas ==
  ASSUME Inv, [Next]_vars, NEW d \in Demandes
  PROVE  Copie(d)'
<1>0. TypeOK /\ Copie(d) /\ Ecrivent \subseteq SousVerrou /\ DOMAIN demandes = Demandes
  BY DEF Inv, TypeOK, Ecrivent, SousVerrou
<1>1. CASE demandes'[d].etape \notin Ecrivent
  BY <1>1 DEF Copie, Ecrivent
<1>2. CASE demandes'[d] = demandes[d] /\ demandes[d].etape \in Ecrivent
  <2>1. verrou = d
    BY <1>0, <1>2, Formes
  <2>2. ASSUME equipe' # equipe PROVE FALSE
    <3>1. CASE \E e \in Demandes : verrou = e /\ EcrireEquipe(e) /\ Passe(e, "web")
      <4>1. EcrireEquipe(d) /\ Passe(d, "web")
        BY <2>1, <3>1
      <4>2. demandes[d].etape = "ecrire" /\ demandes'[d].etape = "web"
        BY <1>0, <4>1, Formes DEF EcrireEquipe, Passe, Ecrivent, Ecritures
      <4> QED  BY <1>2, <4>2
    <3>2. CASE \E e \in Demandes : verrou = e /\ Remettre(e)
      <4>1. Remettre(d)
        BY <2>1, <3>2
      <4> QED  BY <1>0, <1>2, <4>1 DEF Remettre, Rendre, Repos, Ecrivent
    <3>3. CASE \E s \in Scripts : verrou = s
      BY <2>1, <3>3, EquipeAssumption
    <3> QED  BY <1>0, <2>2, <3>1, <3>2, <3>3, Ecrivain
  <2> QED  BY <1>0, <1>2, <2>2 DEF Copie, Reecrite
<1>3. CASE Lire(d) /\ demandes'[d].etape \in Ecrivent
  <2>1. ~Refus(equipe, demandes[d].moi, demandes[d].change)
        /\ demandes' = [demandes EXCEPT ![d] =
              [etape |-> "ecrire", change |-> demandes[d].change, avant |-> equipe]]
        /\ equipe' = equipe
    BY <1>0, <1>3 DEF Lire, Rendre, Repos, Ecrivent
  <2>2. /\ demandes'[d].etape = "ecrire" /\ demandes'[d].avant = equipe
        /\ demandes'[d].change = demandes[d].change
    BY <1>0, <2>1
  <2>3. demandes[d].moi \in Personnes
    BY <1>0, <1>3, Formes DEF Lire, Debuts
  <2>4. equipe[demandes[d].moi] = "admins" /\ demandes[d].moi # demandes[d].change.adresse
    BY <2>1 DEF Refus
  <2> QED  BY <2>1, <2>2, <2>3, <2>4 DEF Copie
<1>4. CASE EcrireEquipe(d) /\ demandes'[d].etape \in Ecrivent
  <2>1. demandes' = [demandes EXCEPT ![d].etape = "web"] /\ equipe' = Reecrite(d)
    BY <1>0, <1>4 DEF EcrireEquipe, Rendre, Repos, Ecrivent, Passe
  <2>2. demandes[d] \in Ecritures /\ demandes[d].etape = "ecrire"
    BY <1>0, <1>4, Formes DEF EcrireEquipe, Ecrivent
  <2>3. /\ demandes'[d].etape = "web" /\ demandes'[d].avant = demandes[d].avant
        /\ demandes'[d].change = demandes[d].change
    BY <1>0, <2>1, <2>2 DEF Ecritures
  <2> QED  BY <1>0, <2>1, <2>2, <2>3 DEF Copie, Reecrite, Ecrivent
<1>5. CASE EcrireWeb(d) /\ demandes'[d].etape \in Ecrivent
  <2>1. demandes' = [demandes EXCEPT ![d].etape = "remettre"] /\ equipe' = equipe
    BY <1>0, <1>5 DEF EcrireWeb, EchecWeb, Passe, Fin, Ecrivent
  <2>2. demandes[d] \in Ecritures /\ demandes[d].etape = "web"
    BY <1>0, <1>5, Formes DEF EcrireWeb, Ecrivent
  <2>3. /\ demandes'[d].etape = "remettre" /\ demandes'[d].avant = demandes[d].avant
        /\ demandes'[d].change = demandes[d].change
    BY <1>0, <2>1, <2>2 DEF Ecritures
  <2> QED  BY <1>0, <2>1, <2>2, <2>3 DEF Copie, Reecrite, Ecrivent
<1> QED  BY <1>0, <1>1, <1>2, <1>3, <1>4, <1>5, Avance

LEMMA SuiviePas ==
  ASSUME Inv, [Next]_vars
  PROVE  Suivie'
<1>0. TypeOK /\ Suivie /\ DOMAIN demandes = Demandes /\ DOMAIN scripts = Scripts
  BY DEF Inv, TypeOK
\* Nothing that the list depends on moves.
<1>1. ASSUME UNCHANGED <<equipe, web>>, Quitte' => Quitte,
             \A d \in Demandes : \/ demandes'[d] = demandes[d]
                                 \/ /\ demandes[d].etape \notin {"web", "remettre"}
                                    /\ demandes'[d].etape \notin {"web", "remettre"}
      PROVE  Suivie'
  BY <1>0, <1>1 DEF Suivie
<1>2. ASSUME NEW d \in Demandes,
             Arriver(d) \/ PrendreMu(d) \/ Prendre(d) \/ Lire(d) \/ LireEnVain(d) \/ Finir(d)
      PROVE  Suivie'
  <2>1. UNCHANGED <<equipe, web, scripts, aRefaire>> /\ demandes[d].etape \notin {"web", "remettre"}
    BY <1>2 DEF Arriver, PrendreMu, Prendre, Verrouiller, Abandonner, Lire, LireEnVain, Finir, Repos
  <2>2. \A e \in Demandes : e # d => demandes'[e] = demandes[e]
    BY <1>0, <1>2 DEF Arriver, PrendreMu, Prendre, Verrouiller, Abandonner, Lire, LireEnVain,
                      Finir, Rendre, Passe
  <2>3. demandes'[d].etape \notin {"web", "remettre"}
    <3>1. CASE Arriver(d) \/ Abandonner(d) \/ Lire(d) \/ LireEnVain(d) \/ Finir(d)
      BY <1>0, <3>1 DEF Arriver, Abandonner, Lire, LireEnVain, Finir, Rendre, Repos
    <3>2. CASE PrendreMu(d) \/ Verrouiller(d)
      BY <1>0, <3>2, Formes DEF PrendreMu, Verrouiller, Passe, Debuts
    <3> QED  BY <1>2, <3>1, <3>2 DEF Prendre
  <2> QED  BY <1>1, <2>1, <2>2, <2>3 DEF Quitte
<1>3. ASSUME NEW d \in Demandes, EcrireEquipe(d) \/ EcrireWeb(d) \/ Remettre(d)
      PROVE  Suivie'
  <2>0. /\ demandes[d].etape \in Ecrivent /\ demandes[d] \in Ecritures /\ Copie(d)
        /\ \A e \in Demandes : e # d => demandes[e].etape \notin Ecrivent
        /\ \A e \in Demandes : e # d => demandes'[e] = demandes[e]
        /\ UNCHANGED scripts
    <3>1. demandes[d].etape \in Ecrivent /\ Ecrivent \subseteq SousVerrou
      BY <1>3 DEF EcrireEquipe, EcrireWeb, Remettre, Ecrivent, SousVerrou
    <3>2. \A e \in Demandes : e # d => demandes'[e] = demandes[e]
      BY <1>0, <1>3 DEF EcrireEquipe, EcrireWeb, EchecWeb, Remettre, Rendre, Passe
    <3> QED  BY <1>0, <1>3, <3>1, <3>2, Formes, Seul DEF Inv, EcrireEquipe, EcrireWeb, Remettre
  <2>1. CASE EcrireEquipe(d)
    <3>1. CASE Rendre(d) /\ UNCHANGED equipe
      BY <1>0, <1>1, <2>0, <2>1, <3>1 DEF EcrireEquipe, Rendre, Repos, Quitte
    <3>2. CASE equipe' = Reecrite(d) /\ Passe(d, "web")
      <4>1. demandes'[d].etape = "web" /\ demandes'[d].avant = demandes[d].avant
        BY <1>0, <2>0, <3>2 DEF Passe, Ecritures
      <4>2. demandes[d].avant = equipe /\ web' = web /\ aRefaire' = aRefaire
        BY <2>0, <2>1 DEF EcrireEquipe, Copie
      <4>3. \A e \in Demandes : demandes[e].etape \notin {"web", "remettre"}
        BY <2>0, <2>1 DEF EcrireEquipe, Ecrivent
      <4>4. Quitte => web = Membres(equipe)
        BY <1>0, <4>3 DEF Suivie
      <4>5. \A e \in Demandes : e # d => demandes'[e].etape \notin {"web", "remettre"}
        BY <2>0, <4>3
      <4>6. Quitte' = Quitte
        BY <2>0, <4>2 DEF Quitte
      <4>7. Membres(demandes'[d].avant) = Membres(equipe)
        BY <4>1, <4>2
      <4>8. Quitte' => \A e \in Demandes : demandes'[e].etape \in {"web", "remettre"} =>
                                             web' = Membres(demandes'[e].avant)
        BY <4>2, <4>4, <4>5, <4>6, <4>7
      <4> QED  BY <4>1, <4>8 DEF Suivie, Membres
    <3> QED  BY <2>1, <3>1, <3>2 DEF EcrireEquipe
  <2>2. CASE EcrireWeb(d)
    <3>0. demandes[d].etape = "web" /\ equipe = Reecrite(d) /\ equipe' = equipe
      BY <2>0, <2>2 DEF EcrireWeb, Copie
    <3>1. CASE EchecWeb(d) /\ UNCHANGED <<web, aRefaire>>
      <4>1. demandes'[d].etape = "remettre" /\ demandes'[d].avant = demandes[d].avant
        BY <1>0, <2>0, <3>1 DEF EchecWeb, Passe, Ecritures
      <4>2. Quitte' = Quitte
        BY <2>0, <3>1 DEF Quitte
      <4>3. Quitte => web = Membres(demandes[d].avant)
        BY <1>0, <3>0 DEF Suivie
      <4>4. \A e \in Demandes : e # d => demandes'[e].etape \notin {"web", "remettre"}
        BY <2>0 DEF Ecrivent
      <4>5. web' = web
        BY <3>1
      <4> QED  BY <4>1, <4>2, <4>3, <4>4, <4>5 DEF Suivie, Membres
    <3>2. CASE web' = Membres(Reecrite(d)) /\ demandes' = [demandes EXCEPT ![d] = Fin]
      <4>1. demandes'[d].etape = "finir"
        BY <1>0, <3>2 DEF Fin
      <4>2. \A e \in Demandes : demandes'[e].etape \notin {"web", "remettre"}
        BY <2>0, <4>1 DEF Ecrivent
      <4>3. web' = Membres(equipe)
        BY <3>0, <3>2
      <4> QED  BY <3>0, <4>2, <4>3 DEF Suivie, Membres
    <3> QED  BY <2>2, <3>1, <3>2 DEF EcrireWeb
  <2>3. CASE Remettre(d)
    <3>1. demandes[d].etape = "remettre" /\ demandes'[d] = Repos /\ web' = web
      BY <1>0, <2>3 DEF Remettre, Rendre
    <3>2. \A e \in Demandes : demandes'[e].etape \notin {"web", "remettre"}
      BY <2>0, <3>1 DEF Ecrivent, Repos
    <3>3. CASE aRefaire' = TRUE
      BY <3>3 DEF Suivie, Quitte
    <3>4. CASE equipe' = demandes[d].avant /\ UNCHANGED aRefaire
      <4>1. Quitte => web = Membres(demandes[d].avant)
        BY <1>0, <3>1 DEF Suivie
      <4>2. Quitte' = Quitte
        BY <2>0, <3>4 DEF Quitte
      <4> QED  BY <3>1, <3>2, <3>4, <4>1, <4>2 DEF Suivie, Membres
    <3> QED  BY <2>3, <3>3, <3>4 DEF Remettre
  <2> QED  BY <1>3, <2>1, <2>2, <2>3
<1>4. CASE Arreter
  <2>1. /\ \A d \in Demandes : demandes'[d].etape = "repos"
        /\ UNCHANGED <<equipe, web, scripts>>
        /\ aRefaire' = (aRefaire \/ \E d \in Demandes : demandes[d].etape \in {"web", "remettre"})
    BY <1>4 DEF Arreter, Repos
  <2>2. Quitte' => Quitte /\ \A d \in Demandes : demandes[d].etape \notin {"web", "remettre"}
    BY <2>1 DEF Quitte
  <2> QED  BY <1>0, <2>1, <2>2 DEF Suivie
<1>5. ASSUME NEW s \in Scripts, Script(s) PROVE Suivie'
  <2>0. demandes' = demandes
    BY <1>5 DEF Script, ChangerDebut, Changer, RendreDebut, RendreListe, Interrompre
  <2>1. CASE ChangerDebut(s) \/ RendreDebut(s) \/ Interrompre(s)
    <3>1. UNCHANGED <<equipe, web>> /\ \A t \in Scripts : t # s => scripts'[t] = scripts[t]
      BY <1>0, <2>1 DEF ChangerDebut, RendreDebut, Interrompre
    <3>2. CASE ChangerDebut(s)
      BY <1>1, <2>0, <3>1, <3>2 DEF ChangerDebut, Quitte, Repos
    <3>3. CASE RendreDebut(s)
      <4>1. scripts'[s].etape = "liste"
        BY <1>0, <3>3, FormesScripts DEF RendreDebut, Appels
      <4> QED  BY <4>1 DEF Suivie, Quitte
    <3>4. CASE Interrompre(s)
      <4>1. Quitte' => Quitte
        BY <3>1, <3>4 DEF Interrompre, Quitte
      <4> QED  BY <1>1, <2>0, <3>1, <4>1
    <3> QED  BY <2>1, <3>2, <3>3, <3>4
  <2>2. CASE Changer(s)
    <3>1. CASE scripts' = [scripts EXCEPT ![s] = Repos] /\ UNCHANGED equipe
      <4>1. Quitte' => Quitte
        BY <1>0, <2>2, <3>1 DEF Changer, Quitte
      <4> QED  BY <1>1, <2>0, <2>2, <3>1, <4>1 DEF Changer
    <3>2. CASE scripts' = [scripts EXCEPT ![s].etape = "rendre"]
      <4>1. scripts'[s].etape = "rendre"
        BY <1>0, <2>2, <3>2, FormesScripts DEF Changer, Appels
      <4> QED  BY <4>1 DEF Suivie, Quitte
    <3> QED  BY <2>2, <3>1, <3>2 DEF Changer
  <2>3. CASE RendreListe(s)
    <3>1. verrou = s /\ web' = Membres(equipe) /\ equipe' = equipe
      BY <1>0, <2>3, FormesScripts DEF RendreListe
    <3>2. \A d \in Demandes : demandes'[d].etape \notin {"web", "remettre"}
      BY <1>0, <2>0, <3>1, Seul, EquipeAssumption DEF SousVerrou
    <3> QED  BY <3>1, <3>2 DEF Suivie, Membres
  <2> QED  BY <1>5, <2>1, <2>2, <2>3 DEF Script
<1>6. CASE UNCHANGED vars
  BY <1>1, <1>6 DEF vars, Quitte
<1> QED  BY <1>2, <1>3, <1>4, <1>5, <1>6 DEF Next, Membre

LEMMA InvSpec == Spec => []Inv
<1>1. Init => Inv
  <2> SUFFICES ASSUME Init PROVE Inv
    OBVIOUS
  <2>1. \A d \in Demandes : demandes[d].etape \notin Ecrivent
    BY DEF Init, Repos, Ecrivent
  <2> QED  BY <2>1, TypeInit DEF Inv, Init, Copie, Suivie, Ecrivent
<1>2. Inv /\ [Next]_vars => Inv'
  BY TypePas, CopiePas, SuiviePas DEF Inv
<1> QED  BY <1>1, <1>2, PTL DEF Spec

-----------------------------------------------------------------------------
(* The theorems. *)

\* The two files agree whenever nobody is at work, unless someone stopped
\* between the two (equipe.go:108-133, sas.sh:278-299).
THEOREM EquipeListes == Spec => []ListesEnAccord
<1>1. ASSUME Inv PROVE ListesEnAccord
  <2> SUFFICES ASSUME verrou = Nulle, ~aRefaire, \A s \in Scripts : scripts[s].etape # "rendre"
               PROVE  web = Membres(equipe)
    BY DEF ListesEnAccord
  <2>1. \A s \in Scripts : scripts[s].etape # "liste"
    BY <1>1, FormesScripts, EquipeAssumption DEF Inv
  <2>2. \A d \in Demandes : demandes[d].etape \notin SousVerrou
    BY <1>1, Seul, EquipeAssumption DEF Inv
  <2> QED  BY <1>1, <2>1, <2>2 DEF Inv, Suivie, Quitte, SousVerrou
<1> QED  BY <1>1, InvSpec, PTL

\* Two writers never undo each other: what is written, and what is put back,
\* differs from the file by the line of one person (equipe.go:66-98, 114-133).
THEOREM EquipeUneLigne == Spec => UneSeuleLigne
<1>1. ASSUME Inv, [Next]_vars, NEW p \in Personnes, NEW q \in Personnes,
             equipe'[p] # equipe[p], equipe'[q] # equipe[q]
      PROVE  p = q
  <2>0. TypeOK /\ equipe' # equipe
    BY <1>1 DEF Inv
  <2>1. ASSUME NEW d \in Demandes, Copie(d),
               \/ EcrireEquipe(d) /\ equipe' = Reecrite(d)
               \/ Remettre(d) /\ equipe' = demandes[d].avant
        PROVE  p = q
    <3>1. demandes[d] \in Ecritures
      BY <2>0, <2>1, Formes DEF EcrireEquipe, Remettre, Ecrivent
    <3>2. \A r \in Personnes : r # demandes[d].change.adresse =>
                                 Reecrite(d)[r] = demandes[d].avant[r]
      BY <3>1 DEF Reecrite, Ecritures, Equipes
    <3>3. \/ equipe = demandes[d].avant /\ equipe' = Reecrite(d)
          \/ equipe = Reecrite(d) /\ equipe' = demandes[d].avant
      BY <2>1 DEF Copie, EcrireEquipe, Remettre
    <3> QED  BY <1>1, <3>2, <3>3
  <2>2. ASSUME NEW r \in Personnes, NEW g, equipe' = [equipe EXCEPT ![r] = g]
        PROVE  p = q
    BY <1>1, <2>0, <2>2 DEF TypeOK, Equipes
  <2> QED  BY <1>1, <2>0, <2>1, <2>2, Ecrivain DEF Inv
<1>2. Inv /\ [Next]_vars =>
        [\A p, q \in Personnes : equipe'[p] # equipe[p] /\ equipe'[q] # equipe[q] => p = q]_vars
  BY <1>1
<1> QED  BY <1>2, InvSpec, PTL DEF Spec, UneSeuleLigne

\* The application leaves at least one admin: the one who asked is still there
\* in the copy that is written, and it is still the file (equipe.go:136-160).
THEOREM EquipeAdmin == Spec => AdminRestant
<1>1. ASSUME Inv, [Next]_vars, verrou \in Demandes, AvecAdmin(equipe)
      PROVE  AvecAdmin(equipe')
  <2>0. TypeOK
    BY <1>1 DEF Inv
  <2>1. CASE equipe' = equipe
    BY <1>1, <2>1
  <2>2. ASSUME NEW d \in Demandes, Copie(d),
               \/ EcrireEquipe(d) /\ equipe' = Reecrite(d)
               \/ Remettre(d) /\ equipe' = demandes[d].avant
        PROVE  AvecAdmin(equipe')
    <3>1. demandes[d] \in Ecritures /\ demandes[d].etape \in Ecrivent
      BY <2>0, <2>2, Formes DEF EcrireEquipe, Remettre, Ecrivent
    <3>2. PICK m \in Personnes : m # demandes[d].change.adresse /\ demandes[d].avant[m] = "admins"
      BY <2>2, <3>1 DEF Copie
    <3>3. Reecrite(d)[m] = demandes[d].avant[m]
      BY <3>1, <3>2 DEF Reecrite, Ecritures, Equipes
    <3> QED  BY <2>2, <3>2, <3>3 DEF AvecAdmin
  <2>3. \A s \in Scripts : verrou # s
    BY <1>1, EquipeAssumption
  <2> QED  BY <1>1, <2>0, <2>1, <2>2, <2>3, Ecrivain DEF Inv
<1>2. Inv /\ [Next]_vars =>
        [(verrou \in Demandes) /\ AvecAdmin(equipe) => AvecAdmin(equipe')]_vars
  BY <1>1
<1> QED  BY <1>2, InvSpec, PTL DEF Spec, AdminRestant
=============================================================================
