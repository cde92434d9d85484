------------------------------- MODULE Tunnel -------------------------------
(***************************************************************************)
(* Two engines of internal/tunnel/moteur.go and what each keeps about the  *)
(* other: handshakes, sessions, the table of indices.                      *)
(*                                                                         *)
(* With ParRelais = FALSE this is a device and the server: one end         *)
(* initiates, moves between networks (lieu), and the other learns where it *)
(* is (point).  With ParRelais = TRUE these are two devices that reach     *)
(* each other through the server: both may initiate, and no address is     *)
(* learnt.                                                                 *)
(*                                                                         *)
(* reseau holds every message ever sent: taking one leaves it there, so    *)
(* the network duplicates, delays, reorders, and loses what is never       *)
(* taken.  A refused message changes nothing and is not an action; the     *)
(* flood protection (cookie.go) refuses some more, which here is a loss.   *)
(*                                                                         *)
(* Time.  temps counts minutes, enough to tell renouvelerApres (2) from    *)
(* rejeterApres (3).  The timers of 5 to 90 seconds (relancerApres,        *)
(* maintienPassif, sansReponseMax, maintien, abandonnerApres) may have run *)
(* out or not whenever they are read.                                      *)
(*                                                                         *)
(* Keys.  A session is named by its handshake: who initiated, the          *)
(* timestamp of the initiation, the rank of the responder's answer.  Two   *)
(* ends hold the same keys when they name the same handshake, and a        *)
(* message opens when it was sealed under the session it is tried on.  The *)
(* window is the set of opened counters, which Session implements.         *)
(***************************************************************************)
EXTENDS Integers, FiniteSets, FiniteSetsExt

CONSTANTS
  Bouts,            \* the two ends
  Actifs,           \* those that initiate: pair.actif()
  ParRelais,        \* the ends reach each other through the server
  Indices,          \* values reserverIndice draws from
  Lieux,            \* addresses the mobile end may have
  Nulle,            \* nil
  RenouvelerApres,  \* in minutes
  RejeterApres,     \* in minutes
  MaxAttente,       \* maxEnAttente, 32 in the code
  MaxTemps,         \* bound on temps
  MaxInitiations,   \* bound on the initiations, for each end
  MaxPaquets,       \* bound on the data messages of a session, in each direction
  MaxVies           \* bound on the restarts of each end

ASSUME BoutsAssumption ==
  /\ \E e, f \in Bouts : e # f /\ Bouts = {e, f}
  /\ Actifs \in SUBSET Bouts /\ Actifs # {}
  /\ ParRelais \in BOOLEAN
  /\ ~ParRelais => \E e \in Bouts : Actifs = {e}
ASSUME BornesAssumption ==
  /\ RenouvelerApres \in Nat /\ RejeterApres \in Nat /\ RenouvelerApres < RejeterApres
  /\ MaxTemps \in Nat /\ {MaxVies, MaxInitiations} \subseteq [Bouts -> Nat]
  /\ MaxAttente \in Nat \ {0} /\ MaxPaquets \in Nat /\ MaxAttente <= MaxPaquets
  /\ Lieux # {}

VARIABLES
  temps,              \* the clock, in minutes
  courante,           \* pair.courante
  precedente,         \* pair.precedente
  suivante,           \* pair.suivante
  poignee,            \* pair.poignee and pair.indicePoignee
  dernierHorodatage,  \* pair.dernierHorodatage, 0 for nil
  attente,            \* how many packets pair.attente holds
  indices,            \* the indices Moteur.indices gives to this pair
  recus,              \* the windows: counters opened, by session
  enCours,            \* recevoirDonnees between its two locks on the pair
  horloge,            \* the timestamp of the last initiation
  vie,                \* how many times the engine started
  lieu,               \* where the mobile end is
  point,              \* pair.point, at the end that learns it
  reseau              \* every message sent

vars == <<temps, courante, precedente, suivante, poignee, dernierHorodatage,
          attente, indices, recus, enCours, horloge, vie, lieu, point, reseau>>

Autre(e) == CHOOSE f \in Bouts : f # e

-----------------------------------------------------------------------------
(* Messages and sessions. *)

Horodatages == 1 .. Max({MaxInitiations[e] : e \in Bouts})

\* An engine answers an initiation once.
Reponses == 1 .. Max({MaxInitiations[e] : e \in Bouts}) * (Max({MaxVies[e] : e \in Bouts}) + 1)

Cles == [par : Bouts, horo : Horodatages, rep : Reponses]

Sessions == [locale : Indices, distante : Indices, cle : Cles,
             initiateur : BOOLEAN, creee : 0 .. MaxTemps]

Messages ==
  [type : {"initiation"}, de : Bouts, horo : Horodatages, indice : Indices,
   lieu : Lieux \cup {Nulle}]
  \cup [type : {"reponse"}, de : Bouts, cle : Cles, locale : Indices, dest : Indices,
        vie : 0 .. Max({MaxVies[e] : e \in Bouts}), lieu : Lieux \cup {Nulle}]
  \cup [type : {"donnees"}, de : Bouts, cle : Cles, n : 0 .. MaxPaquets - 1, dest : Indices,
        lieu : Lieux \cup {Nulle}]

\* nil is no value of a type.
ASSUME NulleAssumption ==
  Nulle \notin Lieux \cup Sessions \cup [horo : Horodatages, indice : Indices]
              \cup [session : Sessions, msg : Messages] \cup Cles

\* The end whose address the other one learns.
Mobile(e) == e \in Actifs /\ ~ParRelais

\* Where a message of e leaves from, or goes to: the address of the mobile end.
LieuEnvoi(e) == IF Mobile(e) THEN lieu ELSE point

Initiation(e, h, i) ==
  [type |-> "initiation", de |-> e, horo |-> h, indice |-> i, lieu |-> LieuEnvoi(e)]

\* The n-th data message of e in session s: n is the value of s.compteur.
Donnees(e, s, n) ==
  [type |-> "donnees", de |-> e, cle |-> s.cle, n |-> n, dest |-> s.distante,
   lieu |-> LieuEnvoi(e)]

\* session.compteur: every value drawn was sent.
Compteur(e, s) ==
  Cardinality({m \in reseau : m.type = "donnees" /\ m.de = e /\ m.cle = s.cle})

Suivant(e, s) == {Donnees(e, s, Compteur(e, s))}

NbReponses(e) == Cardinality({m \in reseau : m.type = "reponse" /\ m.de = e})

\* What of the network reaches e now.
Arrives(e, type) ==
  {m \in reseau : m.type = type /\ m.de = Autre(e) /\ (Mobile(e) => m.lieu = lieu)}

Jeune(s) == s # Nulle /\ temps - s.creee < RejeterApres

\* session.utilisable; the other half of it, the limit on the counter, is in
\* Session.  The bound on data messages stands here.
utilisable(e, s) == Jeune(s) /\ Compteur(e, s) < MaxPaquets

\* session.aRenouveler.
aRenouveler(s) == s = Nulle \/ (s.initiateur /\ temps - s.creee >= RenouvelerApres)

Places(e) == <<courante[e], suivante[e], precedente[e]>>

\* Mutant: the index of a session that goes is not given back.
SansRendre(table, s) == IF s = Nulle THEN table ELSE table \cup {s.locale}

\* The table without the index of a session that goes.
Sans(table, s) == IF s = Nulle THEN table ELSE table \ {s.locale}

-----------------------------------------------------------------------------

TypeOK ==
  /\ temps \in 0 .. MaxTemps
  /\ \A place \in {courante, precedente, suivante} : place \in [Bouts -> Sessions \cup {Nulle}]
  /\ poignee \in [Bouts -> [horo : Horodatages, indice : Indices] \cup {Nulle}]
  /\ dernierHorodatage \in [Bouts -> Horodatages \cup {0}]
  /\ attente \in [Bouts -> 0 .. MaxAttente]
  /\ indices \in [Bouts -> SUBSET Indices]
  /\ recus \in [Bouts -> SUBSET [cle : Cles, n : 0 .. MaxPaquets - 1]]
  /\ enCours \in [Bouts -> [session : Sessions, msg : Messages] \cup {Nulle}]
  /\ \A e \in Bouts : enCours[e] # Nulle => enCours[e].msg \in reseau
  /\ horloge \in [Bouts -> Horodatages \cup {0}]
  /\ vie \in [Bouts -> Nat]
  /\ \A e \in Bouts : vie[e] <= MaxVies[e]
  /\ lieu \in Lieux
  /\ point \in Lieux \cup {Nulle}
  /\ reseau \subseteq Messages

Init ==
  /\ temps = 0
  /\ courante = [e \in Bouts |-> Nulle]
  /\ precedente = [e \in Bouts |-> Nulle]
  /\ suivante = [e \in Bouts |-> Nulle]
  /\ poignee = [e \in Bouts |-> Nulle]
  /\ dernierHorodatage = [e \in Bouts |-> 0]
  /\ attente = [e \in Bouts |-> 0]
  /\ indices = [e \in Bouts |-> {}]
  /\ recus = [e \in Bouts |-> {}]
  /\ enCours = [e \in Bouts |-> Nulle]
  /\ horloge = [e \in Bouts |-> 0]
  /\ vie = [e \in Bouts |-> 0]
  /\ lieu \in Lieux
  /\ point = Nulle
  /\ reseau = {}

-----------------------------------------------------------------------------
(* Initiating. *)

\* Mutant: the index of the last attempt is not given back.
TentativeGardee(e, table) == IF poignee[e] = Nulle THEN table ELSE table \cup {poignee[e].indice}

\* The table without the index of the last attempt.
SansTentative(e, table) == IF poignee[e] = Nulle THEN table ELSE table \ {poignee[e].indice}

\* lancerPoignee, when it goes through: the index of the last attempt is given
\* back before a new one is drawn, and that attempt can no longer be answered.
\* table is the state of the indices so far, envois what the caller sends too.
lancerPoignee(e, table, envois) ==
  LET libre == SansTentative(e, table)
      h == horloge[e] + 1
  IN /\ e \in Actifs
     /\ horloge[e] < MaxInitiations[e]
     /\ \E i \in Indices \ libre :
          /\ indices' = [indices EXCEPT ![e] = libre \cup {i}]
          /\ poignee' = [poignee EXCEPT ![e] = [horo |-> h, indice |-> i]]
          /\ reseau' = reseau \cup envois \cup {Initiation(e, h, i)}
     /\ horloge' = [horloge EXCEPT ![e] = h]

SansPoignee(e, table, envois) ==
  /\ indices' = [indices EXCEPT ![e] = table]
  /\ reseau' = reseau \cup envois
  /\ UNCHANGED <<poignee, horloge>>

\* A call of lancerPoignee: it does nothing at an end that does not initiate,
\* and less than relancerApres after the last attempt.
Tenter(e, table, envois) ==
  \/ lancerPoignee(e, table, envois)
  \/ /\ e \notin Actifs \/ poignee[e] # Nulle \/ horloge[e] = MaxInitiations[e]
     /\ SansPoignee(e, table, envois)

\* Mutant: the queue has no limit.
AttendreSansLimite(e) == attente' = [attente EXCEPT ![e] = @ + 1]

\* A packet waits for the session, up to maxEnAttente.
Attendre(e) ==
  attente' = IF e \in Actifs /\ attente[e] < MaxAttente THEN [attente EXCEPT ![e] = @ + 1] ELSE attente

\* boucleTun and envoyerClair: a packet for the other end.
EnvoyerClair(e) ==
  LET s == courante[e] IN
  /\ Jeune(s) => utilisable(e, s)
  /\ \/ /\ ~Jeune(s)
        /\ Attendre(e)
        /\ Tenter(e, indices[e], {})
     \/ /\ Jeune(s)
        /\ UNCHANGED attente
        /\ IF aRenouveler(s) THEN Tenter(e, indices[e], Suivant(e, s))
                             ELSE SansPoignee(e, indices[e], Suivant(e, s))
  /\ UNCHANGED <<temps, courante, precedente, suivante, dernierHorodatage, recus, enCours,
                 vie, lieu, point>>

-----------------------------------------------------------------------------
(* Receiving.  One goroutine, boucleUDP, takes the messages of an end. *)

\* Mutant: only a data message moves it.
SuivreDonnees(e, m) ==
  point' = IF ParRelais \/ e \in Actifs \/ m.type = "initiation" THEN point ELSE m.lieu

\* The address of a message moves the point of the end that learns it.
Suivre(e, m) ==
  point' = IF ParRelais \/ e \in Actifs THEN point ELSE m.lieu

\* Mutant: an initiation is taken however old it is.
SansHorodatage(e, m) == m.horo > 0 /\ e \in Bouts

\* The initiation is newer than the last one answered.
Recente(e, m) == m.horo > dernierHorodatage[e]

\* Mutant: the session answered is used at once.
EmployerAussitot(e, s) == courante' = [courante EXCEPT ![e] = s] /\ UNCHANGED suivante

\* The session answered waits for the first message of the other end.
Attend(e, s) == suivante' = [suivante EXCEPT ![e] = s] /\ UNCHANGED courante

\* recevoirInitiation, on an initiation newer than the last one.
RecevoirInitiation(e) ==
  \E m \in Arrives(e, "initiation") :
    LET libre == Sans(indices[e], suivante[e]) IN
    /\ enCours[e] = Nulle
    /\ Recente(e, m)
    /\ \E i \in Indices \ libre :
         LET cle == [par |-> Autre(e), horo |-> m.horo, rep |-> NbReponses(e) + 1] IN
         /\ indices' = [indices EXCEPT ![e] = libre \cup {i}]
         /\ Attend(e, [locale |-> i, distante |-> m.indice, cle |-> cle,
                        initiateur |-> FALSE, creee |-> temps])
         /\ reseau' = reseau \cup
              {[type |-> "reponse", de |-> e, cle |-> cle, locale |-> i, dest |-> m.indice,
                vie |-> vie[e], lieu |-> m.lieu]}
    /\ dernierHorodatage' = [dernierHorodatage EXCEPT ![e] = m.horo]
    /\ Suivre(e, m)
    /\ UNCHANGED <<temps, precedente, poignee, attente, recus, enCours, horloge, vie, lieu>>

\* Mutant: the two indices change places.
SessionInversee(m) ==
  [locale |-> m.locale, distante |-> m.dest, cle |-> m.cle, initiateur |-> TRUE, creee |-> temps]

\* The session of the end that initiated.
SessionOuverte(m) ==
  [locale |-> m.dest, distante |-> m.locale, cle |-> m.cle, initiateur |-> TRUE, creee |-> temps]

\* Mutant: the handshake may be answered again.
SansClore(e) == e \in Bouts /\ UNCHANGED poignee

\* The handshake of e is done: no other answer is taken for it.
Clore(e) == poignee' = [poignee EXCEPT ![e] = Nulle]

\* recevoirReponse: the handshake under way is done, the session is used at
\* once, and the packets that wait leave with it, or an empty one.
RecevoirReponse(e) ==
  \E m \in Arrives(e, "reponse") :
    LET s == SessionOuverte(m)
        premiers == IF attente[e] = 0 THEN 1 ELSE attente[e]
    IN
    /\ enCours[e] = Nulle
    /\ poignee[e] # Nulle
    /\ poignee[e].indice = m.dest
    /\ m.cle.par = e /\ m.cle.horo = poignee[e].horo
    /\ indices' = [indices EXCEPT ![e] = Sans(@, precedente[e])]
    /\ precedente' = [precedente EXCEPT ![e] = courante[e]]
    /\ courante' = [courante EXCEPT ![e] = s]
    /\ Clore(e)
    /\ reseau' = reseau \cup {Donnees(e, s, n) : n \in 0 .. premiers - 1}
    /\ attente' = [attente EXCEPT ![e] = 0]
    /\ UNCHANGED <<temps, suivante, dernierHorodatage, recus, enCours, horloge, vie, lieu, point>>

\* recevoirDonnees up to the first unlock: the session its index names.  The
\* window and the keys change only in this goroutine, so that whether the
\* message opens is known here; one that does not changes nothing.
DebutDonnees(e) ==
  \E m \in Arrives(e, "donnees"), k \in 1 .. 3 :
    LET s == Places(e)[k] IN
    /\ enCours[e] = Nulle
    /\ m.dest \in indices[e]
    /\ s # Nulle /\ s.locale = m.dest
    /\ \A j \in 1 .. k - 1 : Places(e)[j] # Nulle => Places(e)[j].locale # m.dest
    /\ Jeune(s)
    /\ s.cle = m.cle /\ [cle |-> m.cle, n |-> m.n] \notin recus[e]
    /\ enCours' = [enCours EXCEPT ![e] = [session |-> s, msg |-> m]]
    /\ UNCHANGED <<temps, courante, precedente, suivante, poignee, dernierHorodatage, attente,
                   indices, recus, horloge, vie, lieu, point, reseau>>

\* Mutant: any session but the current one becomes it.
PromueToujours(e, s) == s # courante[e]

\* The first message of the next session makes it the current one.
Promue(e, s) == s = suivante[e]

\* recevoirDonnees after dechiffrer: the first message of the next session
\* makes it the current one; an end that only answers may answer an empty
\* packet with another.
FinDonnees(e) ==
  /\ enCours[e] # Nulle
  /\ LET s == enCours[e].session
         m == enCours[e].msg
         promue == Promue(e, s)
         c == IF promue THEN s ELSE courante[e]
     IN /\ recus' = [recus EXCEPT ![e] = @ \cup {[cle |-> m.cle, n |-> m.n]}]
        /\ indices' = IF promue THEN [indices EXCEPT ![e] = Sans(@, precedente[e])] ELSE indices
        /\ precedente' = IF promue THEN [precedente EXCEPT ![e] = courante[e]] ELSE precedente
        /\ courante' = [courante EXCEPT ![e] = c]
        /\ suivante' = IF promue THEN [suivante EXCEPT ![e] = Nulle] ELSE suivante
        /\ Suivre(e, m)
        /\ \/ UNCHANGED reseau
           \/ /\ e \notin Actifs /\ c # Nulle /\ utilisable(e, c)
              /\ reseau' = reseau \cup {[d EXCEPT !.lieu = point'] : d \in Suivant(e, c)}
  /\ enCours' = [enCours EXCEPT ![e] = Nulle]
  /\ UNCHANGED <<temps, poignee, dernierHorodatage, attente, horloge, vie, lieu>>

-----------------------------------------------------------------------------
(* Time, and what the environment does. *)

\* minuterie, for this pair: what is too old is dropped, a handshake starts if
\* the session must be opened, renewed or seems dead, a keepalive may leave,
\* and the packets that waited too long are given up.
Minuterie(e) ==
  LET garde(s) == IF Jeune(s) THEN s ELSE Nulle
      c == garde(courante[e])
      finies == {Places(e)[k].locale : k \in {j \in 1 .. 3 :
                   Places(e)[j] # Nulle /\ ~Jeune(Places(e)[j])}}
      table == indices[e] \ finies
      aOuvrir == e \in Actifs /\ aRenouveler(c) /\ (~ParRelais \/ attente[e] > 0)
  IN /\ courante' = [courante EXCEPT ![e] = c]
     /\ precedente' = [precedente EXCEPT ![e] = garde(@)]
     /\ suivante' = [suivante EXCEPT ![e] = garde(@)]
     /\ \E envois \in {{}} \cup (IF c # Nulle /\ utilisable(e, c) THEN {Suivant(e, c)} ELSE {}) :
          \/ Tenter(e, table, envois)
          \/ ~aOuvrir /\ SansPoignee(e, table, envois)
     /\ attente' \in {attente} \cup
          (IF poignee[e] # Nulle THEN {[attente EXCEPT ![e] = 0]} ELSE {})
     /\ UNCHANGED <<temps, dernierHorodatage, recus, enCours, vie, lieu, point>>

\* The process of e starts again: Nouveau, then DefinirPairs.  Only its keys
\* and its clock survive.
Redemarrer(e) ==
  /\ vie[e] < MaxVies[e]
  /\ vie' = [vie EXCEPT ![e] = @ + 1]
  /\ courante' = [courante EXCEPT ![e] = Nulle]
  /\ precedente' = [precedente EXCEPT ![e] = Nulle]
  /\ suivante' = [suivante EXCEPT ![e] = Nulle]
  /\ poignee' = [poignee EXCEPT ![e] = Nulle]
  /\ dernierHorodatage' = [dernierHorodatage EXCEPT ![e] = 0]
  /\ attente' = [attente EXCEPT ![e] = 0]
  /\ indices' = [indices EXCEPT ![e] = {}]
  /\ recus' = [recus EXCEPT ![e] = {}]
  /\ enCours' = [enCours EXCEPT ![e] = Nulle]
  /\ point' = IF ParRelais \/ e \in Actifs THEN point ELSE Nulle
  /\ UNCHANGED <<temps, horloge, lieu, reseau>>

\* The device changes network.
Deplacer ==
  /\ ~ParRelais
  /\ lieu' \in Lieux \ {lieu}
  /\ UNCHANGED <<temps, courante, precedente, suivante, poignee, dernierHorodatage, attente,
                 indices, recus, enCours, horloge, vie, point, reseau>>

Tic ==
  /\ temps < MaxTemps
  /\ temps' = temps + 1
  /\ UNCHANGED <<courante, precedente, suivante, poignee, dernierHorodatage, attente,
                 indices, recus, enCours, horloge, vie, lieu, point, reseau>>

Bout(e) ==
  \/ EnvoyerClair(e)
  \/ RecevoirInitiation(e)
  \/ RecevoirReponse(e)
  \/ DebutDonnees(e)
  \/ FinDonnees(e)
  \/ Minuterie(e)
  \/ Redemarrer(e)

Next == Tic \/ Deplacer \/ \E e \in Bouts : Bout(e)

Spec == Init /\ [][Next]_vars

-----------------------------------------------------------------------------
(* Properties. *)

Tenues(e) == {s \in {courante[e], precedente[e], suivante[e]} : s # Nulle}

\* The table of indices names exactly the sessions and the handshake the pair
\* holds, each under an index of its own: none is out of reach, none is left
\* behind (reserverIndice and the deletes of moteur.go:171-184, 427-432,
\* 593-598, 646-650, 730-734, 863-870).
IndicesExacts ==
  \A e \in Bouts :
    LET places == {k \in 1 .. 3 : Places(e)[k] # Nulle}
        locales == {Places(e)[k].locale : k \in places}
        enAttente == IF poignee[e] = Nulle THEN {} ELSE {poignee[e].indice}
    IN /\ indices[e] = locales \cup enAttente
       /\ Cardinality(indices[e]) = Cardinality(places) + Cardinality(enAttente)

\* An end that answered a handshake seals nothing with it before the one that
\* initiated has the same keys: a session it answered for is its current or
\* previous one only once the other end has sealed something with it
\* (moteur.go:604-606, docs/protocole.md:70).
RepondeurConfirme ==
  \A e \in Bouts : \A s \in {courante[e], precedente[e]} \ {Nulle} :
    ~s.initiateur => \E m \in reseau : m.type = "donnees" /\ m.de = Autre(e) /\ m.cle = s.cle

\* Both ends of one handshake agree on it: opposite roles, and the index each
\* writes in its messages is the one the other looks up.
Accord ==
  \A e \in Bouts : \A s \in Tenues(e), t \in Tenues(Autre(e)) :
    s.cle = t.cle =>
      /\ s.locale = t.distante /\ s.distante = t.locale
      /\ s.initiateur = ~t.initiateur

\* An initiation is answered at most once by a running engine, however often
\* the network repeats it and whatever came in between (moteur.go:583-588).
InitiationUneFois ==
  \A m1, m2 \in {m \in reseau : m.type = "reponse"} :
    /\ m1.de = m2.de /\ m1.vie = m2.vie
    /\ m1.cle.par = m2.cle.par /\ m1.cle.horo = m2.cle.horo
    => m1 = m2

\* A late or repeated message never takes an end back to an older handshake of
\* the same initiator than the one it uses.
SansRetour ==
  [][\A e \in Bouts :
       courante[e] # Nulle /\ courante'[e] # Nulle /\ courante'[e] # courante[e]
         /\ courante'[e].cle.par = courante[e].cle.par
       => courante'[e].cle.horo > courante[e].cle.horo]_vars

\* The end that learns an address has one as soon as it has a session to
\* answer with: what it sends leaves for somewhere the other end has been.
PointConnu ==
  \A e \in Bouts \ Actifs : ~ParRelais /\ Tenues(e) # {} => point # Nulle

\* The keys of a session, those e has sealed data with, those answered for.
Cle(s) == IF s = Nulle THEN Nulle ELSE s.cle
Scellees(e) == {m.cle : m \in {d \in reseau : d.type = "donnees" /\ d.de = e}}
Repondues == {m.cle : m \in {r \in reseau : r.type = "reponse"}}

\* The engines keep the promises of TunnelIdeal: no end takes into use keys it
\* has already sealed with, whatever is repeated and whoever restarts
\* (session.go:25-29, moteur.go:636-652, 729-737).
Ideal == INSTANCE TunnelIdeal WITH
           courante <- [e \in Bouts |-> Cle(courante[e])],
           precedente <- [e \in Bouts |-> Cle(precedente[e])],
           suivante <- [e \in Bouts |-> Cle(suivante[e])],
           repondues <- Repondues,
           scellees <- [e \in Bouts |-> Scellees(e)]
Entente == Ideal!Spec
=============================================================================
