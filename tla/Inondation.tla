----------------------------- MODULE Inondation -----------------------------
(***************************************************************************)
(* The protection against floods (internal/tunnel/cookie.go and what       *)
(* moteur.go does with it): one device that opens a session directly with  *)
(* the server while others keep it under load.                             *)
(*                                                                         *)
(* Under load the server takes an initiation only with the cookie that it  *)
(* gave to its source, and ten a second from one network.  Only the last   *)
(* initiation of the device and its answer are kept: an earlier one counts *)
(* as somebody else's.  The load is the sum of everybody's initiations:    *)
(* whether it passes the threshold is free.                                *)
(***************************************************************************)
EXTENDS Naturals, FiniteSets

CONSTANTS
    Adresses,   \* the networks: those who share one share its bucket
    Lieux,      \* where the device may be
    Duree,      \* dureeCookie
    Abandon,    \* abandonnerApres
    Relance,    \* relancerApres
    Plein,      \* jetonsMax, one token coming back at each instant
    Inactif,    \* what a full table forgets: one second
    Menage,     \* what the timer forgets: one minute
    MaxSeaux,   \* buckets in the table
    MaxTemps,   \* bound: instants
    Absent      \* nothing, and the zero date

\* The timer runs at each instant: a series of attempts is over before a secret
\* lasts its time.  An idle bucket is forgotten before it is full when the table
\* is, not by the timer.
ASSUME InondationAssumption ==
    /\ Lieux \subseteq Adresses
    /\ Duree \in Nat /\ Abandon \in Nat /\ Relance \in Nat /\ MaxTemps \in Nat
    /\ Abandon + 1 < Duree
    /\ Plein \in Nat \ {0} /\ Inactif \in Nat /\ Menage \in Nat /\ MaxSeaux \in Nat
    /\ Inactif + 1 <= Plein /\ Plein <= Menage

Temps == 0 .. MaxTemps
Cookies == [secret : Nat, adresse : Adresses]
Seaux == [jetons : 0 .. Plein, vu : Temps]
Initiations == [point : Adresses, cookie : Cookies \cup {Absent}]
\* cookie: Absent in the answer that opens the session.
Reponses == [point : Adresses, cookie : Cookies \cup {Absent}]

ASSUME AbsentAssumption ==
    /\ Absent \notin Temps /\ Absent \notin Cookies /\ Absent \notin Seaux
    /\ Absent \notin Initiations /\ Absent \notin Reponses

VARIABLES
    maintenant,
    secret, tourne,  \* fabrique: which secret it is at, and since when
    seaux,           \* limiteur
    adresse,         \* where the device is
    poignee,         \* it has a handshake under way
    derniere,        \* derniereTentative
    debut,           \* debutTentatives
    cookie, recu,    \* cookie and cookieRecu
    vol, retour,     \* its last initiation and the answer to it, on their way
    refus,           \* history: answers with a cookie it took in this series, here
    vise, depuis,    \* history: a network, and the start of a window
    passes, oublie   \* history: what it passed in it; its bucket was forgotten too early

fabrique == <<secret, tourne>>
client == <<adresse, poignee, derniere, debut, cookie, recu>>
chemin == <<vol, retour>>
fenetre == <<vise, depuis, passes, oublie>>
vars == <<maintenant, fabrique, seaux, client, chemin, refus, fenetre>>

TypeOK ==
    /\ maintenant \in Temps
    /\ secret \in Nat /\ tourne \in Temps \cup {Absent}
    /\ seaux \in [Adresses -> Seaux \cup {Absent}]
    /\ adresse \in Lieux /\ poignee \in BOOLEAN
    /\ derniere \in Temps \cup {Absent} /\ debut \in Temps \cup {Absent}
    /\ cookie \in Cookies \cup {Absent} /\ recu \in Temps \cup {Absent}
    /\ vol \in Initiations \cup {Absent} /\ retour \in Reponses \cup {Absent}
    /\ refus \in Nat
    /\ vise \in Adresses /\ depuis \in Temps /\ passes \in Nat /\ oublie \in BOOLEAN

Init ==
    /\ maintenant = 0
    /\ secret = 0 /\ tourne = Absent
    /\ seaux = [a \in Adresses |-> Absent]
    /\ adresse \in Lieux /\ poignee = FALSE
    /\ derniere = Absent /\ debut = Absent /\ cookie = Absent /\ recu = Absent
    /\ vol = Absent /\ retour = Absent
    /\ refus = 0
    /\ vise \in Adresses /\ depuis = 0 /\ passes = 0 /\ oublie = FALSE

-----------------------------------------------------------------------------
(* The device *)

\* The cookie is joined for as long as a secret may last.
Joint == IF recu # Absent /\ maintenant - recu < Duree THEN cookie ELSE Absent

lancerPoignee ==
    /\ poignee /\ derniere # Absent => maintenant - derniere >= Relance
    /\ poignee' = TRUE /\ derniere' = maintenant
    /\ debut' = IF debut = Absent THEN maintenant ELSE debut
    /\ refus' = IF debut = Absent THEN 0 ELSE refus
    /\ vol' = [point |-> adresse, cookie |-> Joint] /\ retour' = Absent
    /\ UNCHANGED <<maintenant, fabrique, seaux, adresse, cookie, recu, fenetre>>

\* It expects an answer to this very initiation; the next attempt does not wait.
recevoirCookie ==
    /\ retour # Absent /\ retour.cookie # Absent /\ retour.point = adresse /\ poignee
    /\ cookie' = retour.cookie /\ recu' = maintenant
    /\ derniere' = Absent
    /\ refus' = IF debut = Absent THEN 0 ELSE refus + 1
    /\ retour' = Absent
    /\ UNCHANGED <<maintenant, fabrique, seaux, adresse, poignee, debut, vol, fenetre>>

recevoirReponse ==
    /\ retour # Absent /\ retour.cookie = Absent /\ retour.point = adresse /\ poignee
    /\ poignee' = FALSE /\ debut' = Absent
    /\ retour' = Absent
    /\ UNCHANGED <<maintenant, fabrique, seaux, adresse, derniere, cookie, recu, vol, refus, fenetre>>

\* The timer gives the series up; the handshake stays under way.
Trop == debut # Absent /\ maintenant - debut > Abandon
Abandonner ==
    /\ Trop
    /\ debut' = Absent
    /\ UNCHANGED <<maintenant, fabrique, seaux, adresse, poignee, derniere, cookie, recu, chemin,
                   refus, fenetre>>

\* The device changes network: answers to the former place are lost on it.
Deplacer(a) ==
    /\ a # adresse
    /\ adresse' = a /\ refus' = 0
    /\ UNCHANGED <<maintenant, fabrique, seaux, poignee, derniere, debut, cookie, recu, chemin,
                   fenetre>>

-----------------------------------------------------------------------------
(* The buckets *)

\* What a bucket holds now.  One that is not in the table is full.
Recharge(s) == s.jetons + (maintenant - s.vu)
JetonsSansPlafond(s) == Recharge(s)
Jetons(s) == IF Recharge(s) < Plein THEN Recharge(s) ELSE Plein
Contenu(a) == IF seaux[a] = Absent THEN Plein ELSE Jetons(seaux[a])

Oublier(delai) ==
    [a \in Adresses |-> IF seaux[a] # Absent /\ maintenant - seaux[a].vu > delai
                        THEN Absent ELSE seaux[a]]
Pleine(t) == Cardinality({a \in Adresses : t[a] # Absent}) >= MaxSeaux
Table(a) == IF seaux[a] = Absent /\ Pleine(seaux) THEN Oublier(Inactif) ELSE seaux

Place(a) == seaux[a] # Absent \/ ~Pleine(Table(a))
autoriser(a) == Place(a) /\ Contenu(a) >= 1

\* autoriser, with the table it leaves behind.
Debiter(a) ==
    /\ seaux' = IF ~Place(a) THEN Table(a)
                ELSE [Table(a) EXCEPT ![a] =
                        [jetons |-> IF Contenu(a) >= 1 THEN Contenu(a) - 1 ELSE 0,
                         vu |-> maintenant]]
    /\ passes' = IF a = vise /\ autoriser(a) THEN passes + 1 ELSE passes
    /\ oublie' = (oublie \/ (/\ seaux[vise] # Absent /\ Table(a)[vise] = Absent
                             /\ Contenu(vise) < Plein))
    /\ UNCHANGED <<vise, depuis>>

Nettoyer ==
    /\ seaux' = Oublier(Menage)
    /\ UNCHANGED <<maintenant, fabrique, client, chemin, refus, fenetre>>

-----------------------------------------------------------------------------
(* The server *)

\* A new secret when one is needed and the last is too old.
Perime == tourne = Absent \/ maintenant - tourne > Duree
SecretCourant == IF Perime THEN secret + 1 ELSE secret
TourneSansDate == tourne
TourneCourant == IF Perime THEN maintenant ELSE tourne
Tourner == secret' = SecretCourant /\ tourne' = TourneCourant

Attendu(a) == [secret |-> SecretCourant, adresse |-> a]

Repondre(c) == retour' = [point |-> vol.point, cookie |-> c] /\ vol' = Absent

\* Not under load: it goes on to the handshake.
RecevoirCalme ==
    /\ vol # Absent
    /\ Repondre(Absent)
    /\ UNCHANGED <<maintenant, fabrique, seaux, client, refus, fenetre>>

\* Under load: a cookie, unless it already bears it; then the rate decides.
RecevoirSansPreuve ==
    /\ vol # Absent /\ vol.cookie # Attendu(vol.point)
    /\ Tourner /\ Repondre(Attendu(vol.point))
    /\ UNCHANGED <<maintenant, seaux, client, refus, fenetre>>

RecevoirPreuve ==
    /\ vol # Absent /\ vol.cookie = Attendu(vol.point)
    /\ Tourner /\ Debiter(vol.point)
    /\ IF autoriser(vol.point) THEN Repondre(Absent) ELSE vol' = Absent /\ UNCHANGED retour
    /\ UNCHANGED <<maintenant, client, refus>>

\* Somebody else's initiation under load: without a proof, or with one.
Autre ==
    /\ Tourner
    /\ UNCHANGED <<maintenant, seaux, client, chemin, refus, fenetre>>
AutrePreuve(a) ==
    /\ Tourner /\ Debiter(a)
    /\ UNCHANGED <<maintenant, client, chemin, refus>>

-----------------------------------------------------------------------------
(* The network and the clock *)

PerdreAller ==
    /\ vol # Absent /\ vol' = Absent
    /\ UNCHANGED <<maintenant, fabrique, seaux, client, retour, refus, fenetre>>

PerdreRetour ==
    /\ retour # Absent /\ retour' = Absent
    /\ UNCHANGED <<maintenant, fabrique, seaux, client, vol, refus, fenetre>>

\* History only: a window starts at any instant.
Observer ==
    /\ depuis' = maintenant' /\ passes' = 0 /\ oublie' = FALSE
    /\ UNCHANGED vise

\* The timer runs at least once an instant.
Tic ==
    /\ maintenant < MaxTemps /\ ~Trop
    /\ maintenant' = maintenant + 1
    /\ Observer \/ UNCHANGED fenetre
    /\ UNCHANGED <<fabrique, seaux, client, chemin, refus>>

Appareil ==
    \/ lancerPoignee \/ recevoirCookie \/ recevoirReponse \/ Abandonner
    \/ \E a \in Lieux : Deplacer(a)

Serveur ==
    \/ RecevoirCalme \/ RecevoirSansPreuve \/ RecevoirPreuve \/ Autre \/ Nettoyer
    \/ \E a \in Adresses : AutrePreuve(a)

Next == Appareil \/ Serveur \/ PerdreAller \/ PerdreRetour \/ Tic

Spec == Init /\ [][Next]_vars

-----------------------------------------------------------------------------
(* Properties *)

\* cookie.go, moteur.go: the secret changes whenever it is needed and too old,
\* between a refusal and the next attempt too; yet a device that takes the
\* cookies it is given is refused twice at most in one series of attempts, as
\* long as it does not move: abandonnerApres is shorter than dureeCookie.
DeuxRefus == refus <= 2

\* limiteur: in any window a network passes twenty plus ten a second, if its
\* bucket was not forgotten before it was full; and never more than twenty at
\* once and twenty each time a full table may forget it.
DebitBorne ==
    LET duree == maintenant - depuis
    IN IF ~oublie THEN passes <= Plein + duree
       ELSE passes * (Inactif + 1) <= Plein * (Inactif + 1) + duree * Plein
=============================================================================
