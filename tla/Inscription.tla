----------------------------- MODULE Inscription -----------------------------
(***************************************************************************)
(* Who gets into the network, and as what: connexion of                    *)
(* internal/serveur/api.go, Enregistrer and what is around it in           *)
(* internal/base/base.go, the replay cache of internal/protocole/preuve.go *)
(* and the invitations of internal/serveur/admin.go.                       *)
(*                                                                         *)
(* HTTP handlers run side by side (Traitements); each takes any request at *)
(* any time, the same one again included: a client, Nginx or the network   *)
(* may send it twice.  A request (Demandes) is a fixed record: its proof   *)
(* covers all of it, so that its name stands for its proof.                *)
(*                                                                         *)
(* Enregistrer is one transaction that holds the write lock from its       *)
(* start, here one step.  Its only outside input, the team, is read inside *)
(* it; what a change between that reading and the commit does is in        *)
(* Synchro.                                                                *)
(***************************************************************************)
EXTENDS Integers, FiniteSets, FiniteSetsExt

CONSTANTS
  Traitements,     \* handlers
  Demandes,        \* requests
  Demande,         \* what each says: cle, nom, horodatage, and email and sub,
                   \* or invitation
  Invitations,     \* single-use keys
  Invitation,      \* what each is for: utilisateur or etiquette, nom
  Personnes,       \* emails
  Aucun,           \* the empty string
  Nulle,           \* nil
  NbAdresses,      \* addresses of the network that may be given, in order
  AdresseServeur,  \* the one of the server
  Reserves,        \* NomsReserves
  FenetrePreuve,   \* five minutes in the code
  MaxCles,         \* maxInvitations, 50 in the code
  MaxNumeros,      \* math.MaxUint32 in the code
  MaxTemps,        \* bound on the clock
  MaxServies       \* bound on the successes of a request

ASSUME NombresAssumption ==
  /\ NbAdresses \in Nat \ {0} /\ AdresseServeur \in 1 .. NbAdresses
  /\ {FenetrePreuve, MaxCles, MaxNumeros, MaxTemps, MaxServies} \subseteq Nat
\* A request comes with a Google account or with a key, not with both
\* (api.go:140-163); verifierGoogle refuses an account with no email or no sub
\* (serveur.go:506).
ASSUME DemandesAssumption ==
  /\ IsFiniteSet(Demandes)
  /\ \A d \in Demandes :
       /\ Demande[d].horodatage \in Nat
       /\ (Demande[d].email = Aucun) <=> (Demande[d].invitation # Aucun)
       /\ Demande[d].email \in Personnes \cup {Aucun}
       /\ Demande[d].invitation \in Invitations \cup {Aucun}
       /\ Demande[d].email # Aucun => Demande[d].sub # Nulle
ASSUME InvitationsAssumption ==
  \A i \in Invitations : Invitation[i].utilisateur \in Personnes \cup {Aucun}
ASSUME AbsentsAssumption == Aucun \notin Personnes \cup Invitations /\ Nulle \notin Nat

VARIABLES
  base,        \* table appareils
  prochain,    \* the next AUTOINCREMENT value
  derniere,    \* reglages.derniere_adresse, 0 for none
  comptes,     \* table comptes: the sub of each email
  cles,        \* table cles
  perimees,    \* invitations whose expiry is behind
  vues,        \* Rejeux.vues: when each proof was kept
  traitement,  \* what each handler is doing
  enCreation,  \* invitation handlers past ClesVivantes
  equipe,      \* the team
  maintenant,  \* the clock
  usages,      \* history: registrations with each invitation
  annulees,    \* history: invitations cancelled
  creees,      \* history: invitations created
  servies,     \* history: registrations by each request
  retenues,    \* history: requests whose handler is done, since the start
  acceptes,    \* history: the Google accounts registered, by email
  parcouru     \* history: addresses given or taken since each one was last given

tables == <<base, prochain, derniere, comptes, cles>>
histoires == <<usages, annulees, creees, servies, retenues, acceptes, parcouru>>
vars == <<tables, perimees, vues, traitement, enCreation, equipe, maintenant, histoires>>

Adresses == 1 .. NbAdresses
Repos == [etape |-> "repos"]

Inscrit(d) == Demande[d].invitation # Aucun
Proprietaire(d) ==
  IF Inscrit(d) THEN Invitation[Demande[d].invitation].utilisateur ELSE Demande[d].email
Etiquette(d) == IF Inscrit(d) THEN Invitation[Demande[d].invitation].etiquette ELSE Aucun
Racine(d) ==
  IF Etiquette(d) # Aucun THEN Invitation[Demande[d].invitation].nom ELSE Demande[d].nom

Racines == {Racine(d) : d \in Demandes}
Fiches ==
  [num : 1 .. MaxNumeros, cle : {Demande[d].cle : d \in Demandes}, adresse : Adresses,
   nom : Racines \X (1 .. Cardinality(Demandes)), proprietaire : Personnes \cup {Aucun},
   etiquette : {Etiquette(d) : d \in Demandes}]

TypeOK ==
  /\ base \subseteq Fiches
  /\ prochain \in 1 .. MaxNumeros + 1
  /\ derniere \in 0 .. NbAdresses
  /\ comptes \in [Personnes -> {Nulle} \cup {Demande[d].sub : d \in Demandes}]
  /\ cles \subseteq Invitations /\ perimees \subseteq Invitations
  /\ vues \in [Demandes -> {Nulle} \cup (0 .. MaxTemps)]
  /\ traitement \in [Traitements -> {Repos} \cup
       [etape : {"lier", "verifier", "enregistrer", "retenir"}, d : Demandes, recue : 0 .. MaxTemps]]
  /\ enCreation \subseteq Invitations
  /\ equipe \subseteq Personnes
  /\ maintenant \in 0 .. MaxTemps
  /\ usages \in [Invitations -> Nat] /\ servies \in [Demandes -> Nat]
  /\ retenues \subseteq Demandes
  /\ annulees \subseteq Invitations /\ creees \subseteq Invitations

Init ==
  /\ base = {} /\ prochain = 1 /\ derniere = 0
  /\ comptes = [p \in Personnes |-> Nulle]
  /\ cles = {} /\ perimees = {}
  /\ vues = [d \in Demandes |-> Nulle]
  /\ traitement = [t \in Traitements |-> Repos]
  /\ enCreation = {}
  /\ equipe = Personnes
  /\ maintenant = 0
  /\ usages = [i \in Invitations |-> 0]
  /\ annulees = {} /\ creees = {}
  /\ servies = [d \in Demandes |-> 0]
  /\ retenues = {}
  /\ acceptes = [p \in Personnes |-> {}]
  /\ parcouru = [a \in Adresses |-> Adresses]

-----------------------------------------------------------------------------
(* The proof and its replay cache. *)

\* VerifierPreuve, for a request that was not altered.
Actuelle(d) ==
  LET ecart == maintenant - Demande[d].horodatage IN
  ecart <= FenetrePreuve /\ ecart >= -FenetrePreuve

\* Mutant: they are kept for one window only.
UneFenetre ==
  [d \in Demandes |->
     IF vues[d] # Nulle /\ maintenant - vues[d] > FenetrePreuve THEN Nulle ELSE vues[d]]

\* DejaVue forgets the proofs kept for more than two windows.
Gardees ==
  [d \in Demandes |->
     IF vues[d] # Nulle /\ maintenant - vues[d] > 2 * FenetrePreuve THEN Nulle ELSE vues[d]]

Passe(t, etape) == traitement' = [traitement EXCEPT ![t].etape = etape]
Finit(t) == traitement' = [traitement EXCEPT ![t] = Repos]

\* connexion up to the credentials.  A refusal has no effect but on vues.
Recevoir(t, d) ==
  /\ traitement[t] = Repos
  /\ servies[d] < MaxServies
  /\ Actuelle(d)
  /\ vues' = Gardees
  /\ vues'[d] = Nulle
  /\ Inscrit(d) \/ Proprietaire(d) \in equipe
  /\ traitement' = [traitement EXCEPT ![t] =
       [etape |-> IF Inscrit(d) THEN "enregistrer" ELSE "lier", d |-> d, recue |-> maintenant]]
  /\ UNCHANGED <<tables, perimees, enCreation, equipe, maintenant, histoires>>

\* Mutant: ON CONFLICT DO UPDATE.
LieSansConflit(d) == comptes' = [comptes EXCEPT ![d.email] = d.sub]

\* The first sub an email comes with stays.
Lie(d) ==
  comptes' = IF comptes[d.email] = Nulle THEN [comptes EXCEPT ![d.email] = d.sub] ELSE comptes

\* LierCompte, its INSERT ... ON CONFLICT DO NOTHING.
Lier(t) ==
  /\ traitement[t].etape = "lier"
  /\ Lie(Demande[traitement[t].d])
  /\ Passe(t, "verifier")
  /\ UNCHANGED <<base, prochain, derniere, cles, perimees, vues, enCreation, equipe, maintenant, histoires>>

\* LierCompte, its SELECT.
Verifier(t) ==
  /\ traitement[t].etape = "verifier"
  /\ LET d == Demande[traitement[t].d] IN
     IF comptes[d.email] = d.sub THEN Passe(t, "enregistrer") ELSE Finit(t)
  /\ UNCHANGED <<tables, perimees, vues, enCreation, equipe, maintenant, histoires>>

-----------------------------------------------------------------------------
(* Enregistrer. *)

\* Mutant: the addresses of the table are not read.
SansLire == {AdresseServeur}

\* What adresseLibre may not give.
Prises == {AdresseServeur} \cup {f.adresse : f \in base}
Libres == Adresses \ Prises

\* How far round the ring an address is from the last one given.
Pas(a) == (a - derniere - 1) % NbAdresses

\* Mutant: the first free one of the network.
PremiereLibre == CHOOSE a \in Libres : \A b \in Libres : a <= b

\* adresseLibre: the first free one after the last one given.
adresseLibre == CHOOSE a \in Libres : \A b \in Libres : Pas(a) <= Pas(b)

Pris(nom) == \E f \in base : f.nom = nom

\* choisirNom: a machine has the name its key says or none, a person the first
\* number that is free.
NomsPossibles(d) ==
  IF Etiquette(d) # Aucun
  THEN {<<Racine(d), 1>>} \ {nom \in {<<Racine(d), 1>>} : Pris(nom) \/ Racine(d) \in Reserves}
  ELSE {<<Racine(d), Min({i \in 1 .. Cardinality(Demandes) : ~Pris(<<Racine(d), i>>)})>>}

\* The key of the request is there and alive, its owner in the team.
Recevable(d) ==
  /\ Inscrit(d) => Demande[d].invitation \in cles \ perimees
  /\ Proprietaire(d) \in equipe \cup {Aucun}

\* A key already there keeps its line: owner and label must be the same.
MettreAJour(d) ==
  /\ \E f \in base : /\ f.cle = Demande[d].cle
                     /\ f.proprietaire = Proprietaire(d)
                     /\ f.etiquette = Etiquette(d)
  /\ UNCHANGED <<base, prochain, derniere, parcouru>>

\* Mutant: the check of the number against math.MaxUint32 is left out.
SansBorne == TRUE

\* The number still fits.
NumeroRestant == prochain <= MaxNumeros

\* Mutant: a number as SQLite gives it without AUTOINCREMENT.
NumeroReutilise == IF base = {} THEN 1 ELSE 1 + Max({f.num : f \in base})

\* AUTOINCREMENT.
Numero == prochain

\* A new key: an address, a name, a number.
Inserer(d) ==
  /\ \A f \in base : f.cle # Demande[d].cle
  /\ Libres # {} /\ NumeroRestant
  /\ \E nom \in NomsPossibles(d) :
       base' = base \cup {[num |-> Numero, cle |-> Demande[d].cle, adresse |-> adresseLibre,
                           nom |-> nom, proprietaire |-> Proprietaire(d),
                           etiquette |-> Etiquette(d)]}
  /\ prochain' = prochain + 1
  /\ derniere' = adresseLibre
  /\ parcouru' = [a \in Adresses |->
       IF a = adresseLibre THEN {} ELSE parcouru[a] \cup Prises \cup {adresseLibre}]

\* What a registration that goes through does to the keys.
Consommer(d) == cles' = IF Inscrit(d) THEN cles \ {Demande[d].invitation} ELSE cles

\* Mutant: the key is erased before the transaction.
RefuserSansRendre(d) ==
  Consommer(d) /\ UNCHANGED <<base, prochain, derniere, comptes, usages, servies, acceptes, parcouru>>

\* Any refusal rolls everything back, the consumption of the key included.
Refuser(d) ==
  d \in Demandes /\ UNCHANGED <<tables, usages, servies, acceptes, parcouru>>

Enregistrer(t) ==
  LET d == traitement[t].d IN
  /\ traitement[t].etape = "enregistrer"
  /\ \/ /\ Recevable(d)
        /\ MettreAJour(d) \/ Inserer(d)
        /\ Consommer(d)
        /\ usages' = IF Inscrit(d) THEN [usages EXCEPT ![Demande[d].invitation] = @ + 1] ELSE usages
        /\ acceptes' = IF Inscrit(d) THEN acceptes
                       ELSE [acceptes EXCEPT ![Demande[d].email] = @ \cup {Demande[d].sub}]
        /\ servies' = [servies EXCEPT ![d] = @ + 1]
        /\ UNCHANGED comptes
        /\ Passe(t, "retenir")
     \/ /\ Refuser(d)
        /\ Finit(t)
  /\ UNCHANGED <<perimees, vues, enCreation, equipe, maintenant, annulees, creees, retenues>>

\* Retenir, with the time of the reception; then Synchroniser, and the answer.
Retenir(t) ==
  /\ traitement[t].etape = "retenir"
  /\ vues' = [vues EXCEPT ![traitement[t].d] = traitement[t].recue]
  /\ retenues' = retenues \cup {traitement[t].d}
  /\ Finit(t)
  /\ UNCHANGED <<tables, perimees, enCreation, equipe, maintenant, usages, annulees, creees,
                 servies, acceptes, parcouru>>

-----------------------------------------------------------------------------
(* The invitations. *)

\* invitation: the person is in the team and there is room.
Inviter(i) ==
  /\ i \notin creees \cup enCreation
  /\ Invitation[i].utilisateur \in equipe \cup {Aucun}
  /\ Cardinality(cles \ perimees) < MaxCles
  /\ enCreation' = enCreation \cup {i}
  /\ UNCHANGED <<tables, perimees, vues, traitement, equipe, maintenant, histoires>>

\* CreerInvitation, which first clears the expired ones.
CreerInvitation(i) ==
  /\ i \in enCreation
  /\ cles' = (cles \ perimees) \cup {i}
  /\ creees' = creees \cup {i}
  /\ enCreation' = enCreation \ {i}
  /\ UNCHANGED <<base, prochain, derniere, comptes, perimees, vues, traitement, equipe,
                 maintenant, usages, annulees, servies, retenues, acceptes, parcouru>>

AnnulerInvitation(i) ==
  /\ i \in cles \ perimees
  /\ cles' = cles \ {i}
  /\ annulees' = annulees \cup {i}
  /\ UNCHANGED <<base, prochain, derniere, comptes, perimees, vues, traitement, enCreation, equipe,
                 maintenant, usages, creees, servies, retenues, acceptes, parcouru>>

-----------------------------------------------------------------------------
(* The rest of the system. *)

\* The expiry of an invitation passes.
Perimer(i) ==
  /\ i \in creees \ perimees
  /\ perimees' = perimees \cup {i}
  /\ UNCHANGED <<tables, vues, traitement, enCreation, equipe, maintenant, histoires>>

\* retrait, deconnexion, Synchroniser.
Supprimer(f) ==
  /\ base' = base \ {f}
  /\ UNCHANGED <<prochain, derniere, comptes, cles, perimees, vues, traitement, enCreation, equipe,
                 maintenant, histoires>>

ChangerEquipe ==
  /\ equipe' \in (SUBSET Personnes) \ {equipe}
  /\ UNCHANGED <<tables, perimees, vues, traitement, enCreation, maintenant, histoires>>

Tic ==
  /\ maintenant < MaxTemps
  /\ maintenant' = maintenant + 1
  /\ UNCHANGED <<tables, perimees, vues, traitement, enCreation, equipe, histoires>>

\* sasd starts again: the cache is in memory, the tables are not.
Redemarrer ==
  /\ vues' = [d \in Demandes |-> Nulle]
  /\ traitement' = [t \in Traitements |-> Repos]
  /\ enCreation' = {}
  /\ retenues' = {}
  /\ UNCHANGED <<tables, perimees, equipe, maintenant, usages, annulees, creees, servies, acceptes,
                 parcouru>>

Next ==
  \/ \E t \in Traitements :
       \/ \E d \in Demandes : Recevoir(t, d)
       \/ Lier(t) \/ Verifier(t) \/ Enregistrer(t) \/ Retenir(t)
  \/ \E i \in Invitations :
       Inviter(i) \/ CreerInvitation(i) \/ AnnulerInvitation(i) \/ Perimer(i)
  \/ \E f \in base : Supprimer(f)
  \/ ChangerEquipe \/ Tic \/ Redemarrer

Spec == Init /\ [][Next]_vars

-----------------------------------------------------------------------------
(* Properties. *)

\* A single-use key registers one device at most, and none once cancelled,
\* even for a request already on its way when it was; and no refusal costs it:
\* a key that was created and neither used, cancelled nor expired is still
\* there (base.go:256-257, 276-286, 514-516).
CleUneFois ==
  /\ \A i \in Invitations : usages[i] <= 1 /\ (i \in annulees => usages[i] = 0)
  /\ \A i \in creees : usages[i] = 0 /\ i \notin annulees \cup perimees => i \in cles

\* Two lines never share an address, a name or a key, nor have the address of
\* the server or, for a machine, a reserved name (base.go:35-38, 351-432).
SansCollision ==
  /\ \A f, g \in base : f # g =>
       f.adresse # g.adresse /\ f.nom # g.nom /\ f.cle # g.cle /\ f.num # g.num
  /\ \A f \in base : f.adresse # AdresseServeur /\ (f.etiquette # Aucun => f.nom[1] \notin Reserves)

\* An address that was given is given again only once every other one was
\* given or taken since, so that a peer with old rules does not apply them to
\* the next device (base.go:385-388).
TourComplet ==
  [][\A f \in base' \ base :
       parcouru[f.adresse] \cup Prises \cup {f.adresse} = Adresses]_vars

\* A line never changes hands, address or key: what enters the table is a new
\* key under a number no line ever had, erased ones included (base.go:65-67, 303-309).
LigneStable ==
  [][\A g \in base' \ base : g.num >= prochain /\ \A f \in base : f.cle # g.cle]_vars

\* One Google account for each email that ever registered, however the
\* handlers of two accounts interleave in LierCompte (base.go:549-553).
CompteUnique == \A p \in Personnes : Cardinality(acceptes[p]) <= 1

\* Once a handler has retained a proof, no later one of the same run takes it
\* again: the cache keeps it at least as long as its date is accepted, at the
\* edges of the window too (preuve.go:33-36, 96-126).  A restart empties the
\* cache, which is in memory: the history starts afresh with it.
JamaisRepris ==
  [][\A t \in Traitements : traitement[t] = Repos /\ traitement'[t] # Repos
       => traitement'[t].d \notin retenues]_vars
=============================================================================
