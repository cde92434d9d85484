----------------------------- MODULE Certificats -----------------------------
(***************************************************************************)
(* The certificates of a network with a lock, from the row of a device to  *)
(* the rules of its engine (internal/serveur, internal/client,             *)
(* pont/admin.go, cmd/sas, cmd/sasd).                                      *)
(*                                                                         *)
(* The administrator signs what the server lists of a device, on his phone *)
(* or on the computer that holds the key of the lock.  The server imports  *)
(* what was signed, and relays between the devices that the policy binds;  *)
(* each device computes its own rules from the certificates of its peers.  *)
(* A signature is its certificate: it verifies on these fields only.       *)
(***************************************************************************)
EXTENDS Politique, FiniteSets

CONSTANTS
    Cles,             \* public keys of the devices
    Depart,           \* teams to start from
    Invites,          \* who may register with which key
    Rang,             \* of the name of a device, which orders the rows
    Admins,           \* the group "admins"
    Politiques,       \* signed policies
    Duree,            \* of a certificate
    MaxTemps,         \* bound: instants
    MaxInscriptions,  \* bound: rows ever inserted
    MaxSignes,        \* bound: certificates ever signed
    MaxEvenements,    \* bound: registrations, removals, changes of the team, revocations, instants
    Absent            \* no row, no certificate, no screen, no import

\* Addresses are given in turn: within the bound nobody is given one again.
ASSUME CertificatsAssumption ==
    /\ MaxInscriptions \in Nat /\ Adresses = 1 .. MaxInscriptions /\ Serveur = 0
    /\ Rang \in [Cles -> Nat] /\ \A j, k \in Cles : Rang[j] = Rang[k] => j = k
    /\ Admins \in Groupes /\ Politiques \subseteq SUBSET Regles
    /\ Duree \in Nat \ {0} /\ MaxTemps \in Nat /\ MaxSignes \in Nat /\ MaxEvenements \in Nat

\* Some devices have a last one.
ASSUME RangAssumption ==
    \A J \in SUBSET Cles : J # {} => \E j \in J : \A i \in J : Rang[i] <= Rang[j]

\* A device belongs to a person or carries a label.
LesQui == [proprietaire : Personnes, etiquette : {Vide}]
            \cup [proprietaire : {Vide}, etiquette : Etiquettes]
Temps == 0 .. MaxTemps
ASSUME DepartAssumption == Invites \subseteq Cles \X LesQui /\ Depart \subseteq Equipes

Certs == [cle : Cles, adresse : Adresses, qui : LesQui, groupe : Groupes \cup {Vide},
          expire : 0 .. MaxTemps + Duree]
Fiches == [adresse : Adresses, qui : LesQui, cert : Certs \cup {Absent}]
Lues == [adresse : Adresses, qui : LesQui]
Ecrans == [cle : Cles, adresse : Adresses, qui : LesQui,
           groupe : Groupes \cup {Vide}]

ASSUME AbsentAssumption ==
    Absent \notin Certs /\ Absent \notin Fiches /\ Absent \notin Ecrans
      /\ Absent \notin Lues /\ Absent \notin [Cles -> Lues \cup {Absent}]

VARIABLES
    fiches,      \* the rows of the table, by key
    prochaine,   \* the next address
    equipe, pol, \* equipe.txt, and the policy
    revoquees,   \* the keys that every list in force bans
    ecran,       \* the device that the host is about to sign, as it was listed
    signes,      \* the certificates signed so far, wherever they are kept
    import,      \* the rows as an import read them
    flux,        \* what the last Synchroniser compiled
    maintenant,
    evenements   \* bound: how many happened

lignes == <<fiches, prochaine>>
regles == <<equipe, pol, revoquees>>
temps == <<maintenant, evenements>>
vars == <<lignes, regles, ecran, signes, import, flux, temps>>

TypeOK ==
    /\ fiches \in [Cles -> Fiches \cup {Absent}]
    /\ prochaine \in 1 .. MaxInscriptions + 1
    /\ equipe \in Equipes /\ pol \in Politiques
    /\ revoquees \subseteq Cles
    /\ ecran \in Ecrans \cup {Absent}
    /\ signes \subseteq Certs
    /\ import \in [Cles -> Lues \cup {Absent}] \cup {Absent}
    /\ flux \subseteq LesFlux
    /\ maintenant \in Temps /\ evenements \in 0 .. MaxEvenements

Init ==
    /\ fiches = [k \in Cles |-> Absent] /\ prochaine = 1
    /\ equipe \in Depart /\ pol \in Politiques
    /\ revoquees = {} /\ ecran = Absent /\ signes = {} /\ import = Absent
    /\ flux = {} /\ maintenant = 0 /\ evenements = 0

Presents == {k \in Cles : fiches[k] # Absent}

\* The group the team gives to the owner of a row; none to a machine.
GroupeDe(qui) == IF qui.proprietaire = Vide THEN Vide ELSE equipe[qui.proprietaire]
HorsEquipe(qui) == qui.proprietaire # Vide /\ equipe[qui.proprietaire] = Vide

-----------------------------------------------------------------------------
(* Rows *)

Evenement == evenements < MaxEvenements /\ evenements' = evenements + 1

\* A key that is not registered takes the next address; registering it again
\* changes nothing here, under another owner is refused.
Inscrire(k, q) ==
    /\ fiches[k] = Absent /\ <<k, q>> \in Invites /\ ~HorsEquipe(q) /\ prochaine <= MaxInscriptions
    /\ fiches' = [fiches EXCEPT ![k] = [adresse |-> prochaine, qui |-> q, cert |-> Absent]]
    /\ prochaine' = prochaine + 1
    /\ Evenement
    /\ UNCHANGED <<regles, ecran, signes, import, flux, maintenant>>

\* The device leaves, expires, or an administrator removes it.
Supprimer(k) ==
    /\ fiches[k] # Absent
    /\ fiches' = [fiches EXCEPT ![k] = Absent]
    /\ Evenement
    /\ UNCHANGED <<prochaine, regles, ecran, signes, import, flux, maintenant>>

ChangerEquipe(u, g) ==
    /\ equipe[u] # g
    /\ equipe' = [equipe EXCEPT ![u] = g]
    /\ Evenement
    /\ UNCHANGED <<lignes, pol, revoquees, ecran, signes, import, flux, maintenant>>

Revoquer(k) ==
    /\ k \notin revoquees
    /\ revoquees' = revoquees \cup {k}
    /\ Evenement
    /\ UNCHANGED <<lignes, equipe, pol, ecran, signes, import, flux, maintenant>>

Tic ==
    /\ maintenant < MaxTemps
    /\ maintenant' = maintenant + 1
    /\ Evenement
    /\ UNCHANGED <<lignes, regles, ecran, signes, import, flux>>

-----------------------------------------------------------------------------
(* The server: who is an administrator, and what it compiles *)

\* The certificates of the base were verified before they entered it.
groupeCertifie(f) ==
    IF f.cert # Absent /\ maintenant < f.cert.expire THEN f.cert.groupe ELSE Vide

estAdmin(k) ==
    /\ fiches[k] # Absent /\ fiches[k].qui.proprietaire # Vide
    /\ equipe[fiches[k].qui.proprietaire] = Admins
    /\ groupeCertifie(fiches[k]) = Admins

UnAdmin == \E k \in Cles : estAdmin(k)

\* A device whose certificate does not carry the group that the team gives to
\* its owner counts in no group.
AppServeur(f) ==
    [adresse |-> f.adresse, proprietaire |-> f.qui.proprietaire, etiquette |-> f.qui.etiquette,
     horsGroupe |-> f.qui.proprietaire # Vide
                      /\ groupeCertifie(f) # equipe[f.qui.proprietaire]]

Gardes == {k \in Presents : k \notin revoquees /\ ~HorsEquipe(fiches[k].qui)}
FluxServeur == Compiler(pol, {AppServeur(fiches[k]) : k \in Gardes}, equipe)

\* Revoked keys are erased; the devices of a person out of the team too, unless
\* the team could not be read or lost too many at once, and they are no longer
\* served anyway.
Synchroniser ==
    /\ \E purge \in BOOLEAN :
          fiches' = [k \in Cles |->
              IF k \in Presents /\ (k \in revoquees \/ (purge /\ HorsEquipe(fiches[k].qui)))
              THEN Absent ELSE fiches[k]]
    /\ flux' = FluxServeur
    /\ UNCHANGED <<prochaine, regles, ecran, signes, import, temps>>

-----------------------------------------------------------------------------
(* Signing *)

\* The group listed is the one of the team today: the one to be signed.
Fiche(k) ==
    [cle |-> k, adresse |-> fiches[k].adresse, qui |-> fiches[k].qui,
     groupe |-> GroupeDe(fiches[k].qui)]

Certificat(v) ==
    [cle |-> v.cle, adresse |-> v.adresse, qui |-> v.qui, groupe |-> v.groupe,
     expire |-> maintenant + Duree]
Ajouter(v) ==
    /\ Cardinality(signes) < MaxSignes
    /\ signes' = signes \cup {Certificat(v)}

\* An address is not signed for two keys.
adresseSignable(v) ==
    \A j \in Presents \ {v.cle} : fiches[j].cert # Absent => fiches[j].adresse # v.adresse

\* The phone of an administrator reads the row again and refuses it if it is no
\* longer what its screen showed: what it signs is the row as it is now.
Signer(k) ==
    /\ fiches[k] # Absent /\ UnAdmin
    /\ adresseSignable(Fiche(k)) /\ Ajouter(Fiche(k))
    /\ UNCHANGED <<lignes, regles, ecran, import, flux, temps>>

\* "sasd appareils --json", then "sas verrou signer" on the list it was given.
Lister(k) ==
    /\ fiches[k] # Absent
    /\ ecran' = Fiche(k)
    /\ UNCHANGED <<lignes, regles, signes, import, flux, temps>>

SignerHote ==
    /\ ecran # Absent /\ Ajouter(ecran)
    /\ ecran' = Absent
    /\ UNCHANGED <<lignes, regles, import, flux, temps>>

-----------------------------------------------------------------------------
(* ImporterCertificats *)

\* Verified on the row that was read, and not out of date.
Verifie(c, f) ==
    f # Absent /\ c.adresse = f.adresse /\ c.qui = f.qui /\ maintenant < c.expire

\* The rows are read once.  The route is for administrators, "sasd signatures"
\* for the host; what it is given may have been signed at any time.  An import
\* that would store nothing new is left out.
ImporterDebut ==
    /\ import = Absent
    /\ \E c \in signes : Verifie(c, fiches[c.cle]) /\ fiches[c.cle].cert # c
    /\ import' = [k \in Cles |-> IF fiches[k] = Absent THEN Absent
                                 ELSE [adresse |-> fiches[k].adresse, qui |-> fiches[k].qui]]
    /\ UNCHANGED <<lignes, regles, ecran, signes, flux, temps>>

\* DefinirCertificat: the row of this key at this address, if there is one.
DefinirParCle(c) == fiches[c.cle] # Absent
Definir(c) == fiches[c.cle] # Absent /\ fiches[c.cle].adresse = c.adresse

Importer(c) ==
    /\ import # Absent
    /\ Verifie(c, import[c.cle]) /\ Definir(c)
    /\ fiches' = [fiches EXCEPT ![c.cle].cert = c]
    /\ UNCHANGED <<prochaine, regles, ecran, signes, import, flux, temps>>

\* The route then calls Synchroniser, which waits for its lock; the host leaves
\* it to the next round.
ImporterFin ==
    /\ import # Absent
    /\ import' = Absent
    /\ UNCHANGED <<lignes, regles, ecran, signes, flux, temps>>

Next ==
    \/ \E k \in Cles : \/ \E q \in LesQui : Inscrire(k, q)
                       \/ Supprimer(k) \/ Revoquer(k) \/ Signer(k) \/ Lister(k)
    \/ \E u \in Personnes, g \in Groupes \cup {Vide} : ChangerEquipe(u, g)
    \/ \E c \in signes : Importer(c)
    \/ ImporterDebut \/ ImporterFin \/ SignerHote \/ Synchroniser \/ Tic

Spec == Init /\ [][Next]_vars

-----------------------------------------------------------------------------
(* The client: ConstruireAvecSortant on what the server answers now *)

\* The route reseau: nothing for a device that is no longer known, and else the
\* rows of the devices the policy relates it to.
Servi(k) == fiches[k] # Absent /\ ~HorsEquipe(fiches[k].qui)
Annonces(k) ==
    {j \in Presents \ {k} : <<fiches[k].adresse, fiches[j].adresse>> \in Relations(flux)}

\* The signature names the key, the address, and who owns the device.
Certifie(k) ==
    /\ fiches[k] # Absent /\ fiches[k].cert # Absent
    /\ fiches[k].cert.cle = k /\ Verifie(fiches[k].cert, fiches[k])
Accepte(k) == k \notin revoquees /\ Certifie(k)

Retenus(k) == {j \in Annonces(k) : Accepte(j)}

App(j) ==
    [adresse |-> fiches[j].adresse, proprietaire |-> fiches[j].qui.proprietaire,
     etiquette |-> fiches[j].qui.etiquette, horsGroupe |-> FALSE]

EquipeAnnoncee(k) == equipe
\* The group of a person: the one of the certificate read last, after its own.
Dernier(J) == CHOOSE j \in J : \A i \in J : Rang[i] <= Rang[j]
EquipeVue(k) ==
    [u \in Personnes |->
        LET J == {j \in Retenus(k) : fiches[j].qui.proprietaire = u}
        IN IF J # {} THEN fiches[Dernier(J)].cert.groupe
           ELSE IF fiches[k].qui.proprietaire = u THEN fiches[k].cert.groupe ELSE Vide]

FluxVu(k) == Compiler(pol, {App(j) : j \in Retenus(k) \cup {k}}, EquipeVue(k))

\* What the engine lets in from x, and what the application shows it may open
\* on x.  Without a certificate of its own, nothing comes in.
Regle(k) == Servi(k) /\ Accepte(k)
Entrees(k, x) == IF Regle(k) THEN Entrant(FluxVu(k), fiches[k].adresse, x) ELSE {}
Sorties(k, x) == IF Regle(k) THEN Sortant(FluxVu(k), fiches[k].adresse, x) ELSE {}

-----------------------------------------------------------------------------
(* Properties *)

\* ImporterCertificats: whatever is erased and registered again while it runs,
\* the certificate of a row is the one of its key, its address and its owner:
\* groupeCertifie and estAdmin never look again.
CertificatJuste ==
    \A k \in Presents : fiches[k].cert # Absent =>
        /\ fiches[k].cert.cle = k
        /\ fiches[k].cert.adresse = fiches[k].adresse /\ fiches[k].cert.qui = fiches[k].qui

\* The certificates in force of a person all carry one group.
UnSeulGroupe ==
    \A j, k \in Presents :
        Accepte(j) /\ Accepte(k) /\ fiches[j].qui = fiches[k].qui =>
            fiches[j].cert.groupe = fiches[k].cert.groupe

\* The policy opens q from j to k, both counted in the group of their own
\* certificate.
Signee(j, k, q) ==
    LET u(i) == fiches[i].qui.proprietaire
        e == [v \in Personnes |-> IF u(j) = v THEN fiches[j].cert.groupe
                                  ELSE IF u(k) = v THEN fiches[k].cert.groupe ELSE Vide]
    IN \E p \in Ports : /\ Ouvre({p}, q)
                        /\ Autorise(pol, {App(j), App(k)}, e, fiches[j].adresse,
                                    fiches[k].adresse, p)

\* politique.Sortant, "le pendant d'Entrant": two devices that accept each
\* other open exactly what the signed policy says of their two certificates,
\* each of them computing it from peers the other may not know.
Pairs == {p \in Presents \X Presents : p[1] # p[2]}
Exact(ports, j, k) == \A q \in Ports : Ouvre(ports, q) <=> Signee(j, k, q)
ReglesExactes ==
    UnSeulGroupe => \A p \in Pairs :
        LET j == p[1]
            k == p[2]
        IN Regle(j) /\ Regle(k) /\ j \in Annonces(k) =>
              /\ Exact(Entrees(k, fiches[j].adresse), j, k)
              /\ Exact(Sorties(j, fiches[k].adresse), j, k)

\* Once every device is signed for the group of its owner and the server has
\* compiled, nothing is missing: what the policy opens between two devices is
\* relayed by the server and let in by the engine, and what the firewall lets
\* out of the server to a device, its engine lets in.
Calme ==
    /\ flux = FluxServeur /\ Gardes = Presents
    /\ \A k \in Presents : Accepte(k) /\ fiches[k].cert.groupe = GroupeDe(fiches[k].qui)
Egaux(ports, autres) == \A q \in Ports : Ouvre(ports, q) <=> Ouvre(autres, q)
RienNeManque ==
    Calme =>
        /\ \A p \in Pairs : Exact(Entrees(p[2], fiches[p[1]].adresse), p[1], p[2])
        /\ \A k \in Presents : Egaux(Entrees(k, Serveur), NftSortie(flux, fiches[k].adresse))
=============================================================================
