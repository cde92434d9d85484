-------------------------- MODULE CertificatsProofs --------------------------
(***************************************************************************)
(* What Politique and Certificats guarantee for any number of devices,     *)
(* persons and policies: the compiler computes exactly what the policy     *)
(* says, the certificate of a row is its own, and two devices that accept  *)
(* each other compute, each for itself, the rules of the policy.           *)
(***************************************************************************)
EXTENDS Certificats, TLAPS

-----------------------------------------------------------------------------
(* The policy compiler: exactly what the policy says, rule by rule, for every *)
(* policy, every team and every set of devices.                               *)

\* A compiled flow opens p from x to y.
Passe(f, x, y, p) == x \in f.sources /\ y \in f.dest /\ p \in f.ports

LEMMA PortsDeFlux ==
  ASSUME NEW ouverts, NEW x, NEW y, NEW p
  PROVE  p \in PortsDe(ouverts, x, y) <=> \E f \in ouverts : Passe(f, x, y, p)
BY DEF PortsDe, Passe

LEMMA ChoisirDesigne ==
  ASSUME NEW sels, NEW apps, NEW e, NEW x \in Points
  PROVE  x \in choisir(sels, apps, e) <=> Designe(sels, apps, e, x)
BY DEF choisir

\* A rule whose two sides name devices.
LEMMA DirectsExacts ==
  ASSUME NEW lois, NEW apps, NEW e, NEW x \in Points, NEW y \in Points, NEW p
  PROVE  (\E f \in Directs(lois, apps, e) : Passe(f, x, y, p))
         <=> \E r \in lois : /\ p \in r.ports
                               /\ Designe(r.de, apps, e, x) /\ Designe(r.vers, apps, e, y)
<1> DEFINE F(r) == [sources |-> choisir(r.de, apps, e), dest |-> choisir(r.vers, apps, e),
                    ports |-> r.ports]
           Utiles == {r \in lois : choisir(r.de, apps, e) # {} /\ choisir(r.vers, apps, e) # {}}
<1>1. Directs(lois, apps, e) = {F(r) : r \in Utiles}
  BY DEF Directs
<1>2. ASSUME NEW r \in lois
      PROVE  Passe(F(r), x, y, p)
             <=> p \in r.ports /\ Designe(r.de, apps, e, x) /\ Designe(r.vers, apps, e, y)
  BY ChoisirDesigne DEF Passe
<1>3. ASSUME NEW r \in lois, Passe(F(r), x, y, p) PROVE r \in Utiles
  BY <1>3 DEF Passe
<1> HIDE DEF F
<1>4. (\E f \in {F(r) : r \in Utiles} : Passe(f, x, y, p))
      <=> \E r \in Utiles : Passe(F(r), x, y, p)
  OBVIOUS
<1>5. Utiles \subseteq lois
  OBVIOUS
<1> HIDE DEF Utiles
<1> QED  BY <1>1, <1>2, <1>3, <1>4, <1>5

\* Two devices of one person who is in the team.
LEMMA SiensMemePersonne ==
  ASSUME NEW apps \in SUBSET Appareils, NEW e, NEW x \in Points, NEW y \in Points
  PROVE  MemePersonne(apps, e, x, y)
         <=> \E u \in Personnes : x \in Siens(u, apps, e) /\ y \in Siens(u, apps, e)
<1>1. ASSUME MemePersonne(apps, e, x, y)
      PROVE  \E u \in Personnes : x \in Siens(u, apps, e) /\ y \in Siens(u, apps, e)
  <2>1. PICK a \in apps : \E b \in apps :
               /\ a.adresse = x /\ b.adresse = y
               /\ a.proprietaire # Vide /\ a.proprietaire = b.proprietaire
               /\ ~SortiDe(a, e)
    BY <1>1 DEF MemePersonne
  <2>2. a.proprietaire \in Personnes /\ e[a.proprietaire] # Vide
    BY <2>1 DEF Appareils, SortiDe
  <2>3. x \in Siens(a.proprietaire, apps, e) /\ y \in Siens(a.proprietaire, apps, e)
    BY <2>1, <2>2 DEF Siens
  <2> QED  BY <2>2, <2>3
<1>2. ASSUME NEW u \in Personnes, x \in Siens(u, apps, e), y \in Siens(u, apps, e)
      PROVE  MemePersonne(apps, e, x, y)
  BY <1>2, PolitiqueAssumption DEF Siens, MemePersonne, SortiDe
<1> QED  BY <1>1, <1>2

\* A rule that says "soi".
LEMMA PourSoiExact ==
  ASSUME NEW lois, NEW apps \in SUBSET Appareils, NEW e,
         NEW x \in Points, NEW y \in Points, x # y, NEW p
  PROVE  (\E f \in PourSoi(lois, apps, e) : Passe(f, x, y, p))
         <=> \E r \in lois : /\ p \in r.ports /\ Designe(r.de, apps, e, x)
                               /\ Nomme(r.vers, "soi") /\ MemePersonne(apps, e, x, y)
<1> DEFINE F(r, u) == FluxSoi(r, u, apps, e)
           Qui(r) == {u \in Personnes : F(r, u).sources # {}
                                        /\ \E i, j \in Siens(u, apps, e) : i # j}
           Soi == {r \in lois : Nomme(r.vers, "soi")}
<1>1. PourSoi(lois, apps, e) = UNION {{F(r, u) : u \in Qui(r)} : r \in Soi}
  BY DEF PourSoi
<1>2. ASSUME NEW r \in lois, NEW u \in Personnes
      PROVE  Passe(F(r, u), x, y, p)
             <=> /\ p \in r.ports /\ Designe(r.de, apps, e, x)
                 /\ x \in Siens(u, apps, e) /\ y \in Siens(u, apps, e)
  BY ChoisirDesigne DEF Passe, FluxSoi
<1>3. ASSUME NEW r \in lois, NEW u \in Personnes, Passe(F(r, u), x, y, p)
      PROVE  u \in Qui(r)
  <2>1. x \in F(r, u).sources
    BY <1>3 DEF Passe
  <2>2. x \in Siens(u, apps, e) /\ y \in Siens(u, apps, e)
    BY <1>2, <1>3
  <2> QED  BY <2>1, <2>2
<1>4. \A r : Qui(r) \subseteq Personnes
  OBVIOUS
<1>5. \A r : r \in Soi <=> r \in lois /\ Nomme(r.vers, "soi")
  OBVIOUS
<1> HIDE DEF F, Qui, Soi
<1>6. (\E f \in UNION {{F(r, u) : u \in Qui(r)} : r \in Soi} : Passe(f, x, y, p))
      <=> \E r \in Soi : \E u \in Qui(r) : Passe(F(r, u), x, y, p)
  OBVIOUS
<1>7. (\E r \in Soi : \E u \in Qui(r) : Passe(F(r, u), x, y, p))
      <=> \E r \in Soi : /\ p \in r.ports /\ Designe(r.de, apps, e, x)
                         /\ \E u \in Personnes : x \in Siens(u, apps, e) /\ y \in Siens(u, apps, e)
  BY <1>2, <1>3, <1>4, <1>5
<1> QED  BY <1>1, <1>5, <1>6, <1>7, SiensMemePersonne

\* Compiler with Entrant, Sortant, Relations and the chains of nft, which all
\* read the compiled rules by pairs: between two different points the compiled
\* rules open exactly what the policy says, rule by rule (politique.go:149-219, 301-326).
THEOREM CompilerExact ==
  ASSUME NEW lois, NEW apps \in SUBSET Appareils, NEW e,
         NEW x \in Points, NEW y \in Points, x # y, NEW p
  PROVE  p \in PortsDe(Compiler(lois, apps, e), x, y) <=> Autorise(lois, apps, e, x, y, p)
<1> DEFINE Direct == \E f \in Directs(lois, apps, e) : Passe(f, x, y, p)
           Soi == \E f \in PourSoi(lois, apps, e) : Passe(f, x, y, p)
           DitDirect == \E r \in lois : /\ p \in r.ports
                               /\ Designe(r.de, apps, e, x) /\ Designe(r.vers, apps, e, y)
           DitSoi == \E r \in lois : /\ p \in r.ports /\ Designe(r.de, apps, e, x)
                               /\ Nomme(r.vers, "soi") /\ MemePersonne(apps, e, x, y)
<1>1. p \in PortsDe(Compiler(lois, apps, e), x, y) <=> Direct \/ Soi
  BY PortsDeFlux DEF Compiler
<1>2. Autorise(lois, apps, e, x, y, p) <=> DitDirect \/ DitSoi
  BY DEF Autorise
<1>3. Direct <=> DitDirect
  BY DirectsExacts
<1>4. Soi <=> DitSoi
  BY PourSoiExact
<1> HIDE DEF Direct, Soi, DitDirect, DitSoi
<1> QED  BY <1>1, <1>2, <1>3, <1>4

\* politique.Sortant, "le pendant d'Entrant": what a device shows as open on
\* another is what the other lets in, compiled from the same rules (politique.go:237-264, 301-326).
THEOREM SortantPendant ==
  ASSUME NEW ouverts, NEW x, NEW y, NEW q
  PROVE  Ouvre(Sortant(ouverts, x, y), q) <=> Ouvre(Entrant(ouverts, y, x), q)
BY DEF Ouvre, Sortant, Entrant

\* politique.Relations: the server relays between two devices, in both
\* directions, whenever the policy lets one open something on the other: what a
\* device may open, its packets reach (politique.go:277-293).
THEOREM RelationsExactes ==
  ASSUME NEW lois, NEW apps \in SUBSET Appareils, NEW e,
         NEW x \in Adresses, NEW y \in Adresses, x # y, NEW p,
         Autorise(lois, apps, e, x, y, p)
  PROVE  /\ <<x, y>> \in Relations(Compiler(lois, apps, e))
         /\ <<y, x>> \in Relations(Compiler(lois, apps, e))
<1>1. x \in Points /\ y \in Points
  BY DEF Points
<1>2. p \in PortsDe(Compiler(lois, apps, e), x, y)
  BY <1>1, CompilerExact
<1>3. PICK f \in Compiler(lois, apps, e) : Passe(f, x, y, p)
  BY <1>2, PortsDeFlux
<1> QED  BY <1>3 DEF Relations, Passe

-----------------------------------------------------------------------------
(* The certificates and what a client computes from them.                     *)

LEMMA QuiType ==
  ASSUME NEW q \in LesQui
  PROVE  /\ q.proprietaire \in Personnes \cup {Vide} /\ q.etiquette \in Etiquettes \cup {Vide}
         /\ q.proprietaire # Vide => q.etiquette = Vide
BY PolitiqueAssumption DEF LesQui

\* Two devices of one person are described alike.
LEMMA MemeQui ==
  ASSUME NEW q \in LesQui, NEW r \in LesQui, q.proprietaire # Vide,
         q.proprietaire = r.proprietaire
  PROVE  q = r
BY PolitiqueAssumption DEF LesQui

LEMMA FicheType ==
  ASSUME NEW f \in Fiches
  PROVE  /\ f.adresse \in Adresses /\ f.adresse \in Nat /\ f.qui \in LesQui
         /\ f.cert \in Certs \cup {Absent} /\ f # Absent
BY CertificatsAssumption, AbsentAssumption DEF Fiches

LEMMA GroupeType ==
  ASSUME TypeOK, NEW q \in LesQui
  PROVE  GroupeDe(q) \in Groupes \cup {Vide}
BY QuiType DEF TypeOK, GroupeDe, Equipes

\* What is signed.
LEMMA CertificatType ==
  ASSUME TypeOK, NEW v \in Ecrans
  PROVE  Certificat(v) \in Certs
<1>1. maintenant + Duree \in 0 .. MaxTemps + Duree
  BY CertificatsAssumption DEF TypeOK, Temps
<1> QED  BY <1>1 DEF Certificat, Certs, Ecrans

LEMMA EcranType ==
  ASSUME TypeOK, NEW k \in Cles, fiches[k] # Absent
  PROVE  Fiche(k) \in Ecrans
<1>1. fiches[k] \in Fiches
  BY DEF TypeOK
<1>2. fiches[k].adresse \in Adresses /\ fiches[k].qui \in LesQui
  BY <1>1, FicheType
<1>3. GroupeDe(fiches[k].qui) \in Groupes \cup {Vide}
  BY <1>2, GroupeType
<1> QED  BY <1>2, <1>3 DEF Fiche, Ecrans

\* What the server compiles.
LEMMA CompilerType ==
  ASSUME NEW regles_ \in SUBSET Regles, NEW apps, NEW e
  PROVE  Compiler(regles_, apps, e) \subseteq LesFlux
<1>1. \A sels : choisir(sels, apps, e) \subseteq Points
  BY DEF choisir
<1>2. \A u : Siens(u, apps, e) \subseteq Points
  BY DEF Siens
<1>3. \A r \in Regles : r.ports \subseteq Ports
  BY DEF Regles
<1>4. Directs(regles_, apps, e) \subseteq LesFlux
  BY <1>1, <1>3 DEF Directs, LesFlux
<1>5. \A r \in Regles : \A u : FluxSoi(r, u, apps, e) \in LesFlux
  BY <1>1, <1>2, <1>3 DEF FluxSoi, LesFlux
<1>6. PourSoi(regles_, apps, e) \subseteq LesFlux
  <2> SUFFICES ASSUME NEW f \in PourSoi(regles_, apps, e) PROVE f \in LesFlux
    OBVIOUS
  <2>1. PICK r \in regles_, u \in Personnes : f = FluxSoi(r, u, apps, e)
    BY DEF PourSoi
  <2> QED  BY <1>5, <2>1
<1> QED  BY <1>4, <1>6 DEF Compiler

-----------------------------------------------------------------------------
(* Types. *)

LEMMA TypeInit == Init => TypeOK
<1> SUFFICES ASSUME Init PROVE TypeOK
  OBVIOUS
<1>1. equipe \in Equipes
  BY DepartAssumption DEF Init
<1>2. 1 \in 1 .. MaxInscriptions + 1 /\ 0 \in Temps /\ 0 \in 0 .. MaxEvenements
  BY CertificatsAssumption DEF Temps
<1> QED  BY <1>1, <1>2 DEF Init, TypeOK

LEMMA EvenementType ==
  ASSUME TypeOK, Evenement
  PROVE  evenements' \in 0 .. MaxEvenements
BY CertificatsAssumption DEF TypeOK, Evenement

LEMMA TypePas ==
  ASSUME TypeOK, [Next]_vars
  PROVE  TypeOK'
<1> USE DEF TypeOK, lignes, regles, temps
<1>1. ASSUME NEW k \in Cles, NEW q \in LesQui, Inscrire(k, q) PROVE TypeOK'
  <2> DEFINE f == [adresse |-> prochaine, qui |-> q, cert |-> Absent]
  <2>1. prochaine \in Adresses /\ prochaine + 1 \in 1 .. MaxInscriptions + 1
    BY <1>1, CertificatsAssumption DEF Inscrire
  <2>2. f \in Fiches
    BY <2>1 DEF Fiches
  <2>3. fiches' = [fiches EXCEPT ![k] = f] /\ prochaine' = prochaine + 1 /\ Evenement
        /\ UNCHANGED <<regles, ecran, signes, import, flux, maintenant>>
    BY <1>1 DEF Inscrire
  <2> HIDE DEF f
  <2> QED  BY <2>1, <2>2, <2>3, EvenementType
<1>2. ASSUME NEW k \in Cles, Supprimer(k) PROVE TypeOK'
  BY <1>2, EvenementType DEF Supprimer
<1>3. ASSUME NEW u \in Personnes, NEW g \in Groupes \cup {Vide}, ChangerEquipe(u, g) PROVE TypeOK'
  BY <1>3, EvenementType DEF ChangerEquipe, Equipes
<1>4. ASSUME NEW k \in Cles, Revoquer(k) PROVE TypeOK'
  BY <1>4, EvenementType DEF Revoquer
<1>5. CASE Tic
  <2>1. maintenant' \in Temps
    BY <1>5, CertificatsAssumption DEF Tic, Temps
  <2> QED  BY <1>5, <2>1, EvenementType DEF Tic
<1>6. CASE Synchroniser
  <2>1. pol \in SUBSET Regles
    BY CertificatsAssumption
  <2>2. flux' \subseteq LesFlux
    BY <1>6, <2>1, CompilerType DEF Synchroniser, FluxServeur
  <2>3. fiches' \in [Cles -> Fiches \cup {Absent}]
    BY <1>6 DEF Synchroniser
  <2> QED  BY <1>6, <2>2, <2>3 DEF Synchroniser
<1>7. ASSUME NEW k \in Cles, Signer(k) PROVE TypeOK'
  <2>1. Certificat(Fiche(k)) \in Certs
    BY <1>7, EcranType, CertificatType DEF Signer
  <2> QED  BY <1>7, <2>1 DEF Signer, Ajouter
<1>8. ASSUME NEW k \in Cles, Lister(k) PROVE TypeOK'
  BY <1>8, EcranType DEF Lister
<1>9. CASE SignerHote
  <2>1. Certificat(ecran) \in Certs
    BY <1>9, CertificatType DEF SignerHote
  <2> QED  BY <1>9, <2>1 DEF SignerHote, Ajouter
<1>10. CASE ImporterDebut
  <2> DEFINE lu == [k \in Cles |-> IF fiches[k] = Absent THEN Absent
                                 ELSE [adresse |-> fiches[k].adresse, qui |-> fiches[k].qui]]
  <2>1. import' = lu /\ UNCHANGED <<lignes, regles, ecran, signes, flux, temps>>
    BY <1>10 DEF ImporterDebut
  <2>2. ASSUME NEW k \in Cles, fiches[k] # Absent
        PROVE  [adresse |-> fiches[k].adresse, qui |-> fiches[k].qui] \in Lues
    BY <2>2, FicheType DEF Lues
  <2>3. lu \in [Cles -> Lues \cup {Absent}]
    BY <2>2
  <2> HIDE DEF lu
  <2> QED  BY <2>1, <2>3
<1>11. ASSUME NEW c \in signes, Importer(c) PROVE TypeOK'
  <2>1. c \in Certs /\ c.cle \in Cles /\ fiches[c.cle] \in Fiches
    BY <1>11 DEF Importer, Definir, Certs
  <2> DEFINE f == [fiches[c.cle] EXCEPT !.cert = c]
  <2>2. f \in Fiches
    BY <2>1 DEF Fiches
  <2>3. fiches' = [fiches EXCEPT ![c.cle] = f]
    BY <1>11 DEF Importer
  <2> HIDE DEF f
  <2> QED  BY <1>11, <2>1, <2>2, <2>3 DEF Importer
<1>12. CASE ImporterFin
  BY <1>12 DEF ImporterFin
<1>13. CASE UNCHANGED vars
  BY <1>13 DEF vars
<1> QED
  BY <1>1, <1>2, <1>3, <1>4, <1>5, <1>6, <1>7, <1>8, <1>9, <1>10, <1>11, <1>12, <1>13 DEF Next

\* Type correctness of the rows, of the certificates and of the rules compiled
\* (base.go:65-102, api.go:340-373, serveur.go:241-330).
THEOREM CertificatsType == Spec => []TypeOK
BY TypeInit, TypePas, PTL DEF Spec

-----------------------------------------------------------------------------
(* The certificate of a row. *)

\* Every address given is behind the next one, and given to one key.
AdressesJustes ==
  /\ \A k \in Presents : fiches[k].adresse < prochaine
  /\ \A j, k \in Presents : fiches[j].adresse = fiches[k].adresse => j = k

\* A row that still has the address an import read belongs to whom it read.
ImportJuste ==
  import # Absent => \A k \in Cles : import[k] # Absent =>
      /\ import[k].adresse < prochaine
      /\ fiches[k] # Absent /\ fiches[k].adresse = import[k].adresse =>
            fiches[k].qui = import[k].qui

Juste == AdressesJustes /\ ImportJuste /\ CertificatJuste

LEMMA JusteInit == Init => Juste
BY DEF Init, Juste, AdressesJustes, ImportJuste, CertificatJuste, Presents

\* A row erased, and what concerns no row.
LEMMA JusteMoins ==
  ASSUME TypeOK, Juste, UNCHANGED <<prochaine, import>>,
         \A k \in Cles : fiches'[k] \in {fiches[k], Absent}
  PROVE  Juste'
<1>1. \A k \in Cles : fiches'[k] # Absent => fiches'[k] = fiches[k] /\ fiches[k] # Absent
  OBVIOUS
<1>2. AdressesJustes'
  BY <1>1 DEF Juste, AdressesJustes, Presents
<1>3. ImportJuste'
  BY <1>1 DEF Juste, ImportJuste
<1>4. CertificatJuste'
  BY <1>1 DEF Juste, CertificatJuste, Presents
<1> QED  BY <1>2, <1>3, <1>4 DEF Juste

LEMMA JusteInscrire ==
  ASSUME TypeOK, Juste, NEW k \in Cles, NEW q \in LesQui, Inscrire(k, q)
  PROVE  Juste'
<1> DEFINE f == [adresse |-> prochaine, qui |-> q, cert |-> Absent]
<1>1. fiches[k] = Absent /\ fiches' = [fiches EXCEPT ![k] = f]
      /\ prochaine' = prochaine + 1 /\ import' = import
  BY DEF Inscrire
<1>2. f.adresse = prochaine /\ f.cert = Absent
  OBVIOUS
<1> HIDE DEF f
<1>3. fiches'[k] = f /\ \A j \in Cles \ {k} : fiches'[j] = fiches[j]
  BY <1>1 DEF TypeOK
<1>4. prochaine \in Nat
  BY CertificatsAssumption DEF TypeOK
<1>5. ASSUME NEW j \in Presents
      PROVE  j # k /\ fiches[j].adresse \in Nat /\ fiches[j].adresse < prochaine
  BY <1>1, FicheType DEF Presents, TypeOK, Juste, AdressesJustes
<1>6. Presents' \subseteq Presents \cup {k}
  BY <1>3 DEF Presents
<1>7. AdressesJustes'
  <2>1. ASSUME NEW j \in Presents' PROVE fiches'[j].adresse < prochaine'
    <3>1. CASE j = k
      BY <1>1, <1>2, <1>3, <1>4, <3>1
    <3>2. CASE j # k
      <4>1. j \in Presents /\ fiches'[j] = fiches[j]
        BY <1>3, <1>6, <3>2 DEF Presents
      <4> QED  BY <1>1, <1>4, <1>5, <4>1
    <3> QED  BY <3>1, <3>2
  <2>2. ASSUME NEW i \in Presents', NEW j \in Presents', fiches'[i].adresse = fiches'[j].adresse
        PROVE  i = j
    <3>1. CASE i # k /\ j # k
      <4>1. i \in Presents /\ j \in Presents /\ fiches'[i] = fiches[i] /\ fiches'[j] = fiches[j]
        BY <1>3, <1>6, <3>1 DEF Presents
      <4> QED  BY <2>2, <4>1 DEF Juste, AdressesJustes
    <3>2. CASE i = k /\ j # k
      <4>1. j \in Presents /\ fiches'[j] = fiches[j]
        BY <1>3, <1>6, <3>2 DEF Presents
      <4> QED  BY <1>2, <1>3, <1>4, <1>5, <2>2, <3>2, <4>1
    <3>3. CASE i # k /\ j = k
      <4>1. i \in Presents /\ fiches'[i] = fiches[i]
        BY <1>3, <1>6, <3>3 DEF Presents
      <4> QED  BY <1>2, <1>3, <1>4, <1>5, <2>2, <3>3, <4>1
    <3> QED  BY <3>1, <3>2, <3>3
  <2> QED  BY <2>1, <2>2 DEF AdressesJustes
<1>8. ImportJuste'
  <2> SUFFICES ASSUME import # Absent, NEW j \in Cles, import[j] # Absent
               PROVE  /\ import[j].adresse < prochaine'
                      /\ fiches'[j] # Absent /\ fiches'[j].adresse = import[j].adresse =>
                            fiches'[j].qui = import[j].qui
    BY <1>1 DEF ImportJuste
  <2>1. import[j] \in Lues /\ import[j].adresse \in Nat
    BY CertificatsAssumption DEF TypeOK, Lues
  <2>2. import[j].adresse < prochaine
    BY DEF Juste, ImportJuste
  <2>3. CASE j = k
    BY <1>1, <1>2, <1>3, <1>4, <2>1, <2>2, <2>3
  <2>4. CASE j # k
    BY <1>1, <1>3, <1>4, <2>1, <2>2, <2>4 DEF Juste, ImportJuste
  <2> QED  BY <2>3, <2>4
<1>9. CertificatJuste'
  BY <1>2, <1>3, <1>6 DEF Juste, CertificatJuste, Presents
<1> QED  BY <1>7, <1>8, <1>9 DEF Juste

\* A certificate enters a row that has the address that was read.
LEMMA JusteImporter ==
  ASSUME TypeOK, Juste, NEW c \in signes, Importer(c)
  PROVE  Juste'
<1> DEFINE k == c.cle
           f == [fiches[k] EXCEPT !.cert = c]
<1>1. k \in Cles /\ fiches[k] # Absent /\ fiches[k] \in Fiches
  BY DEF TypeOK, Certs, Importer, Definir
<1>2. /\ import # Absent /\ import[k] # Absent
      /\ c.adresse = import[k].adresse /\ c.qui = import[k].qui
      /\ fiches[k].adresse = c.adresse
      /\ fiches' = [fiches EXCEPT ![k] = f] /\ UNCHANGED <<prochaine, import>>
  BY DEF Importer, Verifie, Definir
<1>3. fiches[k].qui = c.qui
  BY <1>1, <1>2 DEF Juste, ImportJuste
<1>4. f.adresse = fiches[k].adresse /\ f.qui = fiches[k].qui /\ f.cert = c /\ f \in Fiches
  BY <1>1 DEF Fiches, TypeOK
<1> HIDE DEF f
<1>5. f # Absent
  BY <1>4, FicheType
<1>6. fiches'[k] = f /\ \A j \in Cles \ {k} : fiches'[j] = fiches[j]
  BY <1>1, <1>2 DEF TypeOK
<1>7. \A j \in Cles : /\ fiches'[j] # Absent <=> fiches[j] # Absent
                      /\ fiches'[j].adresse = fiches[j].adresse /\ fiches'[j].qui = fiches[j].qui
  BY <1>1, <1>4, <1>5, <1>6
<1>8. AdressesJustes'
  BY <1>2, <1>7 DEF Juste, AdressesJustes, Presents
<1>9. ImportJuste'
  BY <1>2, <1>7 DEF Juste, ImportJuste
<1>10. CertificatJuste'
  <2> SUFFICES ASSUME NEW j \in Cles, fiches'[j] # Absent, fiches'[j].cert # Absent
               PROVE  /\ fiches'[j].cert.cle = j
                      /\ fiches'[j].cert.adresse = fiches'[j].adresse
                      /\ fiches'[j].cert.qui = fiches'[j].qui
    BY DEF CertificatJuste, Presents
  <2>1. CASE j = k
    BY <1>2, <1>3, <1>4, <1>6, <2>1
  <2>2. CASE j # k
    BY <1>6, <2>2 DEF Juste, CertificatJuste, Presents
  <2> QED  BY <2>1, <2>2
<1> QED  BY <1>8, <1>9, <1>10 DEF Juste

LEMMA JusteImporterDebut ==
  ASSUME TypeOK, Juste, ImporterDebut
  PROVE  Juste'
<1>1. fiches' = fiches /\ prochaine' = prochaine
      /\ import' = [k \in Cles |-> IF fiches[k] = Absent THEN Absent
                                   ELSE [adresse |-> fiches[k].adresse, qui |-> fiches[k].qui]]
  BY DEF ImporterDebut, lignes
<1>2. \A k \in Cles : /\ import'[k] # Absent => fiches[k] # Absent
                      /\ fiches[k] # Absent => /\ import'[k].adresse = fiches[k].adresse
                                               /\ import'[k].qui = fiches[k].qui
  BY <1>1
<1>3. ImportJuste'
  BY <1>1, <1>2 DEF ImportJuste, Juste, AdressesJustes, Presents
<1>4. AdressesJustes' /\ CertificatJuste'
  BY <1>1 DEF Juste, AdressesJustes, CertificatJuste, Presents
<1> QED  BY <1>3, <1>4 DEF Juste

LEMMA JustePas ==
  ASSUME TypeOK, Juste, [Next]_vars
  PROVE  Juste'
<1> USE DEF lignes
<1>1. ASSUME NEW k \in Cles, Supprimer(k) PROVE Juste'
  BY <1>1, JusteMoins DEF Supprimer, TypeOK
<1>2. CASE Synchroniser
  BY <1>2, JusteMoins DEF Synchroniser
<1>3. CASE ImporterFin
  BY <1>3 DEF ImporterFin, Juste, AdressesJustes, ImportJuste, CertificatJuste, Presents
<1>4. CASE UNCHANGED <<fiches, prochaine, import>>
  BY <1>4, JusteMoins
<1>5. CASE UNCHANGED vars
  BY <1>4, <1>5 DEF vars
<1>6. ASSUME NEW k \in Cles, Revoquer(k) \/ Signer(k) \/ Lister(k) PROVE Juste'
  BY <1>4, <1>6 DEF Revoquer, Signer, Lister
<1>7. ASSUME NEW u \in Personnes, NEW g \in Groupes \cup {Vide}, ChangerEquipe(u, g) PROVE Juste'
  BY <1>4, <1>7 DEF ChangerEquipe
<1>8. CASE SignerHote \/ Tic
  BY <1>4, <1>8 DEF SignerHote, Tic
<1> QED
  BY <1>1, <1>2, <1>3, <1>5, <1>6, <1>7, <1>8, JusteInscrire, JusteImporter, JusteImporterDebut
     DEF Next

LEMMA ToujoursJuste == Spec => [](TypeOK /\ Juste)
<1>1. Init => TypeOK /\ Juste
  BY TypeInit, JusteInit
<1>2. TypeOK /\ Juste /\ [Next]_vars => TypeOK' /\ Juste'
  BY TypePas, JustePas
<1> QED  BY <1>1, <1>2, PTL DEF Spec

\* ImporterCertificats: whatever is erased and registered again while it runs,
\* the certificate of a row names its key, its address and its owner
\* (api.go:340-373, base.go:533-547).
THEOREM CertificatsJustes == Spec => []CertificatJuste
<1>1. TypeOK /\ Juste => CertificatJuste
  BY DEF Juste
<1> QED  BY <1>1, ToujoursJuste, PTL

-----------------------------------------------------------------------------
(* The rules two devices compute, each for itself. *)

\* What a device adds to a list of selectors.
Compte(sels, a, e) == ~SortiDe(a, e) /\ \E s \in sels : correspond(s, a, e)

\* Only the device that has the address counts.
LEMMA DesigneSeul ==
  ASSUME NEW sels, NEW apps, NEW e, NEW a \in apps,
         \A b \in apps : b.adresse = a.adresse => b = a
  PROVE  Designe(sels, apps, e, a.adresse)
         <=> (a.adresse = Serveur /\ Nomme(sels, "serveur")) \/ Compte(sels, a, e)
BY DEF Designe, Compte

\* Two teams that give its person the same group designate the same devices.
LEMMA CompteEgal ==
  ASSUME NEW sels, NEW a, NEW e, NEW d,
         a.proprietaire # Vide => e[a.proprietaire] = d[a.proprietaire]
  PROVE  /\ Compte(sels, a, e) <=> Compte(sels, a, d)
         /\ SortiDe(a, e) <=> SortiDe(a, d)
<1>1. SortiDe(a, e) <=> SortiDe(a, d)
  BY DEF SortiDe
<1>2. \A s : correspond(s, a, e) <=> correspond(s, a, d)
  BY DEF correspond
<1> QED  BY <1>1, <1>2 DEF Compte

\* Whether a policy opens a port between two devices is a matter of these two
\* and of the groups of their persons.
LEMMA AutoriseDeux ==
  ASSUME NEW regles_, NEW A, NEW B, NEW e, NEW d, NEW a, NEW b, NEW p,
         a \in A, a \in B, b \in A, b \in B,
         \A c \in A \cup B : c.adresse = a.adresse => c = a,
         \A c \in A \cup B : c.adresse = b.adresse => c = b,
         a.proprietaire # Vide => e[a.proprietaire] = d[a.proprietaire],
         b.proprietaire # Vide => e[b.proprietaire] = d[b.proprietaire]
  PROVE  Autorise(regles_, A, e, a.adresse, b.adresse, p)
         <=> Autorise(regles_, B, d, a.adresse, b.adresse, p)
<1>1. \A sels : Designe(sels, A, e, a.adresse) <=> Designe(sels, B, d, a.adresse)
  <2> TAKE sels
  <2>1. Compte(sels, a, e) <=> Compte(sels, a, d)
    BY CompteEgal
  <2>2. Designe(sels, A, e, a.adresse)
        <=> (a.adresse = Serveur /\ Nomme(sels, "serveur")) \/ Compte(sels, a, e)
    BY DesigneSeul
  <2>3. Designe(sels, B, d, a.adresse)
        <=> (a.adresse = Serveur /\ Nomme(sels, "serveur")) \/ Compte(sels, a, d)
    BY DesigneSeul
  <2> QED  BY <2>1, <2>2, <2>3
<1>2. \A sels : Designe(sels, A, e, b.adresse) <=> Designe(sels, B, d, b.adresse)
  <2> TAKE sels
  <2>1. Compte(sels, b, e) <=> Compte(sels, b, d)
    BY CompteEgal
  <2>2. Designe(sels, A, e, b.adresse)
        <=> (b.adresse = Serveur /\ Nomme(sels, "serveur")) \/ Compte(sels, b, e)
    BY DesigneSeul
  <2>3. Designe(sels, B, d, b.adresse)
        <=> (b.adresse = Serveur /\ Nomme(sels, "serveur")) \/ Compte(sels, b, d)
    BY DesigneSeul
  <2> QED  BY <2>1, <2>2, <2>3
<1>3. MemePersonne(A, e, a.adresse, b.adresse) <=> MemePersonne(B, d, a.adresse, b.adresse)
  <2> DEFINE Meme(f) == a.proprietaire # Vide /\ a.proprietaire = b.proprietaire /\ ~SortiDe(a, f)
  <2>1. SortiDe(a, e) <=> SortiDe(a, d)
    BY CompteEgal
  <2>2. MemePersonne(A, e, a.adresse, b.adresse) <=> Meme(e)
    BY DEF MemePersonne
  <2>3. MemePersonne(B, d, a.adresse, b.adresse) <=> Meme(d)
    BY DEF MemePersonne
  <2> QED  BY <2>1, <2>2, <2>3
<1> QED  BY <1>1, <1>2, <1>3 DEF Autorise

\* A row as the compiler sees it.
LEMMA AppType ==
  ASSUME TypeOK, NEW k \in Presents
  PROVE  /\ App(k) \in Appareils /\ App(k).adresse = fiches[k].adresse
         /\ App(k).proprietaire = fiches[k].qui.proprietaire
         /\ fiches[k].adresse \in Adresses /\ fiches[k].adresse \in Points
         /\ fiches[k].qui \in LesQui
<1>1. fiches[k] \in Fiches
  BY DEF TypeOK, Presents
<1>2. fiches[k].adresse \in Adresses /\ fiches[k].qui \in LesQui
  BY <1>1, FicheType
<1> QED  BY <1>2, QuiType DEF App, Appareils, Points

LEMMA CertType ==
  ASSUME TypeOK, NEW k \in Presents, Accepte(k)
  PROVE  fiches[k].cert.groupe \in Groupes \cup {Vide}
<1>1. fiches[k] \in Fiches /\ fiches[k].cert # Absent
  BY DEF TypeOK, Presents, Accepte, Certifie
<1> QED  BY <1>1, FicheType DEF Certs

LEMMA DernierDedans ==
  ASSUME NEW J \in SUBSET Cles, J # {}
  PROVE  Dernier(J) \in J
BY RangAssumption DEF Dernier

\* A device reads in the certificates of its peers the group of each of them,
\* and its own.
LEMMA GroupeVu ==
  ASSUME TypeOK, UnSeulGroupe, NEW k \in Presents, Accepte(k), NEW i \in Retenus(k) \cup {k},
         App(i).proprietaire # Vide
  PROVE  EquipeVue(k)[App(i).proprietaire] = fiches[i].cert.groupe
<1> DEFINE u == fiches[i].qui.proprietaire
           J == {j \in Retenus(k) : fiches[j].qui.proprietaire = u}
<1>1. i \in Presents /\ Accepte(i) /\ Retenus(k) \subseteq Presents
  BY DEF Retenus, Annonces
<1>2. App(i).proprietaire = u /\ fiches[i].qui \in LesQui
  BY <1>1, AppType
<1>3. u \in Personnes /\ u # Vide
  BY <1>2, QuiType
<1>4. EquipeVue(k)[u] = IF J # {} THEN fiches[Dernier(J)].cert.groupe
                        ELSE IF fiches[k].qui.proprietaire = u THEN fiches[k].cert.groupe ELSE Vide
  BY <1>3 DEF EquipeVue
<1>5. CASE J # {}
  <2>1. J \in SUBSET Cles
    BY <1>1 DEF Presents
  <2>2. Dernier(J) \in J
    BY <1>5, <2>1, DernierDedans
  <2> DEFINE m == Dernier(J)
  <2>3. m \in Presents /\ Accepte(m) /\ fiches[m].qui.proprietaire = u
    BY <1>1, <2>2 DEF Retenus
  <2>4. fiches[m].qui \in LesQui
    BY <2>3, AppType
  <2>5. fiches[m].qui = fiches[i].qui
    BY <1>2, <1>3, <2>3, <2>4, MemeQui
  <2>6. fiches[m].cert.groupe = fiches[i].cert.groupe
    BY <1>1, <2>3, <2>5 DEF UnSeulGroupe
  <2> QED  BY <1>2, <1>4, <1>5, <2>6
<1>6. CASE J = {}
  <2>1. i = k
    BY <1>6
  <2> QED  BY <1>2, <1>4, <1>6, <2>1
<1> QED  BY <1>5, <1>6

\* The team that Signee takes.
EquipeDe(j, k) ==
  [v \in Personnes |-> IF fiches[j].qui.proprietaire = v THEN fiches[j].cert.groupe
                       ELSE IF fiches[k].qui.proprietaire = v THEN fiches[k].cert.groupe ELSE Vide]

LEMMA SigneeDe ==
  ASSUME NEW j, NEW k, NEW q
  PROVE  Signee(j, k, q)
         <=> \E p \in Ports : /\ Ouvre({p}, q)
                              /\ Autorise(pol, {App(j), App(k)}, EquipeDe(j, k),
                                          fiches[j].adresse, fiches[k].adresse, p)
BY DEF Signee, EquipeDe

\* The rules that one of two devices compiled, read between these two.
LEMMA VueExacte ==
  ASSUME TypeOK, AdressesJustes, UnSeulGroupe, NEW m \in Presents, Accepte(m),
         NEW j \in Retenus(m) \cup {m}, NEW k \in Retenus(m) \cup {m}, j # k, NEW p
  PROVE  p \in PortsDe(FluxVu(m), fiches[j].adresse, fiches[k].adresse)
         <=> Autorise(pol, {App(j), App(k)}, EquipeDe(j, k),
                      fiches[j].adresse, fiches[k].adresse, p)
<1> DEFINE V == Retenus(m) \cup {m}
           A == {App(i) : i \in V}
           B == {App(j), App(k)}
           a == App(j)
           b == App(k)
           e == EquipeVue(m)
           d == EquipeDe(j, k)
<1>1. V \subseteq Presents /\ \A i \in V : Accepte(i)
  BY DEF Retenus, Annonces
<1>2. /\ a.adresse = fiches[j].adresse /\ b.adresse = fiches[k].adresse
      /\ a.adresse \in Points /\ b.adresse \in Points
      /\ a.proprietaire = fiches[j].qui.proprietaire
      /\ b.proprietaire = fiches[k].qui.proprietaire
      /\ fiches[j].qui \in LesQui /\ fiches[k].qui \in LesQui
  BY <1>1, AppType
<1>3. A \in SUBSET Appareils
  BY <1>1, AppType
<1>4. a.adresse # b.adresse
  BY <1>1, <1>2 DEF AdressesJustes
<1>5. ASSUME NEW c \in A PROVE (c.adresse = a.adresse => c = a) /\ (c.adresse = b.adresse => c = b)
  <2>1. PICK i \in V : c = App(i)
    OBVIOUS
  <2>2. c.adresse = fiches[i].adresse /\ i \in Presents /\ j \in Presents /\ k \in Presents
    BY <1>1, <2>1, AppType
  <2>3. (fiches[i].adresse = fiches[j].adresse => i = j)
        /\ (fiches[i].adresse = fiches[k].adresse => i = k)
    BY <2>2 DEF AdressesJustes
  <2> QED  BY <1>2, <2>1, <2>2, <2>3
<1>6. a.proprietaire # Vide => e[a.proprietaire] = d[a.proprietaire]
  <2> SUFFICES ASSUME a.proprietaire # Vide PROVE e[a.proprietaire] = d[a.proprietaire]
    OBVIOUS
  <2>1. e[a.proprietaire] = fiches[j].cert.groupe
    BY GroupeVu
  <2>2. a.proprietaire \in Personnes
    BY <1>2, QuiType
  <2> QED  BY <1>2, <2>1, <2>2 DEF EquipeDe
<1>7. b.proprietaire # Vide => e[b.proprietaire] = d[b.proprietaire]
  <2> SUFFICES ASSUME b.proprietaire # Vide PROVE e[b.proprietaire] = d[b.proprietaire]
    OBVIOUS
  <2>1. e[b.proprietaire] = fiches[k].cert.groupe
    BY GroupeVu
  <2>2. b.proprietaire \in Personnes
    BY <1>2, QuiType
  <2>3. CASE a.proprietaire = b.proprietaire
    <3>1. fiches[j].qui = fiches[k].qui
      BY <1>2, <2>3, MemeQui
    <3>2. fiches[j].cert.groupe = fiches[k].cert.groupe
      BY <1>1, <3>1 DEF UnSeulGroupe
    <3> QED  BY <1>2, <2>1, <2>2, <2>3, <3>2 DEF EquipeDe
  <2>4. CASE a.proprietaire # b.proprietaire
    BY <1>2, <2>1, <2>2, <2>4 DEF EquipeDe
  <2> QED  BY <2>3, <2>4
<1>8. a \in A /\ b \in A /\ a \in B /\ b \in B
  OBVIOUS
<1>9. \A c \in A \cup B : (c.adresse = a.adresse => c = a) /\ (c.adresse = b.adresse => c = b)
  BY <1>4, <1>5
<1>10. FluxVu(m) = Compiler(pol, A, e)
  BY DEF FluxVu
<1> HIDE DEF A, B, a, b, e, d, V
<1>11. p \in PortsDe(FluxVu(m), a.adresse, b.adresse) <=> Autorise(pol, A, e, a.adresse, b.adresse, p)
  BY <1>2, <1>3, <1>4, <1>10, CompilerExact
<1>12. Autorise(pol, A, e, a.adresse, b.adresse, p) <=> Autorise(pol, B, d, a.adresse, b.adresse, p)
  BY <1>6, <1>7, <1>8, <1>9, AutoriseDeux
<1> QED  BY <1>2, <1>11, <1>12 DEF a, b, B, d

\* To open q is to open it, or every port.
LEMMA OuvreUn ==
  ASSUME NEW S, NEW q \in Ports
  PROVE  Ouvre(S, q) <=> \E p \in Ports : Ouvre({p}, q) /\ p \in S
BY PolitiqueAssumption DEF Ouvre

LEMMA VueSignee ==
  ASSUME TypeOK, AdressesJustes, UnSeulGroupe, NEW m \in Presents, Accepte(m),
         NEW j \in Retenus(m) \cup {m}, NEW k \in Retenus(m) \cup {m}, j # k, NEW q \in Ports
  PROVE  Ouvre(PortsDe(FluxVu(m), fiches[j].adresse, fiches[k].adresse), q) <=> Signee(j, k, q)
<1> DEFINE S == PortsDe(FluxVu(m), fiches[j].adresse, fiches[k].adresse)
           Dit(p) == Autorise(pol, {App(j), App(k)}, EquipeDe(j, k),
                              fiches[j].adresse, fiches[k].adresse, p)
<1>1. \A p \in Ports : p \in S <=> Dit(p)
  BY VueExacte
<1>2. Signee(j, k, q) <=> \E p \in Ports : Ouvre({p}, q) /\ Dit(p)
  BY SigneeDe
<1> HIDE DEF S, Dit
<1>3. Ouvre(S, q) <=> \E p \in Ports : Ouvre({p}, q) /\ p \in S
  BY OuvreUn
<1>4. Ouvre(S, q) <=> Signee(j, k, q)
  BY <1>1, <1>2, <1>3
<1> QED  BY <1>4 DEF S

LEMMA ReglesDesDeux == TypeOK /\ AdressesJustes => ReglesExactes
<1> SUFFICES ASSUME TypeOK, AdressesJustes, UnSeulGroupe, NEW j \in Presents, NEW k \in Presents,
                    j # k, Regle(j), Regle(k), j \in Annonces(k), NEW q \in Ports
             PROVE  /\ Ouvre(Entrees(k, fiches[j].adresse), q) <=> Signee(j, k, q)
                    /\ Ouvre(Sorties(j, fiches[k].adresse), q) <=> Signee(j, k, q)
  BY DEF ReglesExactes, Pairs, Exact
<1>1. Accepte(j) /\ Accepte(k)
  BY DEF Regle
<1>2. fiches[j].adresse # fiches[k].adresse
  BY DEF AdressesJustes
<1>3. k \in Annonces(j)
  <2>1. <<fiches[k].adresse, fiches[j].adresse>> \in Relations(flux)
    BY DEF Annonces
  <2>2. fiches[j].adresse \in Adresses /\ fiches[k].adresse \in Adresses
    BY AppType
  <2>3. <<fiches[j].adresse, fiches[k].adresse>> \in Relations(flux)
    BY <1>2, <2>1, <2>2 DEF Relations
  <2> QED  BY <2>3 DEF Annonces
<1>4. j \in Retenus(k) /\ k \in Retenus(j)
  BY <1>1, <1>3 DEF Retenus
<1>5. Entrees(k, fiches[j].adresse) = PortsDe(FluxVu(k), fiches[j].adresse, fiches[k].adresse)
  BY <1>2 DEF Entrees, Entrant
<1>6. Ouvre(Sorties(j, fiches[k].adresse), q)
      <=> Ouvre(PortsDe(FluxVu(j), fiches[j].adresse, fiches[k].adresse), q)
  <2>1. Sorties(j, fiches[k].adresse) = Sortant(FluxVu(j), fiches[j].adresse, fiches[k].adresse)
    BY DEF Sorties
  <2>2. Entrant(FluxVu(j), fiches[k].adresse, fiches[j].adresse)
        = PortsDe(FluxVu(j), fiches[j].adresse, fiches[k].adresse)
    BY <1>2 DEF Entrant
  <2> QED  BY <2>1, <2>2, SortantPendant
<1>7. Ouvre(PortsDe(FluxVu(k), fiches[j].adresse, fiches[k].adresse), q) <=> Signee(j, k, q)
  BY <1>1, <1>4, VueSignee
<1>8. Ouvre(PortsDe(FluxVu(j), fiches[j].adresse, fiches[k].adresse), q) <=> Signee(j, k, q)
  BY <1>1, <1>4, VueSignee
<1> QED  BY <1>5, <1>6, <1>7, <1>8

\* client.ConstruireAvecSortant: as long as the certificates of one person
\* carry one group, what a device lets in from another that it accepts and that
\* accepts it, and what this one shows as open there, are both what the signed
\* policy says of their two certificates, for every policy and whatever else
\* each of them knows of the network (client.go:290-349, politique.go:184-326).
THEOREM CertificatsRegles == Spec => []ReglesExactes
<1>1. TypeOK /\ Juste => ReglesExactes
  BY ReglesDesDeux DEF Juste
<1> QED  BY <1>1, ToujoursJuste, PTL

-----------------------------------------------------------------------------
(* Nothing is missing once everything is signed. *)

Tous == {App(k) : k \in Presents}

\* The server then compiles what the certificates say.
LEMMA CalmeServeur ==
  ASSUME TypeOK, Calme
  PROVE  /\ UnSeulGroupe /\ \A k \in Presents : Accepte(k) /\ Regle(k)
         /\ flux = Compiler(pol, Tous, equipe)
         /\ \A k \in Presents : App(k).proprietaire # Vide =>
               /\ App(k).proprietaire \in Personnes
               /\ fiches[k].cert.groupe = equipe[App(k).proprietaire]
<1>1. ASSUME NEW k \in Presents
      PROVE  /\ Accepte(k) /\ Regle(k) /\ fiches[k].cert.groupe = GroupeDe(fiches[k].qui)
             /\ App(k).proprietaire # Vide =>
                  /\ App(k).proprietaire \in Personnes
                  /\ fiches[k].cert.groupe = equipe[App(k).proprietaire]
             /\ AppServeur(fiches[k]) = App(k)
  <2>1. Accepte(k) /\ fiches[k].cert.groupe = GroupeDe(fiches[k].qui)
    BY DEF Calme
  <2>2. Regle(k)
    BY <2>1 DEF Calme, Gardes, Regle, Servi, Presents
  <2>3. fiches[k].qui \in LesQui /\ App(k).proprietaire = fiches[k].qui.proprietaire
    BY AppType
  <2>4. fiches[k].qui.proprietaire # Vide =>
          /\ fiches[k].qui.proprietaire \in Personnes
          /\ fiches[k].cert.groupe = equipe[fiches[k].qui.proprietaire]
    BY <2>1, <2>3, QuiType DEF GroupeDe
  <2>5. groupeCertifie(fiches[k]) = fiches[k].cert.groupe
    BY <2>1 DEF Accepte, Certifie, Verifie, groupeCertifie
  <2>6. (fiches[k].qui.proprietaire # Vide
           /\ groupeCertifie(fiches[k]) # equipe[fiches[k].qui.proprietaire]) = FALSE
    BY <2>4, <2>5
  <2>7. AppServeur(fiches[k]) = App(k)
    BY <2>6 DEF AppServeur, App
  <2> QED  BY <2>1, <2>2, <2>3, <2>4, <2>7
<1>2. UnSeulGroupe
  BY <1>1 DEF UnSeulGroupe
<1>3. {AppServeur(fiches[k]) : k \in Gardes} = Tous
  BY <1>1 DEF Calme, Tous
<1>4. flux = Compiler(pol, Tous, equipe)
  BY <1>3 DEF Calme, FluxServeur
<1> QED  BY <1>1, <1>2, <1>4

LEMMA TousUneAdresse ==
  ASSUME TypeOK, AdressesJustes, NEW j \in Presents, NEW c \in Tous, c.adresse = App(j).adresse
  PROVE  c = App(j)
<1>1. PICK i \in Presents : c = App(i)
  BY DEF Tous
<1>2. fiches[i].adresse = fiches[j].adresse
  BY <1>1, AppType
<1> QED  BY <1>1, <1>2 DEF AdressesJustes

\* What the policy says of two devices, the server relays.
LEMMA CalmeAnnonces ==
  ASSUME TypeOK, AdressesJustes, Calme, NEW j \in Presents, NEW k \in Presents, j # k,
         NEW q \in Ports, Signee(j, k, q)
  PROVE  j \in Annonces(k)
<1> DEFINE a == App(j)
           b == App(k)
           B == {App(j), App(k)}
           d == EquipeDe(j, k)
<1>1. PICK p \in Ports : Autorise(pol, B, d, fiches[j].adresse, fiches[k].adresse, p)
  BY SigneeDe
<1>2. /\ a.adresse = fiches[j].adresse /\ b.adresse = fiches[k].adresse
      /\ a.adresse \in Adresses /\ b.adresse \in Adresses /\ a.adresse # b.adresse
      /\ a.proprietaire = fiches[j].qui.proprietaire
      /\ b.proprietaire = fiches[k].qui.proprietaire
  BY AppType DEF AdressesJustes
<1>3. a \in Tous /\ b \in Tous /\ B \subseteq Tous /\ Tous \in SUBSET Appareils
  BY AppType DEF Tous
<1>4. \A c \in B \cup Tous : (c.adresse = a.adresse => c = a) /\ (c.adresse = b.adresse => c = b)
  BY <1>3, TousUneAdresse
<1>5. a.proprietaire # Vide => d[a.proprietaire] = equipe[a.proprietaire]
  BY <1>2, CalmeServeur DEF EquipeDe
<1>6. b.proprietaire # Vide => d[b.proprietaire] = equipe[b.proprietaire]
  BY <1>2, CalmeServeur DEF EquipeDe
<1>7. a \in B /\ b \in B
  OBVIOUS
<1> HIDE DEF a, b, B, d
<1>8. Autorise(pol, Tous, equipe, a.adresse, b.adresse, p)
  <2>1. Autorise(pol, B, d, a.adresse, b.adresse, p)
        <=> Autorise(pol, Tous, equipe, a.adresse, b.adresse, p)
    BY <1>3, <1>4, <1>5, <1>6, <1>7, AutoriseDeux
  <2> QED  BY <1>1, <1>2, <2>1
<1>9. <<b.adresse, a.adresse>> \in Relations(flux)
  BY <1>2, <1>3, <1>8, CalmeServeur, RelationsExactes
<1> QED  BY <1>2, <1>9 DEF Annonces

\* What a device was not told of, it does not let in.
LEMMA InconnuFerme ==
  ASSUME TypeOK, AdressesJustes, NEW j \in Presents, NEW k \in Presents, j # k,
         j \notin Retenus(k), NEW p
  PROVE  p \notin PortsDe(FluxVu(k), fiches[j].adresse, fiches[k].adresse)
<1> DEFINE V == Retenus(k) \cup {k}
           A == {App(i) : i \in V}
           e == EquipeVue(k)
           x == fiches[j].adresse
           y == fiches[k].adresse
<1>1. V \subseteq Presents /\ j \notin V
  BY DEF Retenus, Annonces
<1>2. A \in SUBSET Appareils /\ x \in Points /\ y \in Points /\ x # y /\ x # Serveur
  BY <1>1, AppType, PolitiqueAssumption DEF AdressesJustes
<1>3. \A c \in A : c.adresse # x
  BY <1>1, AppType DEF AdressesJustes
<1>4. FluxVu(k) = Compiler(pol, A, e)
  BY DEF FluxVu
<1> HIDE DEF A, x, y, e, V
<1>5. \A sels : ~Designe(sels, A, e, x)
  BY <1>2, <1>3 DEF Designe
<1>6. ~Autorise(pol, A, e, x, y, p)
  BY <1>5 DEF Autorise
<1>7. p \notin PortsDe(FluxVu(k), x, y)
  BY <1>2, <1>4, <1>6, CompilerExact
<1> QED  BY <1>7 DEF x, y

\* A rule whose source is the server.
LEMMA ServeurDeux ==
  ASSUME NEW A \in SUBSET Appareils, NEW B \in SUBSET Appareils, NEW e, NEW d, NEW b, NEW p,
         b \in A, b \in B,
         \A c \in A \cup B : c.adresse = b.adresse => c = b,
         b.proprietaire # Vide => e[b.proprietaire] = d[b.proprietaire]
  PROVE  Autorise(pol, A, e, Serveur, b.adresse, p) <=> Autorise(pol, B, d, Serveur, b.adresse, p)
<1>1. \A c \in A \cup B : c.adresse # Serveur
  BY PolitiqueAssumption DEF Appareils
<1>2. \A sels : Designe(sels, A, e, Serveur) <=> Designe(sels, B, d, Serveur)
  BY <1>1 DEF Designe
<1>3. ~MemePersonne(A, e, Serveur, b.adresse) /\ ~MemePersonne(B, d, Serveur, b.adresse)
  BY <1>1 DEF MemePersonne
<1>4. \A sels : Designe(sels, A, e, b.adresse) <=> Designe(sels, B, d, b.adresse)
  <2> TAKE sels
  <2>1. Compte(sels, b, e) <=> Compte(sels, b, d)
    BY CompteEgal
  <2>2. Designe(sels, A, e, b.adresse)
        <=> (b.adresse = Serveur /\ Nomme(sels, "serveur")) \/ Compte(sels, b, e)
    BY DesigneSeul
  <2>3. Designe(sels, B, d, b.adresse)
        <=> (b.adresse = Serveur /\ Nomme(sels, "serveur")) \/ Compte(sels, b, d)
    BY DesigneSeul
  <2> QED  BY <2>1, <2>2, <2>3
<1> QED  BY <1>2, <1>3, <1>4 DEF Autorise

\* What the firewall of the server lets out to a device, this one lets in.
LEMMA CalmeNft ==
  ASSUME TypeOK, AdressesJustes, Calme, NEW k \in Presents, NEW q \in Ports
  PROVE  Ouvre(Entrees(k, Serveur), q) <=> Ouvre(NftSortie(flux, fiches[k].adresse), q)
<1> DEFINE V == Retenus(k) \cup {k}
           A == {App(i) : i \in V}
           b == App(k)
           e == EquipeVue(k)
<1>1. V \subseteq Presents
  BY DEF Retenus, Annonces
<1>2. /\ b.adresse = fiches[k].adresse /\ b.adresse \in Points
      /\ b.adresse # Serveur /\ Serveur \in Points
  BY AppType, PolitiqueAssumption DEF Points
<1>3. A \subseteq Tous /\ b \in A /\ b \in Tous
  BY <1>1 DEF Tous
<1>4. Tous \in SUBSET Appareils
  BY AppType DEF Tous
<1>5. \A c \in A \cup Tous : c.adresse = b.adresse => c = b
  BY <1>3, TousUneAdresse
<1>6. b.proprietaire # Vide => e[b.proprietaire] = equipe[b.proprietaire]
  BY GroupeVu, CalmeServeur
<1>7. FluxVu(k) = Compiler(pol, A, e)
  BY DEF FluxVu
<1>8. Entrees(k, Serveur) = PortsDe(FluxVu(k), Serveur, b.adresse)
  BY <1>2, CalmeServeur DEF Entrees, Entrant
<1>9. NftSortie(flux, fiches[k].adresse) = PortsDe(flux, Serveur, b.adresse)
  BY <1>2 DEF NftSortie
<1> HIDE DEF A, b, e, V
<1>10. \A p : Autorise(pol, A, e, Serveur, b.adresse, p)
              <=> Autorise(pol, Tous, equipe, Serveur, b.adresse, p)
  BY <1>3, <1>4, <1>5, <1>6, ServeurDeux
<1>11. \A p : p \in PortsDe(FluxVu(k), Serveur, b.adresse)
              <=> Autorise(pol, A, e, Serveur, b.adresse, p)
  BY <1>2, <1>3, <1>4, <1>7, CompilerExact
<1>12. \A p : p \in PortsDe(flux, Serveur, b.adresse)
              <=> Autorise(pol, Tous, equipe, Serveur, b.adresse, p)
  BY <1>2, <1>4, CalmeServeur, CompilerExact
<1> QED  BY <1>8, <1>9, <1>10, <1>11, <1>12 DEF Ouvre

LEMMA CalmeEntrees ==
  ASSUME TypeOK, AdressesJustes, Calme, NEW j \in Presents, NEW k \in Presents, j # k,
         NEW q \in Ports
  PROVE  Ouvre(Entrees(k, fiches[j].adresse), q) <=> Signee(j, k, q)
<1>1. UnSeulGroupe /\ Regle(j) /\ Regle(k) /\ Accepte(j)
  BY CalmeServeur
<1>2. CASE j \in Annonces(k)
  <2> DEFINE p == <<j, k>>
  <2>1. p \in Pairs /\ p[1] = j /\ p[2] = k
    BY DEF Pairs
  <2>2. ReglesExactes
    BY ReglesDesDeux
  <2>3. Exact(Entrees(p[2], fiches[p[1]].adresse), p[1], p[2])
    BY <1>1, <1>2, <2>1, <2>2 DEF ReglesExactes
  <2> QED  BY <2>1, <2>3 DEF Exact
<1>3. CASE j \notin Annonces(k)
  <2>1. ~Signee(j, k, q)
    BY <1>3, CalmeAnnonces
  <2>2. j \notin Retenus(k)
    BY <1>3 DEF Retenus
  <2>3. \A p : p \notin PortsDe(FluxVu(k), fiches[j].adresse, fiches[k].adresse)
    BY <2>2, InconnuFerme
  <2>4. ~Ouvre(Entrees(k, fiches[j].adresse), q)
    BY <2>3 DEF Entrees, Entrant, Ouvre
  <2> QED  BY <2>1, <2>4
<1> QED  BY <1>2, <1>3

\* Once every device is signed for the group of its owner and the server has
\* compiled, the server announces, the engines let in and the firewall lets out
\* all that the policy opens, and nothing else (serveur.go:241-330,
\* politique.go:184-326, nft.go:26-61).
THEOREM CertificatsComplets == Spec => []RienNeManque
<1>1. ASSUME TypeOK, AdressesJustes PROVE RienNeManque
  <2> SUFFICES ASSUME Calme
               PROVE  /\ \A p \in Pairs : Exact(Entrees(p[2], fiches[p[1]].adresse), p[1], p[2])
                      /\ \A k \in Presents : Egaux(Entrees(k, Serveur), NftSortie(flux, fiches[k].adresse))
    BY DEF RienNeManque
  <2>1. \A p \in Pairs : p[1] \in Presents /\ p[2] \in Presents /\ p[1] # p[2]
    BY DEF Pairs
  <2> QED  BY <1>1, <2>1, CalmeEntrees, CalmeNft DEF Exact, Egaux
<1>2. TypeOK /\ Juste => RienNeManque
  BY <1>1 DEF Juste
<1> QED  BY <1>2, ToujoursJuste, PTL
=============================================================================
