------------------------------- MODULE Synchro -------------------------------
(***************************************************************************)
(* The server brings the network in line with what is decided elsewhere:   *)
(* Synchroniser of internal/serveur/serveur.go, with the registrations     *)
(* (api.go, base.go) that run beside it.                                   *)
(*                                                                         *)
(* Synchroniser reads the team, the revocations and the base, erases what  *)
(* has no right to stay, reads the policy, loads the firewall of the       *)
(* kernel, then tells the engine.  It holds s.mu all along and writes to   *)
(* SQLite in between.  A registration does the opposite: it holds the      *)
(* write lock of SQLite and takes s.mu inside (Accepter calls              *)
(* chargerEquipe).  Only busy_timeout separates the two.                   *)
(*                                                                         *)
(* A device is its public key; a fiche is one line of the table, named by  *)
(* its number.  Numbers are never given twice and a line never changes its *)
(* address, so a number stands for the address too.  A policy is the set   *)
(* of pairs it lets talk, one of them possibly the server: what            *)
(* politique.Compiler says, which depends on nothing else here.            *)
(***************************************************************************)
EXTENDS Integers, FiniteSets, Functions

CONSTANTS
  Cles,          \* public keys
  Personnes,     \* emails
  Machine,       \* the owner of a device that has a label instead
  Proprio,       \* the owner of each key
  LeServeur,     \* the server, as a destination of the policy
  Equipes,       \* what equipe.txt may say: sets of persons
  Politiques,    \* what politique.json may say
  Revocables,    \* the keys that may be revoked
  SeuilMassif,   \* 3 in the code
  Illisible,     \* a file that cannot be read
  Nulle,         \* nil
  MaxNumeros     \* bound on the lines ever inserted

ASSUME CommunAssumption ==
  /\ Proprio \in [Cles -> Personnes \cup {Machine}]
  /\ Machine \notin Personnes
  /\ LeServeur \notin Cles
  /\ Politiques \subseteq SUBSET (Cles \X (Cles \cup {LeServeur}))
  /\ \A rien \in {Illisible, Nulle} :
       rien \notin Politiques /\ rien \notin Equipes
  /\ Equipes \subseteq SUBSET Personnes
  /\ Revocables \subseteq Cles
  /\ SeuilMassif \in Nat /\ MaxNumeros \in Nat

VARIABLES
  equipe,          \* equipe.txt
  politique,       \* politique.json
  revoquees,       \* the keys of the revocation list in force
  base,            \* table appareils
  perimes,         \* numbers of the lines whose expiry is behind
  prochain,        \* the next AUTOINCREMENT value
  ecrivain,        \* a transaction holds the write lock of SQLite
  inscription,     \* a call of connexion between its steps
  synchro,         \* the call of Synchroniser that holds s.mu
  derniereEquipe,  \* s.equipe
  dernierePol,     \* s.pol
  signature,       \* s.signature
  relations,       \* s.relations, by numbers
  voit,            \* s.voit, by numbers
  moteur,          \* the pairs given to DefinirPairs; their keys are s.actifs
  noyau,           \* history: what this run gave the kernel rules for
  dernier          \* history: what the last complete call wanted and returned

fichiers == <<equipe, politique, revoquees>>
sql == <<base, perimes, prochain>>
reseau == <<signature, relations, voit, moteur, noyau, dernier>>
vars == <<fichiers, sql, ecrivain, inscription, synchro, derniereEquipe, dernierePol, reseau>>

Numeros == 1 .. MaxNumeros
Fiches == [num : Numeros, cle : Cles]
Motifs == {"revoque", "expire", "sorti"}
Voulus == [pairs : SUBSET Fiches, relations : SUBSET (Numeros \X Numeros),
           entrants : SUBSET Numeros]

\* nil is no state of the network.
ASSUME NulleAssumption == Nulle \notin Voulus

Repos == [etape |-> "repos"]

LesCles(fiches) == {f.cle : f \in fiches}

TypeOK ==
  /\ equipe \in {Illisible} \cup Equipes
  /\ politique \in {Illisible} \cup Politiques
  /\ revoquees \subseteq Cles
  /\ base \subseteq Fiches
  /\ perimes \subseteq Numeros
  /\ prochain \in 1 .. MaxNumeros + 1
  /\ ecrivain \in BOOLEAN
  /\ inscription \in {Repos} \cup [etape : {"accepter", "ecrire"}, cle : Cles]
  /\ synchro \in {Repos} \cup
       [etape : {"retirer"}, gardes : SUBSET Fiches,
        aRetirer : SUBSET [fiche : Fiches, motif : Motifs]]
  /\ derniereEquipe \in {Nulle} \cup Equipes
  /\ dernierePol \in {Nulle} \cup Politiques
  /\ signature \in {Nulle} \cup Voulus
  /\ relations \subseteq Numeros \X Numeros
  /\ voit \subseteq Numeros \X Numeros
  /\ moteur \subseteq Fiches
  /\ noyau \in {Nulle} \cup Voulus
  /\ dernier \in {Nulle} \cup [voulu : Voulus, reussi : BOOLEAN]

Init ==
  /\ equipe \in {Illisible} \cup Equipes
  /\ politique \in {Illisible} \cup Politiques
  /\ revoquees = {}
  /\ base = {}
  /\ perimes = {}
  /\ prochain = 1
  /\ ecrivain = FALSE
  /\ inscription = Repos
  /\ synchro = Repos
  /\ derniereEquipe = Nulle
  /\ dernierePol = Nulle
  /\ signature = Nulle
  /\ relations = {}
  /\ voit = {}
  /\ moteur = {}
  /\ noyau = Nulle
  /\ dernier = Nulle

-----------------------------------------------------------------------------
(* The files of the administrator, read with the last good version behind. *)

fraiche == equipe # Illisible

\* equipeCourante: the team as the server knows it, once the file is read.
equipeCourante ==
  IF fraiche THEN equipe ELSE IF derniereEquipe = Nulle THEN {} ELSE derniereEquipe

EquipeLue == derniereEquipe' = IF fraiche THEN equipe ELSE derniereEquipe

politiqueCourante ==
  IF politique # Illisible THEN politique ELSE IF dernierePol = Nulle THEN {} ELSE dernierePol

PolitiqueLue == dernierePol' = IF politique # Illisible THEN politique ELSE dernierePol

-----------------------------------------------------------------------------
(* Synchroniser. *)

Personnelle(f) == Proprio[f.cle] # Machine

Revoquees == {f \in base : f.cle \in revoquees}
Expirees == {f \in base \ Revoquees : f.num \in perimes}
Sorties(e) == {f \in base \ (Revoquees \cup Expirees) : Personnelle(f) /\ Proprio[f.cle] \notin e}

\* More than half of the personal devices leave at once: more likely a
\* truncated file than a decision.
Massive(sortis) ==
  /\ Cardinality(sortis) >= SeuilMassif
  /\ 2 * Cardinality(sortis) > Cardinality({f \in base : Personnelle(f)})

\* Mutant: the purge does not ask whether the team was just read.
PurgeAveugle(sortis) ==
  {[fiche |-> f, motif |-> "revoque"] : f \in Revoquees}
  \cup {[fiche |-> f, motif |-> "expire"] : f \in Expirees}
  \cup (IF Massive(sortis) THEN {} ELSE {[fiche |-> f, motif |-> "sorti"] : f \in sortis})

\* Mutant: a team file that was read is believed, however short.
PurgeTronquee(sortis) ==
  {[fiche |-> f, motif |-> "revoque"] : f \in Revoquees}
  \cup {[fiche |-> f, motif |-> "expire"] : f \in Expirees}
  \cup (IF fraiche THEN {[fiche |-> f, motif |-> "sorti"] : f \in sortis} ELSE {})

\* What this call erases.
ARetirer(sortis) ==
  {[fiche |-> f, motif |-> "revoque"] : f \in Revoquees}
  \cup {[fiche |-> f, motif |-> "expire"] : f \in Expirees}
  \cup (IF fraiche /\ ~Massive(sortis) THEN {[fiche |-> f, motif |-> "sorti"] : f \in sortis}
                                       ELSE {})

\* What the engine and the kernel should hold for the devices kept.
Voulu(gardes, pol) ==
  [pairs |-> gardes,
   relations |-> {<<fg[1].num, fg[2].num>> : fg \in
                    {fh \in gardes \X gardes : <<fh[1].cle, fh[2].cle>> \in pol}},
   entrants |-> {f.num : f \in {g \in gardes : <<g.cle, LeServeur>> \in pol}}]

\* The readings, under s.mu: only another process could write between them.
SyncDebut ==
  /\ synchro = Repos
  /\ EquipeLue
  /\ LET sortis == Sorties(equipeCourante) IN
     synchro' = [etape |-> "retirer",
                 gardes |-> base \ (Revoquees \cup Expirees \cup sortis),
                 aRetirer |-> ARetirer(sortis)]
  /\ UNCHANGED <<fichiers, sql, ecrivain, inscription, dernierePol, reseau>>

\* base.Appareils fails: nothing is done this time.
SyncBaseIllisible ==
  /\ synchro = Repos
  /\ EquipeLue
  /\ UNCHANGED <<fichiers, sql, ecrivain, inscription, synchro, dernierePol, reseau>>

\* Mutant: SQLite without busy_timeout waits for the write lock for ever.
RetirerSansDelai(f) == ~ecrivain /\ base' = base \ {g \in base : g.num = f.num}

\* retirer: a DELETE by number, which waits for the write lock at most
\* busy_timeout, and whose failure is only logged.
Retirer(f) ==
  \/ ~ecrivain /\ base' = base \ {g \in base : g.num = f.num}
  \/ UNCHANGED base

SyncRetirer ==
  /\ synchro.etape = "retirer"
  /\ \E r \in synchro.aRetirer :
       /\ Retirer(r.fiche)
       /\ synchro' = [synchro EXCEPT !.aRetirer = @ \ {r}]
  /\ UNCHANGED <<fichiers, perimes, prochain, ecrivain, inscription, derniereEquipe,
                 dernierePol, reseau>>

\* The firewall took the rules: everything follows.
Appliquer(v) ==
  /\ noyau' = v
  /\ relations' = v.relations
  /\ voit' = v.relations
  /\ moteur' = v.pairs
  /\ signature' = v

\* Mutant: the error of the firewall returns before the withdrawals.
RestreindreRien(v) == v \in Voulus /\ UNCHANGED <<moteur, relations, voit, signature, noyau>>

\* Mutant: the pairs are given to the engine in any case.
RestreindreTout(v) ==
  /\ moteur' = v.pairs
  /\ relations' = v.relations
  /\ UNCHANGED <<voit, signature, noyau>>

\* The firewall refused them: only the withdrawals are applied.
Restreindre(v) ==
  /\ moteur' = {f \in v.pairs : f.cle \in LesCles(moteur)}
  /\ relations' = relations \cap v.relations
  /\ UNCHANGED <<voit, signature, noyau>>

SyncAppliquer ==
  /\ synchro.etape = "retirer"
  /\ synchro.aRetirer = {}
  /\ PolitiqueLue
  /\ LET v == Voulu(synchro.gardes, politiqueCourante) IN
     \E reussi \in BOOLEAN :
       /\ \/ v = signature /\ reussi /\ UNCHANGED <<signature, relations, voit, moteur, noyau>>
          \/ v # signature /\ reussi /\ Appliquer(v)
          \/ v # signature /\ ~reussi /\ Restreindre(v)
       /\ dernier' = [voulu |-> v, reussi |-> reussi]
  /\ synchro' = Repos
  /\ UNCHANGED <<fichiers, sql, ecrivain, inscription, derniereEquipe>>

-----------------------------------------------------------------------------
(* connexion: Enregistrer in one immediate transaction. *)

InsDebut(k) ==
  /\ inscription = Repos
  /\ ~ecrivain
  /\ ecrivain' = TRUE
  /\ inscription' = [etape |-> "accepter", cle |-> k]
  /\ UNCHANGED <<fichiers, sql, synchro, derniereEquipe, dernierePol, reseau>>

\* Accepter: for a person, the team must be read, under s.mu.
InsAccepter ==
  /\ inscription.etape = "accepter"
  /\ LET qui == Proprio[inscription.cle] IN
     \/ /\ qui = Machine
        /\ inscription' = [inscription EXCEPT !.etape = "ecrire"]
        /\ UNCHANGED <<derniereEquipe, ecrivain>>
     \/ /\ qui # Machine
        /\ synchro = Repos
        /\ EquipeLue
        /\ IF qui \in equipeCourante
           THEN inscription' = [inscription EXCEPT !.etape = "ecrire"] /\ UNCHANGED ecrivain
           ELSE inscription' = Repos /\ ecrivain' = FALSE
  /\ UNCHANGED <<fichiers, sql, synchro, dernierePol, reseau>>

\* Mutant: the number after the next.
InscrireUnPlusLoin(k) ==
  /\ k \notin LesCles(base)
  /\ prochain <= MaxNumeros
  /\ base' = base \cup {[num |-> prochain + 1, cle |-> k]}
  /\ prochain' = prochain + 1
  /\ UNCHANGED perimes

\* A key already there keeps its line and gets a new expiry; else a new line.
Inscrire(k) ==
  \/ \E f \in base : f.cle = k /\ perimes' = perimes \ {f.num} /\ UNCHANGED <<base, prochain>>
  \/ /\ k \notin LesCles(base)
     /\ prochain <= MaxNumeros
     /\ base' = base \cup {[num |-> prochain, cle |-> k]}
     /\ prochain' = prochain + 1
     /\ UNCHANGED perimes

\* The writes and the commit, or any error of the transaction: a rollback.
InsEcrire ==
  /\ inscription.etape = "ecrire"
  /\ Inscrire(inscription.cle) \/ UNCHANGED sql
  /\ inscription' = Repos
  /\ ecrivain' = FALSE
  /\ UNCHANGED <<fichiers, synchro, derniereEquipe, dernierePol, reseau>>

-----------------------------------------------------------------------------
(* The others. *)

\* deconnexion, retrait, and « sasd retirer » from another process.
Supprimer(f) ==
  /\ f \in base
  /\ ~ecrivain
  /\ base' = base \ {f}
  /\ UNCHANGED <<fichiers, perimes, prochain, ecrivain, inscription, synchro, derniereEquipe,
                 dernierePol, reseau>>

\* The expiry of a line passes; a machine has none.
Expirer(f) ==
  /\ f \in base /\ Personnelle(f) /\ f.num \notin perimes
  /\ perimes' = perimes \cup {f.num}
  /\ UNCHANGED <<fichiers, base, prochain, ecrivain, inscription, synchro, derniereEquipe,
                 dernierePol, reseau>>

\* A revocation list only grows.
Revoquer(k) ==
  /\ k \notin revoquees
  /\ revoquees' = revoquees \cup {k}
  /\ UNCHANGED <<equipe, politique, sql, ecrivain, inscription, synchro, derniereEquipe,
                 dernierePol, reseau>>

ChangerEquipe ==
  /\ equipe' \in ({Illisible} \cup Equipes) \ {equipe}
  /\ UNCHANGED <<politique, revoquees, sql, ecrivain, inscription, synchro, derniereEquipe,
                 dernierePol, reseau>>

ChangerPolitique ==
  /\ politique' \in ({Illisible} \cup Politiques) \ {politique}
  /\ UNCHANGED <<equipe, revoquees, sql, ecrivain, inscription, synchro, derniereEquipe,
                 dernierePol, reseau>>

\* sasd starts again.  The kernel keeps its rules, but the engine is empty and
\* the first call loads rules before anything.
Redemarrer ==
  /\ ecrivain' = FALSE
  /\ inscription' = Repos
  /\ synchro' = Repos
  /\ derniereEquipe' = Nulle
  /\ dernierePol' = Nulle
  /\ signature' = Nulle
  /\ relations' = {}
  /\ voit' = {}
  /\ moteur' = {}
  /\ noyau' = Nulle
  /\ dernier' = Nulle
  /\ UNCHANGED <<fichiers, sql>>

Synchroniser == SyncDebut \/ SyncRetirer \/ SyncAppliquer

Next ==
  \/ Synchroniser \/ SyncBaseIllisible
  \/ (\E k \in Cles : InsDebut(k)) \/ InsAccepter \/ InsEcrire
  \/ \E f \in base : Supprimer(f) \/ Expirer(f)
  \/ \E k \in Revocables : Revoquer(k)
  \/ ChangerEquipe \/ ChangerPolitique \/ Redemarrer

Spec == Init /\ [][Next]_vars

\* Boucle calls Synchroniser every five seconds, and a call goes on until it
\* returns; so does a registration, once s.mu is free.
Equitable ==
  /\ WF_vars(SyncDebut) /\ WF_vars(SyncRetirer) /\ WF_vars(SyncAppliquer)
  /\ SF_vars(InsAccepter) /\ WF_vars(InsEcrire)

SpecEquitable == Spec /\ Equitable

-----------------------------------------------------------------------------
(* Properties. *)

\* A withdrawal is applied by the call that sees it, whatever becomes of the
\* firewall, of the policy and of the erasing in the base: once it returns,
\* the engine serves and relays only what it wanted (serveur.go:187-188,
\* 297-318).
RetraitsAppliques ==
  dernier # Nulle =>
    /\ moteur \subseteq dernier.voulu.pairs
    /\ relations \subseteq dernier.voulu.relations

\* No key enters the engine before the kernel has rules computed with it: the
\* firewall goes first (serveur.go:297-298), also after a restart.
PareFeuAvant ==
  /\ moteur # {} => noyau # Nulle
  /\ noyau # Nulle => LesCles(moteur) \subseteq LesCles(noyau.pairs)

\* The lines a call erases because their owner left.
Partants(appel) == {r.fiche : r \in {s \in appel.aRetirer : s.motif = "sorti"}}

\* A device is erased because its owner left only against a team file that was
\* read: an unreadable file, even at start, erases nobody (serveur.go:219-221).
\* Nor does one that was cut short: a call that erases SeuilMassif devices or
\* more for that reason spares at least as many personal ones of the table it
\* read (serveur.go:214-220).
PurgeSurLecture ==
  [][/\ \A r \in (IF synchro = Repos THEN {} ELSE synchro.aRetirer) :
          r.motif = "sorti" /\ r.fiche \in base \ base' /\ synchro' # synchro /\ synchro' # Repos
          => derniereEquipe # Nulle /\ Proprio[r.fiche.cle] \notin derniereEquipe
     /\ synchro = Repos /\ synchro' # Repos =>
          LET partis == Partants(synchro') IN
          \/ Cardinality(partis) < SeuilMassif
          \/ Cardinality(partis) <= Cardinality({f \in base \ partis : Personnelle(f)})]_vars

\* What must go in the end goes, even if the firewall fails for ever and every
\* erasing fails: a key without a right to stay is no longer in the engine.
Legitime(k) ==
  /\ \E f \in base : f.cle = k /\ f.num \notin perimes
  /\ k \notin revoquees
  /\ Proprio[k] \in {Machine} \cup equipeCourante

RetraitFini == \A k \in Cles : []<>(Legitime(k) \/ k \notin LesCles(moteur))

\* The two locks, taken in opposite orders, hold nobody for ever.
InscriptionFinit == []<>(inscription = Repos)
=============================================================================
