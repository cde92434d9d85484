---------------------------- MODULE SynchroProofs ----------------------------
(***************************************************************************)
(* Theorems about Synchro, for any keys, persons, teams and policies.      *)
(*                                                                         *)
(* RetraitsAppliques is not inductive.  Its difficult case is the call     *)
(* that finds what it wants equal to the signature and does nothing: the   *)
(* engine was restricted meanwhile, perhaps to a new line of a key the     *)
(* signature knows under an old number.  Such a signature cannot be wanted *)
(* again, because the numbers of a key only grow (Croissants).             *)
(***************************************************************************)
EXTENDS Synchro, FiniteSetTheorems, TLAPS

\* The fiches of the call under way.
Gardes == IF synchro = Repos THEN {} ELSE synchro.gardes

\* Each key has one line, and no number is ahead of the next one to give.
UneLigne(fiches) == \A f, g \in fiches : f.cle = g.cle => f = g
Donnes == \A f \in base \cup moteur \cup Gardes : f.num < prochain

\* From the engine to the call under way, and from there to the base, the
\* number of a key never goes back.
Croissants(avant, apres) == \A f \in avant, g \in apres : f.cle = g.cle => f.num <= g.num

\* What the signature knows of the engine.
SignatureJuste ==
  /\ noyau = signature
  /\ signature = Nulle => moteur = {} /\ relations = {}
  /\ signature # Nulle =>
       /\ relations \subseteq signature.relations
       /\ LesCles(moteur) \subseteq LesCles(signature.pairs)
       /\ Croissants(signature.pairs, moteur)

Inv ==
  /\ TypeOK
  /\ UneLigne(base) /\ UneLigne(Gardes)
  /\ Donnes
  /\ Croissants(moteur, base) /\ Croissants(moteur, Gardes) /\ Croissants(Gardes, base)
  /\ SignatureJuste
  /\ RetraitsAppliques

-----------------------------------------------------------------------------


\* What a call wants is well formed.
LEMMA VouluType ==
  ASSUME NEW gardes \in SUBSET Fiches, NEW pol
  PROVE  Voulu(gardes, pol) \in Voulus
<1> DEFINE rel == {<<fg[1].num, fg[2].num>> : fg \in
                    {fh \in gardes \X gardes : <<fh[1].cle, fh[2].cle>> \in pol}}
           ent == {f.num : f \in {g \in gardes : <<g.cle, LeServeur>> \in pol}}
<1>1. \A f \in gardes : f.num \in Numeros BY DEF Fiches
<1>2. rel \in SUBSET (Numeros \X Numeros)
  <2>1. SUFFICES ASSUME NEW x \in rel PROVE x \in Numeros \X Numeros
    OBVIOUS
  <2>2. PICK fg \in gardes \X gardes : x = <<fg[1].num, fg[2].num>>
    OBVIOUS
  <2>3. fg[1] \in gardes /\ fg[2] \in gardes OBVIOUS
  <2> QED BY <2>2, <2>3, <1>1
<1>3. ent \in SUBSET Numeros BY <1>1
<1> HIDE DEF rel, ent
<1>4. Voulu(gardes, pol) = [pairs |-> gardes, relations |-> rel, entrants |-> ent]
  BY DEF Voulu, rel, ent
<1> QED BY <1>2, <1>3, <1>4 DEF Voulus

\* The parts of what a call wants that the proofs use.
LEMMA VouluPairs ==
  ASSUME NEW gardes, NEW pol PROVE Voulu(gardes, pol).pairs = gardes
  BY DEF Voulu

\* What is erased is well formed.
LEMMA ARetirerType ==
  ASSUME TypeOK, NEW sortis \in SUBSET Fiches
  PROVE  ARetirer(sortis) \in SUBSET [fiche : Fiches, motif : Motifs]
  BY DEF ARetirer, Revoquees, Expirees, TypeOK, Motifs

\* A call under way is a record of three fields.
LEMMA EnRetrait ==
  ASSUME TypeOK, synchro.etape = "retirer"
  PROVE  /\ synchro \in [etape : {"retirer"}, gardes : SUBSET Fiches,
                         aRetirer : SUBSET [fiche : Fiches, motif : Motifs]]
         /\ synchro # Repos
  BY DEF TypeOK, Repos

-----------------------------------------------------------------------------

LEMMA TypeInit == Init => TypeOK
<1> SUFFICES ASSUME Init PROVE TypeOK OBVIOUS
<1> USE CommunAssumption DEF Init
<1>1. prochain \in 1 .. MaxNumeros + 1 OBVIOUS
<1> QED BY <1>1 DEF TypeOK

LEMMA TypePas == TypeOK /\ [Next]_vars => TypeOK'
<1> SUFFICES ASSUME TypeOK, [Next]_vars PROVE TypeOK' OBVIOUS
<1> USE CommunAssumption
<1>0. ASSUME EquipeLue PROVE derniereEquipe' \in {Nulle} \cup Equipes
  BY <1>0 DEF EquipeLue, fraiche, TypeOK
<1>1. CASE SyncDebut
  <2>1. synchro' \in {Repos} \cup
          [etape : {"retirer"}, gardes : SUBSET Fiches,
           aRetirer : SUBSET [fiche : Fiches, motif : Motifs]]
    <3> DEFINE sortis == Sorties(equipeCourante)
               gardes == base \ (Revoquees \cup Expirees \cup sortis)
    <3>1. sortis \in SUBSET Fiches /\ gardes \in SUBSET Fiches
      BY DEF Sorties, TypeOK
    <3>2. ARetirer(sortis) \in SUBSET [fiche : Fiches, motif : Motifs]
      BY <3>1, ARetirerType
    <3>3. synchro' = [etape |-> "retirer", gardes |-> gardes, aRetirer |-> ARetirer(sortis)]
      BY <1>1 DEF SyncDebut
    <3> HIDE DEF sortis, gardes
    <3> QED BY <3>1, <3>2, <3>3
  <2>2. EquipeLue BY <1>1 DEF SyncDebut
  <2> QED BY <2>1, <2>2, <1>1, <1>0 DEF SyncDebut, TypeOK, fichiers, sql, reseau
<1>2. CASE SyncBaseIllisible
  BY <1>2, <1>0 DEF SyncBaseIllisible, TypeOK, fichiers, sql, reseau
<1>3. CASE SyncRetirer
  <2>1. PICK r \in synchro.aRetirer :
          Retirer(r.fiche) /\ synchro' = [synchro EXCEPT !.aRetirer = @ \ {r}]
    BY <1>3 DEF SyncRetirer
  <2>2. base' \subseteq base BY <2>1 DEF Retirer
  <2>3. synchro' \in [etape : {"retirer"}, gardes : SUBSET Fiches,
                      aRetirer : SUBSET [fiche : Fiches, motif : Motifs]]
    <3>1. synchro \in [etape : {"retirer"}, gardes : SUBSET Fiches,
                         aRetirer : SUBSET [fiche : Fiches, motif : Motifs]]
      BY <1>3, EnRetrait DEF SyncRetirer
    <3> QED BY <2>1, <3>1
  <2> QED BY <2>2, <2>3, <1>3 DEF SyncRetirer, TypeOK, fichiers, reseau
<1>4. CASE SyncAppliquer
  <2> DEFINE v == Voulu(synchro.gardes, politiqueCourante)
  <2>1. synchro.gardes \in SUBSET Fiches BY <1>4, EnRetrait DEF SyncAppliquer
  <2>2. v \in Voulus BY <2>1, VouluType
  <2>3. PICK reussi \in BOOLEAN :
          /\ \/ v = signature /\ reussi /\ UNCHANGED <<signature, relations, voit, moteur, noyau>>
             \/ v # signature /\ reussi /\ Appliquer(v)
             \/ v # signature /\ ~reussi /\ Restreindre(v)
          /\ dernier' = [voulu |-> v, reussi |-> reussi]
    BY <1>4 DEF SyncAppliquer
  <2> HIDE DEF v
  <2>4. v.pairs \in SUBSET Fiches /\ v.relations \in SUBSET (Numeros \X Numeros)
    BY <2>2 DEF Voulus
  <2>5. dernier' \in [voulu : Voulus, reussi : BOOLEAN] BY <2>2, <2>3
  <2>6. /\ signature' \in {Nulle} \cup Voulus /\ noyau' \in {Nulle} \cup Voulus
        /\ relations' \subseteq Numeros \X Numeros /\ voit' \subseteq Numeros \X Numeros
        /\ moteur' \subseteq Fiches
    BY <2>2, <2>3, <2>4 DEF Appliquer, Restreindre, TypeOK
  <2>7. dernierePol' \in {Nulle} \cup Politiques
    BY <1>4 DEF SyncAppliquer, PolitiqueLue, TypeOK
  <2> QED BY <2>5, <2>6, <2>7, <1>4 DEF SyncAppliquer, TypeOK, fichiers, sql
<1>5. ASSUME NEW k \in Cles, InsDebut(k) PROVE TypeOK'
  BY <1>5 DEF InsDebut, TypeOK, fichiers, sql, reseau
<1>6. CASE InsAccepter
  <2>1. inscription \in [etape : {"accepter", "ecrire"}, cle : Cles]
    BY <1>6 DEF InsAccepter, TypeOK, Repos
  <2>2. inscription' \in {Repos} \cup [etape : {"accepter", "ecrire"}, cle : Cles]
    BY <1>6, <2>1 DEF InsAccepter
  <2>3. derniereEquipe' \in {Nulle} \cup Equipes
    BY <1>6, <1>0 DEF InsAccepter, TypeOK
  <2>4. ecrivain' \in BOOLEAN
    BY <1>6 DEF InsAccepter, TypeOK
  <2> QED BY <2>2, <2>3, <2>4, <1>6 DEF InsAccepter, TypeOK, fichiers, sql, reseau
<1>7. CASE InsEcrire
  <2>1. inscription.cle \in Cles
    BY <1>7 DEF InsEcrire, TypeOK, Repos
  <2>2. base' \subseteq Fiches /\ perimes' \subseteq Numeros /\ prochain' \in 1 .. MaxNumeros + 1
    <3>1. CASE UNCHANGED sql BY <3>1 DEF sql, TypeOK
    <3>2. CASE Inscrire(inscription.cle)
      <4>1. CASE prochain <= MaxNumeros /\ base' = base \cup {[num |-> prochain, cle |-> inscription.cle]}
                 /\ prochain' = prochain + 1 /\ UNCHANGED perimes
        <5>1. prochain \in Numeros /\ prochain + 1 \in 1 .. MaxNumeros + 1
          BY <4>1 DEF TypeOK, Numeros
        <5>2. [num |-> prochain, cle |-> inscription.cle] \in Fiches
          BY <5>1, <2>1 DEF Fiches
        <5> QED BY <4>1, <5>1, <5>2 DEF TypeOK
      <4>2. CASE perimes' \subseteq perimes /\ UNCHANGED <<base, prochain>>
        BY <4>2 DEF TypeOK
      <4> QED BY <3>2, <4>1, <4>2 DEF Inscrire
    <3> QED BY <1>7, <3>1, <3>2 DEF InsEcrire
  <2> QED BY <2>2, <1>7 DEF InsEcrire, TypeOK, fichiers, reseau
<1>8. ASSUME NEW f \in base, Supprimer(f) \/ Expirer(f) PROVE TypeOK'
  <2>1. f.num \in Numeros BY DEF TypeOK, Fiches
  <2> QED BY <1>8, <2>1 DEF Supprimer, Expirer, TypeOK, fichiers, reseau
<1>9. ASSUME NEW k \in Revocables, Revoquer(k) PROVE TypeOK'
  BY <1>9 DEF Revoquer, TypeOK, sql, reseau
<1>10. CASE ChangerEquipe
  BY <1>10 DEF ChangerEquipe, TypeOK, sql, reseau
<1>11. CASE ChangerPolitique
  BY <1>11 DEF ChangerPolitique, TypeOK, sql, reseau
<1>12. CASE Redemarrer
  BY <1>12 DEF Redemarrer, TypeOK, fichiers, sql
<1>13. CASE UNCHANGED vars
  BY <1>13 DEF vars, TypeOK, fichiers, sql, reseau
<1> QED BY <1>1, <1>2, <1>3, <1>4, <1>5, <1>6, <1>7, <1>8, <1>9, <1>10, <1>11, <1>12, <1>13
        DEF Next, Synchroniser

\* Type correctness of the synchronisation.
THEOREM SynchroType == Spec => []TypeOK
  BY TypeInit, TypePas, PTL DEF Spec

-----------------------------------------------------------------------------

LEMMA InvInit == Init => Inv
<1> SUFFICES ASSUME Init PROVE Inv OBVIOUS
<1>1. TypeOK BY TypeInit
<1> QED BY <1>1 DEF Init, Inv, Gardes, UneLigne, Donnes, Croissants, SignatureJuste,
                    RetraitsAppliques

\* A step that leaves the engine and the server's own state alone, adds no
\* line and begins no call keeps the invariant.
LEMMA Inchange ==
  ASSUME Inv, TypeOK', base' \subseteq base, prochain' = prochain,
         Gardes' \in {Gardes, {}}, UNCHANGED reseau
  PROVE  Inv'
<1>1. UneLigne(base)' /\ UneLigne(Gardes)' /\ Donnes'
  BY DEF Inv, UneLigne, Donnes, reseau
<1>2. Croissants(moteur, base)' /\ Croissants(moteur, Gardes)' /\ Croissants(Gardes, base)'
  BY DEF Inv, Croissants, reseau
<1>3. SignatureJuste' /\ RetraitsAppliques'
  BY DEF Inv, SignatureJuste, Croissants, LesCles, RetraitsAppliques, reseau
<1> QED BY <1>1, <1>2, <1>3 DEF Inv

\* A call begins: what it keeps is a part of the base.
LEMMA InvDebut ==
  ASSUME Inv, TypeOK', SyncDebut
  PROVE  Inv'
<1>1. Gardes' \subseteq base
  <2>1. synchro' # Repos /\ synchro'.gardes \subseteq base
    BY DEF SyncDebut, Repos
  <2> QED BY <2>1 DEF Gardes
<1>2. UNCHANGED <<base, prochain, reseau>>
  BY DEF SyncDebut, sql
<1> HIDE DEF Gardes
<1>3. UneLigne(base)' /\ UneLigne(Gardes)' /\ Donnes'
  BY <1>1, <1>2 DEF Inv, UneLigne, Donnes, reseau
<1>4. \A f, g \in base : f.cle = g.cle => f.num <= g.num
  BY DEF Inv, UneLigne, TypeOK, Fiches, Numeros
<1>5. Croissants(moteur, base)' /\ Croissants(moteur, Gardes)' /\ Croissants(Gardes, base)'
  BY <1>1, <1>2, <1>4 DEF Inv, Croissants, reseau
<1>6. SignatureJuste' /\ RetraitsAppliques'
  BY <1>2 DEF Inv, SignatureJuste, Croissants, LesCles, RetraitsAppliques, reseau
<1> QED BY <1>3, <1>5, <1>6 DEF Inv

\* A registration writes: a new line has the greatest number of all.
LEMMA InvEcrire ==
  ASSUME Inv, TypeOK', InsEcrire
  PROVE  Inv'
<1> DEFINE ligne == [num |-> prochain, cle |-> inscription.cle]
<1>0. Gardes' = Gardes /\ UNCHANGED reseau
  BY DEF InsEcrire, Gardes
<1>1. CASE base' = base /\ prochain' = prochain
  BY <1>0, <1>1, Inchange
<1>2. CASE /\ inscription.cle \notin LesCles(base)
           /\ base' = base \cup {ligne}
           /\ prochain' = prochain + 1
  <2>1. ligne.num = prochain /\ ligne.cle = inscription.cle OBVIOUS
  <2>2. \A f \in base : f.cle # ligne.cle BY <1>2, <2>1 DEF LesCles
  <2>3. \A f \in base \cup moteur \cup Gardes : f.num \in Int /\ f.num < prochain
    BY DEF Inv, Donnes, TypeOK, Fiches, Numeros, Gardes
  <2>4. prochain \in Int BY DEF Inv, TypeOK
  <2> HIDE DEF ligne
  <2>5. UneLigne(base)' /\ UneLigne(Gardes)'
    BY <1>0, <1>2, <2>2 DEF Inv, UneLigne
  <2>6. Donnes' BY <1>0, <1>2, <2>1, <2>3, <2>4 DEF Donnes, reseau
  <2>7. \A f \in moteur \cup Gardes : f.num <= ligne.num
    BY <2>1, <2>3, <2>4
  <2>8. Croissants(moteur, base)' /\ Croissants(moteur, Gardes)' /\ Croissants(Gardes, base)'
    BY <1>0, <1>2, <2>7 DEF Inv, Croissants, reseau
  <2>9. SignatureJuste' /\ RetraitsAppliques'
    BY <1>0 DEF Inv, SignatureJuste, Croissants, LesCles, RetraitsAppliques, reseau
  <2> QED BY <2>5, <2>6, <2>8, <2>9 DEF Inv
<1> QED BY <1>1, <1>2 DEF InsEcrire, Inscrire, sql

\* A signature that is wanted again knows every line of the engine: the number
\* of a key in the engine lies between the signature's and the call's.
LEMMA SignatureVoulue ==
  ASSUME Inv, signature # Nulle, signature.pairs = Gardes
  PROVE  moteur \subseteq signature.pairs
<1> SUFFICES ASSUME NEW f \in moteur PROVE f \in signature.pairs
  OBVIOUS
<1>1. PICK g \in signature.pairs : g.cle = f.cle
  BY DEF Inv, SignatureJuste, LesCles
<1>2. g.num <= f.num BY <1>1 DEF Inv, SignatureJuste, Croissants
<1>3. f.num <= g.num BY <1>1 DEF Inv, Croissants
<1>4. f \in Fiches /\ g \in Fiches
  BY DEF Inv, TypeOK, Voulus
<1>5. f.num = g.num BY <1>2, <1>3, <1>4 DEF Fiches, Numeros
<1> QED BY <1>1, <1>4, <1>5 DEF Fiches

\* The end of a call, whatever the firewall answered.
LEMMA InvAppliquer ==
  ASSUME Inv, TypeOK', SyncAppliquer
  PROVE  Inv'
<1> DEFINE v == Voulu(synchro.gardes, politiqueCourante)
<1>1. /\ synchro # Repos
      /\ synchro.gardes \in SUBSET Fiches
  BY EnRetrait DEF SyncAppliquer, Inv
<1>2. v \in Voulus /\ v.pairs = Gardes
  BY <1>1, VouluType, VouluPairs DEF Gardes
<1>3. PICK reussi \in BOOLEAN :
        /\ \/ v = signature /\ reussi /\ UNCHANGED <<signature, relations, voit, moteur, noyau>>
           \/ v # signature /\ reussi /\ Appliquer(v)
           \/ v # signature /\ ~reussi /\ Restreindre(v)
        /\ dernier' = [voulu |-> v, reussi |-> reussi]
  BY DEF SyncAppliquer
<1>4. /\ Gardes' = {}
      /\ UNCHANGED <<base, prochain>>
  BY DEF SyncAppliquer, Gardes, sql
<1>5. dernier'.voulu = v BY <1>3
<1>6. v # Nulle BY <1>2, NulleAssumption
<1> HIDE DEF v
<1>7. UneLigne(base)' /\ UneLigne(Gardes)'
  BY <1>4 DEF Inv, UneLigne
<1>8. Croissants(moteur, Gardes)' /\ Croissants(Gardes, base)'
  BY <1>4 DEF Croissants
<1>9. SUFFICES Donnes' /\ Croissants(moteur, base)' /\ SignatureJuste' /\ RetraitsAppliques'
  BY <1>7, <1>8 DEF Inv
<1>10. CASE v = signature /\ UNCHANGED <<signature, relations, voit, moteur, noyau>>
  <2>1. moteur \subseteq v.pairs BY <1>2, <1>6, <1>10, SignatureVoulue
  <2>2. relations \subseteq v.relations
    BY <1>6, <1>10 DEF Inv, SignatureJuste
  <2>3. RetraitsAppliques' BY <1>5, <1>10, <2>1, <2>2 DEF RetraitsAppliques
  <2>4. Donnes' BY <1>4, <1>10 DEF Inv, Donnes
  <2>5. Croissants(moteur, base)' BY <1>4, <1>10 DEF Inv, Croissants
  <2>6. SignatureJuste' BY <1>10 DEF Inv, SignatureJuste, Croissants, LesCles
  <2> QED BY <2>3, <2>4, <2>5, <2>6
<1>11. CASE Appliquer(v)
  <2>1. moteur' = Gardes /\ relations' = v.relations /\ signature' = v /\ noyau' = v
    BY <1>2, <1>11 DEF Appliquer
  <2>2. RetraitsAppliques' BY <1>2, <1>5, <2>1 DEF RetraitsAppliques
  <2>3. Donnes' BY <1>4, <2>1 DEF Inv, Donnes
  <2>4. Croissants(moteur, base)' BY <1>4, <2>1 DEF Inv, Croissants
  <2>5. \A f, g \in Gardes : f.cle = g.cle => f.num <= g.num
    <3>1. \A f \in Gardes : f.num \in Int BY <1>1 DEF Gardes, Fiches, Numeros
    <3> QED BY <3>1 DEF Inv, UneLigne
  <2>6. SignatureJuste' BY <1>2, <1>6, <2>1, <2>5 DEF SignatureJuste, Croissants
  <2> QED BY <2>2, <2>3, <2>4, <2>6
<1>12. CASE Restreindre(v)
  <2>1. /\ moteur' = {f \in Gardes : f.cle \in LesCles(moteur)}
        /\ relations' = relations \cap v.relations
        /\ UNCHANGED <<signature, noyau>>
    BY <1>2, <1>12 DEF Restreindre
  <2>2. RetraitsAppliques' BY <1>2, <1>5, <2>1 DEF RetraitsAppliques
  <2>3. Donnes' BY <1>4, <2>1 DEF Inv, Donnes
  <2>4. Croissants(moteur, base)' BY <1>4, <2>1 DEF Inv, Croissants
  <2>5. ASSUME signature = Nulle PROVE SignatureJuste'
    BY <2>1, <2>5 DEF Inv, SignatureJuste, LesCles
  <2>6. ASSUME signature # Nulle PROVE SignatureJuste'
    <3>1. relations' \subseteq signature.relations BY <2>1, <2>6 DEF Inv, SignatureJuste
    <3>2. LesCles(moteur') \subseteq LesCles(moteur) BY <2>1 DEF LesCles
    <3>3. LesCles(moteur') \subseteq LesCles(signature.pairs)
      BY <3>2, <2>6 DEF Inv, SignatureJuste
    <3>4. ASSUME NEW g \in signature.pairs, NEW f \in moteur', g.cle = f.cle
          PROVE  g.num <= f.num
      <4>1. PICK h \in moteur : h.cle = f.cle BY <2>1 DEF LesCles
      <4>2. g.num <= h.num BY <3>4, <4>1, <2>6 DEF Inv, SignatureJuste, Croissants
      <4>3. h.num <= f.num BY <4>1, <2>1 DEF Inv, Croissants
      <4>4. g \in Fiches /\ h \in Fiches /\ f \in Fiches
        <5>1. g \in Fiches BY <2>6 DEF Inv, TypeOK, Voulus
        <5>2. h \in Fiches BY DEF Inv, TypeOK
        <5>3. f \in Fiches BY DEF TypeOK
        <5> QED BY <5>1, <5>2, <5>3
      <4> QED BY <4>2, <4>3, <4>4 DEF Fiches, Numeros
    <3>5. Croissants(signature.pairs, moteur') BY <3>4 DEF Croissants
    <3> QED BY <2>1, <2>6, <3>1, <3>3, <3>5 DEF Inv, SignatureJuste
  <2> QED BY <2>2, <2>3, <2>4, <2>5, <2>6
<1> QED BY <1>3, <1>10, <1>11, <1>12

LEMMA InvPas == Inv /\ [Next]_vars => Inv'
<1> SUFFICES ASSUME Inv, [Next]_vars PROVE Inv' OBVIOUS
<1>0. TypeOK' BY TypePas DEF Inv
<1>1. CASE SyncDebut BY <1>0, <1>1, InvDebut
<1>2. CASE SyncBaseIllisible
  BY <1>0, <1>2, Inchange DEF SyncBaseIllisible, sql, Gardes
<1>3. CASE SyncRetirer
  <2>1. PICK r \in synchro.aRetirer :
          Retirer(r.fiche) /\ synchro' = [synchro EXCEPT !.aRetirer = @ \ {r}]
    BY <1>3 DEF SyncRetirer
  <2>2. base' \subseteq base BY <2>1 DEF Retirer
  <2>3. Gardes' = Gardes
    <3>1. synchro # Repos /\ synchro \in [etape : {"retirer"}, gardes : SUBSET Fiches,
                         aRetirer : SUBSET [fiche : Fiches, motif : Motifs]]
      BY <1>3, EnRetrait DEF SyncRetirer, Inv
    <3>2. synchro'.gardes = synchro.gardes /\ synchro'.etape = "retirer" BY <2>1, <3>1
    <3>3. synchro' # Repos BY <3>2 DEF Repos
    <3> QED BY <3>1, <3>2, <3>3 DEF Gardes
  <2> QED BY <1>0, <1>3, <2>2, <2>3, Inchange DEF SyncRetirer
<1>4. CASE SyncAppliquer BY <1>0, <1>4, InvAppliquer
<1>5. ASSUME NEW k \in Cles, InsDebut(k) PROVE Inv'
  BY <1>0, <1>5, Inchange DEF InsDebut, sql, Gardes
<1>6. CASE InsAccepter
  BY <1>0, <1>6, Inchange DEF InsAccepter, sql, Gardes
<1>7. CASE InsEcrire BY <1>0, <1>7, InvEcrire
<1>8. ASSUME NEW f \in base, Supprimer(f) \/ Expirer(f) PROVE Inv'
  BY <1>0, <1>8, Inchange DEF Supprimer, Expirer, Gardes
<1>9. ASSUME NEW k \in Revocables, Revoquer(k) PROVE Inv'
  BY <1>0, <1>9, Inchange DEF Revoquer, sql, Gardes
<1>10. CASE ChangerEquipe \/ ChangerPolitique
  BY <1>0, <1>10, Inchange DEF ChangerEquipe, ChangerPolitique, sql, Gardes
<1>11. CASE Redemarrer
  <2>1. /\ moteur' = {} /\ relations' = {} /\ signature' = Nulle /\ noyau' = Nulle
        /\ dernier' = Nulle /\ Gardes' = {} /\ UNCHANGED <<base, prochain>>
    BY <1>11 DEF Redemarrer, Gardes, sql
  <2> QED BY <1>0, <2>1 DEF Inv, UneLigne, Donnes, Croissants, SignatureJuste, RetraitsAppliques
<1>12. CASE UNCHANGED vars
  BY <1>0, <1>12, Inchange DEF vars, sql, Gardes
<1> QED BY <1>1, <1>2, <1>3, <1>4, <1>5, <1>6, <1>7, <1>8, <1>9, <1>10, <1>11, <1>12
        DEF Next, Synchroniser

\* What a call wants withdrawn is withdrawn when it returns, even when it
\* returns at once because the signature is the same (serveur.go:283,
\* 297-318), for any keys, teams, policies and failures.
THEOREM SynchroRetraits == Spec => []RetraitsAppliques
<1>1. Inv => RetraitsAppliques BY DEF Inv
<1> QED BY <1>1, InvInit, InvPas, PTL DEF Spec

\* No key enters the engine before the kernel has rules computed with it
\* (serveur.go:297-298).
THEOREM SynchroPareFeu == Spec => []PareFeuAvant
<1>1. Inv => PareFeuAvant
  BY DEF Inv, SignatureJuste, PareFeuAvant
<1> QED BY <1>1, InvInit, InvPas, PTL DEF Spec

-----------------------------------------------------------------------------

\* What the call under way still has to erase.
ARetirerEncore == IF synchro = Repos THEN {} ELSE synchro.aRetirer

\* An owner who left is missing from the team last read, which stays the same
\* as long as the call holds s.mu.
SortisJustes ==
  \A r \in ARetirerEncore :
    r.motif = "sorti" => derniereEquipe # Nulle /\ Proprio[r.fiche.cle] \notin derniereEquipe

LEMMA SortisPas == TypeOK /\ SortisJustes /\ [Next]_vars => SortisJustes'
<1> SUFFICES ASSUME TypeOK, SortisJustes, [Next]_vars PROVE SortisJustes' OBVIOUS
<1>0. ASSUME UNCHANGED derniereEquipe, ARetirerEncore' \subseteq ARetirerEncore
      PROVE  SortisJustes'
  BY <1>0 DEF SortisJustes
<1>1. CASE SyncDebut
  <2> DEFINE sortis == Sorties(equipeCourante)
  <2>1. ARetirerEncore' = ARetirer(sortis)
    BY <1>1 DEF SyncDebut, ARetirerEncore, Repos
  <2> SUFFICES ASSUME NEW r \in ARetirer(sortis), r.motif = "sorti"
               PROVE  derniereEquipe' # Nulle /\ Proprio[r.fiche.cle] \notin derniereEquipe'
    BY <2>1 DEF SortisJustes
  <2>2. fraiche /\ r.fiche \in sortis
    BY DEF ARetirer
  <2>3. derniereEquipe' = equipe /\ equipe \in Equipes
    BY <1>1, <2>2 DEF SyncDebut, EquipeLue, fraiche, TypeOK
  <2>4. equipe # Nulle BY <2>3, CommunAssumption
  <2>5. Proprio[r.fiche.cle] \notin equipe BY <2>2 DEF Sorties, equipeCourante
  <2> QED BY <2>3, <2>4, <2>5
<1>2. CASE SyncBaseIllisible
  BY <1>2 DEF SyncBaseIllisible, SortisJustes, ARetirerEncore
<1>3. CASE SyncRetirer
  <2>1. PICK r \in synchro.aRetirer : synchro' = [synchro EXCEPT !.aRetirer = @ \ {r}]
    BY <1>3 DEF SyncRetirer
  <2>2. synchro # Repos /\ synchro \in [etape : {"retirer"}, gardes : SUBSET Fiches,
                       aRetirer : SUBSET [fiche : Fiches, motif : Motifs]]
    BY <1>3, EnRetrait DEF SyncRetirer
  <2>3. synchro'.aRetirer \subseteq synchro.aRetirer BY <2>1, <2>2
  <2>4. ARetirerEncore' \subseteq ARetirerEncore BY <2>2, <2>3 DEF ARetirerEncore
  <2> QED BY <1>0, <1>3, <2>4 DEF SyncRetirer
<1>4. CASE SyncAppliquer \/ Redemarrer
  BY <1>4 DEF SyncAppliquer, Redemarrer, SortisJustes, ARetirerEncore
<1>5. ASSUME NEW k \in Cles, InsDebut(k) PROVE SortisJustes'
  BY <1>0, <1>5 DEF InsDebut, ARetirerEncore
<1>6. CASE InsAccepter
  <2>1. CASE synchro = Repos
    BY <1>6, <2>1 DEF InsAccepter, SortisJustes, ARetirerEncore
  <2>2. CASE synchro # Repos
    BY <1>0, <1>6, <2>2 DEF InsAccepter, ARetirerEncore
  <2> QED BY <2>1, <2>2
<1>7. CASE InsEcrire
  BY <1>0, <1>7 DEF InsEcrire, ARetirerEncore
<1>8. ASSUME NEW f \in base, Supprimer(f) \/ Expirer(f) PROVE SortisJustes'
  BY <1>0, <1>8 DEF Supprimer, Expirer, ARetirerEncore
<1>9. ASSUME NEW k \in Revocables, Revoquer(k) PROVE SortisJustes'
  BY <1>0, <1>9 DEF Revoquer, ARetirerEncore
<1>10. CASE ChangerEquipe \/ ChangerPolitique
  BY <1>0, <1>10 DEF ChangerEquipe, ChangerPolitique, ARetirerEncore
<1>11. CASE UNCHANGED vars
  BY <1>0, <1>11 DEF vars, ARetirerEncore
<1> QED BY <1>1, <1>2, <1>3, <1>4, <1>5, <1>6, <1>7, <1>8, <1>9, <1>10, <1>11
        DEF Next, Synchroniser

\* The table stays finite: a registration adds one line at most.
LEMMA FiniPas == IsFiniteSet(base) /\ [Next]_vars => IsFiniteSet(base)'
<1> SUFFICES ASSUME IsFiniteSet(base), [Next]_vars PROVE IsFiniteSet(base') OBVIOUS
<1>1. CASE base' \subseteq base BY <1>1, FS_Subset
<1>2. ASSUME NEW ligne, base' = base \cup {ligne} PROVE IsFiniteSet(base')
  BY <1>2, FS_AddElement
<1>3. CASE InsEcrire
  BY <1>1, <1>2, <1>3 DEF InsEcrire, Inscrire, sql
<1>4. CASE SyncRetirer BY <1>1, <1>4 DEF SyncRetirer, Retirer
<1>5. ASSUME NEW f \in base, Supprimer(f) \/ Expirer(f) PROVE IsFiniteSet(base')
  BY <1>1, <1>5 DEF Supprimer, Expirer
<1>6. CASE UNCHANGED base BY <1>1, <1>6
<1> QED BY <1>3, <1>4, <1>5, <1>6
        DEF Next, Synchroniser, SyncDebut, SyncBaseIllisible, SyncAppliquer, InsDebut,
            InsAccepter, Revoquer, ChangerEquipe, ChangerPolitique, Redemarrer, vars, sql,
            fichiers

\* What a call spares of the personal devices when some owners left.
Epargnes(partis) == {f \in base \ partis : Personnelle(f)}

Mesure(partis) ==
  \/ Cardinality(partis) < SeuilMassif
  \/ Cardinality(partis) <= Cardinality(Epargnes(partis))

\* A departure that is not massive spares as many as it takes.
LEMMA PasMassive ==
  ASSUME IsFiniteSet(base), NEW sortis,
         \A f \in sortis : f \in base /\ Personnelle(f), ~Massive(sortis)
  PROVE  Mesure(sortis)
<1> DEFINE personnels == {f \in base : Personnelle(f)}
<1>1. IsFiniteSet(personnels) BY FS_Subset
<1>2. sortis \subseteq personnels OBVIOUS
<1>3. IsFiniteSet(sortis) BY <1>1, <1>2, FS_Subset
<1>4. Epargnes(sortis) = personnels \ sortis /\ personnels \cap sortis = sortis
  BY <1>2 DEF Epargnes
<1>5. ~Massive(sortis) <=> ~(/\ Cardinality(sortis) >= SeuilMassif
                             /\ 2 * Cardinality(sortis) > Cardinality(personnels))
  BY DEF Massive
<1> HIDE DEF personnels
<1>6. Cardinality(Epargnes(sortis)) = Cardinality(personnels) - Cardinality(sortis)
  BY <1>1, <1>4, FS_Difference
<1>7. Cardinality(sortis) \in Nat /\ Cardinality(personnels) \in Nat
  BY <1>1, <1>3, FS_CardinalityType
<1> QED BY <1>5, <1>6, <1>7, CommunAssumption DEF Mesure

\* A call that begins erases only what it may.
LEMMA DebutMesure ==
  ASSUME IsFiniteSet(base), SyncDebut
  PROVE  Mesure(Partants(synchro'))
<1> DEFINE sortis == Sorties(equipeCourante)
<1>1. synchro'.aRetirer = ARetirer(sortis) BY DEF SyncDebut
<1>2. \A f \in sortis : f \in base /\ Personnelle(f) BY DEF Sorties
<1> HIDE DEF sortis
<1>3. CASE fraiche /\ ~Massive(sortis)
  <2>1. \A r \in ARetirer(sortis) : r.motif = "sorti" => r.fiche \in sortis
    BY DEF ARetirer
  <2>2. ASSUME NEW f \in sortis PROVE f \in Partants(synchro')
    <3> DEFINE r == [fiche |-> f, motif |-> "sorti"]
    <3>1. r \in ARetirer(sortis) BY <1>3 DEF ARetirer
    <3>2. r.fiche = f /\ r.motif = "sorti" OBVIOUS
    <3> HIDE DEF r
    <3> QED BY <1>1, <3>1, <3>2 DEF Partants
  <2>3. Partants(synchro') = sortis
    BY <1>1, <2>1, <2>2 DEF Partants
  <2> QED BY <1>2, <1>3, <2>3, PasMassive
<1>4. CASE ~(fraiche /\ ~Massive(sortis))
  <2>1. Partants(synchro') = {} BY <1>1, <1>4 DEF Partants, ARetirer
  <2>2. Cardinality(Epargnes({})) \in Nat
    BY FS_Subset, FS_CardinalityType DEF Epargnes
  <2> QED BY <2>1, <2>2, FS_EmptySet DEF Mesure
<1> QED BY <1>3, <1>4

\* Only SyncDebut begins a call.
LEMMA AppelNeuf ==
  ASSUME [Next]_vars, synchro = Repos, synchro' # Repos
  PROVE  SyncDebut
<1>1. ~SyncRetirer /\ ~SyncAppliquer
  BY DEF SyncRetirer, SyncAppliquer, Repos
<1> QED BY <1>1
        DEF Next, Synchroniser, SyncBaseIllisible, InsDebut, InsAccepter, InsEcrire, Supprimer,
            Expirer, Revoquer, ChangerEquipe, ChangerPolitique, Redemarrer, vars

\* A device is erased because its owner left only on a team file that was
\* read and does not name the owner, and never as one of the many that a file
\* cut short would drop (serveur.go:214-221).
THEOREM SynchroPurge == Spec => PurgeSurLecture
<1> DEFINE Efface(r) ==
      r.motif = "sorti" /\ r.fiche \in base \ base' /\ synchro' # synchro /\ synchro' # Repos
      => derniereEquipe # Nulle /\ Proprio[r.fiche.cle] \notin derniereEquipe
    Juste == \A r \in (IF synchro = Repos THEN {} ELSE synchro.aRetirer) : Efface(r)
    Compte == synchro = Repos /\ synchro' # Repos =>
                LET partis == Partants(synchro') IN
                \/ Cardinality(partis) < SeuilMassif
                \/ Cardinality(partis) <= Cardinality({f \in base \ partis : Personnelle(f)})
<1>1. Init => SortisJustes /\ IsFiniteSet(base)
  BY FS_EmptySet DEF Init, SortisJustes, ARetirerEncore
<1>2. Spec => [](SortisJustes /\ IsFiniteSet(base))
  BY <1>1, TypeInit, TypePas, SortisPas, FiniPas, PTL DEF Spec
<1>3. SortisJustes => Juste
  BY DEF SortisJustes, ARetirerEncore
<1>4. IsFiniteSet(base) /\ [Next]_vars => Compte
  BY AppelNeuf, DebutMesure DEF Mesure, Epargnes
<1>5. SortisJustes /\ IsFiniteSet(base) /\ [Next]_vars => [Juste /\ Compte]_vars
  BY <1>3, <1>4
<1> QED BY <1>2, <1>5, PTL DEF Spec, PurgeSurLecture
=============================================================================
