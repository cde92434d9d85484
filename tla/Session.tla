------------------------------ MODULE Session ------------------------------
(***************************************************************************)
(* One direction of a session of internal/tunnel/session.go: the sending   *)
(* counter (chiffrer) and the receiving side (dechiffrer) with its         *)
(* anti-replay window, a ring of TailleFenetre bits indexed by the counter *)
(* modulo TailleFenetre.                                                   *)
(*                                                                         *)
(* dechiffrer takes the lock of the window twice, in possible and in       *)
(* accepter, and opens the message between the two: readers interleave at  *)
(* these points.  The engine has one receiving goroutine, so Lecteurs has  *)
(* one element there; the type has its own lock and is checked with two.   *)
(*                                                                         *)
(* The network may lose, duplicate, delay and reorder sealed messages and  *)
(* corrupt their header or tag: a reader takes any counter at any time,    *)
(* with a right tag only if it was sealed.                                 *)
(*                                                                         *)
(* SInit, SNext and SSpec leave Init, Next and Spec to Tunnel, whose       *)
(* theorems stand beside those of this module.                             *)
(***************************************************************************)
EXTENDS Integers

CONSTANTS
  TailleFenetre,  \* tailleFenetre, 2048 in the code
  RejeterApresN,  \* rejeterApresN, 2^64 - 1 - 2^13 in the code
  CompteurMax,    \* the largest counter of a header, 2^64 - 1 in the code
  Lecteurs        \* goroutines that open messages of this session

ASSUME TailleAssumption == TailleFenetre \in Nat \ {0}
ASSUME LimiteAssumption ==
  /\ RejeterApresN \in Nat
  /\ CompteurMax \in Nat
  /\ RejeterApresN <= CompteurMax

VARIABLES
  compteur,  \* session.compteur of the sender: the next nonce
  max,       \* fenetre.max
  vu,        \* fenetre.vu
  bits,      \* fenetre.bits, one element for each bit
  lecteur,   \* what each reader is doing, and the counter it holds
  rendu,     \* history: the last answer of dechiffrer to a reader
  livres     \* history: how many times each counter was handed up

svars == <<compteur, max, vu, bits, lecteur, rendu, livres>>

Compteurs == 0 .. CompteurMax
Cases == 0 .. TailleFenetre - 1

\* The position of a counter in the ring.
bit(n) == n % TailleFenetre

STypeOK ==
  /\ compteur \in 0 .. RejeterApresN
  /\ max \in Compteurs
  /\ vu \in BOOLEAN
  /\ bits \in [Cases -> BOOLEAN]
  /\ lecteur \in [Lecteurs -> [etape : {"repos", "accepter"}, n : Compteurs]]
  /\ rendu \in [n : Compteurs, authentique : BOOLEAN, ok : BOOLEAN]
  /\ livres \in [Compteurs -> Nat]

SInit ==
  /\ compteur = 0
  /\ max = 0
  /\ vu = FALSE
  /\ bits = [i \in Cases |-> FALSE]
  /\ lecteur = [l \in Lecteurs |-> [etape |-> "repos", n |-> 0]]
  /\ rendu = [n |-> 0, authentique |-> FALSE, ok |-> FALSE]
  /\ livres = [n \in Compteurs |-> 0]

-----------------------------------------------------------------------------

\* A counter ahead of everything seen.
Avance(n) == ~vu \/ n > max

\* Mutant: the window is one counter shorter.
FenetreCourte(n) ==
  /\ n < RejeterApresN
  /\ Avance(n) \/ (max - n < TailleFenetre - 1 /\ ~bits[bit(n)])

\* fenetre.possible: would accepter take this counter now?
possible(n) ==
  /\ n < RejeterApresN
  /\ Avance(n) \/ (max - n < TailleFenetre /\ ~bits[bit(n)])

\* Mutant: the positions of the counters skipped are not cleared.
SansEffacer(n) ==
  [i \in Cases |-> i = bit(n) \/ (vu /\ n - max < TailleFenetre /\ bits[i])]

\* The ring after accepter moves max up to n: all of it is cleared when n is
\* a whole window ahead, else the positions of the counters skipped.
BitsAvances(n) ==
  [i \in Cases |->
     \/ i = bit(n)
     \/ /\ vu
        /\ n - max < TailleFenetre
        /\ \A k \in max + 1 .. n - 1 : bit(k) # i
        /\ bits[i]]

\* Mutant: accepter trusts the answer possible gave before the unlock.
SansRevoir(n, ok) ==
  /\ ok = TRUE
  /\ IF Avance(n) THEN bits' = BitsAvances(n) /\ max' = n /\ vu' = TRUE
                  ELSE bits' = [bits EXCEPT ![bit(n)] = TRUE] /\ UNCHANGED <<max, vu>>

\* fenetre.accepter: the answer, and what it does to the window.
accepter(n, ok) ==
  \/ /\ n >= RejeterApresN
     /\ ok = FALSE
     /\ UNCHANGED <<max, vu, bits>>
  \/ /\ n < RejeterApresN
     /\ Avance(n)
     /\ ok = TRUE
     /\ bits' = BitsAvances(n)
     /\ max' = n
     /\ vu' = TRUE
  \/ /\ n < RejeterApresN
     /\ ~Avance(n)
     /\ ok = (max - n < TailleFenetre /\ ~bits[bit(n)])
     /\ bits' = IF ok THEN [bits EXCEPT ![bit(n)] = TRUE] ELSE bits
     /\ UNCHANGED <<max, vu>>

\* Mutant: the counter has no limit.
ChiffrerSansLimite ==
  /\ compteur' = compteur + 1
  /\ UNCHANGED <<max, vu, bits, lecteur, rendu, livres>>

\* session.chiffrer, called on a session that is utilisable.
Chiffrer ==
  /\ compteur < RejeterApresN
  /\ compteur' = compteur + 1
  /\ UNCHANGED <<max, vu, bits, lecteur, rendu, livres>>

\* Mutant: the window moves on the header alone.
SansTag(n, authentique) == authentique \in BOOLEAN /\ n < CompteurMax

\* The header and the tag agree with what the sender sealed.
Ouvre(n, authentique) == authentique /\ n < compteur

\* The first half of session.dechiffrer: possible under the lock, then the
\* AEAD, which touches nothing shared.
Ouvrir(l) ==
  /\ lecteur[l].etape = "repos"
  /\ \E n \in Compteurs, authentique \in BOOLEAN :
       /\ authentique => n < compteur
       /\ \/ /\ possible(n) /\ Ouvre(n, authentique)
             /\ lecteur' = [lecteur EXCEPT ![l] = [etape |-> "accepter", n |-> n]]
             /\ UNCHANGED rendu
          \/ /\ ~(possible(n) /\ Ouvre(n, authentique))
             /\ rendu' = [n |-> n, authentique |-> authentique, ok |-> FALSE]
             /\ UNCHANGED lecteur
  /\ UNCHANGED <<compteur, max, vu, bits, livres>>

\* The second half: accepter under the lock, and the answer.
Accepter(l) ==
  /\ lecteur[l].etape = "accepter"
  /\ \E ok \in BOOLEAN :
       LET n == lecteur[l].n IN
       /\ accepter(n, ok)
       /\ rendu' = [n |-> n, authentique |-> TRUE, ok |-> ok]
       /\ livres' = IF ok THEN [livres EXCEPT ![n] = @ + 1] ELSE livres
  /\ lecteur' = [lecteur EXCEPT ![l].etape = "repos"]
  /\ UNCHANGED compteur

SNext == Chiffrer \/ \E l \in Lecteurs : Ouvrir(l) \/ Accepter(l)

SSpec == SInit /\ [][SNext]_svars

-----------------------------------------------------------------------------

Livres == {n \in Compteurs : livres[n] > 0}

\* No counter is handed up twice, whatever the network repeats and however
\* the readers interleave between possible and accepter (session.go:60-73).
AuPlusUneFois == \A n \in Compteurs : livres[n] <= 1

\* Only what the sender sealed is handed up, and what was not sealed never
\* moves the window: the counter is accepted only after the tag
\* (session.go:58-59), so that a corrupted header cannot shut out the
\* counters that follow.
SeulEmis ==
  /\ \A n \in Livres : n < compteur
  /\ vu => max < compteur

\* The ring says, of every counter of the current window, whether it was
\* handed up; and max is the highest one that was.  This is what the modular
\* indexing and the clearing loop of accepter must keep.
FenetreJuste ==
  /\ vu <=> Livres # {}
  /\ vu => max \in Livres
  /\ \A n \in Livres : n <= max
  /\ vu => \A n \in Compteurs :
       n <= max /\ max - n < TailleFenetre => (bits[bit(n)] <=> n \in Livres)
  /\ ~vu => \A i \in Cases : ~bits[i]

\* What a reader carries from possible to accepter.
EnMain ==
  \A l \in Lecteurs : lecteur[l].etape = "accepter" =>
    lecteur[l].n < compteur /\ lecteur[l].n < RejeterApresN

\* The inductive invariant.
Inv == STypeOK /\ AuPlusUneFois /\ SeulEmis /\ FenetreJuste /\ EnMain

\* Opening in two halves, over a ring of bits, answers as one atomic test on
\* the set of everything handed up: each refusal is one of the four the
\* abstract specification allows, and no fresh counter of the window is lost.
Ideale == INSTANCE FenetreIdeale WITH recus <- Livres
Atomique == Ideale!Spec
=============================================================================
