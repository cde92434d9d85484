--------------------------- MODULE FenetreIdeale ---------------------------
(***************************************************************************)
(* What a session promises to the engine, without the bit ring: opening a  *)
(* data message is one atomic operation on the set of every counter opened *)
(* so far.  A counter is handed up when its tag is right, it was never     *)
(* handed up before, it is under the limit, and it is less than            *)
(* TailleFenetre behind the highest one.  Nothing else is refused.         *)
(***************************************************************************)
EXTENDS Integers

CONSTANTS TailleFenetre, RejeterApresN, CompteurMax

VARIABLES compteur, \* counters the sender has sealed: 0 .. compteur - 1
          recus,    \* every counter handed up so far
          rendu     \* the last answer given to a reader

vars == <<compteur, recus, rendu>>

Compteurs == 0 .. CompteurMax

Acceptable(n) ==
  /\ n < RejeterApresN
  /\ n \notin recus
  /\ \A k \in recus : k - n < TailleFenetre

Init ==
  /\ compteur = 0
  /\ recus = {}
  /\ rendu = [n |-> 0, authentique |-> FALSE, ok |-> FALSE]

Chiffrer ==
  /\ compteur < RejeterApresN
  /\ compteur' = compteur + 1
  /\ UNCHANGED <<recus, rendu>>

\* Only the sender holds the key: a right tag means a sealed counter.
Dechiffrer ==
  \E n \in Compteurs, authentique \in BOOLEAN :
    LET ok == authentique /\ Acceptable(n) IN
    /\ authentique => n < compteur
    /\ rendu' = [n |-> n, authentique |-> authentique, ok |-> ok]
    /\ recus' = IF ok THEN recus \cup {n} ELSE recus
    /\ UNCHANGED compteur

Next == Chiffrer \/ Dechiffrer

Spec == Init /\ [][Next]_vars
=============================================================================
