---------------------------- MODULE TunnelIdeal ----------------------------
(***************************************************************************)
(* What two engines promise to each other, without the network, the        *)
(* indices and the clock: which keys each end holds, and which keys it has *)
(* ever sealed data with, restarts included.                               *)
(*                                                                         *)
(* The counter of a session starts at zero (nouvelleSession), so that keys *)
(* taken into use a second time would repeat nonces: an end starts to use  *)
(* keys only if it never sealed anything with them.  It never goes back to *)
(* an older handshake of the same initiator.  The end that answered uses   *)
(* keys only after the other one sealed something with them.               *)
(***************************************************************************)
EXTENDS Integers

CONSTANTS
  Bouts,  \* the two ends
  Cles,   \* the keys of a handshake: who initiated (par), when (horo)
  Nulle   \* no keys

VARIABLES
  courante,    \* the keys each end seals with
  precedente,  \* those it sealed with before
  suivante,    \* those it answered for, and waits to use
  repondues,   \* keys answered for: the handshake is done
  scellees     \* keys each end ever sealed data with

vars == <<courante, precedente, suivante, repondues, scellees>>

Init ==
  /\ courante = [e \in Bouts |-> Nulle]
  /\ precedente = [e \in Bouts |-> Nulle]
  /\ suivante = [e \in Bouts |-> Nulle]
  /\ repondues = {}
  /\ scellees = [e \in Bouts |-> {}]

\* e may take k into use.
Neuve(e, k) ==
  /\ k \notin scellees[e]
  /\ courante[e] # Nulle /\ courante[e].par = k.par => courante[e].horo < k.horo

\* e may seal data, with the keys it uses and no other.
Sceller(e) ==
  \/ UNCHANGED scellees
  \/ /\ courante'[e] # Nulle
     /\ scellees' = [scellees EXCEPT ![e] = @ \cup {courante'[e]}]

\* e answers a handshake of the other end; the keys are new.
Repondre(e) ==
  \E k \in Cles \ repondues :
    /\ k.par # e
    /\ suivante' = [suivante EXCEPT ![e] = k]
    /\ repondues' = repondues \cup {k}
    /\ Neuve(e, k)
    /\ UNCHANGED <<courante, precedente, scellees>>

\* A handshake of e is answered: its keys are used at once.
Ouvrir(e) ==
  \E k \in repondues :
    /\ k.par = e
    /\ Neuve(e, k)
    /\ precedente' = [precedente EXCEPT ![e] = courante[e]]
    /\ courante' = [courante EXCEPT ![e] = k]
    /\ Sceller(e)
    /\ UNCHANGED <<suivante, repondues>>

\* e uses the keys it answered for: the other end has them.
Employer(e) ==
  /\ suivante[e] # Nulle
  /\ \E f \in Bouts \ {e} : suivante[e] \in scellees[f]
  /\ Neuve(e, suivante[e])
  /\ precedente' = [precedente EXCEPT ![e] = courante[e]]
  /\ courante' = [courante EXCEPT ![e] = suivante[e]]
  /\ suivante' = [suivante EXCEPT ![e] = Nulle]
  /\ Sceller(e)
  /\ UNCHANGED repondues

\* Keys grow old, or e starts again; what it holds it may use.
Oublier(e) ==
  /\ \E k \in {courante[e], Nulle} : courante' = [courante EXCEPT ![e] = k]
  /\ \E k \in {precedente[e], Nulle} : precedente' = [precedente EXCEPT ![e] = k]
  /\ \E k \in {suivante[e], Nulle} : suivante' = [suivante EXCEPT ![e] = k]
  /\ Sceller(e)
  /\ UNCHANGED repondues

Next == \E e \in Bouts : Oublier(e) \/ Employer(e) \/ Ouvrir(e) \/ Repondre(e)

Spec == Init /\ [][Next]_vars
=============================================================================
