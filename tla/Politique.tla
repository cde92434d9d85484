------------------------------ MODULE Politique ------------------------------
(***************************************************************************)
(* The compiler of the policy (internal/politique): who may open what on   *)
(* whom.  The server compiles it for its firewall and its relay, each      *)
(* device for itself from what the administrator signed.                   *)
(*                                                                         *)
(* A policy is a set of rules, a team a function from persons to groups; a *)
(* port is an atom, Tout the one that covers them all.  Lists whose order  *)
(* changes nothing are sets.                                               *)
(***************************************************************************)
EXTENDS Naturals

CONSTANTS
    Personnes, Groupes, Etiquettes,
    Adresses,     \* of the devices
    Serveur,      \* the address of the server
    Ports,        \* what LirePorts yields
    Tout,         \* the port "*", one of them
    Toujours,     \* the ports the server always answers on: DNS and echo
    Vide          \* the empty string

ASSUME PolitiqueAssumption ==
    /\ Vide \notin Personnes \cup Groupes \cup Etiquettes
    /\ Serveur \notin Adresses /\ Tout \in Ports /\ Toujours \subseteq Ports

Equipes == [Personnes -> Groupes \cup {Vide}]

\* A device belongs to a person or carries a label.  horsGroupe: its person is
\* in the team, but it counts in no group.
Appareils == [adresse : Adresses, proprietaire : Personnes \cup {Vide},
              etiquette : Etiquettes \cup {Vide}, horsGroupe : BOOLEAN]

Selecteurs ==
    [sorte : {"*", "serveur", "soi"}, de : {Vide}]
      \cup [sorte : {"groupe"}, de : Groupes]
      \cup [sorte : {"etiquette"}, de : Etiquettes]
      \cup [sorte : {"utilisateur"}, de : Personnes]

Regles == [de : SUBSET Selecteurs, vers : SUBSET Selecteurs, ports : SUBSET Ports]
Points == Adresses \cup {Serveur}
LesFlux == [sources : SUBSET Points, dest : SUBSET Points, ports : SUBSET Ports]

-----------------------------------------------------------------------------
(* Selectors *)

correspond(sel, a, e) ==
    \/ sel.sorte = "*"
    \/ /\ sel.sorte = "groupe"
       /\ a.proprietaire # Vide /\ ~a.horsGroupe /\ e[a.proprietaire] = sel.de
    \/ sel.sorte = "etiquette" /\ a.etiquette # Vide /\ a.etiquette = sel.de
    \/ sel.sorte = "utilisateur" /\ a.proprietaire # Vide /\ a.proprietaire = sel.de

\* A person who left the team is in no rule, whatever the selector.
SortiDe(a, e) == a.proprietaire # Vide /\ e[a.proprietaire] = Vide

\* The addresses that some selectors designate.
Nomme(sels, sorte) == \E s \in sels : s.sorte = sorte
Designe(sels, apps, e, x) ==
    \/ x = Serveur /\ Nomme(sels, "serveur")
    \/ \E a \in apps : /\ a.adresse = x /\ ~SortiDe(a, e)
                       /\ \E s \in sels : correspond(s, a, e)

choisir(sels, apps, e) == {x \in Points : Designe(sels, apps, e, x)}

-----------------------------------------------------------------------------
(* Compiler *)

\* The devices of a person still in the team.
Siens(u, apps, e) ==
    {x \in Points : e[u] # Vide /\ \E a \in apps : a.adresse = x /\ a.proprietaire = u}

\* What a rule opens from the sources it names to the destinations it names.
\* A rule with no source or no destination opens nothing.
Directs(regles, apps, e) ==
    {[sources |-> choisir(r.de, apps, e), dest |-> choisir(r.vers, apps, e),
      ports |-> r.ports] :
        r \in {r \in regles : choisir(r.de, apps, e) # {} /\ choisir(r.vers, apps, e) # {}}}

\* "soi": for each person, from those of his devices that are sources to all
\* of his devices.
FluxSoi(r, u, apps, e) ==
    [sources |-> Siens(u, apps, e) \cap choisir(r.de, apps, e), dest |-> Siens(u, apps, e),
     ports |-> r.ports]
PourSoi(regles, apps, e) ==
    UNION {{FluxSoi(r, u, apps, e) :
              u \in {u \in Personnes : FluxSoi(r, u, apps, e).sources # {}
                                       /\ \E x, y \in Siens(u, apps, e) : x # y}} :
             r \in {r \in regles : Nomme(r.vers, "soi")}}

Compiler(regles, apps, e) == Directs(regles, apps, e) \cup PourSoi(regles, apps, e)

-----------------------------------------------------------------------------
(* What is read in the compiled rules *)

\* The ports from x to y.
PortsDe(flux, x, y) ==
    UNION {f.ports : f \in {f \in flux : x \in f.sources /\ y \in f.dest}}

\* What source s may open on moi, which the engine of moi enforces.
Entrant(flux, moi, s) == IF s = moi THEN {} ELSE PortsDe(flux, s, moi)

\* What moi may open on d, which the application shows; "*" alone if it is there.
Sortant(flux, moi, d) ==
    IF d = moi THEN {}
    ELSE IF Tout \in PortsDe(flux, moi, d) THEN {Tout} ELSE PortsDe(flux, moi, d)

\* The addresses moi may reach.
Joignables(flux, moi) ==
    {d \in Points : d # moi /\ \E f \in flux : moi \in f.sources /\ d \in f.dest}

\* The pairs the server relays for, in both directions.
RelationsAller(flux) ==
    {p \in Adresses \X Adresses :
        p[1] # p[2] /\ \E f \in flux : p[1] \in f.sources /\ p[2] \in f.dest}
Relations(flux) ==
    {p \in Adresses \X Adresses :
        p[1] # p[2] /\ \E f \in flux : \/ p[1] \in f.sources /\ p[2] \in f.dest
                                       \/ p[2] \in f.sources /\ p[1] \in f.dest}

\* The two chains of the firewall of the server that follow the policy: from
\* the server to a device, and from a device to the server.  Besides answers
\* to what is already open, nothing else crosses the kernel.
NftSortie(flux, d) == IF d = Serveur THEN {} ELSE PortsDe(flux, Serveur, d)
NftEntree(flux, s) == IF s = Serveur THEN {} ELSE Toujours \cup PortsDe(flux, s, Serveur)

\* A list of ports opens port q.
Ouvre(ports, q) == q \in ports \/ Tout \in ports

-----------------------------------------------------------------------------
(* The reference: what a policy says, rule by rule *)

\* x and y are devices of one person, still in the team.
MemePersonne(apps, e, x, y) ==
    \E a, b \in apps : /\ a.adresse = x /\ b.adresse = y
                       /\ a.proprietaire # Vide /\ a.proprietaire = b.proprietaire
                       /\ ~SortiDe(a, e)

Autorise(regles, apps, e, x, y, p) ==
    \E r \in regles :
        /\ p \in r.ports /\ Designe(r.de, apps, e, x)
        /\ \/ Designe(r.vers, apps, e, y)
           \/ Nomme(r.vers, "soi") /\ MemePersonne(apps, e, x, y)
=============================================================================
