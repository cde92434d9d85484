# A formal model of CyberSAS

CyberSAS is a private network: a server (`sasd`), devices (`sas`, the Android
application), a WireGuard-like tunnel written in Go (`internal/tunnel`), an
inscription service, and a policy the server applies every five seconds.  This
directory holds TLA+ modules translated from that code, the TLC configurations
that check them on small instances, and theorems about them checked by TLAPS.

Definitions keep the names of the source, which is French; comments are in
English.  Line numbers are those of the commit this directory stands beside.

## 1. Inventory

| Component | State | Operations | Hard because |
|---|---|---|---|
| Session, anti-replay window (`tunnel/session.go`) | sending counter, ring of 2048 bits, `max`, `vu` | `chiffrer`, `dechiffrer` (= `possible`, open, `accepter`) | two locked halves around the opening; modular clearing; limits of the counter |
| Tunnel engine (`tunnel/moteur.go`, `messages.go`) | per pair: current, previous and next session, handshake, last timestamp, queue, point; table of indices | `envoyerClair`, `lancerPoignee`, `recevoirInitiation`, `recevoirReponse`, `recevoirDonnees`, `minuterie`, `DefinirPairs` | messages lost, repeated, reordered; crossed handshakes; restarts; roaming; timers |
| Flood protection (`tunnel/cookie.go`, `moteur.go`) | secret of the cookies, buckets of tokens; the cookie a device keeps | `cookie`, `reponseCookie`, `autoriser`, `nettoyer`, `recevoirCookie` | a secret that turns against a cookie that is kept; a bounded table that forgets |
| Flow filter (`tunnel/filtre.go`) | flows opened, by pair | `noter`, `retour`, `nettoyer` | flows that outlive their pair |
| Noise IK (`noise/noise.go`) | handshake keys | messages 1 and 2 | cryptography |
| Synchronisation (`serveur/serveur.go`) | last good team and policy, signature, relations, names visible, active keys | `Synchroniser`, `Boucle`, `equipeCourante`, `Relie`, `Voit` | partial failure of the firewall; stale snapshots; two locks |
| Registration (`serveur/api.go`, `base/base.go`, `protocole/preuve.go`) | SQLite tables `appareils`, `cles`, `comptes`, `reglages`; replay cache | `connexion`, `Enregistrer`, `LierCompte`, `Supprimer`, `DejaVue`, `Retenir` | concurrent handlers; rollback; uniqueness; time windows |
| Administration (`serveur/admin.go`) | invitations, revocation file | `invitation`, `annulation`, `revocations` | check then act |
| Team (`serveur/equipe.go`, `scripts/sas.sh`) | `equipe.txt` and the list of the web services | `membre`, `enregistrerEquipe` | two files, two processes, crash between |
| Revocation lists (`admin.go`, `serveur.go`, `client/revocations.go`) | two files and the version each device retained | `revocations`, `RevocationsEnVigueur`, `adopterRevocations`, `AllongerRevocations` | versions; lists that must only grow |
| Device and bridge (`appareil/appareil.go`, `pont/pont.go`, `cmd/sas`) | `etat.json`: key, registration, versions retained; the loops of `Tenir`, `arret` and `fini` | `Rejoindre`, `Tenir`, `appliquer`, `Demarrer`, `Arreter`, `Quitter` | several writers of one file, each writing the whole of what it read; a call of twenty seconds that a stop does not interrupt |
| Certificates of the lock (`verrou/verrou.go`, `pont/admin.go`, `api.go`) | the certificate of each row, those kept elsewhere | `Signer`, `ImporterCertificats`, `groupeCertifie`, `estAdmin` | signed on one reading of a row, imported on another |
| Client view (`client/client.go`) | none | `ConstruireAvecSortant`, `adopterPolitique`, `adopterRevocations` | each device computes its rules from the peers it knows |
| Policy (`politique/`) | none | `Compiler`, `Entrant`, `Sortant`, `Joignables`, `Relations`, `Nft` | compiled on the server and on every device, which must agree |
| DNS, TUN, base64, backup words, application, lab | | | I/O, encodings, cryptography, screens |

How they interact.  A device registers over HTTPS (`connexion`): a proof of its
key, then a Google token or a single-use key, then one SQLite transaction, then
a call of `Synchroniser`.  `Synchroniser` reads the files of the administrator
and SQLite, loads the firewall of the kernel, and gives the engine its pairs and
the relay its relations.  A device learns its peers from the server through the
tunnel and gives them to its own engine.  Two engines talk by UDP, or through
the relay of the server.  Shared state: SQLite (several goroutines and
processes), `s.mu` (Synchroniser, the handlers that read the team), the mutex of
the engine and that of each pair, files written by the server and by `sas.sh`.

What makes each component correct, in one line:

- window: answers as one atomic test on the set of what was handed up;
- engine: two ends agree on every session they share, never go back, leak no
  index, and an end that answered seals nothing before the other holds the keys;
- synchronisation: withdrawals are applied at once whatever fails, nothing
  enters before the firewall, nobody is erased on a file that was not read, and
  in the end the network is what is wanted;
- registration: what must be unique is, what is single-use serves once, nothing
  of a former device goes to the next;
- revocation lists and team: no writer undoes another, and what is banned stays;
- device: a restart forgets nothing the engine was given, the engine follows the
  file and the server, and a file that was erased stays erased;
- certificates and policy: the certificate of a row is its own, and the two ends
  of a connection, the relay and the firewall open the same thing;
- flood protection: an honest device gets through, a network keeps to its rate.

## 2. Modules

### `FenetreIdeale` and `Session`

`FenetreIdeale` is what the window promises: the set of the counters handed up;
a message is handed up if its counter is below the limit, not in the set and not
further than the window behind the largest.  `Session` is the code: `Chiffrer`
draws the nonce, `Ouvrir` is the first half of `dechiffrer` (`possible`, then
the opening, which succeeds only on a sealed message), `Accepter` the second
(`accepter`, which asks again and clears the ring up to the new counter).
`bit` is the modular index; `BitsAvances` is the loop that clears, with its
shortcut when the jump is longer than the ring.  Readers interleave at the two
locks.  `Atomique` is the refinement: `Session` implements `FenetreIdeale`
under the map that sends the ring to the set.

### `Tunnel`

Both ends of one pair.  A message is a record in `reseau`, which only grows: to
take one leaves it there, so that it may be taken again, later, in any order, or
never.  A session is named by its handshake, so that "the message opens" is "the
names are the same".  `EnvoyerClair`, `RecevoirInitiation`, `RecevoirReponse`
and `Minuterie` each run under the lock of the pair and are one action.
`recevoirDonnees` releases the lock to open the message: `DebutDonnees` reads
the session its index names, `FinDonnees` does the rest with what was read
(`enCours`) — the sending path and the timer run in between, the receiving
goroutine does not.  `Redemarrer` loses all but the keys and the clock, and a
restarted end still finds old messages in the network.  With `ParRelais` the
same module is two devices behind the relay, both of which initiate.

`TunnelIdeal` is what the two engines promise to each other, without network,
indices or clock: the keys each end holds, and those it ever sealed data with,
its former lives included.  A session starts its nonces at zero, so that an end
may take keys into use (`Ouvrir`, `Employer`) only if it never sealed with them;
it never goes back to an older handshake of the same initiator, and one that
answered waits until the other end has sealed something.  `Entente` is the
refinement: each session is sent to its keys, and `scellees` is read off
`reseau`.  It also justifies `Compteur`, which counts what was sent under the
keys where the code has a counter in each session: no end opens a session with keys
it has sealed with.

### `Synchro`

`SyncDebut` is the part of `Synchroniser` that reads (team, base, revocations),
`SyncRetirer` one DELETE with its busy timeout, `SyncAppliquer` the policy, the
comparison with the signature, the firewall and the engine.  `s.mu` is held
while `synchro` is not at rest; `ecrivain` is the write lock of SQLite.
`InsDebut`, `InsAccepter` and `InsEcrire` are the transaction of a registration,
which takes `s.mu` inside.  A DELETE that cannot have the lock gives up, and its
failure is only logged: that is the disjunct of `Retirer` that changes nothing.
`noyau` and `dernier` are history variables for the properties.

### `Inscription`

Handlers (`traitement`) take requests, any of them any number of times:
`Recevoir` (proof, replay cache, first look at the team), `Lier` and `Verifier`
(the two statements of `LierCompte`), `Enregistrer` (one transaction, success or
rollback), `Retenir`.  Invitations are created in two steps, cancelled, and
expire.  `adresseLibre` is the round robin over the addresses, `NomsPossibles`
the choice of a name.  `parcouru`, `usages`, `annulees`, `creees`, `servies`,
`retenues` and `acceptes` are history variables.

### `Revocations`

The signed list of banned keys.  `hote` is the file `sas.sh revoquer` replaces
(`ScriptSigner`: read the list in force and sign the next; `ScriptDeplacer`: the
`mv`, whatever happened in between), `appli` the file of the lists that come
from phones.  A phone signs from what it retained and what the server serves
(`TelephoneSigner`), and its POST goes through the handler in the order of the
code: `ReqEntrer` before the lock, `ReqVerifier` under `muRevocations` against
`EnVigueur`, `ReqEcrire`, `ReqRetirer`.  The lock is held while `requete` is not
at rest.  A device asks (`Demander`) and later adopts (`Adopter`) or forgets.
`croise` is a history variable: `sas.sh` replaced a list it had not read, or did
so between the check and the writing of the handler.

### `Equipe`

`equipe.txt` and the list of the web services.  A request is a record whose
`etape` says how far `Serveur.membre` is: `Arriver`, `PrendreMu` (`muEquipe`),
`Verrouiller` or `Abandonner` (the file lock, or ten seconds), `Lire` (the file
is read again and `Refus` decides), `EcrireEquipe`, `EcrireWeb`, `Remettre`
(the first file is put back), `Finir`.  `Rendre` is the deferred calls.
`sas.sh membre` and `retirer` are `ChangerDebut`, `Changer`, then `RendreDebut`,
`RendreListe`: two takings of the same lock, with the lock free in between.
`Arreter` and `Interrompre` stop sasd or the script anywhere; `aRefaire` records
that this was between the two files.

### `Appareil`

`etat.json` (`fichier`) and everything that reads and writes it.  A loop
(`boucle`) is one call of `Tenir`: what it read last (`dernier`), the state it
works from (`courant`), its engine (`pairs`), the answer in hand and where it
is.  `Relue` is the top of the loop, and is part of each tick; `TicAppel` then
begins a call, `Servir` is the server's answer, `Ecrire` and `Donner` are
`appliquer`, in two steps because the process may die between them;
`AppelPerdu` is a call that fails.  `Rejoindre` is `RejLire`, `RejInscrire`,
`RejEcrire` or `RejEchouer`; `Quitter` is `QuitterDebut`, `QuitterLire`,
`QuitterDeconnecter`, `QuitterEffacer`.  On Android `Demarrer`, `Arreter` and
`Quitter` share `arret`, the loop the bridge could still wait for; on Linux a
loop is one life of the daemon, which `sas quitter` does not know of.  A state
carries the registration that made its key and the one since which versions are
carried over (`depuis`): that is what "under the same lock" means.  `croise`
records that a state was written over another than the one it came from, and
`retenue` what any engine was ever given.

### `Politique`

Operators without state.  `Compiler` with `Directs` and `PourSoi` (the selector
`soi`), `Entrant`, `Sortant`, `Joignables`, `Relations`, `NftSortie` and
`NftEntree` are those of the code on sets; `Autorise` is the reference, which
reads the policy rule by rule.

### `Certificats`

Rows (`fiches`), certificates (`signes`, kept wherever they are and possibly
imported at any later time) and the three who read them.  `Signer` is the phone
of an administrator, which reads the row again before it signs; `Lister` and
`SignerHote` are the computer that holds the lock, which signs what it was
listed, some time ago.  `ImporterDebut` reads the rows once, `Importer` stores
one certificate after another, `ImporterFin` ends; rows are erased and
registered again in between.  `Synchroniser` compiles the policy for the relay
and the firewall.  A device is not a state here but the operators that
`ConstruireAvecSortant` is: `Retenus`, `EquipeVue`, `FluxVu`, `Entrees`,
`Sorties`, evaluated on what the server would answer now.  EXTENDS `Politique`.

### `Inondation`

One device that opens a session with a server under load.  The device:
`lancerPoignee` (which joins its cookie while it is recent), `recevoirCookie`,
`recevoirReponse`, `Abandonner`, `Deplacer`.  The server: `RecevoirCalme`,
`RecevoirSansPreuve`, `RecevoirPreuve`, and the same for anybody else (`Autre`,
`AutrePreuve`).  `Tourner` is the secret, which changes only when somebody needs
it; `Debiter` is `limiteur.autoriser`, with the table it leaves.  `refus` counts
the cookies the device took in one series of attempts; `vise`, `depuis`,
`passes` and `oublie` are a window opened at any instant on any network.

`TunnelProofs`, `InscriptionProofs`, `SynchroProofs`, `RevocationsProofs`,
`EquipeProofs`, `AppareilProofs`, `CertificatsProofs` and `InondationProofs`
hold the theorems about the modules they are named after; those about the
window (`Session`) are in `TunnelProofs`, which extends both modules, and those
about `Politique` in `CertificatsProofs`, which uses them.  `Session` writes
`SInit`, `SNext` and `SSpec` where the others write `Init`, `Next` and `Spec`,
so that one module may extend it and `Tunnel`.  The `MC*` modules only give
values to constants and define symmetry sets.

## 3. Runs

| Run | Instance | What it shows |
|---|---|---|
| `session_fenetre` | window 3, limit 7, two readers (the engine has one; the locks of the window are meant for any number) | the ring answers as the ideal window; never twice, and exactly what is behind the largest counter is remembered |
| `tunnel_direct` | device that moves between two places, and server; 3 minutes, two initiations | indices exact, the queue bounded, the responder waits for the other end and knows where to answer, across a renewal and an expiry |
| `tunnel_relais` | two devices, both initiate (2 and 1 times), the first restarts once | when handshakes cross: both ends agree on each session, an initiation is answered once, neither goes back to an older session nor takes keys into use twice |
| `synchro` | two keys, two persons, one policy, a team file, all the failures | withdrawals applied, firewall first, no purge on a file that was not read, nor a massive one on a file cut short |
| `synchro_vivacite` | one key, fairness | a withdrawal ends in the engine; the two locks hold nobody for ever |
| `inscription` | two handlers, three requests, two accounts of one email, an invitation for a machine, three addresses | single use, uniqueness, round robin, stable lines, one account an email, the replay cache long enough |
| `revocations` | two phones that are also the devices, keys of one of them and of a third, three versions, two requests | the version never goes back; without a crossing no key leaves the list, served or retained; a banned phone is mute |
| `equipe` | two persons, two requests, one run of `sas.sh`, fairness | no change undoes another, an admin is left, the two files agree, requests end |
| `appareil` | both platforms, two loops, two registrations, two versions, four of these in all, fairness | nothing an engine was given is forgotten; in the end the engine follows the file and the server |
| `appareil_efface` (violation) | Android, the same with two networks | the file that `Quitter` erased comes back, see below |
| `certificats` | three keys, one person and one machine, three rows, three certificates, four events | a certificate in the base is its row's; two devices compute the rules of the policy; nothing it opens is missing |
| `inondation` | two networks, one bucket, a secret of three instants, five instants | two refusals at most; the rate of a network |

Deadlock is checked in `synchro` and `synchro_vivacite`, where the loop never
stops, in `revocations` and in `equipe`.  It is not in the others: their systems
stop when the bounds on messages, initiations, requests, events or instants are
reached.

### Bounds

`TailleFenetre = 3` with counters up to 8 lets the window turn more than twice
and be jumped over; the limit 7 is reached.  In `Tunnel`, two initiations give a
session, its renewal, a previous and a next one held at once; one data message
for each session and direction is enough to promote a session and to be replayed
after it went; four indices are one more than what an end holds in those runs
plus the one being drawn; `MaxTemps = 3` reaches the renewal (2) and the expiry
(3).  The relayed run keeps time still, because the crossing needs none; one
restart leaves one life's messages to arrive in the next.
`MaxAttente = 1` makes the limit of the queue bite.  In `Synchro`, two keys give
a relation and a withdrawal beside a key that stays; `SeuilMassif = 1` makes
"more than half" decide alone; two numbers allow an erased device to come back.
In `Inscription` three requests over two keys, with two handlers, reach every
conflict; three addresses (one the server's) and three numbers make the round robin turn;
`FenetrePreuve = 1` with a clock of 3 and a request dated ahead reaches both
edges of both windows.  In `Revocations` three versions are the least at which a
list signed by `sas.sh` and one signed by a phone are both overtaken; two
requests wait for one lock.  In `Equipe` two persons are enough for two admins
who remove each other, and two requests beside one run of `sas.sh` for each of
the two locks to be waited for.

In `Appareil` two loops are the least that overlap, two registrations the least
that replace one another, two versions the least that the server can take back;
`MaxEvenements = 4` is how many of all these happen, so that a restart after a
version, or a registration between two, both occur.  A loop that was stopped
begins at most two calls (`appels`): the `select` may prefer the tick, and one
more is enough for the twenty-five seconds of `Quitter` to pass.  The passing
run has one network; two are in the violation run, and in the theorem.  In
`Certificats` three keys of two owners give a pair of one person beside a third
device, and a key that passes from one owner to another; each address is given
once, since `Inscription` shows that one comes back only after the whole range
was given; `Duree = 1` lets a certificate expire before its import.
`LaPolitique` uses each kind of rule whose effect differs: two groups, a label,
`soi`, the server, the port that covers all.  In `Inondation` one bucket for two
networks is always full, and one instant stands for the time a bucket takes to
get a token back; `Duree = 3` is the least that exceeds `Abandon + 1`, the
longest a series may last, and `MaxTemps = 4` lets the secret change once in the
middle of a series.  Its assumptions are the constants of the code: 90 seconds
and a timer period are less than 120, and a bucket forgotten by a full table
(idle for one second) is not full yet, one forgotten by the timer (one minute)
is.

### Fairness

`synchro_vivacite` assumes weak fairness of the three steps of `Synchroniser`:
`Boucle` calls it every five seconds and a call goes on until it returns.  A
registration has weak fairness for its write, and strong fairness for taking
`s.mu`: Go's mutex gives the lock to a waiter after one millisecond of
starvation.  Nothing is assumed of the firewall, of the administrator's files,
nor of the erasures, which may fail each time.  The base must be read in the
end, though: the fairness of `SyncDebut` is that of a call whose
`base.Appareils` succeeds.  A base unreadable for ever is `SyncBaseIllisible` at
each turn: `Synchroniser` returns before any withdrawal, and `RetraitFini`
promises nothing.  `equipe`
assumes weak fairness of a handler's own steps, once it holds what they need,
and strong fairness for taking `muEquipe`, for the same reason.  Nothing is
assumed of `sas.sh`, which may keep the file lock for ever: the ten seconds are
the choice between `Verrouiller` and `Abandonner`, one of which is always
possible.

`appareil` assumes weak fairness of the tick of each loop and of its end: the
ticker runs and the `select` takes it, or `ctx.Done`.  It assumes strong
fairness of an answer of the server and of its being applied: the loop asks
again every ten seconds, and a server that is asked for ever answers some day.
Nothing is assumed of the administrator, of the tasks nor of the stops of a
process.  The version that `MoteurSuit` speaks of is the one the device retained
when its engine was given the peers.  When the server serves a policy older than
that, `adopterPolitique` (`client.go:377`) refuses it and the peers are given
without inbound rules: the model does not tell such peers from those of the
retained version.  So `MoteurSuit` says that the engine follows the file and
never falls behind what is served, not that inbound rules are open while an older
policy is served.  No other run assumes fairness.

## 4. Disagreements between the code and its documents

**A file erased comes back** (`appareil_efface`, `EffaceReste`).  `pont.go:98-100`
says that `Quitter` really waits for the end of the engine, because a
synchronisation under way would write `etat.json` again, private key included.
`arreter` waits for the loop that `arret` and `fini` name, and the application
stops the service just before it leaves: `Arreter` takes both variables and
waits three seconds.  `Quitter` then finds nothing to wait for, erases, and the
loop, in a call of up to twenty seconds, writes the file back when the answer
brings a new version.  On Linux `sas quitter` (`cmd/sas/main.go:112`) does not
stop the daemon at all, with the same result.

The following were met while modelling.  They have no run of their own: the
models contain the steps, and the properties are stated so as to say what holds
beside them.

Server.

- *State that comes back* (`serveur.go:283`).  After a firewall failure the
  signature still names the last state applied in full; if that state is wanted
  again, `Synchroniser` returns at once and the relations withdrawn stay so.
- *Renewal erased* (`serveur.go:206`).  A line read as expired is deleted by
  number after a registration of the same key renewed it.
- *Proof used twice* (`api.go:129`).  The replay cache is read at the start of
  the handler and written at its end, so two handlers of one request both pass.
  `JamaisRepris` shows that, while one run of `sasd` lasts, this is the only
  hole: once written, a proof is refused for as long as its date is accepted.
  The cache is in memory: a restart of `sasd` empties it (`Redemarrer`), and a
  proof whose date is still accepted passes again.  The property starts afresh
  there and says nothing of it.
- *A banned key comes back* (`serveur.go:444`, `sas.sh:469`).  `sas.sh revoquer`
  and a phone start from the same list and sign the same version.  The file of
  `sas.sh` wins the tie, the next list is built on it, and a device that had
  retained the other drops the key it banned.
- On a firewall failure the relations of the relay are restricted and those of
  the DNS (`s.voit`) are not.
- A stop between the two files of the team leaves them in disagreement, which
  `equipe.go:111-113` says never lasts: it lasts until the next change that ends.

Tunnel.

- When the handshakes of two devices cross, each end may keep as current the
  session the *other* initiated, `aRenouveler` is false at both, and the session
  lasts to three minutes instead of being renewed at two
  (`docs/protocole.md:69`).
- `cookie.go:168-169` says that a bucket idle for more than a second is full
  anyway.  It has got ten tokens back out of twenty.  While the table is full a
  network may thus pass nearly twenty handshakes a second instead of ten:
  `DebitBorne` has both bounds.

Device.  The first three are crossings in the sense of `croise`.

- `appliquer` writes the whole state it read (`appareil.go:337-343`).  A
  registration made during the call is lost with its token; the server then
  answers 401 until the device registers again.
- `Rejoindre` likewise writes over versions retained since it read the file.
- `Demarrer` waits three seconds for the loop before: both may run, and the
  older one writes an older version over a newer one.  Two `Demarrer` at once
  orphan the first loop, and `SurVue` of either updates the screen.
- When `Ecrire` fails, `appliquer` returns before `DefinirPairs`: the engine
  keeps the peers that the list it could not write revokes.
- With `sas rejoindre --oublier` on the same key, the engine keeps the pairs of
  the network left until the first success with the new one, because only
  another private key empties it.

Certificates.

- Devices read the group of a person in his certificates and nowhere else, the
  last one read winning (`client.go:324-326`).  When a person was moved and only
  some of his devices are signed again, two of them compute different rules,
  although `Sortant` is « le pendant d'Entrant » and `docs/protocole.md:135`
  has each client apply the same policy.  `ReglesExactes` is stated for
  certificates that carry one group.
- An older certificate that is still valid may be imported over a newer one:
  nothing orders them.

## 5. Proofs

The theorems, checked by TLAPS, hold for every value of the constants that
satisfies the assumptions of the modules: the window is not
empty and its limit does not exceed the largest counter; keys have an owner, the
server is no key, `nil` and an unreadable file are no team, no policy, no state;
phones are devices; a request is not a run of `sas.sh`; there are two ends, one
of which initiates when it is not both; a request comes with a Google account,
which has a sub, or with a key (`DemandesAssumption`); the server has an
address of its own; names order the devices, and of some devices there is a last
one (`RangAssumption`: there are finitely many); the delays of `Inondation` are
in the order the constants of the code are.

**Session.**  `Inv` is the inductive invariant: types, nothing handed up twice,
only sealed counters, and `FenetreJuste`, which says that the ring holds exactly
what was handed up of the counters behind `max` that are still inside the
window, and that `max` is the largest.  Without it nothing prevents a bit that
was cleared too early.  It is stable under two readers because `accepter` asks
`possible` again under the lock.  From it follow `SessionType`,
`SessionAuPlusUneFois`, `SessionSeulEmis`, and `SessionAtomique`: each step of
the two-phase opening is a step of the ideal window or a stutter, the step of
the ideal one being taken when the code answers.

**Tunnel.**  Every property of the two runs holds for any number of initiations,
packets, restarts and indices.  `Socle` comes first:
types, a finite network, and `ReponsesOK`.  The type of an answer needs an
argument of its own, because its rank is drawn from what was sent: the answers
of an engine differ by its life or by the date of the initiation, so there are
fewer of them than (life, date) pairs while a newer initiation comes
(`RangLibre`, an injection into the pairs less one).  `ReponsesOK` says that an
answer of the present life is for an initiation no newer than
`dernierHorodatage`, which makes the next one the first; `TunnelInitiationUneFois`
is a part of it.  `LesPas` then writes each step as one of seven effects on the
sessions of one end, and each property is proved over these effects:

- `IndicesInv`: the table is the disjoint union of the indices of the current,
  next and previous sessions and of the handshake.  Equality of sets alone is
  not inductive (a shared index would be given back twice), and the count in
  `IndicesExacts` follows from disjointness.
- `RepondeurConfirme` is inductive with `EnCoursOK`, which says what
  `recevoirDonnees` holds between its two locks: a message of the other end,
  still in the network, under the keys of the session that opened it.
- `OrigineInv`: each session held was opened by an answer that names its keys
  and both indices.  Two ends with the same keys have the same answer, since an
  engine never repeats a rank, and `TunnelAccord` reads both sides of it.
- `DatesInv` orders the sessions: those an end initiated are older than its
  handshake under way, those it answered no newer than the last initiation it
  took, and the next one newer than the current one.  `TunnelSansRetour` is what
  it says of the two steps that replace the current session.
- `ScelleInv`, with the last two: the keys an end sealed with were answered for,
  are not those of its next session, and, when it initiated them, are older than
  its handshake under way.  It is about messages, which a restart leaves in the
  network, and needs the clock that survives (`horloge`).  It gives
  `TunnelEntente`: each effect is a step of `TunnelIdeal` (an answer read is
  `Ouvrir`, a promotion `Employer`, an initiation read `Repondre`, all others
  `Oublier`, which may lose nothing and seal nothing).  The promotion also uses
  `EnCoursOK`, since the session is the one read before the unlock.
- `PointInv`: what the end that moves sends always says where from.  The
  theorem covers restarts of the server, which `tunnel_direct` leaves out.

**Inscription.**  `Bien` is the part all the others use: types, `SansCollision`
itself, numbers behind the next one, and `LierCompte` for Google accounts only.
It is inductive because of two lemmas about the operators: `adresseLibre` gives
a free address of the range, and a name is always free among as many numbers as
there are requests (`NumeroLibre`, by the pigeonhole, since a line has the key
of some request and keys differ).  `ClesInv` says that a key in the table was
created, is unused and is not cancelled; a key that is missing was used,
cancelled or has expired.  `ComptesInv` follows a handler between the INSERT and
the SELECT of `LierCompte`: past the first, its email has an account; past the
second, that account is its own; and the table never changes an email it knows.
`TourInv` says that everything on the ring between an address and the last one
given was given or taken since that address was: when the round robin comes back
to it, this is the whole range.  `RejeuInv` relates the cache, the proofs
retained and the clock: a proof retained is in the cache, no earlier than a
window before its date, or too old to be accepted again.

**Synchro.**  `SynchroRetraits` says that withdrawals are applied by the call
that sees them.  The property alone is not inductive: a call that finds the
wanted state equal to `s.signature` returns at once, and must then already have
an engine within what it wants, although earlier calls restricted the engine,
perhaps to a *new* line of a key that the signature knows under an old number.
The invariant adds that a key has one line, that no number is ahead of the next
one, and that the number of a key never goes back from the signature to the
engine, from the engine to the call under way, from there to the base
(`Croissants`).  So a signature that is wanted again knows each line of the
engine by its very number (`SignatureVoulue`).  The rest are one lemma for each
action that matters (`InvDebut`, `InvEcrire`, `InvAppliquer`) and one for all
those that leave the server's state alone (`Inchange`).  `SynchroPareFeu`
follows from the same invariant.  `SynchroPurge` needs `SortisJustes`, while
a call holds `s.mu` the team it read stays the last one read, and for its second
half that the table is finite: what a call spares is then counted as the personal
devices less those that left (`PasMassive`).

**Revocations.**  `RevocationsVersion` holds without condition: each list about
to be put in place is newer than the file it replaces (`VersionsEnAttente`),
although not always than the list in force.  The other three hold until a
crossing.  `Chaine` is what a crossing breaks: the list the handler is about to
write follows the list in force, the one `sas.sh` is about to put in place
follows what it read, and keys only grow from what a device retained to the
answer it has not applied yet to the list in force.  A list on its way to the
handler needs no such fact, because the handler asks again under its lock.  `RevocationsMuet`
adds that no list on its way bans the phone that sent it (`PasSoiMeme`); as the
handler requires the list in force to be contained in it, the list in force does
not ban it either.

**Equipe.**  A handler writes from a text it read several steps before.  `Copie`
says that this text is still the file, that once it was replaced the file is
exactly the rewritten text, and that the text names an admin who is not the
person being changed: the one who asked.  `Suivie` says that when nobody owes
the list of the web services, it is the list of the file or, between the two
writings, of the text before.  Both stand on `TypeOK`, which says who holds the
two locks, and on `Ecrivain`: the file changes only in the hands of the process
that holds its lock.  `EquipeUneLigne`, `EquipeAdmin` and `EquipeListes` follow,
for any number of requests, runs of `sas.sh` and stops.

**Appareil.**  `AppareilRienOublie` says that a restart forgets nothing an
engine was given, until somebody writes over a state he had not read.  `Sain` is
the type of a loop at each of its places: a loop in a call has a state, one with
an answer has the answer.  `Fidele` follows the copies: no state names a lock of
a registration that was not made (`Frais`); what `Rejoindre` is about to write
goes on from what it read, or is of a lock nobody else knows (`NeufJuste`); and
without a crossing no loop is ahead of the file on the lock of the file
(`PasEnAvance`).  The last is what makes `Donner` harmless: what it gives was
written before.  Steps that leave the file, the tasks and the history alone are
one lemma (`FideleCalme`); `Ecrire`, `Donner`, `RejInscrire` and `RejEcrire`
have theirs.

**Politique.**  `CompilerExact` relates the compiled rules to the reference for
every policy, team and set of devices: the proof splits the flows into those of
the direct rules and those of `soi`, and joins two devices of one person through
the person (`SiensMemePersonne`).  `SortantPendant` and `RelationsExactes` are
its use on the other side and in the relay.

**Certificats.**  `CertificatsJustes` stands on `Juste`: addresses in use are
behind the next one and belong to one key, so that a row which still has the
address an import read has the owner it read (`ImportJuste`).
`DefinirCertificat`, which asks for the address as well as the key, is where
this is needed.  `CertificatsRegles` compares two devices that know different
peers: whatever the others are, the group each sees for the two owners is the
one of their own certificates, as long as a person has one group, and
`CompilerExact` then says that the other devices change nothing between the two.
`CertificatsComplets` adds the server: when nothing is left to sign or compile,
what it counts in groups is what the certificates say, so `RelationsExactes`
makes each device announced to whom it needs, and `CompilerExact` on both sides
gives the same ports.

**Inondation.**  `InondationDebit` rests on two accounts of one bucket.  `Bilan`:
what it passed in the window and what it holds make up no more than it was
worth at the start and was given since.  `BilanOubli` holds although a full
table forgets the bucket: each time costs at least `Inactif + 1` instants, and
gives at most `Plein`.  `InondationRefus` follows the device: after a first
refusal it holds a cookie for where it is (`Tenu`), which only a new secret can
spoil; a secret made since the series began outlasts the series (`Abandon + 1 <
Duree`), so a second refusal leaves it with the cookie of that secret
(`Second`), and no third can come.  `EnVol` and `EnRetour` say it of the two
messages on their way.

Every safety invariant and action property of the passing runs is thus proved.
Only model-checked: the liveness properties (`RetraitFini`, `InscriptionFinit`,
`DemandeFinit`, `MoteurSuit`), because they rest on fairness, which the prover
does not reason about; and the violation.

## 6. Not modelled, and why

- Cryptography (`noise`, the signatures and the backup words of `verrou`),
  encodings (`b64`), TUN, nftables, the DNS server, the Dart and Kotlin
  application, deployment: no state of their own that interleaves, or I/O.
- In the engine: the exact timers below the minute (they may have run out or not
  whenever they are read), `DefinirPairs` while messages are handled, the filter,
  the forwarding of relayed frames.  A clock that goes back is not modelled: an
  engine draws increasing timestamps.
- In the server: session tokens, renaming, the description of the network that
  is served.
- In `Synchro` the revoked keys are a set that grows: a file that becomes
  unreadable or badly signed, and so revokes nobody, is in no module.
- In `Equipe`: comments and duplicated lines of the file, the line the lab adds
  to it, two hosts; the ten seconds are a choice, not a duration.
- In `Appareil`: a file that cannot be read or parsed, the configuration of the
  interface, the ten seconds between two calls (a tick may always call).  The
  two signed versions are one number, since they are retained, carried over and
  written together.
- In `Politique`: ports are atoms, and whether one range covers another is left
  out, but for the port that covers all; reading the files and the text of nft.
- In `Certificats`: a device reads what the server would answer at that instant,
  and every device knows the lists of revocation and the policy in force (old
  answers are in `Revocations` and `Appareil`); a server that announces other
  rows than its own; a network without a lock, where the client believes the
  server; a range of addresses given entirely once around.
- In `Inondation`: a restart of the server, which forgets secret and buckets; a
  clock suspended with the phone; the fractions of tokens; the initiations that
  come through the relay, which the same limiter counts by number.

## 7. Plan

1. Done: the window, the engine between two ends, the synchronisation,
   registration, the revocation lists, the team, the device and its bridge, the
   policy, the certificates, the protection against floods; the proofs of
   section 5.
2. Left, in the engine: `Pairs`, with `DefinirPairs` beside the handlers, the
   retired pair and its index, and the table of flows; `Maintien`, the timers in
   seconds, where a dead session is noticed, a live one is left alone, and the
   opening of a session ends.
3. Left to prove: the results that join two modules, such as the window of
   `Session` under the sessions of `Tunnel`, and what the liveness properties
   need of safety (who holds a lock, and that its holder may always go on).
4. A run serves one question, and questions that share an instance share a run.
