\* Three keys, one person, one machine, three rows and three certificates.
SPECIFICATION Spec
CONSTANTS
    k1 = k1
    k2 = k2
    k3 = k3
    alice = alice
    maison = maison
    admins = admins
    gens = gens
    web = web
    ssh = ssh
    etoile = etoile
    Vide = Vide
    Absent = Absent
    Personnes <- LesPersonnes
    Groupes <- LesGroupes
    Etiquettes <- LesEtiquettes
    Adresses <- LesAdresses
    Serveur = 0
    Ports <- LesPorts
    Tout = etoile
    Toujours <- Repond
    Cles <- LesCles
    Depart <- LeDepart
    Invites <- LesInvites
    Rang <- LesRangs
    Admins = admins
    Politiques <- LesPolitiques
    Duree = 1
    MaxTemps = 1
    MaxInscriptions = 3
    MaxSignes = 3
    MaxEvenements = 4
INVARIANT CertificatJuste
INVARIANT ReglesExactes
INVARIANT RienNeManque
CHECK_DEADLOCK FALSE
