\* A table of one bucket for two networks; a secret that lasts three instants.
SPECIFICATION Spec
CONSTANTS
    ici = ici
    ailleurs = ailleurs
    Adresses <- Reseaux
    Lieux <- Reseaux
    Duree = 3
    Abandon = 1
    Relance = 1
    Plein = 3
    Inactif = 0
    Menage = 3
    MaxSeaux = 1
    MaxTemps = 4
    Absent = Absent
SYMMETRY Symetrie
INVARIANT DeuxRefus
INVARIANT DebitBorne
CHECK_DEADLOCK FALSE
