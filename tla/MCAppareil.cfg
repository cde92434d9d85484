SPECIFICATION FairSpec
CONSTANTS
    MaxTours = 2
    MaxInscriptions = 2
    MaxVersion = 2
    MaxEvenements = 4
    r1 = r1
    r2 = r2
    Reseaux <- UnReseau
    Plateformes <- LesDeux
    Absent = Absent
INVARIANT RienOublie
PROPERTY MoteurSuit
CHECK_DEADLOCK FALSE
