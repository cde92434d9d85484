SPECIFICATION Spec
CONSTANTS
    MaxTours = 2
    MaxInscriptions = 2
    MaxVersion = 2
    MaxEvenements = 4
    r1 = r1
    r2 = r2
    Reseaux <- DeuxReseaux
    Plateformes <- Android
    Absent = Absent
PROPERTY EffaceReste
CHECK_DEADLOCK FALSE
