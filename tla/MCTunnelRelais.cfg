CONSTANTS
  a = a
  b = b
  i1 = i1
  i2 = i2
  i3 = i3
  i4 = i4
  Nulle = Nulle
  Bouts <- Bouts_MC
  Actifs <- Bouts_MC
  ParRelais = TRUE
  Indices <- Indices_MC
  Lieux = {l1}
  RenouvelerApres = 2
  RejeterApres = 3
  MaxAttente = 1
  MaxTemps = 0
  MaxInitiations <- Init21
  MaxPaquets = 1
  MaxVies <- Vies10
SPECIFICATION Spec
SYMMETRY Symetrie
INVARIANT Accord
INVARIANT InitiationUneFois
PROPERTY SansRetour
PROPERTY Entente
CHECK_DEADLOCK FALSE
