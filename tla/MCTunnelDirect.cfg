CONSTANTS
  a = a
  b = b
  i1 = i1
  i2 = i2
  i3 = i3
  i4 = i4
  Nulle = Nulle
  Bouts <- Bouts_MC
  Actifs <- Client_MC
  ParRelais = FALSE
  Indices <- Indices_MC
  Lieux = {l1, l2}
  RenouvelerApres = 2
  RejeterApres = 3
  MaxAttente = 1
  MaxTemps = 3
  MaxInitiations <- Init21
  MaxPaquets = 1
  MaxVies <- Vies00
SPECIFICATION Spec
SYMMETRY Symetrie
INVARIANT TypeOK
INVARIANT PointConnu
INVARIANT IndicesExacts
INVARIANT RepondeurConfirme
CHECK_DEADLOCK FALSE
