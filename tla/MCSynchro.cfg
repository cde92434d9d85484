CONSTANTS
  k1 = k1
  k2 = k2
  p1 = p1
  p2 = p2
  Machine = Machine
  LeServeur = LeServeur
  Illisible = Illisible
  Nulle = Nulle
  Cles <- Cles_MC
  Personnes <- Personnes_MC
  Proprio <- Proprio_MC
  Equipes <- Equipes_MC
  Revocables <- Revocables_MC
  Politiques <- Politiques_MC
  SeuilMassif = 1
  MaxNumeros = 2
SPECIFICATION Spec
INVARIANT TypeOK
INVARIANT RetraitsAppliques
INVARIANT PareFeuAvant
PROPERTY PurgeSurLecture
