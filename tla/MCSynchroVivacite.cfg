CONSTANTS
  k1 = k1
  k2 = k2
  p1 = p1
  p2 = p2
  Machine = Machine
  LeServeur = LeServeur
  Illisible = Illisible
  Nulle = Nulle
  Cles <- Cle1_MC
  Personnes <- Personnes_MC
  Proprio <- Proprio1_MC
  Equipes <- Equipes1_MC
  Revocables <- Cle1_MC
  Politiques <- Politiques1_MC
  SeuilMassif = 1
  MaxNumeros = 2
SPECIFICATION SpecEquitable
PROPERTY RetraitFini
PROPERTY InscriptionFinit
