CONSTANTS
  p = p
  q = q
  r = r
  d1 = d1
  d2 = d2
  s1 = s1
  Nulle = Nulle
  Personnes <- Deux_MC
  Demandes <- Demandes_MC
  Scripts <- Scripts_MC
SPECIFICATION SpecEquitable
INVARIANT TypeOK
INVARIANT ListesEnAccord
PROPERTY UneSeuleLigne
PROPERTY AdminRestant
PROPERTY DemandeFinit
