CONSTANTS
  p = p
  q = q
  x = x
  y = y
  Appareils <- Appareils_MC
  Admins <- Admins_MC
  Revocables <- Revocables_MC
  MaxVersion = 3
  MaxDemandes = 2
SPECIFICATION Spec
PROPERTY VersionMonte
PROPERTY ListeSAllonge
PROPERTY RetenuesSAllongent
PROPERTY RevoqueMuet
