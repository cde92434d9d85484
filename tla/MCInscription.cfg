CONSTANTS
  t1 = t1
  t2 = t2
  d1 = d1
  d2 = d2
  d3 = d3
  i1 = i1
  k1 = k1
  k2 = k2
  alice = alice
  sub1 = sub1
  sub2 = sub2
  Aucun = Aucun
  Nulle = Nulle
  Traitements <- Traitements_MC
  Demandes <- Demandes_MC
  Demande <- Demande_MC
  Invitations <- Invitations_MC
  Invitation <- Invitation_MC
  Personnes <- Personnes_MC
  AdresseServeur = 1
  Reserves = {"serveur"}
  NbAdresses = 3
  FenetrePreuve = 1
  MaxCles = 1
  MaxNumeros = 3
  MaxTemps = 3
  MaxServies = 2
SPECIFICATION Spec
SYMMETRY Symetrie
INVARIANT TypeOK
INVARIANT CleUneFois
INVARIANT SansCollision
INVARIANT CompteUnique
PROPERTY TourComplet
PROPERTY LigneStable
PROPERTY JamaisRepris
CHECK_DEADLOCK FALSE
