CONSTANTS
  l1 = l1
  l2 = l2
  TailleFenetre = 3
  RejeterApresN = 7
  CompteurMax = 8
  Lecteurs <- Lecteurs_MC
SPECIFICATION SSpec
INVARIANT AuPlusUneFois
INVARIANT Inv
PROPERTY Atomique
