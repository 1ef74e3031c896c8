CONSTANTS
  PktSize = 9
  MaxSlen = 6
  SecLen <- MCSecLen
  Pack = TRUE
  AllowTei = FALSE
  AllowBadSync = TRUE
  STUFF = STUFF
  BAD = BAD
SPECIFICATION Spec
INVARIANT IntactSectionsDelivered
