CONSTANTS
  PktSize = 9
  MaxSlen = 6
  SecLen <- MCSecLen
  Pack = FALSE
  AllowTei = TRUE
  AllowBadSync = FALSE
  STUFF = STUFF
  BAD = BAD
SPECIFICATION Spec
INVARIANT TypeOK
INVARIANT DeliveredInOrder
INVARIANT IntactSectionsDelivered
