CONSTANTS
  StartVersions <- MCAllVersions
  MaxBumps = 2
  AllowLoss = TRUE
  NONE = NONE
SPECIFICATION Spec
INVARIANT TypeOK
INVARIANT ParsedOncePerVersion
PROPERTY VctEventuallyDecoded
