CONSTANTS
  StartVersions = {7}
  MaxBumps = 1
  AllowLoss = FALSE
  NONE = NONE
SPECIFICATION Spec
PROPERTY ShownTracksBroadcast
