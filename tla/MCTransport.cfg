\* scan's fail: path and close after a failed get_ch_id go on with
\* register writes after a call has failed.
CONSTANTS
  MaxReq <- MCTransportMaxReq
  AfterFail <- MCAfterFailWrites
  AllowSplit = TRUE
  AllowDrop = TRUE
  FAIL = FAIL
SPECIFICATION MCSpec
INVARIANTS
  InStepUntilFailure
  TunerCrcIsCrc32
  Mpeg2CrcIsShiftRegister
  FramesCheckOut
  SectionCheckIsStandard
PROPERTY CallsReturn
\* The program ends after its last call.
CHECK_DEADLOCK FALSE
