\* scan's fail: path and close after a failed get_ch_id go on with
\* register writes after a call has failed.
CONSTANTS
  MaxReq <- MCMaxReq
  AfterFail <- MCAfterFailWrites
  AllowSplit = TRUE
  AllowDrop = TRUE
  FAIL = FAIL
SPECIFICATION Spec
PROPERTY ImplementsRequestReply
\* The program ends after its last call.
CHECK_DEADLOCK FALSE
