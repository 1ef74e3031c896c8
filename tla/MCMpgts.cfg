CONSTANTS
  NumCh <- MCNumCh
  MaxTune <- MCMaxTune
  MaxStart <- MCMaxStart
  SockCap <- MCSockCap
  NONE = NONE
SPECIFICATION Spec
INVARIANT TypeOK
PROPERTY ResetConsumedWhileReceiving
\* Once thread_main has returned and get_ch_id has failed or run out of
\* tunings, nothing in the endpoint takes a step: the program ends.
CHECK_DEADLOCK FALSE
