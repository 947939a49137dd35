SPECIFICATION FairSpec
CONSTANTS
  USB_NAK_LIMIT = 3
  USB_RETRY_LIMIT = 3
  maxpktsize = 8
  Requests <- EnumerationRequests
  MaxRequests = 3
INVARIANTS
  SuccessIsWhole
  FailsForCause
PROPERTIES
  RequestEnds
CHECK_DEADLOCK FALSE
