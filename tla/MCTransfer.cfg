SPECIFICATION FairSpec
CONSTANTS
  USB_NAK_LIMIT = 4
  USB_RETRY_LIMIT = 3
  nbytes = 8
  maxpktsize = 8
  ReportSize = 8
  MaxReports = 6
INVARIANTS
  TransferInv
  NakMeansNoNewData
PROPERTIES
  StreamSpec
  PollEnds
  AllDelivered
