SPECIFICATION Spec
CONSTANTS
  USB_NAK_LIMIT = 4
  USB_RETRY_LIMIT = 3
  nbytes = 8
  maxpktsize = 4
  ReportSize = 4
  MaxReports = 6
INVARIANTS
  NakMeansNoNewData
