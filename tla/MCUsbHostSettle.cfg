SPECIFICATION FairSpec
CONSTANTS
  USB_NUMDEVICES = 4
  Settle_Time = 1
  Ms_Max = 3
  Times = {0, 1, 2}
  Kinds = {"keyboard", "mouse", "other", "faulty"}
PROPERTIES
  SettleEnds
