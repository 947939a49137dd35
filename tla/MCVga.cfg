SPECIFICATION FairSpec
CONSTANTS
  hpixels = 9
  vlines = 8
  H_Display = 6
  V_Display = 5
  H_Sync_On = 7
  H_Sync_Off = 9
  V_Sync = 6
INVARIANTS
  VgaInv
  SyncOffPicture
PROPERTIES
  NoTearing
  FrameClockSpec
  FramesKeepComing
