SPECIFICATION FairSpec
CONSTANTS
  Word = 128
  Bird_Y_Center = 28
  Bird_Y_Max = 64
  Bird_Size = 3
  Wall_Margin = 8
  Keys = {"W", "S", "none"}
  Pipes <- TwoPipes
  PipeX0 <- SmallX0
  PipeY0 <- SmallY0
  pipe_num <- SmallNum
  Speeds = {1}
  Pipe_X_Min = 3
  Pipe_X_Max = 34
  Pipe_Width = 4
  Pipe_Gap = 20
  Y_Range = 25
  Y_Offset = 22
  Bird_X_Center = 10
  Min_Apart = 6
  Pipe_Rim_Width = 1
  Pipe_Rim_Height = 2
  Grass = 59
  Marker_X = 31
  Latches = {1}
INVARIANTS
  TypeOK
  CollisionArmed
  StartsClean
  VerdictExact
  HitIsSeen
  BirdInv
PROPERTIES
  LostGameFrozen
  CoinSpec
  BirdSpec
  NoTunnel
  FallsUnlessFlapped
  GameEnds
