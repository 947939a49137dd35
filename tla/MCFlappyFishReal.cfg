SPECIFICATION RealSpec
CONSTANTS
  Word = 1024
  Bird_Y_Center = 240
  Bird_Y_Max = 479
  Bird_Size = 6
  Wall_Margin = 20
  Keys = {"W", "S", "none", "3"}
  Pipes <- RealPipes
  PipeX0 <- RealX0
  PipeY0 <- RealY0
  pipe_num <- RealNum
  Speeds = {1, 2, 3}
  Pipe_X_Min = 6
  Pipe_X_Max = 639
  Pipe_Width = 25
  Pipe_Gap = 80
  Y_Range = 360
  Y_Offset = 100
  Bird_X_Center = 190
  Min_Apart = 147
  Pipe_Rim_Width = 5
  Pipe_Rim_Height = 10
  Grass = 465
  Marker_X = 620
  Latches = {1, 2, 3}
INVARIANTS
  HitIsSeen
PROPERTIES
  CoinTaken
