SPECIFICATION OneDifficulty
CONSTANTS
  Word = 1024
  Pipes <- RealPipes
  PipeX0 <- RealX0
  PipeY0 <- RealY0
  pipe_num <- RealNum
  Speeds = {1, 2, 3}
  Pipe_X_Min = 6
  Pipe_X_Max = 639
  Pipe_Width = 25
  Pipe_Gap = 80
  Y_Range = 360
  Y_Offset = 100
  Bird_X_Center = 190
  Min_Apart = 147
INVARIANTS
  PipesInv
  PipesApart
  EventsAlone
PROPERTIES
  MovesLeft
