---------------------------- MODULE Color_Mapper ----------------------------
(***************************************************************************)
(* The picture of Color_Mapper.sv: what is drawn at a pixel of the screen  *)
(* from the registers of the game.  Circles are computed in signed 32-bit  *)
(* integers, the pipes in unsigned 10-bit words; shades are left out.      *)
(***************************************************************************)
EXTENDS FlappyFish

CONSTANTS
  Grass,      \* :482   465, the last row above the grass
  Marker_X    \* :113   620, the difficulty's marker

\* The ground and the marker leave the bird's rows and columns free, and the
\* marker is on the screen.
ASSUME PictureAssumption ==
  /\ Grass \in Nat /\ Wall - 1 + Bird_Size <= Grass /\ Grass <= Bird_Y_Max
  /\ Marker_X \in Nat /\ Marker_X - 3 > Bird_X_Center + Bird_Size
  /\ Marker_X <= Pipe_X_Max

Disc(x, y, cx, cy, r) ==
  (x - cx) * (x - cx) + (y - cy) * (y - cy) <= r * r

\* Offset from the bird's centre, and how much smaller than the bird: body,
\* wing, eye, pupil and two gills.
BirdParts ==
  {<<0, 0, 0>>, <<-4, 0, 3>>, <<2, -2, 4>>, <<3, -2, 5>>, <<-5, -2, 3>>, <<-5, 2, 3>>}

BirdOn(x, y) ==
  \E b \in BirdParts :
    Disc(x, y, Bird_X_Center + b[1], Bird_Y_Pos + b[2], Bird_Size - b[3])

CoinOn(x, y) == \E k \in Pipes : coinfl[k] /\ Disc(x, y, CoinX(k), CoinY(k), 5)

\* Pipe_Logic: a rim left of column 0 wraps and is not drawn at all.
PipeOn(x, y, p) ==
  LET top   == Sub(p.y, Pipe_Gap)
      right == Add(p.x, Pipe_Width)
  IN  \/ p.x <= x /\ x <= right /\ ~(top < y /\ y < p.y)
      \/ /\ Sub(p.x, Pipe_Rim_Width) <= x /\ x <= Add(right, Pipe_Rim_Width)
         /\ \/ p.y <= y /\ y <= Add(p.y, Pipe_Rim_Height)
            \/ Sub(top, Pipe_Rim_Height) <= y /\ y <= top

OnScreen(x, y) == x \in 0 .. Pipe_X_Max /\ y \in 0 .. Bird_Y_Max

\* Grass and ground are painted over everything in the last rows, blanked
\* pixels included, and the marker of the difficulty over those.
Pixel(x, y) ==
  IF Disc(x, y, Marker_X, 10, 3) THEN "marker"
  ELSE IF Grass < y /\ y <= Bird_Y_Max THEN "ground"
  ELSE IF ~OnScreen(x, y) THEN "black"
  ELSE IF BirdOn(x, y) THEN "bird"
  ELSE IF CoinOn(x, y) THEN "coin"
  ELSE IF \E k \in Pipes : PipeOn(x, y, pipe[k]) THEN "pipe"
  ELSE "sky"
-----------------------------------------------------------------------------
(***************************************************************************)
(* Properties                                                              *)
(***************************************************************************)
Around(c) == c - Bird_Size .. c + Bird_Size

\* A game is lost to a pipe only where the player can see it: some pixel shows
\* the bird over the pipe.  The collision checker and the colour mapper work
\* the same geometry out apart, each with its own wrapping
\* (Collision_Checker.sv:60-188, Color_Mapper.sv:142-282).
HitIsSeen ==
  \A k \in Pipes :
    PipeCollision(pipe[k]) /\ ~WallCollision(Bird_Y_Pos) =>
      \E x \in Around(Bird_X_Center), y \in Around(Bird_Y_Pos) :
        Pixel(x, y) = "bird" /\ PipeOn(x, y, pipe[k])
=============================================================================
