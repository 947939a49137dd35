-------------------------- MODULE Collision_Checker -------------------------
(***************************************************************************)
(* The combinational tests of Collision_Checker.sv.  The top, side and     *)
(* bottom blocks there (lines 60-188) write the same four comparisons out  *)
(* for three points of the bird and four pipes; here they are one operator *)
(* of a point and a pipe.  Every comparison is of 10-bit words that wrap,  *)
(* except the coin tests, whose literal 2 makes them 32 bits wide.         *)
(***************************************************************************)
EXTENDS Bird, Pipes

CONSTANTS
  Pipe_Rim_Width,   \* Collision_Checker.sv:12   5
  Pipe_Rim_Height   \* Collision_Checker.sv:13   10

\* The layout the pixel tests are written for: every gap has its two rims on
\* the screen, the bird's column is clear of the columns where a rim's left
\* edge wraps, and no right or lower edge reaches the end of the word.
ASSUME CollisionAssumption ==
  /\ Pipe_Rim_Width \in Nat /\ Pipe_Rim_Height \in Nat
  /\ Bird_X_Center \in Nat
  /\ Bird_X_Center > Pipe_Width + 2 * Pipe_Rim_Width
  /\ Bird_X_Center + Bird_Size < Word
  /\ Wall + Bird_Size <= Word
  /\ X_Start + Pipe_Width + Pipe_Rim_Width < Word
  /\ Pipe_Gap + Pipe_Rim_Height <= Y_Offset
  /\ \A k \in Pipes : /\ PipeY0[k] >= Pipe_Gap + Pipe_Rim_Height
                      /\ PipeY0[k] + Pipe_Rim_Height + Bird_Size < Word
  /\ Y_Offset + Y_Range + Pipe_Rim_Height + Bird_Size <= Word

\* Mutant: the lower rim has no lower edge.
PointHitsOpenRim(x, y, p) ==
  LET inColumn == x >= p.x /\ x <= Add(p.x, Pipe_Width)
      inRim    == /\ x >= Sub(p.x, Pipe_Rim_Width)
                  /\ x <= Add(Add(p.x, Pipe_Width), Pipe_Rim_Width)
      gapTop   == Sub(p.y, Pipe_Gap)
  IN  \/ (inColumn \/ inRim) /\ y >= p.y
      \/ inColumn /\ y <= gapTop
      \/ inRim /\ y >= Sub(gapTop, Pipe_Rim_Height) /\ y <= gapTop

\* One of the bird's test points against one pipe: the two columns, and the
\* wider rims on either side of the gap.
PointHits(x, y, p) ==
  LET inColumn == x >= p.x /\ x <= Add(p.x, Pipe_Width)
      inRim    == /\ x >= Sub(p.x, Pipe_Rim_Width)
                  /\ x <= Add(Add(p.x, Pipe_Width), Pipe_Rim_Width)
      gapTop   == Sub(p.y, Pipe_Gap)
  IN  \/ inColumn /\ y >= p.y
      \/ inRim /\ y >= p.y /\ y <= Add(p.y, Pipe_Rim_Height)
      \/ inColumn /\ y <= gapTop
      \/ inRim /\ y >= Sub(gapTop, Pipe_Rim_Height) /\ y <= gapTop

\* The bird's top, front and bottom points.
PipeCollision(p) ==
  \/ PointHits(Bird_X_Center, Sub(Bird_Y_Pos, Bird_Size), p)
  \/ PointHits(Add(Bird_X_Center, Bird_Size), Bird_Y_Pos, p)
  \/ PointHits(Bird_X_Center, Add(Bird_Y_Pos, Bird_Size), p)

Collision ==
  WallCollision(Bird_Y_Pos) \/ \E k \in Pipes : PipeCollision(pipe[k])

\* `BallX >= (CoinX - 2)` in 32 bits: a coin in columns or rows 0 and 1 is out
\* of reach, because the difference wraps to a huge value.
WithinTwo(ball, coin) == coin >= 2 /\ ball >= coin - 2 /\ ball <= coin + 2

CoinTouched(k) ==
  WithinTwo(Bird_X_Center, CoinX(k)) /\ WithinTwo(Bird_Y_Pos, CoinY(k))
-----------------------------------------------------------------------------
(***************************************************************************)
(* The same question in plain geometry: integer coordinates, no wrapping,  *)
(* rows above the screen negative.                                         *)
(***************************************************************************)
TrueRow == IF Bird_Over THEN Bird_Y_Pos - Word ELSE Bird_Y_Pos

BirdPoints ==
  { <<Bird_X_Center, TrueRow - Bird_Size>>,
    <<Bird_X_Center + Bird_Size, TrueRow>>,
    <<Bird_X_Center, TrueRow + Bird_Size>> }

InPipe(pt, p) ==
  LET above == pt[2] <= p.y - Pipe_Gap
      below == pt[2] >= p.y
  IN  \/ /\ p.x <= pt[1] /\ pt[1] <= p.x + Pipe_Width
         /\ above \/ below
      \/ /\ p.x - Pipe_Rim_Width <= pt[1]
         /\ pt[1] <= p.x + Pipe_Width + Pipe_Rim_Width
         /\ \/ above /\ pt[2] >= p.y - Pipe_Gap - Pipe_Rim_Height
            \/ below /\ pt[2] <= p.y + Pipe_Rim_Height

TrueCollision ==
  \/ TrueRow < 0 \/ TrueRow >= Wall
  \/ \E k \in Pipes, pt \in BirdPoints : InPipe(pt, pipe[k])

\* On every position the game reaches, the wrapped 10-bit comparisons give the
\* verdict of plain geometry (Collision_Checker.sv:51-190).
VerdictExact == Collision <=> TrueCollision
=============================================================================
