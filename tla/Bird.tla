-------------------------------- MODULE Bird --------------------------------
(***************************************************************************)
(* The bird of bird.sv: three registers clocked by the frame clock (the    *)
(* vertical sync) and reset asynchronously by KEY[0].  The game around it  *)
(* supplies bird_stop; all this module asks of the game is that a bird in  *)
(* wall collision (Collision_Checker.sv:54) is stopped at the next frame.  *)
(* FlappyFish.tla keeps that promise, and BirdSpec is then what the game   *)
(* may rely on.                                                            *)
(***************************************************************************)
EXTENDS Words

CONSTANTS
  Bird_Y_Center,    \* bird.sv:9    240
  Bird_Y_Max,       \* bird.sv:13   479
  Bird_Size,        \* bird.sv:17   6
  Wall_Margin,      \* Collision_Checker.sv:54   20
  Keys              \* the keycodes the runs let the player send

\* First row of the bottom wall.
Wall == Bird_Y_Max - Wall_Margin

\* 2 * Wall + 5 <= Word is what separates the rows a falling bird can reach
\* from the rows a rising bird reaches through the top border.
ASSUME BirdAssumption ==
  /\ Bird_Y_Max \in Nat /\ Wall_Margin \in Nat /\ Bird_Size \in Nat
  /\ Bird_Y_Center \in 0 .. Wall - 1
  /\ Wall > 5
  /\ 2 * Wall + 5 <= Word
  /\ Bird_Size <= Wall_Margin

VARIABLES
  Bird_Y_Velocity,  \* word, two's complement
  Bird_Y_Pos,       \* word, row of the bird's centre
  Counter           \* frames since gravity last acted

birdVars == <<Bird_Y_Velocity, Bird_Y_Pos, Counter>>

BirdTypeOK ==
  /\ Bird_Y_Velocity \in Words
  /\ Bird_Y_Pos \in Words
  /\ Counter \in 0 .. 5

\* Mutant: rows below the screen are no wall.
WallCollisionBounded(y) == Wall <= y /\ y <= Bird_Y_Max

\* BallY < 0 is never true of an unsigned word: the bottom test is also the
\* only test that sees a bird which left through the top.
WallCollision(y) == y >= Wall

-----------------------------------------------------------------------------
\* Power-up: the asynchronously preset bits of the row come up set, the rest
\* clear, which is the reset row.
BirdInit ==
  /\ Bird_Y_Velocity = 0
  /\ Bird_Y_Pos = Bird_Y_Center
  /\ Counter = 0

BirdReset ==
  /\ Bird_Y_Velocity' = 0
  /\ Bird_Y_Pos' = Bird_Y_Center
  /\ UNCHANGED Counter

\* The velocity before the gravity branch has its say: the border tests,
\* overridden by the keyboard.
SteeredVelocity(key) ==
  CASE key = "W" -> Word - 5
    [] key = "S" -> 1
    [] OTHER ->
         IF Add(Bird_Y_Pos, Bird_Size) >= Bird_Y_Max THEN Word - 1
         ELSE IF Sub(Bird_Y_Pos, Bird_Size) = 0 THEN 1
         ELSE Bird_Y_Velocity

\* Mutant: gravity acts on every frame (the branch bird.sv:62 comments out).
BirdMoveHeavy(key) ==
  /\ Bird_Y_Velocity' = Add(Bird_Y_Velocity, 1)
  /\ Counter' = IF Counter = 5 THEN 0 ELSE Counter + 1
  /\ Bird_Y_Pos' = Add(Bird_Y_Pos, Bird_Y_Velocity)

\* Mutant: gravity first, so what comes after it in the block wins.
BirdMoveGravityFirst(key) ==
  /\ Bird_Y_Velocity' = SteeredVelocity(key)
  /\ Counter' = IF Counter = 5 THEN 0 ELSE Counter + 1
  /\ Bird_Y_Pos' = Add(Bird_Y_Pos, Bird_Y_Velocity)

\* One frame of a moving bird.  The last nonblocking assignment wins, so on a
\* gravity frame the old velocity plus one replaces bounce and keystroke.
BirdMove(key) ==
  /\ Bird_Y_Velocity' = IF Counter = 5 THEN Add(Bird_Y_Velocity, 1)
                                       ELSE SteeredVelocity(key)
  /\ Counter' = IF Counter = 5 THEN 0 ELSE Counter + 1
  /\ Bird_Y_Pos' = Add(Bird_Y_Pos, Bird_Y_Velocity)

BirdHalt ==
  /\ Bird_Y_Velocity' = 0
  /\ UNCHANGED <<Bird_Y_Pos, Counter>>

BirdFrame(key, stop) == IF stop THEN BirdHalt ELSE BirdMove(key)

BirdNext ==
  \/ BirdReset
  \/ \E key \in Keys, stop \in BOOLEAN :
       /\ WallCollision(Bird_Y_Pos) => stop
       /\ BirdFrame(key, stop)

BirdSpec == BirdInit /\ [][BirdNext]_birdVars
-----------------------------------------------------------------------------
(***************************************************************************)
(* The inductive invariant.  A bird that falls at v >= 2 has had to fall   *)
(* for a while at every smaller speed, so its row is at least the distance *)
(* it fell: 6 frames at each speed below v, less one gravity period.  The  *)
(* bound is what keeps a falling bird from crossing the bottom border so   *)
(* fast that its row wraps to a legal one.                                 *)
(***************************************************************************)
Speed == Signed(Bird_Y_Velocity)

Bird_Over == Bird_Y_Pos >= Word - 5      \* left through the top border

FellFarEnough ==
  Speed >= 2 =>
    Bird_Y_Pos >= Counter * Speed + 3 * Speed * (Speed - 1) - 5

BirdInv ==
  /\ BirdTypeOK
  /\ Speed >= -5
  /\ Bird_Over => Speed <= 1
  /\ Bird_Over \/ Bird_Y_Pos < 2 * Wall
  /\ FellFarEnough

(***************************************************************************)
(* Properties                                                              *)
(***************************************************************************)
\* A bird that moves down gets a larger row, one that moves up a smaller one
\* or leaves through the top and is caught: the 10-bit sum of bird.sv:63 never
\* carries the bird from one border to the other.
NoTunnel ==
  [][ Bird_Y_Pos' # Bird_Y_Pos /\ ~BirdReset =>
        \/ Speed > 0 /\ Bird_Y_Pos' > Bird_Y_Pos
        \/ Speed < 0 /\ Bird_Y_Pos' < Bird_Y_Pos
        \/ Speed < 0 /\ WallCollision(Bird_Y_Pos') ]_birdVars

Flap == Bird_Y_Velocity' = Word - 5 /\ Bird_Y_Velocity # Word - 5

\* A bound on the frames a bird nobody flaps can still fly: those in which
\* gravity ends the rise, and one for each row below.
FramesLeft ==
  IF Speed >= 1 THEN Word - Bird_Y_Pos ELSE Word + 6 * (1 - Speed) - Counter

\* Each moving frame without a flap uses one of them up, the bounce at the top,
\* the key S and the frames between two of gravity included (bird.sv:34-64).
FallsUnlessFlapped ==
  [][ Counter' # Counter /\ ~Flap =>
        0 <= FramesLeft' /\ FramesLeft' < FramesLeft ]_birdVars
=============================================================================
