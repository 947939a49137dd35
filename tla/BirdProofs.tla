----------------------------- MODULE BirdProofs -----------------------------
(***************************************************************************)
(* For every screen height, bird size and word width that BirdAssumption   *)
(* admits: the invariant of Bird.tla is inductive, and no frame carries    *)
(* the bird from one border to the other.                                  *)
(***************************************************************************)
EXTENDS Bird, TLAPS

\* A sum or difference of words is a word, and wraps at most once.
LEMMA WordArith ==
  ASSUME NEW a \in Words, NEW b \in Words
  PROVE  Add(a, b) \in Words /\ Sub(a, b) \in Words
  BY WordAssumption DEF Words, Add, Sub

\* The distance fallen on the way to speed v + 1 exceeds the one on the way
\* to v by one full gravity period at v.
LEMMA FallStep ==
  ASSUME NEW v \in Int
  PROVE  3 * (v + 1) * v = 3 * v * (v - 1) + 6 * v
  OBVIOUS

\* From speed 3 on a falling bird's row is at least its speed.
LEMMA FallBound ==
  ASSUME NEW v \in Int, v >= 2
  PROVE  3 * v * (v - 1) - 5 >= v - 1
<1>1. v * (v - 1) >= 2 * (v - 1)
  OBVIOUS
<1>2. 3 * (v * (v - 1)) >= 6 * (v - 1)
  BY <1>1
<1>3. 3 * v * (v - 1) = 3 * (v * (v - 1))
  OBVIOUS
<1> QED  BY <1>2, <1>3

LEMMA BirdInvInit == BirdInit => BirdInv
  BY WordAssumption, BirdAssumption
  DEF BirdInit, BirdInv, BirdTypeOK, Words, Speed, Signed, FellFarEnough,
      Bird_Over, Wall

\* The speed a bird on the screen can have: it fell at least that far.
LEMMA SpeedBound ==
  ASSUME BirdInv, Bird_Y_Pos < Wall
  PROVE  /\ Speed \in Int /\ Speed >= -5 /\ Speed <= Bird_Y_Pos + 1
         /\ Bird_Y_Velocity = IF Speed >= 0 THEN Speed ELSE Speed + Word
<1> USE WordAssumption, BirdAssumption DEF BirdInv, BirdTypeOK, Words, Wall
<1>1. /\ Speed \in Int /\ Speed >= -5
      /\ Bird_Y_Velocity = IF Speed >= 0 THEN Speed ELSE Speed + Word
  BY DEF Speed, Signed
<1>2. CASE Speed >= 2
  <2> DEFINE v == Speed
             fallen == 3 * v * (v - 1)
             more == Counter * v
  <2>1. Bird_Y_Pos >= more + fallen - 5
    BY <1>2 DEF FellFarEnough
  <2>2. fallen - 5 >= v - 1
    BY <1>1, <1>2, FallBound
  <2>3. more \in Nat
    BY <1>1, <1>2
  <2>4. fallen \in Int
    BY <1>1
  <2> HIDE DEF fallen, more
  <2> QED  BY <1>1, <2>1, <2>2, <2>3, <2>4
<1>3. CASE Speed < 2
  BY <1>1, <1>3
<1> QED  BY <1>1, <1>2, <1>3

\* Where a move takes a bird on the screen: by its speed, or out at the top.
LEMMA MovedRow ==
  ASSUME BirdInv, Bird_Y_Pos < Wall, Bird_Y_Pos' = Add(Bird_Y_Pos, Bird_Y_Velocity)
  PROVE  Bird_Y_Pos' = IF Bird_Y_Pos + Speed >= 0 THEN Bird_Y_Pos + Speed
                                                  ELSE Bird_Y_Pos + Speed + Word
  BY SpeedBound, WordAssumption, BirdAssumption
  DEF BirdInv, BirdTypeOK, Words, Wall, Add

\* What a move does to the speed: gravity adds one, everything else leaves it
\* or makes it less than two.
LEMMA MovedSpeed ==
  ASSUME BirdInv, Bird_Y_Pos < Wall, NEW key \in Keys, BirdMove(key)
  PROVE  /\ Bird_Y_Velocity' \in Words
         /\ Counter = 5 => Speed' = Speed + 1
         /\ Counter # 5 => Speed' = Speed \/ Speed' \in {-5, -1, 1}
<1> USE WordAssumption, BirdAssumption DEF Wall
<1>1. CASE Counter = 5
  BY <1>1, SpeedBound DEF BirdMove, Add, Speed, Signed, Words, BirdInv, BirdTypeOK
<1>2. CASE Counter # 5
  <2>1. Bird_Y_Velocity' \in {Bird_Y_Velocity, Word - 5, Word - 1, 1}
    BY <1>2 DEF BirdMove, SteeredVelocity
  <2>2. CASE Bird_Y_Velocity' = Bird_Y_Velocity
    BY <1>2, <2>2 DEF Speed, BirdInv, BirdTypeOK
  <2>3. CASE Bird_Y_Velocity' = Word - 5
    BY <1>2, <2>3 DEF Speed, Signed, Words
  <2>4. CASE Bird_Y_Velocity' = Word - 1
    BY <1>2, <2>4 DEF Speed, Signed, Words
  <2>5. CASE Bird_Y_Velocity' = 1
    BY <1>2, <2>5 DEF Speed, Signed, Words
  <2> QED
    BY <2>1, <2>2, <2>3, <2>4, <2>5
<1> QED  BY <1>1, <1>2

LEMMA BirdInvMove ==
  ASSUME BirdInv, NEW key \in Keys, ~WallCollision(Bird_Y_Pos), BirdMove(key)
  PROVE  BirdInv'
<1> USE WordAssumption, BirdAssumption
<1>1. Bird_Y_Pos \in 0 .. Wall - 1 /\ Bird_Y_Pos < Wall
  BY DEF WallCollision, BirdInv, BirdTypeOK, Words, Wall
<1>2. /\ Speed \in Int /\ Speed >= -5 /\ Speed <= Bird_Y_Pos + 1
  BY <1>1, SpeedBound
<1>3. Bird_Y_Pos' = IF Bird_Y_Pos + Speed >= 0 THEN Bird_Y_Pos + Speed
                                               ELSE Bird_Y_Pos + Speed + Word
  BY <1>1, MovedRow DEF BirdMove
<1>4. /\ Bird_Y_Velocity' \in Words
      /\ Counter = 5 => Speed' = Speed + 1
      /\ Counter # 5 => Speed' = Speed \/ Speed' \in {-5, -1, 1}
  BY <1>1, MovedSpeed
<1>5. BirdTypeOK'
  BY <1>1, <1>2, <1>3, <1>4 DEF BirdMove, BirdInv, BirdTypeOK, Words, Wall
<1>6. Speed' >= -5
  BY <1>2, <1>4 DEF BirdInv
<1>7. Bird_Over' => Speed' <= 1
  BY <1>1, <1>2, <1>3, <1>4 DEF Bird_Over, Wall
<1>8. (Bird_Over \/ Bird_Y_Pos < 2 * Wall)'
  BY <1>1, <1>2, <1>3 DEF Bird_Over, Wall
<1>9. FellFarEnough'
  <2> SUFFICES ASSUME Speed' >= 2
               PROVE  Bird_Y_Pos' >= Counter' * Speed' + 3 * Speed' * (Speed' - 1) - 5
    BY DEF FellFarEnough
  <2>1. CASE Counter = 5 /\ Speed = 1
    <3>1. Speed' = 2 /\ Counter' = 0 /\ Bird_Y_Pos' = Bird_Y_Pos + 1
      BY <1>1, <1>3, <1>4, <2>1 DEF BirdMove, Wall
    <3> QED  BY <1>1, <3>1 DEF Wall
  <2>2. CASE Counter = 5 /\ Speed >= 2
    <3> DEFINE fallen == 3 * Speed * (Speed - 1)
    <3>1. Speed' = Speed + 1 /\ Counter' = 0 /\ Bird_Y_Pos' = Bird_Y_Pos + Speed
      BY <1>1, <1>2, <1>3, <1>4, <2>2 DEF BirdMove, Wall
    <3>2. Bird_Y_Pos >= 5 * Speed + fallen - 5
      BY <2>2 DEF BirdInv, FellFarEnough
    <3>3. 3 * (Speed + 1) * Speed = fallen + 6 * Speed /\ fallen \in Int
      BY <1>2, FallStep
    <3>4. Speed' - 1 = Speed
      BY <1>2, <3>1
    <3>5. 3 * Speed' * (Speed' - 1) = fallen + 6 * Speed
      BY <3>1, <3>3, <3>4
    <3>6. Counter' * Speed' = 0
      BY <1>2, <3>1
    <3> HIDE DEF fallen
    <3> QED  BY <1>1, <1>2, <3>1, <3>2, <3>3, <3>5, <3>6 DEF Wall
  <2>3. CASE Counter # 5 /\ Speed' = Speed
    <3> DEFINE fallen == 3 * Speed * (Speed - 1)
               more == Counter * Speed
    <3>1. Counter' = Counter + 1 /\ Bird_Y_Pos' = Bird_Y_Pos + Speed
      BY <1>1, <1>2, <1>3, <2>3 DEF BirdMove, Wall
    <3>2. Bird_Y_Pos >= more + fallen - 5
      BY <2>3 DEF BirdInv, FellFarEnough
    <3>3. Counter' * Speed' = more + Speed /\ more \in Int /\ fallen \in Int
      BY <1>2, <2>3, <3>1 DEF BirdInv, BirdTypeOK
    <3>4. 3 * Speed' * (Speed' - 1) = fallen
      BY <2>3
    <3> HIDE DEF fallen, more
    <3> QED  BY <1>1, <1>2, <3>1, <3>2, <3>3, <3>4 DEF Wall
  <2> QED  BY <1>2, <1>4, <2>1, <2>2, <2>3
<1> QED  BY <1>5, <1>6, <1>7, <1>8, <1>9 DEF BirdInv

\* Holding the bird still cannot break the invariant: it zeroes the speed.
LEMMA BirdInvHalt ==
  ASSUME BirdInv, BirdReset \/ BirdHalt
  PROVE  BirdInv'
  BY WordAssumption, BirdAssumption
  DEF BirdInv, BirdReset, BirdHalt, BirdTypeOK, Words, Speed, Signed,
      FellFarEnough, Bird_Over, Wall

LEMMA BirdInvStep ==
  ASSUME BirdInv, [BirdNext]_birdVars
  PROVE  BirdInv'
<1>1. CASE BirdReset
  BY <1>1, BirdInvHalt
<1>2. ASSUME NEW key \in Keys, NEW stop \in BOOLEAN,
             WallCollision(Bird_Y_Pos) => stop, BirdFrame(key, stop)
      PROVE  BirdInv'
  BY <1>2, BirdInvHalt, BirdInvMove DEF BirdFrame
<1>3. CASE UNCHANGED birdVars
  BY <1>3 DEF birdVars, BirdInv, BirdTypeOK, Speed, Signed, FellFarEnough, Bird_Over
<1> QED  BY <1>1, <1>2, <1>3 DEF BirdNext

\* The bird's registers keep their ranges and its row keeps up with its speed,
\* whatever the keystrokes (bird.sv:34-64).
THEOREM BirdInvariant == BirdSpec => []BirdInv
  BY BirdInvInit, BirdInvStep, PTL DEF BirdSpec

\* No frame carries the bird through a border (bird.sv:63).
THEOREM BirdNoTunnel == BirdSpec => NoTunnel
<1> DEFINE Straight ==
      Bird_Y_Pos' # Bird_Y_Pos /\ ~BirdReset =>
        \/ Speed > 0 /\ Bird_Y_Pos' > Bird_Y_Pos
        \/ Speed < 0 /\ Bird_Y_Pos' < Bird_Y_Pos
        \/ Speed < 0 /\ WallCollision(Bird_Y_Pos')
<1>1. ASSUME BirdInv, [BirdNext]_birdVars
      PROVE  [Straight]_birdVars
  <2>1. ASSUME NEW key \in Keys, ~WallCollision(Bird_Y_Pos), BirdMove(key)
        PROVE  Straight
    <3>1. Bird_Y_Pos \in 0 .. Wall - 1 /\ Bird_Y_Pos < Wall
      BY <1>1, <2>1, WordAssumption, BirdAssumption
      DEF WallCollision, BirdInv, BirdTypeOK, Words, Wall
    <3>2. /\ Speed \in Int /\ Speed >= -5
      BY <1>1, <3>1, SpeedBound
    <3>3. Bird_Y_Pos' = IF Bird_Y_Pos + Speed >= 0 THEN Bird_Y_Pos + Speed
                                               ELSE Bird_Y_Pos + Speed + Word
      BY <1>1, <2>1, <3>1, MovedRow DEF BirdMove
    <3> QED
      BY <3>1, <3>2, <3>3, WordAssumption, BirdAssumption DEF WallCollision, Wall
  <2>2. ASSUME NEW key \in Keys, NEW stop \in BOOLEAN,
               WallCollision(Bird_Y_Pos) => stop, BirdFrame(key, stop)
        PROVE  Straight
    <3>1. CASE stop
      BY <2>2, <3>1 DEF BirdFrame, BirdHalt
    <3>2. CASE ~stop
      BY <2>1, <2>2, <3>2 DEF BirdFrame
    <3> QED  BY <3>1, <3>2
  <2>3. CASE BirdReset
    BY <2>3
  <2> QED  BY <1>1, <2>2, <2>3 DEF BirdNext
<1> QED  BY <1>1, BirdInvariant, PTL DEF BirdSpec, NoTunnel

\* Without a flap the speed changes upwards only, or falls back to that of S.
LEMMA UnflappedSpeed ==
  ASSUME BirdInv, Bird_Y_Pos < Wall, NEW key \in Keys, BirdMove(key), ~Flap
  PROVE  /\ Counter = 5 => Speed' = Speed + 1
         /\ Counter # 5 => Speed' = Speed \/ Speed' = 1
<1> USE WordAssumption, BirdAssumption DEF Wall
<1>1. CASE Counter = 5
  BY <1>1, MovedSpeed
<1>2. CASE Counter # 5
  <2>1. ~(Add(Bird_Y_Pos, Bird_Size) >= Bird_Y_Max)
    BY DEF BirdInv, BirdTypeOK, Words, Add
  <2>2. Bird_Y_Velocity' \in {Bird_Y_Velocity, 1}
    <3>1. CASE key = "W"
      BY <1>2, <3>1 DEF BirdMove, SteeredVelocity, Flap
    <3>2. CASE key = "S"
      BY <1>2, <3>2 DEF BirdMove, SteeredVelocity
    <3>3. CASE key # "W" /\ key # "S"
      BY <1>2, <2>1, <3>3 DEF BirdMove, SteeredVelocity
    <3> QED  BY <3>1, <3>2, <3>3
  <2>3. CASE Bird_Y_Velocity' = Bird_Y_Velocity
    BY <1>2, <2>3 DEF Speed
  <2>4. CASE Bird_Y_Velocity' = 1
    BY <1>2, <2>4 DEF Speed, Signed, Words
  <2> QED  BY <1>2, <2>2, <2>3, <2>4
<1> QED  BY <1>1, <1>2

LEMMA RowsBelow ==
  ASSUME NEW y \in 0 .. Word - 1
  PROVE  Word - y \in 1 .. Word
  BY WordAssumption

LEMMA UnflappedFrame ==
  ASSUME BirdInv, ~WallCollision(Bird_Y_Pos), NEW key \in Keys, BirdMove(key), ~Flap
  PROVE  0 <= FramesLeft' /\ FramesLeft' < FramesLeft
<1> USE WordAssumption, BirdAssumption DEF Wall
<1>1. Bird_Y_Pos \in 0 .. Wall - 1 /\ Bird_Y_Pos < Wall /\ Counter \in 0 .. 5
  BY DEF WallCollision, BirdInv, BirdTypeOK, Words
<1>2. /\ Speed \in Int /\ Speed >= -5 /\ Speed <= Bird_Y_Pos + 1
  BY <1>1, SpeedBound
<1>3. Bird_Y_Pos' = IF Bird_Y_Pos + Speed >= 0 THEN Bird_Y_Pos + Speed
                                               ELSE Bird_Y_Pos + Speed + Word
  BY <1>1, MovedRow DEF BirdMove
<1>4. /\ Counter = 5 => Speed' = Speed + 1
      /\ Counter # 5 => Speed' = Speed \/ Speed' = 1
  BY <1>1, UnflappedSpeed
<1>5. Counter' = IF Counter = 5 THEN 0 ELSE Counter + 1
  BY DEF BirdMove
<1>6. CASE Speed >= 1
  <2>1. Speed' >= 1 /\ Bird_Y_Pos' = Bird_Y_Pos + Speed
    BY <1>1, <1>2, <1>3, <1>4, <1>6
  <2> QED  BY <1>1, <1>2, <1>6, <2>1 DEF FramesLeft
<1>7. CASE Speed < 1
  <2>1. Bird_Y_Pos' \in 0 .. Word - 1
    BY <1>1, <1>2, <1>3, <1>7
  <2>2. FramesLeft = Word + 6 * (1 - Speed) - Counter
    BY <1>2, <1>7 DEF FramesLeft
  <2>3. CASE Speed' >= 1
    <3>1. FramesLeft' = Word - Bird_Y_Pos'
      BY <2>3 DEF FramesLeft
    <3>2. FramesLeft' \in 1 .. Word
      BY <2>1, <3>1, RowsBelow
    <3>3. FramesLeft \in Int /\ FramesLeft > Word
      BY <1>1, <1>2, <1>7, <2>2
    <3> QED  BY <3>2, <3>3
  <2>4. CASE ~(Speed' >= 1)
    <3>1. FramesLeft' = Word + 6 * (1 - Speed') - Counter'
      BY <2>4 DEF FramesLeft
    <3> HIDE DEF Wall
    <3>2. CASE Counter = 5
      BY <1>1, <1>2, <1>4, <1>5, <1>7, <2>2, <3>1, <3>2
    <3>3. CASE Counter # 5
      <4>1. Speed' = Speed /\ Counter' = Counter + 1
        BY <1>4, <1>5, <2>4, <3>3
      <4> QED  BY <1>1, <1>2, <1>7, <2>2, <3>1, <4>1
    <3> QED  BY <3>2, <3>3
  <2> QED  BY <2>3, <2>4
<1> QED  BY <1>2, <1>6, <1>7

\* A bird nobody flaps comes down, in a number of frames that its speed and row
\* bound from the start (bird.sv:34-64): the safety half of "a game that is
\* left running is lost".
THEOREM BirdFalls == BirdSpec => FallsUnlessFlapped
<1>1. ASSUME BirdInv, [BirdNext]_birdVars
      PROVE  [ Counter' # Counter /\ ~Flap =>
                 0 <= FramesLeft' /\ FramesLeft' < FramesLeft ]_birdVars
  <2> SUFFICES ASSUME BirdNext, Counter' # Counter, ~Flap
               PROVE  0 <= FramesLeft' /\ FramesLeft' < FramesLeft
    BY <1>1
  <2>1. PICK key \in Keys, stop \in BOOLEAN :
          (WallCollision(Bird_Y_Pos) => stop) /\ BirdFrame(key, stop)
    BY DEF BirdNext, BirdReset
  <2>2. ~stop /\ BirdMove(key)
    BY <2>1 DEF BirdFrame, BirdHalt
  <2> QED  BY <1>1, <2>1, <2>2, UnflappedFrame
<1> QED  BY <1>1, BirdInvariant, PTL DEF BirdSpec, FallsUnlessFlapped
=============================================================================
