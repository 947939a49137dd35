-------------------------- MODULE FlappyFishProofs --------------------------
(***************************************************************************)
(* The game, for every layout and word width the assumptions admit:        *)
(*  - it keeps collisions armed, and so keeps the promise Bird.tla asks    *)
(*    for; it refines BirdSpec, whose invariant it inherits with that of   *)
(*    PipesSpec, from which its pipes take their actions;                  *)
(*  - on every position it reaches the wrapped pixel tests are exact;      *)
(*  - a lost game stands still until Reset, and Reset leaves a game that   *)
(*    is not lost;                                                         *)
(*  - while the difficulty is left alone the event block works as a flag   *)
(*    for each coin;                                                       *)
(*  - a pipe that ends the game is one the picture shows under the bird.   *)
(***************************************************************************)
EXTENDS Color_Mapper, BirdProofs, PipesProofs

\* The part of the state the promise rests on.
Control ==
  /\ game_off \in BOOLEAN /\ collision_on \in BOOLEAN
  /\ difficulty \in Speeds
  /\ CollisionArmed

LEMMA ControlInit == Init => Control
  BY SpeedsAssumption DEF Init, Control, CollisionArmed

LEMMA ControlStep ==
  ASSUME Control, [Next]_vars
  PROVE  Control'
<1>1. CASE PressReset
  BY <1>1 DEF PressReset, ButtonEdge, Control, CollisionArmed
<1>2. CASE PressContinue
  BY <1>2 DEF PressContinue, ButtonEdge, Control, CollisionArmed
<1>3. CASE Release
  BY <1>3 DEF Release, Control, CollisionArmed
<1>4. ASSUME NEW key \in Keys, Frame(key)
      PROVE  Control'
  <2>1. ChosenDifficulty(key) \in Speeds
    BY SpeedsAssumption DEF ChosenDifficulty, Control
  <2> QED  BY <1>4, <2>1 DEF Frame, Control, CollisionArmed
<1>5. CASE UNCHANGED vars
  BY <1>5 DEF vars, control, Control, CollisionArmed
<1> QED  BY <1>1, <1>2, <1>3, <1>4, <1>5 DEF Next

LEMMA ControlInvariant == Spec => []Control
  BY ControlInit, ControlStep, PTL DEF Spec

\* Whatever the order of the buttons, a running game tests collisions
\* (FlappyFish.sv:137-152).
THEOREM AlwaysArmed == Spec => []CollisionArmed
<1>1. Control => CollisionArmed
  BY DEF Control
<1> QED  BY <1>1, ControlInvariant, PTL

LEMMA StepRefines ==
  ASSUME Control, [Next]_vars
  PROVE  [BirdNext]_birdVars /\ [PipesNext]_pipe
<1>1. CASE PressReset
  BY <1>1 DEF PressReset, BirdNext, PipesNext
<1>2. CASE PressContinue \/ Release \/ UNCHANGED vars
  BY <1>2 DEF PressContinue, Release, vars
<1>3. ASSUME NEW key \in Keys, Frame(key)
      PROVE  [BirdNext]_birdVars /\ [PipesNext]_pipe
  <2>1. Stop \in BOOLEAN
    BY DEF Stop, Control
  <2>2. WallCollision(Bird_Y_Pos) => Stop
    BY DEF Stop, Control, CollisionArmed, Collision
  <2>3. BirdFrame(key, Stop) /\ PipesFrame(Stop, difficulty)
    BY <1>3 DEF Frame
  <2>4. BirdNext
    BY <2>1, <2>2, <2>3 DEF BirdNext
  <2>5. PipesNext
    BY <2>1, <2>3 DEF PipesNext, Control
  <2> QED  BY <2>4, <2>5
<1> QED  BY <1>1, <1>2, <1>3 DEF Next

\* The game stops a bird in wall collision, so the bird's guarantees hold in
\* the game (FlappyFish.sv:277).
THEOREM GameRefinesBird == Spec => BirdSpec
<1>1. Init => BirdInit
  BY DEF Init
<1> QED  BY <1>1, StepRefines, ControlInvariant, PTL DEF Spec, BirdSpec

\* The game's pipes take the actions of PipesSpec, at a speed of Speeds
\* (FlappyFish.sv:286-333), so what is proved of the pipes holds of them.
LEMMA GameRefinesPipes == Spec => PipesSpec
<1>1. Init => PipesInit
  BY DEF Init
<1> QED  BY <1>1, StepRefines, ControlInvariant, PTL DEF Spec, PipesSpec
-----------------------------------------------------------------------------
\* A test point given by a wrapped row y against the true row t it stands for.
LEMMA PointExact ==
  ASSUME NEW p, p.x \in 0 .. X_Start, p.y \in Nat,
         \/ p.x = 0 /\ p.y = 0
         \/ /\ p.y >= Pipe_Gap + Pipe_Rim_Height
            /\ p.y + Pipe_Rim_Height + Bird_Size < Word,
         NEW x \in Nat, x >= Bird_X_Center, x < Word,
         NEW t \in Int, t >= -Bird_Size, t < Word,
         NEW y, y = IF t >= 0 THEN t ELSE t + Word
  PROVE  PointHits(x, y, p) <=> InPipe(<<x, t>>, p)
<1> USE WordAssumption, BirdAssumption, PipesAssumption, CollisionAssumption
        DEF Words, X_Start
<1>1. CASE p.x = 0 /\ p.y = 0
  BY <1>1 DEF PointHits, InPipe, Add, Sub
<1>2. CASE p.y >= Pipe_Gap + Pipe_Rim_Height /\ p.y + Pipe_Rim_Height + Bird_Size < Word
  <2>1. /\ Add(p.x, Pipe_Width) = p.x + Pipe_Width
        /\ Add(p.x + Pipe_Width, Pipe_Rim_Width) = p.x + Pipe_Width + Pipe_Rim_Width
        /\ Sub(p.y, Pipe_Gap) = p.y - Pipe_Gap
        /\ Sub(p.y - Pipe_Gap, Pipe_Rim_Height) = p.y - Pipe_Gap - Pipe_Rim_Height
        /\ Add(p.y, Pipe_Rim_Height) = p.y + Pipe_Rim_Height
    BY <1>2 DEF Add, Sub
  <2>2. (x >= Sub(p.x, Pipe_Rim_Width) /\ x <= p.x + Pipe_Width + Pipe_Rim_Width)
          <=> (p.x - Pipe_Rim_Width <= x /\ x <= p.x + Pipe_Width + Pipe_Rim_Width)
    BY DEF Sub
  <2>3. CASE t >= 0
    BY <1>2, <2>1, <2>2, <2>3 DEF PointHits, InPipe
  <2>4. CASE t < 0
    BY <1>2, <2>1, <2>2, <2>4 DEF PointHits, InPipe
  <2> QED  BY <2>3, <2>4
<1> QED  BY <1>1, <1>2

LEMMA VerdictExactHere ==
  ASSUME BirdInv, PipesInv
  PROVE  VerdictExact
<1> USE WordAssumption, BirdAssumption, PipesAssumption, CollisionAssumption
<1>1. CASE WallCollision(Bird_Y_Pos)
  BY <1>1 DEF VerdictExact, Collision, TrueCollision, TrueRow, WallCollision,
              BirdInv, BirdTypeOK, Words, Bird_Over, Wall
<1>2. CASE ~WallCollision(Bird_Y_Pos)
  <2>1. Bird_Y_Pos \in 0 .. Wall - 1 /\ TrueRow = Bird_Y_Pos
    BY <1>2 DEF WallCollision, TrueRow, BirdInv, BirdTypeOK, Words, Bird_Over, Wall
  <2>2. ASSUME NEW k \in Pipes
        PROVE  PipeCollision(pipe[k]) <=> \E pt \in BirdPoints : InPipe(pt, pipe[k])
    <3> DEFINE p == pipe[k]
    <3>1. /\ p.x \in 0 .. X_Start /\ p.y \in Nat
          /\ \/ p.x = 0 /\ p.y = 0
             \/ /\ p.y >= Pipe_Gap + Pipe_Rim_Height
                /\ p.y + Pipe_Rim_Height + Bird_Size < Word
      BY <2>2 DEF PipesInv, PipesTypeOK, PipeRegisters, Words, GapRows
    <3>2. PointHits(Bird_X_Center, Sub(Bird_Y_Pos, Bird_Size), p)
            <=> InPipe(<<Bird_X_Center, TrueRow - Bird_Size>>, p)
      <4> DEFINE y == Sub(Bird_Y_Pos, Bird_Size)
                 t == TrueRow - Bird_Size
      <4>1. /\ t \in Int /\ t >= -Bird_Size /\ t < Word
            /\ y = IF t >= 0 THEN t ELSE t + Word
            /\ Bird_X_Center \in Nat /\ Bird_X_Center >= Bird_X_Center
            /\ Bird_X_Center < Word
        BY <2>1 DEF Sub, Wall
      <4> HIDE DEF p, y, t
      <4> QED  BY <3>1, <4>1, PointExact DEF y, t
    <3>3. PointHits(Add(Bird_X_Center, Bird_Size), Bird_Y_Pos, p)
            <=> InPipe(<<Bird_X_Center + Bird_Size, TrueRow>>, p)
      <4> DEFINE x == Bird_X_Center + Bird_Size
                 y == Bird_Y_Pos
                 t == TrueRow
      <4>1. /\ t \in Int /\ t >= -Bird_Size /\ t < Word
            /\ y = IF t >= 0 THEN t ELSE t + Word
            /\ x \in Nat /\ x >= Bird_X_Center /\ x < Word
            /\ Add(Bird_X_Center, Bird_Size) = x
        BY <2>1 DEF Add, Wall
      <4> HIDE DEF p, x, y, t
      <4>2. PointHits(x, y, p) <=> InPipe(<<x, t>>, p)
        BY <3>1, <4>1, PointExact
      <4> QED  BY <4>1, <4>2 DEF x, y, t
    <3>4. PointHits(Bird_X_Center, Add(Bird_Y_Pos, Bird_Size), p)
            <=> InPipe(<<Bird_X_Center, TrueRow + Bird_Size>>, p)
      <4> DEFINE y == Add(Bird_Y_Pos, Bird_Size)
                 t == TrueRow + Bird_Size
      <4>1. /\ t \in Int /\ t >= -Bird_Size /\ t < Word
            /\ y = IF t >= 0 THEN t ELSE t + Word
            /\ Bird_X_Center \in Nat /\ Bird_X_Center >= Bird_X_Center
            /\ Bird_X_Center < Word
        BY <2>1 DEF Add, Wall
      <4> HIDE DEF p, y, t
      <4> QED  BY <3>1, <4>1, PointExact DEF y, t
    <3> HIDE DEF p
    <3> QED  BY <3>2, <3>3, <3>4 DEF PipeCollision, BirdPoints, p
  <2>3. ~(TrueRow < 0 \/ TrueRow >= Wall)
    BY <2>1 DEF Wall
  <2> QED  BY <1>2, <2>2, <2>3 DEF VerdictExact, Collision, TrueCollision
<1> QED  BY <1>1, <1>2

\* The 10-bit comparisons of Collision_Checker.sv decide what integer geometry
\* decides, on every position the game reaches.
THEOREM VerdictAlwaysExact == Spec => []VerdictExact
  BY GameRefinesBird, GameRefinesPipes, BirdInvariant, PipesInvariant,
     VerdictExactHere, PTL

\* Once lost, only Reset moves anything (FlappyFish.sv:277).
THEOREM LostStaysFrozen == Spec => LostGameFrozen
<1> DEFINE Frozen ==
      Collision /\ Loaded /\ ~Reset_h' => UNCHANGED <<Bird_Y_Pos, pipe>>
<1>1. ASSUME Control, PipesInv, [Next]_vars
      PROVE  [Frozen]_vars
  <2>1. CASE PressReset
    BY <2>1 DEF PressReset
  <2>2. CASE PressContinue \/ Release
    BY <2>2 DEF PressContinue, Release, birdVars
  <2>3. ASSUME NEW key \in Keys, Frame(key), Collision, Loaded, ~Reset_h'
        PROVE  UNCHANGED <<Bird_Y_Pos, pipe>>
    <3>1. ~Reset_h /\ Stop
      BY <1>1, <2>3 DEF Frame, Stop, Control, CollisionArmed
    <3>2. BirdHalt /\ pipe' = [k \in Pipes |-> pipe[k]]
      BY <2>3, <3>1 DEF Frame, BirdFrame, PipesFrame, PipeFrame, Loaded
    <3>3. pipe = [k \in Pipes |-> pipe[k]]
      BY <1>1 DEF PipesInv, PipesTypeOK
    <3> QED  BY <3>2, <3>3 DEF BirdHalt
  <2> QED  BY <1>1, <2>1, <2>2, <2>3 DEF Next
<1> QED
  BY <1>1, ControlInvariant, GameRefinesPipes, PipesInvariant, PTL
  DEF Spec, LostGameFrozen
-----------------------------------------------------------------------------
(***************************************************************************)
(* With the collision test off the bird is in its start row and the pipes  *)
(* that have loaded stand in their start positions.  Continue pressed      *)
(* while Reset is held must not undo this, hence the first conjunct.       *)
(***************************************************************************)
StartInv ==
  /\ Reset_h \in BOOLEAN /\ Continue_h \in BOOLEAN
  /\ coinfl \in [Pipes -> BOOLEAN]
  /\ Reset_h => ~collision_on
  /\ ~collision_on =>
       /\ Bird_Y_Pos = Bird_Y_Center
       /\ \A k \in Pipes :
            pipe[k].flag => pipe[k].x = PipeX0[k] /\ pipe[k].y = PipeY0[k]

LEMMA CoinsStayFlags ==
  ASSUME StartInv, PipesInv', CoinEvents
  PROVE  coinfl' \in [Pipes -> BOOLEAN]
<1>1. ASSUME NEW k \in Pipes
      PROVE  FirstPulse(k) \in BOOLEAN /\ FirstTouch(k) \in BOOLEAN
  BY DEF FirstPulse, FirstTouch
<1>2. ASSUME NEW k \in Pipes
      PROVE  (IF k \in Latches \/ EventRises
              THEN FirstPulse(k) \/ (coinfl[k] /\ ~FirstTouch(k))
              ELSE coinfl[k]) \in BOOLEAN
  BY <1>1, <1>2 DEF StartInv
<1> QED  BY <1>2 DEF CoinEvents

LEMMA StartStep ==
  ASSUME Control, StartInv, PipesInv, PipesInv', [Next]_vars
  PROVE  StartInv'
<1>1. CASE PressReset
  <2>1. /\ Reset_h' = TRUE /\ Continue_h' = Continue_h /\ collision_on' = FALSE
        /\ Bird_Y_Pos' = Bird_Y_Center
        /\ \A k \in Pipes : pipe'[k] = [pipe[k] EXCEPT !.flag = FALSE]
    BY <1>1 DEF PressReset, ButtonEdge, BirdReset, PipesReset
  <2>2. \A k \in Pipes : ~pipe'[k].flag
    BY <2>1 DEF PipesInv, PipesTypeOK, PipeRegisters
  <2>3. coinfl' \in [Pipes -> BOOLEAN]
    BY <1>1, CoinsStayFlags DEF PressReset
  <2> QED  BY <2>1, <2>2, <2>3 DEF StartInv
<1>2. CASE PressContinue
  <2>1. coinfl' \in [Pipes -> BOOLEAN]
    BY <1>2, CoinsStayFlags DEF PressContinue
  <2> QED  BY <1>2, <2>1 DEF PressContinue, ButtonEdge, StartInv, birdVars
<1>3. CASE Release
  <2>1. coinfl' \in [Pipes -> BOOLEAN]
    BY <1>3, CoinsStayFlags DEF Release
  <2>2. /\ UNCHANGED <<collision_on, Bird_Y_Pos, pipe>>
        /\ Reset_h' = Reset_h \/ Reset_h' = FALSE
        /\ Continue_h' = Continue_h \/ Continue_h' = FALSE
    BY <1>3 DEF Release, birdVars
  <2>3. Reset_h \in BOOLEAN /\ Continue_h \in BOOLEAN /\ FALSE \in BOOLEAN
    BY Zenon DEF StartInv
  <2>4. Reset_h' \in BOOLEAN
    BY <2>2, <2>3
  <2>5. Reset_h' => Reset_h
    <3>1. CASE Reset_h' = Reset_h
      BY <3>1
    <3>2. CASE Reset_h' = FALSE
      BY <3>2
    <3> QED  BY <2>2, <3>1, <3>2
  <2>6. Continue_h' \in BOOLEAN
    BY <2>2, <2>3
  <2> QED  BY <2>1, <2>2, <2>4, <2>5, <2>6 DEF StartInv
<1>4. ASSUME NEW key \in Keys, Frame(key)
      PROVE  StartInv'
  <2>1. coinfl' \in [Pipes -> BOOLEAN]
    BY <1>4, CoinsStayFlags DEF Frame
  <2>2. UNCHANGED <<Reset_h, Continue_h, collision_on>>
    BY <1>4 DEF Frame
  <2>3. CASE collision_on
    BY <2>1, <2>2, <2>3 DEF StartInv
  <2>4. CASE ~collision_on
    <3>1. Stop
      BY <2>4 DEF Stop, Control, CollisionArmed
    <3>2. Bird_Y_Pos' = Bird_Y_Pos
      BY <1>4, <3>1 DEF Frame, BirdFrame, BirdHalt
    <3>3. ASSUME NEW k \in Pipes
          PROVE  pipe'[k].x = PipeX0[k] /\ pipe'[k].y = PipeY0[k]
      <4>1. pipe'[k] = IF pipe[k].flag THEN pipe[k] ELSE Load(k)
        BY <1>4, <3>1 DEF Frame, PipesFrame, PipeFrame
      <4>2. pipe[k] \in PipeRegisters
        BY DEF PipesInv, PipesTypeOK
      <4> QED  BY <2>4, <4>1, <4>2 DEF Load, PipeRegisters, StartInv
    <3> QED  BY <2>1, <2>2, <2>4, <3>2, <3>3 DEF StartInv
  <2> QED  BY <2>3, <2>4
<1>5. CASE UNCHANGED vars
  BY <1>5 DEF vars, control, birdVars, StartInv
<1> QED  BY <1>1, <1>2, <1>3, <1>4, <1>5 DEF Next

LEMMA StartInvariant == Spec => []StartInv
<1>1. Init => StartInv
  <2>1. ASSUME Init
        PROVE  \A k \in Pipes : ~pipe[k].flag
    BY <2>1 DEF Init, PipesInit
  <2>2. ASSUME Init
        PROVE  coinfl \in [Pipes -> BOOLEAN]
    BY <2>2 DEF Init
  <2> QED  BY <2>1, <2>2 DEF Init, BirdInit, StartInv
<1>2. Spec => []PipesInv
  BY GameRefinesPipes, PipesInvariant, PTL
<1> QED  BY <1>1, <1>2, StartStep, ControlInvariant, PTL DEF Spec

\* No register of the game ever leaves its range.
THEOREM GameTypes == Spec => []TypeOK
<1>1. BirdInv /\ PipesInv /\ Control /\ StartInv => TypeOK
  BY DEF BirdInv, PipesInv, Control, StartInv, TypeOK
<1> QED
  BY <1>1, GameRefinesBird, GameRefinesPipes, BirdInvariant, PipesInvariant,
     ControlInvariant, StartInvariant, PTL

\* A start position holds no collision, at any height of gap or word width.
LEMMA StartIsClean ==
  ASSUME PipesInv, StartInv, ~collision_on, Loaded
  PROVE  ~Collision
<1> USE WordAssumption, BirdAssumption, PipesAssumption, CollisionAssumption,
        StartAssumption
<1>1. ~WallCollision(Bird_Y_Pos)
  BY DEF WallCollision, StartInv, Wall
<1>2. ASSUME NEW k \in Pipes, NEW x \in {Bird_X_Center, Bird_X_Center + Bird_Size}, NEW y
      PROVE  ~PointHits(x, y, pipe[k])
  <2> DEFINE px == PipeX0[k]
  <2>1. pipe[k].x = px /\ px \in 0 .. X_Start /\ X_Start \in Nat
    BY DEF StartInv, Loaded, X_Start, Words
  <2>2. /\ Add(px, Pipe_Width) = px + Pipe_Width
        /\ Add(px + Pipe_Width, Pipe_Rim_Width) = px + Pipe_Width + Pipe_Rim_Width
    BY <2>1 DEF Add
  <2>3. Sub(px, Pipe_Rim_Width) =
          IF px >= Pipe_Rim_Width THEN px - Pipe_Rim_Width ELSE px - Pipe_Rim_Width + Word
    BY <2>1 DEF Sub
  <2>4. /\ x \in Nat /\ Bird_X_Center <= x /\ x <= Bird_X_Center + Bird_Size
        /\ Word \in Nat
    OBVIOUS
  <2>5. ~(x >= px /\ x <= px + Pipe_Width)
    BY <2>1, <2>4
  <2>6. ~(x >= Sub(px, Pipe_Rim_Width) /\ x <= px + Pipe_Width + Pipe_Rim_Width)
    BY <2>1, <2>3, <2>4
  <2> HIDE DEF px
  <2> QED  BY <2>1, <2>2, <2>5, <2>6 DEF PointHits
<1>3. Add(Bird_X_Center, Bird_Size) = Bird_X_Center + Bird_Size
  BY DEF Add
<1> QED  BY <1>1, <1>2, <1>3 DEF Collision, PipeCollision

\* Whatever was done before and during Reset, the game it leaves is not
\* already lost once its pipes have loaded (FlappyFish.sv:286-333).
THEOREM AlwaysStartsClean == Spec => []StartsClean
<1>1. PipesInv /\ StartInv => StartsClean
  BY StartIsClean DEF StartsClean
<1> QED
  BY <1>1, GameRefinesPipes, PipesInvariant, StartInvariant, PTL
-----------------------------------------------------------------------------
(***************************************************************************)
(* The coins.  While the difficulty is left alone the pipes are in a phase *)
(* of its speed; when it is changed they are not loaded or at their start, *)
(* the first phase of every speed.  So events come one at a time, and each *)
(* line that is up has had its flag set accordingly, which makes one more  *)
(* run of the block for another's sake harmless.                           *)
(***************************************************************************)
Steady == collision_on /\ Loaded => UNCHANGED difficulty

AllSpaced == \A speed \in Speeds : Spaced(speed) /\ EventsSpaced(speed)

CoinLevels ==
  \A k \in Pipes :
    /\ pipe[k].new_pipe => coinfl[k]
    /\ CoinTouched(k) => ~coinfl[k]

\* A frame that changes the difficulty from s to t leaves the pipes where t
\* starts from.
LEMMA ChosenAtStart ==
  ASSUME AllSpaced, Control, StartInv, PipesInv, PipesInv',
         NEW s \in Speeds, s = difficulty, EventsInv(s),
         NEW t \in Speeds, t = difficulty',
         NEW key \in Keys, Frame(key), Steady
  PROVE  EventsInv(t)'
<1>1. PipesFrame(Stop, s) /\ Stop \in BOOLEAN
  BY DEF Frame, Stop
<1>2. EventsInv(s)'
  BY <1>1, EventsStep DEF AllSpaced
<1>3. CASE s = t
  BY <1>2, <1>3
<1>4. CASE s # t
  <2>1. ~(collision_on /\ Loaded)
    BY <1>4 DEF Steady
  <2>2. \A k \in Pipes : pipe[k] \in PipeRegisters /\ pipe'[k] = PipeFrame(k, Stop, s)
    BY <1>1 DEF PipesFrame, PipesInv, PipesTypeOK
  <2>3. CASE ~Loaded
    <3>1. \A k \in Pipes : ~pipe[k].flag
      BY <2>3 DEF Loaded, EventsInv, SpacingInv, InPhase
    <3>2. \A k \in Pipes : pipe'[k] = Load(k)
      BY <2>2, <3>1 DEF PipeFrame
    <3>3. \A k \in Pipes : pipe'[k].flag /\ pipe'[k].x = PipeX0[k]
      BY <2>2, <3>2 DEF Load, PipeRegisters
    <3> QED  BY <1>2, <3>3, AtStart DEF EventsInv, SpacingInv, InPhase
  <2>4. CASE Loaded /\ ~collision_on
    <3>1. Stop
      BY <2>4 DEF Stop, Control, CollisionArmed
    <3>2. \A k \in Pipes : pipe'[k] = pipe[k]
      BY <2>2, <2>4, <3>1 DEF PipeFrame, Loaded
    <3>3. \A k \in Pipes : pipe'[k].flag /\ pipe'[k].x = PipeX0[k]
      BY <2>4, <3>2 DEF StartInv, Loaded
    <3> QED  BY <1>2, <3>3, AtStart DEF EventsInv, SpacingInv, InPhase
  <2> QED  BY <2>1, <2>3, <2>4
<1> QED  BY <1>3, <1>4

GameEvents == \E s \in Speeds : s = difficulty /\ EventsInv(s)

LEMMA GameEventsStep ==
  ASSUME AllSpaced, Control, StartInv, PipesInv, PipesInv', GameEvents,
         [Next]_vars, [Steady]_vars
  PROVE  GameEvents'
<1>1. PICK s \in Speeds : s = difficulty /\ EventsInv(s)
  BY DEF GameEvents
<1>2. ASSUME UNCHANGED <<difficulty, pipe>> \/ (UNCHANGED difficulty /\ PipesReset)
      PROVE  GameEvents'
  <2>1. EventsInv(s)'
    BY <1>1, <1>2, EventsStep DEF AllSpaced
  <2> QED  BY <1>1, <1>2, <2>1 DEF GameEvents
<1>3. ASSUME NEW key \in Keys, Frame(key), Steady
      PROVE  GameEvents'
  <2>1. difficulty' \in Speeds
    BY ControlStep DEF Control
  <2>2. PICK t \in Speeds : t = difficulty'
    BY <2>1
  <2>3. EventsInv(t)'
    BY <1>1, <1>3, <2>2, ChosenAtStart
  <2> QED  BY <2>2, <2>3 DEF GameEvents
<1>4. CASE PressReset
  BY <1>2, <1>4 DEF PressReset
<1>5. CASE PressContinue \/ Release
  BY <1>2, <1>5 DEF PressContinue, Release
<1>6. CASE UNCHANGED vars
  BY <1>2, <1>6 DEF vars, control
<1> QED  BY <1>3, <1>4, <1>5, <1>6 DEF Next

\* A coin under the bird is one whose column is in its reach.
TouchedAreNear == \A k \in Pipes : CoinTouched(k) => ~CoinClear(pipe[k].x)

LEMMA TouchIsNear == PipesInv => TouchedAreNear
<1> SUFFICES ASSUME PipesInv, NEW k \in Pipes, CoinTouched(k)
             PROVE  ~CoinClear(pipe[k].x)
  BY DEF TouchedAreNear
<1>1. CoinX(k) \in Int /\ Bird_X_Center \in Int
  BY PipesAssumption, WordAssumption
  DEF PipesInv, PipesTypeOK, PipeRegisters, CoinX, Add, Words
<1> QED  BY <1>1 DEF CoinTouched, WithinTwo, CoinClear, CoinX, Distance

\* With one event at a time the chain of the block reaches each coin's line.
LEMMA OneLine ==
  ASSUME EventsAlone', PipesInv', NEW k \in Pipes
  PROVE  /\ FirstPulse(k) <=> pipe'[k].new_pipe
         /\ FirstTouch(k) <=> CoinTouched(k)'
         /\ ~(pipe'[k].new_pipe /\ CoinTouched(k)')
<1>0. \A i \in Pipes : CoinTouched(i)' => ~CoinClear(pipe'[i].x)
  <2>1. TouchedAreNear'
    BY TouchIsNear, PTL
  <2> QED  BY <2>1 DEF TouchedAreNear
<1>1. \A i, j \in Pipes : pipe'[i].new_pipe => ~CoinTouched(j)'
  BY <1>0 DEF EventsAlone
<1>2. \A i, j \in Pipes : CoinTouched(i)' /\ CoinTouched(j)' => i = j
  BY <1>0 DEF EventsAlone
<1>3. \A i, j \in Pipes : pipe'[i].new_pipe /\ pipe'[j].new_pipe => i = j
  BY DEF EventsAlone
<1>4. k \in Nat
  BY PipesAssumption
<1>5. FirstPulse(k) <=> pipe'[k].new_pipe
  BY <1>3, <1>4 DEF FirstPulse
<1>6. FirstTouch(k) <=> CoinTouched(k)'
  BY <1>1, <1>2, <1>4 DEF FirstTouch
<1> QED  BY <1>1, <1>5, <1>6

PulseRises(k) == pipe'[k].new_pipe /\ ~pipe[k].new_pipe

TouchRises(k) == CoinTouched(k)' /\ ~CoinTouched(k)

CoinStep ==
  coinfl' = [k \in Pipes |-> PulseRises(k) \/ (coinfl[k] /\ ~TouchRises(k))]

\* Whatever set the block off, and whichever flags are latches.
LEMMA CoinsFollow ==
  ASSUME StartInv, CoinLevels, PipesInv', EventsAlone', CoinEvents
  PROVE  CoinStep /\ CoinLevels'
<1>1. ASSUME NEW k \in Pipes
      PROVE  coinfl'[k] <=> PulseRises(k) \/ (coinfl[k] /\ ~TouchRises(k))
  <2>1. coinfl'[k] = IF k \in Latches \/ EventRises
                     THEN FirstPulse(k) \/ (coinfl[k] /\ ~FirstTouch(k))
                     ELSE coinfl[k]
    BY DEF CoinEvents
  <2>2. CASE k \in Latches \/ EventRises
    <3>1. coinfl'[k] <=> pipe'[k].new_pipe \/ (coinfl[k] /\ ~CoinTouched(k)')
      BY <2>1, <2>2, OneLine
    <3>2. ~(pipe'[k].new_pipe /\ CoinTouched(k)')
      BY OneLine
    <3>3. (pipe[k].new_pipe => coinfl[k]) /\ (CoinTouched(k) => ~coinfl[k])
      BY DEF CoinLevels
    <3> QED  BY <3>1, <3>2, <3>3 DEF PulseRises, TouchRises
  <2>3. CASE ~(k \in Latches \/ EventRises)
    <3>1. ~PulseRises(k) /\ ~TouchRises(k)
      BY <2>3 DEF EventRises, PulseRises, TouchRises
    <3> QED  BY <2>1, <2>3, <3>1
  <2> QED  BY <2>2, <2>3
<1>2. coinfl' \in [Pipes -> BOOLEAN]
  BY CoinsStayFlags
<1>3. CoinStep
  <2>1. \A k \in Pipes :
          coinfl'[k] = (PulseRises(k) \/ (coinfl[k] /\ ~TouchRises(k)))
    BY <1>1, <1>2
  <2> QED  BY <1>2, <2>1 DEF CoinStep
<1>4. ASSUME NEW k \in Pipes
      PROVE  /\ pipe'[k].new_pipe => coinfl'[k]
             /\ CoinTouched(k)' => ~coinfl'[k]
  <2>1. ~(pipe'[k].new_pipe /\ CoinTouched(k)')
    BY OneLine
  <2>2. (pipe[k].new_pipe => coinfl[k]) /\ (CoinTouched(k) => ~coinfl[k])
    BY DEF CoinLevels
  <2> QED  BY <1>1, <2>1, <2>2 DEF PulseRises, TouchRises
<1> QED  BY <1>3, <1>4 DEF CoinLevels

CoinInv == GameEvents /\ CoinLevels

LEMMA CoinInvStep ==
  ASSUME AllSpaced, Control, StartInv, PipesInv, PipesInv', CoinInv,
         [Next]_vars, [Steady]_vars
  PROVE  CoinInv' /\ EventsAlone' /\ (CoinStep \/ UNCHANGED vars)
<1>1. GameEvents'
  BY GameEventsStep DEF CoinInv
<1>2. EventsAlone'
  BY <1>1 DEF GameEvents, EventsInv
<1>3. CASE UNCHANGED vars
  <2>1. CoinLevels'
    BY <1>3 DEF CoinInv, CoinLevels, CoinTouched, CoinX, CoinY, vars, birdVars
  <2> QED  BY <1>1, <1>2, <1>3, <2>1 DEF CoinInv
<1>4. CASE Next
  <2>1. CoinEvents
    BY <1>4 DEF Next, PressReset, PressContinue, Release, Frame
  <2>2. CoinStep /\ CoinLevels'
    BY <1>2, <2>1, CoinsFollow DEF CoinInv
  <2> QED  BY <1>1, <1>2, <2>2 DEF CoinInv
<1> QED  BY <1>3, <1>4

LEMMA CoinInvInit ==
  ASSUME AllSpaced, Init, PipesInv
  PROVE  CoinInv
<1>1. difficulty \in Speeds /\ PipesInit /\ coinfl = [k \in Pipes |-> TRUE]
  BY SpeedsAssumption DEF Init
<1>2. GameEvents
  <2>1. PICK s \in Speeds : s = difficulty
    BY <1>1
  <2>2. EventsInv(s)
    BY <1>1, EventsStart DEF AllSpaced
  <2> QED  BY <2>1, <2>2 DEF GameEvents
<1>3. ASSUME NEW k \in Pipes
      PROVE  ~pipe[k].new_pipe /\ ~CoinTouched(k)
  <2>1. ~pipe[k].new_pipe /\ pipe[k].x = 0
    BY <1>1 DEF PipesInit
  <2>2. CoinClear(pipe[k].x)
    BY <1>1, <2>1 DEF AllSpaced, EventsSpaced
  <2> QED  BY <2>1, <2>2, TouchIsNear DEF TouchedAreNear
<1>4. CoinLevels
  BY <1>1, <1>3 DEF CoinLevels
<1> QED  BY <1>2, <1>4 DEF CoinInv

LEMMA CoinInvariant ==
  ASSUME AllSpaced
  PROVE  SteadySpec => []CoinInv
<1>1. Spec => []PipesInv
  BY GameRefinesPipes, PipesInvariant, PTL
<1>2. Init /\ PipesInv => CoinInv
  BY CoinInvInit
<1>3. /\ Control /\ StartInv /\ PipesInv /\ PipesInv' /\ CoinInv
      /\ [Next]_vars /\ [Steady]_vars
      => CoinInv'
  BY CoinInvStep
<1>4. SteadySpec => Spec /\ [][Steady]_vars
  BY DEF SteadySpec, Steady
<1> QED  BY <1>1, <1>2, <1>3, <1>4, ControlInvariant, StartInvariant, PTL DEF Spec

\* The spacing of the start columns holds in a game of any number of rounds,
\* each at the difficulty chosen before it (FlappyFish.sv:154-168, 285-333).
THEOREM GamePipesApart ==
  ASSUME AllSpaced
  PROVE  SteadySpec => []PipesApart
<1>1. CoinInv => PipesApart
  BY PhaseApart DEF CoinInv, GameEvents, EventsInv, AllSpaced
<1> QED  BY <1>1, CoinInvariant, PTL

\* The event block is never asked for two events, in a game of any number of
\* rounds (FlappyFish.sv:170-213).
THEOREM GameEventsAlone ==
  ASSUME AllSpaced
  PROVE  SteadySpec => []EventsAlone
<1>1. CoinInv => EventsAlone
  BY DEF CoinInv, GameEvents, EventsInv
<1> QED  BY <1>1, CoinInvariant, PTL

LEMMA CoinSteps ==
  ASSUME AllSpaced
  PROVE  SteadySpec => [][EventsAlone' /\ PipesInv' /\ CoinStep]_vars
<1>1. Spec => []PipesInv
  BY GameRefinesPipes, PipesInvariant, PTL
<1>2. /\ Control /\ StartInv /\ PipesInv /\ PipesInv' /\ CoinInv
      /\ [Next]_vars /\ [Steady]_vars
      => [EventsAlone' /\ PipesInv' /\ CoinStep]_vars
  BY CoinInvStep
<1>3. SteadySpec => Spec /\ [][Steady]_vars
  BY DEF SteadySpec, Steady
<1> QED
  BY <1>1, <1>2, <1>3, ControlInvariant, StartInvariant, CoinInvariant, PTL DEF Spec

\* One priority chain for eight lines works as a flag of its own for each coin
\* (FlappyFish.sv:170-213).
THEOREM GameRefinesCoins ==
  ASSUME AllSpaced
  PROVE  SteadySpec => CoinSpec
<1>1. ASSUME Init, CoinInv
      PROVE  EachCoin!Init
  <2>1. \A k \in Pipes : pipe[k].new_pipe = FALSE
    BY <1>1 DEF Init, PipesInit
  <2>2. \A k \in Pipes : CoinTouched(k) = FALSE
    BY <1>1 DEF Init, CoinInv, CoinLevels
  <2> QED  BY <1>1, <2>1, <2>2 DEF EachCoin!Init, Init
<1>2. ASSUME [EventsAlone' /\ PipesInv' /\ CoinStep]_vars
      PROVE  [EachCoin!Next]_EachCoin!coinVars
  <2>1. CASE UNCHANGED vars
    <3>1. \A k \in Pipes : CoinTouched(k)' = CoinTouched(k)
      BY <2>1 DEF vars, birdVars, CoinTouched, CoinX, CoinY
    <3> QED  BY <2>1, <3>1 DEF EachCoin!coinVars, vars
  <2>2. CASE PipesInv' /\ CoinStep
    <3>1. [k \in Pipes |-> pipe'[k].new_pipe] \in [Pipes -> BOOLEAN]
      BY <2>2 DEF PipesInv, PipesTypeOK, PipeRegisters
    <3>2. \A k \in Pipes : CoinTouched(k)' \in BOOLEAN
      BY DEF CoinTouched
    <3> QED
      BY <2>2, <3>1, <3>2 DEF CoinStep, PulseRises, TouchRises, EachCoin!Next
  <2> QED  BY <1>2, <2>1, <2>2
<1>3. SteadySpec => Init
  BY DEF SteadySpec, Spec
<1> QED  BY <1>1, <1>2, <1>3, CoinInvariant, CoinSteps, PTL DEF CoinSpec, EachCoin!Spec

\* A coin the bird comes to touch goes in that very step (FlappyFish.sv:193-212).
THEOREM TouchTakesCoin ==
  ASSUME AllSpaced
  PROVE  SteadySpec => CoinTaken
<1> DEFINE Taken == \A k \in Pipes : CoinTouched(k)' /\ ~CoinTouched(k) => ~coinfl'[k]
<1>1. ASSUME EventsAlone', PipesInv', CoinStep
      PROVE  Taken
  <2> SUFFICES ASSUME NEW k \in Pipes, CoinTouched(k)', ~CoinTouched(k)
               PROVE  ~coinfl'[k]
    OBVIOUS
  <2>1. ~pipe'[k].new_pipe
    BY <1>1, OneLine
  <2> QED  BY <1>1, <2>1 DEF CoinStep, PulseRises, TouchRises
<1>2. [EventsAlone' /\ PipesInv' /\ CoinStep]_vars => [Taken]_vars
  BY <1>1
<1> QED  BY <1>2, CoinSteps, PTL DEF CoinTaken
-----------------------------------------------------------------------------
(***************************************************************************)
(* The picture.  Each test point is a pixel of the bird's body, or, above  *)
(* the screen, stands over the one in row 0; and a test of the checker     *)
(* that holds of a pixel holds for the mapper as well.                     *)
(***************************************************************************)
LEMMA Squares ==
  ASSUME NEW d \in Int, NEW r \in Nat
  PROVE  /\ d * d \in Nat
         /\ -r <= d /\ d <= r => d * d <= r * r
         /\ d < -r => d * d > r * r
<1>1. \A a, b \in Nat : a <= b => a * a <= b * b
  <2> SUFFICES ASSUME NEW a \in Nat, NEW b \in Nat, a <= b PROVE a * a <= b * b
    OBVIOUS
  <2>1. PICK c \in Nat : b = a + c
    <3>1. b - a \in Nat /\ b = a + (b - a)
      OBVIOUS
    <3> QED  BY <3>1
  <2>2. b * b = a * a + a * c + c * a + c * c
    BY <2>1
  <2>3. a * c \in Nat /\ c * a \in Nat /\ c * c \in Nat /\ a * a \in Nat
    OBVIOUS
  <2> QED  BY <2>2, <2>3
<1>2. PICK e \in Nat : (e = d \/ e = -d) /\ d * d = e * e
  <2>1. CASE d >= 0
    BY <2>1
  <2>2. CASE d < 0
    <3>1. -d \in Nat /\ d * d = (-d) * (-d)
      BY <2>2
    <3> QED  BY <3>1
  <2> QED  BY <2>1, <2>2
<1>3. d * d \in Nat
  BY <1>2
<1>4. ASSUME -r <= d, d <= r
      PROVE  d * d <= r * r
  <2>1. e <= r
    BY <1>2, <1>4
  <2> QED  BY <1>1, <1>2, <2>1
<1>5. ASSUME d < -r
      PROVE  d * d > r * r
  <2>1. r + 1 <= e /\ r + 1 \in Nat
    BY <1>2, <1>5
  <2>2. (r + 1) * (r + 1) <= d * d
    BY <1>1, <1>2, <2>1
  <2>3. (r + 1) * (r + 1) = r * r + r + r + 1 /\ r * r \in Nat
    OBVIOUS
  <2> QED  BY <1>3, <2>2, <2>3
<1> QED  BY <1>3, <1>4, <1>5

\* The bird's body covers the three test points and the rows between.
LEMMA BodyOn ==
  ASSUME NEW x \in Int, NEW y \in Int, Bird_Y_Pos \in Nat,
         \/ /\ x = Bird_X_Center
            /\ Bird_Y_Pos - Bird_Size <= y /\ y <= Bird_Y_Pos + Bird_Size
         \/ x = Bird_X_Center + Bird_Size /\ y = Bird_Y_Pos
  PROVE  BirdOn(x, y)
<1> USE BirdAssumption, CollisionAssumption
<1>1. Disc(x, y, Bird_X_Center + 0, Bird_Y_Pos + 0, Bird_Size - 0)
  <2> DEFINE dx == x - Bird_X_Center
             dy == y - Bird_Y_Pos
             r == Bird_Size
  <2>1. dx * dx + dy * dy <= r * r
    <3>1. CASE x = Bird_X_Center
      <4>1. dx * dx = 0 /\ dy \in Int /\ -r <= dy /\ dy <= r /\ r \in Nat
        BY <3>1
      <4>2. dy * dy <= r * r /\ dy * dy \in Nat
        BY <4>1, Squares
      <4> QED  BY <4>1, <4>2
    <3>2. CASE x = Bird_X_Center + Bird_Size /\ y = Bird_Y_Pos
      <4>1. dx = r /\ dy = 0 /\ r \in Nat
        BY <3>2
      <4> QED  BY <4>1
    <3> QED  BY <3>1, <3>2
  <2>2. Bird_X_Center + 0 = Bird_X_Center /\ Bird_Y_Pos + 0 = Bird_Y_Pos /\ Bird_Size - 0 = Bird_Size
    OBVIOUS
  <2> QED  BY <2>1, <2>2 DEF Disc
<1>2. <<0, 0, 0>> \in BirdParts
  BY DEF BirdParts
<1> QED  BY <1>1, <1>2 DEF BirdOn

\* In the bird's columns, above the ground, nothing is painted over it.
LEMMA BodyShown ==
  ASSUME NEW x \in Bird_X_Center .. Bird_X_Center + Bird_Size, NEW y \in 0 .. Grass,
         BirdOn(x, y)
  PROVE  Pixel(x, y) = "bird"
<1> USE BirdAssumption, CollisionAssumption, PictureAssumption
<1>1. OnScreen(x, y)
  BY PipesAssumption DEF OnScreen, Words
<1>2. ~Disc(x, y, Marker_X, 10, 3)
  <2>1. x - Marker_X \in Int /\ x - Marker_X < -3 /\ y - 10 \in Int
    OBVIOUS
  <2>2. (x - Marker_X) * (x - Marker_X) > 3 * 3 /\ (y - 10) * (y - 10) \in Nat
        /\ (x - Marker_X) * (x - Marker_X) \in Nat
    BY <2>1, Squares
  <2> QED  BY <2>2 DEF Disc
<1>3. ~(y > Grass)
  OBVIOUS
<1> QED  BY <1>1, <1>2, <1>3 DEF Pixel

\* What the checker finds at a pixel of the screen the mapper draws there.
LEMMA HitIsDrawn ==
  ASSUME NEW p, p.x \in Nat, p.y \in Nat, NEW x \in Nat, NEW y \in Nat, PointHits(x, y, p)
  PROVE  PipeOn(x, y, p)
<1>1. Sub(p.y, Pipe_Gap) \in Int
  BY PipesAssumption, WordAssumption DEF Sub, Words
<1> QED  BY <1>1 DEF PointHits, PipeOn

\* A top point above the screen, wrapped to the end of the word, hits a pipe in
\* its column only, whose upper part reaches row 0.
LEMMA HitAbove ==
  ASSUME NEW p, p.x \in 0 .. X_Start, p.y \in Nat,
         \/ p.x = 0 /\ p.y = 0
         \/ /\ p.y >= Pipe_Gap + Pipe_Rim_Height
            /\ p.y + Pipe_Rim_Height + Bird_Size < Word,
         NEW y \in Word - Bird_Size .. Word - 1,
         PointHits(Bird_X_Center, y, p)
  PROVE  PipeOn(Bird_X_Center, 0, p)
<1> USE WordAssumption, BirdAssumption, PipesAssumption, CollisionAssumption DEF Words, X_Start
<1>1. CASE p.x = 0 /\ p.y = 0
  BY <1>1 DEF PointHits, Add, Sub
<1>2. CASE p.y >= Pipe_Gap + Pipe_Rim_Height /\ p.y + Pipe_Rim_Height + Bird_Size < Word
  <2>1. /\ Sub(p.y, Pipe_Gap) = p.y - Pipe_Gap
        /\ Add(p.y, Pipe_Rim_Height) = p.y + Pipe_Rim_Height
        /\ p.y - Pipe_Gap \in Nat
    BY <1>2 DEF Add, Sub
  <2>2. ~(y <= p.y - Pipe_Gap) /\ ~(y <= p.y + Pipe_Rim_Height)
    BY <1>2
  <2>3. Bird_X_Center >= p.x /\ Bird_X_Center <= Add(p.x, Pipe_Width)
    BY <2>1, <2>2 DEF PointHits
  <2> QED  BY <2>1, <2>3 DEF PipeOn
<1> QED  BY <1>1, <1>2

LEMMA HitSeenHere ==
  ASSUME BirdInv, PipesInv
  PROVE  HitIsSeen
<1> SUFFICES ASSUME NEW k \in Pipes, PipeCollision(pipe[k]), ~WallCollision(Bird_Y_Pos)
             PROVE  \E x \in Around(Bird_X_Center), y \in Around(Bird_Y_Pos) :
                      Pixel(x, y) = "bird" /\ PipeOn(x, y, pipe[k])
  BY DEF HitIsSeen
<1> DEFINE X == Bird_X_Center
           Y == Bird_Y_Pos
           S == Bird_Size
           p == pipe[k]
<1>1. /\ X \in Nat /\ S \in Nat /\ Y \in 0 .. Wall - 1 /\ Y + S <= Grass
      /\ X + S < Word /\ Y + S < Word /\ Word \in Nat /\ Grass \in Nat
  BY WordAssumption, BirdAssumption, CollisionAssumption, PictureAssumption
  DEF BirdInv, BirdTypeOK, Words, WallCollision, Wall
<1>2. /\ p.x \in 0 .. X_Start /\ p.x \in Nat /\ p.y \in Nat
      /\ \/ p.x = 0 /\ p.y = 0
         \/ /\ p.y >= Pipe_Gap + Pipe_Rim_Height
            /\ p.y + Pipe_Rim_Height + S < Word
  BY WordAssumption, BirdAssumption, PipesAssumption, CollisionAssumption
  DEF PipesInv, PipesTypeOK, PipeRegisters, Words, GapRows
<1> HIDE DEF p
<1>3. ASSUME NEW x, NEW y, PipeOn(x, y, p), y \in 0 .. Grass,
             \/ x = X /\ Y - S <= y /\ y <= Y + S
             \/ x = X + S /\ y = Y
      PROVE  \E a \in Around(X), b \in Around(Y) :
               Pixel(a, b) = "bird" /\ PipeOn(a, b, p)
  <2>1. /\ x \in X .. X + S /\ x \in Int /\ y \in Int /\ Y \in Nat
        /\ x \in Around(X) /\ y \in Around(Y)
    BY <1>1, <1>3 DEF Around
  <2>2. BirdOn(x, y)
    BY <1>3, <2>1, BodyOn
  <2>3. Pixel(x, y) = "bird"
    BY <1>3, <2>1, <2>2, BodyShown
  <2> QED  BY <1>3, <2>1, <2>3
<1>4. CASE PointHits(X, Sub(Y, S), p)
  <2>1. CASE Y >= S
    <3>1. Sub(Y, S) = Y - S /\ Y - S \in Nat /\ Y - S \in 0 .. Grass
      BY <1>1, <2>1 DEF Sub
    <3>2. PipeOn(X, Y - S, p)
      BY <1>1, <1>2, <1>4, <3>1, HitIsDrawn
    <3> QED  BY <1>1, <1>3, <3>1, <3>2 DEF p
  <2>2. CASE Y < S
    <3>1. Sub(Y, S) \in Word - S .. Word - 1
      BY <1>1, <2>2 DEF Sub
    <3>2. PipeOn(X, 0, p)
      BY <1>2, <1>4, <3>1, HitAbove
    <3> QED  BY <1>1, <1>3, <2>2, <3>2 DEF p
  <2> QED  BY <1>1, <2>1, <2>2
<1>5. CASE PointHits(Add(X, S), Y, p)
  <2>1. Add(X, S) = X + S /\ X + S \in Nat /\ Y \in Nat /\ Y \in 0 .. Grass
    BY <1>1 DEF Add
  <2>2. PipeOn(X + S, Y, p)
    BY <1>2, <1>5, <2>1, HitIsDrawn
  <2> QED  BY <1>1, <1>3, <2>1, <2>2 DEF p
<1>6. CASE PointHits(X, Add(Y, S), p)
  <2>1. Add(Y, S) = Y + S /\ Y + S \in Nat /\ Y + S \in 0 .. Grass
    BY <1>1 DEF Add
  <2>2. PipeOn(X, Y + S, p)
    BY <1>1, <1>2, <1>6, <2>1, HitIsDrawn
  <2> QED  BY <1>1, <1>3, <2>1, <2>2 DEF p
<1> QED  BY <1>4, <1>5, <1>6 DEF PipeCollision, p

\* Whoever loses to a pipe sees the bird on it, whatever the sizes and wherever
\* on the screen (Collision_Checker.sv:60-188, Color_Mapper.sv:142-282).
THEOREM HitAlwaysSeen == Spec => []HitIsSeen
  BY GameRefinesBird, GameRefinesPipes, BirdInvariant, PipesInvariant,
     HitSeenHere, PTL
=============================================================================
