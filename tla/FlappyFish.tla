----------------------------- MODULE FlappyFish -----------------------------
(***************************************************************************)
(* The game hardware put together as in FlappyFish.sv: two buttons, the    *)
(* frame clock, the game state, the bird, the pipes with their coins, the  *)
(* collision checker and the block that keeps the coins' visibility.       *)
(*                                                                         *)
(* The keycode register is written by the firmware at any time; what       *)
(* matters is its value at a frame's clock edge, so each frame takes one.  *)
(* num_coins and num_pipes are left out: nothing reads them.               *)
(***************************************************************************)
EXTENDS Collision_Checker

CONSTANT
  Latches   \* pipes whose coin flag the build makes a transparent latch:
            \* 1..3 in the build, none when the block is simulated as written

ASSUME LatchesAssumption == Latches \subseteq Pipes

\* Every keycode that chooses a difficulty chooses one of the Speeds.
ASSUME SpeedsAssumption ==
  /\ 1 \in Speeds
  /\ "1" \in Keys => 1 \in Speeds
  /\ "2" \in Keys => 2 \in Speeds
  /\ "3" \in Keys => 3 \in Speeds

\* No start column is over the bird (FlappyFish.sv:290-327).
ASSUME StartAssumption ==
  \A k \in Pipes :
    \/ PipeX0[k] + Pipe_Width + Pipe_Rim_Width < Bird_X_Center
    \/ PipeX0[k] > Bird_X_Center + Bird_Size + Pipe_Rim_Width

VARIABLES
  Reset_h, Continue_h,    \* KEY[0] and KEY[1] held down
  game_off, collision_on,
  difficulty,
  coinfl                  \* coin k is on the screen

control == <<Reset_h, Continue_h, game_off, collision_on, difficulty>>
vars == <<birdVars, pipe, control, coinfl>>

TypeOK ==
  /\ BirdTypeOK
  /\ PipesTypeOK
  /\ Reset_h \in BOOLEAN /\ Continue_h \in BOOLEAN
  /\ game_off \in BOOLEAN /\ collision_on \in BOOLEAN
  /\ difficulty \in Speeds
  /\ coinfl \in [Pipes -> BOOLEAN]

\* FlappyFish.sv:62-78 and the power-up values of the rest.
Init ==
  /\ BirdInit
  /\ PipesInit
  /\ Reset_h = FALSE /\ Continue_h = FALSE
  /\ game_off = TRUE /\ collision_on = FALSE
  /\ difficulty = 1
  /\ coinfl = [k \in Pipes |-> TRUE]

\* Mutant: a collision stops nothing.
StopUnchecked == game_off

\* Mutant: `||` for `&&`.
StopWhenArmed == game_off \/ Collision \/ collision_on

\* Mutant: the wall test is left out of the stop signal.
StopNoWall ==
  game_off \/ (collision_on /\ \E k \in Pipes : PipeCollision(pipe[k]))

\* bird_stop, pipe_stop
Stop == game_off \/ (Collision /\ collision_on)

-----------------------------------------------------------------------------
(***************************************************************************)
(* The event block, FlappyFish.sv:170-213: sensitive to the rise of any    *)
(* new_pipe pulse or coin touch, it then acts on the first line, in a      *)
(* fixed order, that is high.  In the build the order survives but three   *)
(* flags became latches, which follow the lines without waiting for a      *)
(* rise.  It runs after every step, on what the step changed.              *)
(***************************************************************************)
EventRises ==
  \E k \in Pipes : \/ pipe'[k].new_pipe /\ ~pipe[k].new_pipe
                   \/ CoinTouched(k)' /\ ~CoinTouched(k)

FirstPulse(k) ==
  /\ pipe'[k].new_pipe
  /\ \A j \in Pipes : pipe'[j].new_pipe => j >= k

FirstTouch(k) ==
  /\ \A j \in Pipes : ~pipe'[j].new_pipe
  /\ CoinTouched(k)'
  /\ \A j \in Pipes : CoinTouched(j)' => j >= k

\* Mutant: a pulse does not bring the coin back.
CoinEventsTakeOnly ==
  coinfl' = [k \in Pipes |->
               IF k \in Latches \/ EventRises
               THEN coinfl[k] /\ ~FirstTouch(k)
               ELSE coinfl[k]]

CoinEvents ==
  coinfl' = [k \in Pipes |->
               IF k \in Latches \/ EventRises
               THEN FirstPulse(k) \/ (coinfl[k] /\ ~FirstTouch(k))
               ELSE coinfl[k]]

\* Mutant: Reset switches the collision test off and the game not.
ButtonEdgeHalfReset ==
  IF Reset_h'
  THEN collision_on' = FALSE /\ UNCHANGED game_off
  ELSE game_off' = ~game_off /\ collision_on' = TRUE

\* FlappyFish.sv:137-152, both edges of the sensitivity list.
ButtonEdge ==
  IF Reset_h'
  THEN game_off' = TRUE /\ collision_on' = FALSE
  ELSE game_off' = ~game_off /\ collision_on' = TRUE

PressReset ==
  /\ ~Reset_h
  /\ Reset_h' = TRUE
  /\ ButtonEdge
  /\ BirdReset /\ PipesReset
  /\ CoinEvents
  /\ UNCHANGED <<Continue_h, difficulty>>

PressContinue ==
  /\ ~Continue_h
  /\ Continue_h' = TRUE
  /\ UNCHANGED <<Reset_h, difficulty, birdVars, pipe>>
  /\ ButtonEdge
  /\ CoinEvents

Release ==
  /\ \/ Reset_h /\ Reset_h' = FALSE /\ UNCHANGED Continue_h
     \/ Continue_h /\ Continue_h' = FALSE /\ UNCHANGED Reset_h
  /\ UNCHANGED <<game_off, collision_on, difficulty, birdVars, pipe>>
  /\ CoinEvents

\* FlappyFish.sv:154-168
ChosenDifficulty(key) ==
  CASE key = "1" -> 1 [] key = "2" -> 2 [] key = "3" -> 3
    [] OTHER -> difficulty

\* One rising edge of the vertical sync.  The same Reset that clears the game
\* holds the sync low (VGA_controller.sv:98-109), so there is none while the
\* button is down, and one as soon as it is let go.
Frame(key) ==
  /\ ~Reset_h
  /\ BirdFrame(key, Stop)
  /\ PipesFrame(Stop, difficulty)
  /\ difficulty' = ChosenDifficulty(key)
  /\ CoinEvents
  /\ UNCHANGED <<Reset_h, Continue_h, game_off, collision_on>>

Next ==
  \/ PressReset
  \/ PressContinue
  \/ Release
  \/ \E key \in Keys : Frame(key)

Spec == Init /\ [][Next]_vars

\* The vertical sync stops for nothing but Reset; the buttons owe nobody
\* anything.
FairSpec == Spec /\ WF_vars(\E key \in Keys : Frame(key))
-----------------------------------------------------------------------------
(***************************************************************************)
(* Properties                                                              *)
(***************************************************************************)
Loaded == \A k \in Pipes : pipe[k].flag

\* Nothing moves with the collision test switched off: whichever buttons are
\* pressed in whichever order, a running game has collision_on set
\* (FlappyFish.sv:137-152).
CollisionArmed == ~game_off => collision_on

\* After a reset has been let go and the pipes have gone back to their start,
\* the game is not already lost, so Continue starts it (FlappyFish.sv:286-333,
\* pipe.sv:23-34).
StartsClean == ~collision_on /\ Loaded => ~Collision

\* A lost game stands still until Reset, whatever is done with Continue and
\* the keyboard (FlappyFish.sv:277).
LostGameFrozen ==
  [][ Collision /\ Loaded /\ ~Reset_h' => UNCHANGED <<Bird_Y_Pos, pipe>> ]_vars

\* A coin the bird touches is taken off the screen at once: neither the other
\* coins nor a pulse come before it in the chain of FlappyFish.sv:170-213.
CoinTaken ==
  [][ \A k \in Pipes :
        CoinTouched(k)' /\ ~CoinTouched(k) => ~coinfl'[k] ]_vars

\* The one event block with its priorities, edge-triggered or half turned into
\* latches, works as a flag for each coin that knows nothing of the others
\* (FlappyFish.sv:170-213).
EachCoin ==
  INSTANCE Coins WITH returned <- [k \in Pipes |-> pipe[k].new_pipe],
                      touched <- [k \in Pipes |-> CoinTouched(k)],
                      shown <- coinfl

CoinSpec == EachCoin!Spec

\* A player who leaves the difficulty alone once the game is under way.
SteadySpec ==
  Spec /\ [][collision_on /\ Loaded => UNCHANGED difficulty]_vars

\* A game that is left running by a player who no longer flaps is lost.
GameEnds ==
  (<>[](~game_off) /\ <>[][~Flap]_vars) => <>[]Collision
=============================================================================
