------------------------------- MODULE MCPipes ------------------------------
(***************************************************************************)
(* The four pipes at the size of the sources.  OneDifficulty is the game   *)
(* in which the player picks a difficulty before the pipes start and keeps *)
(* it; PipesSpec lets every frame run at another one.                      *)
(***************************************************************************)
EXTENDS Pipes

VARIABLE difficulty

\* FlappyFish.sv:286-333
RealPipes == 1 .. 4
RealX0 == <<0, 152, 304, 456>>
RealY0 == <<100, 200, 300, 200>>
RealNum == <<3, 7, 11, 13>>

\* What the proofs of the spacing and the events ask of the start positions.
ASSUME SpacingAssumption ==
  \A speed \in Speeds : Spaced(speed) /\ EventsSpaced(speed)

FixedInit == PipesInit /\ difficulty \in Speeds

FixedNext ==
  /\ PipesReset \/ \E stop \in BOOLEAN : PipesFrame(stop, difficulty)
  /\ UNCHANGED difficulty

OneDifficulty == FixedInit /\ [][FixedNext]_<<pipe, difficulty>>

=============================================================================
