------------------------------- MODULE Pipes --------------------------------
(***************************************************************************)
(* The four pipe instances of FlappyFish.sv:285-333 (module pipe.sv) and   *)
(* the coins that ride on them (coin.sv).  All four are clocked by the     *)
(* same frame clock, reset by the same button, stopped by the same signal  *)
(* and given the same speed, so one frame moves them together.  The row a  *)
(* pipe takes when it returns is its own counter, read as a pseudo-random  *)
(* number.                                                                 *)
(***************************************************************************)
EXTENDS Words

CONSTANTS
  Pipes,            \* 1..4
  PipeX0, PipeY0,   \* FlappyFish.sv:290-327   position loaded after a reset
  pipe_num,         \* FlappyFish.sv:294-330   counter step: 3, 7, 11, 13
  Speeds,           \* 1..3, the values of the difficulty register
  Pipe_X_Min,       \* pipe.sv:14    6
  Pipe_X_Max,       \* pipe.sv:15    639
  Pipe_Width,       \* pipe.sv:13    25
  Pipe_Gap,         \* coin.sv:8     80
  Y_Range,          \* pipe.sv:47    360
  Y_Offset,         \* pipe.sv:47    100
  Bird_X_Center,    \* bird.sv:8     190, the column the bird keeps
  Min_Apart         \* the spacing PipesApart asks for; no register holds it

\* The column a returning pipe starts from.
X_Start == Pipe_X_Max - Pipe_Width

\* No speed can carry a pipe from a legal column past column 0.
ASSUME PipesAssumption ==
  /\ Pipes \subseteq Nat
  /\ Pipe_X_Max \in Words /\ Pipe_Width \in Nat /\ Pipe_X_Min \in Nat
  /\ Pipe_Gap \in Words /\ Min_Apart \in Nat /\ Bird_X_Center \in Nat
  /\ X_Start \in Pipe_X_Min .. Word - 1
  /\ Speeds \subseteq 1 .. Pipe_X_Min
  /\ Y_Range \in Nat \ {0} /\ Y_Offset \in Nat
  /\ Y_Offset + Y_Range <= Word
  /\ PipeX0 \in [Pipes -> 0 .. X_Start]
  /\ PipeY0 \in [Pipes -> Words]
  /\ pipe_num \in [Pipes -> Words]

VARIABLE pipe       \* each instance's registers

\* Pipe_X_Pos, Pipe_Y_Pos, Counter, flag (start position loaded), new_pipe
PipeRegisters ==
  [x : Words, y : Words, counter : Words, flag : BOOLEAN, new_pipe : BOOLEAN]

PipesTypeOK == pipe \in [Pipes -> PipeRegisters]

PipesInit ==
  pipe = [k \in Pipes |-> [x |-> 0, y |-> 0, counter |-> 0,
                           flag |-> FALSE, new_pipe |-> FALSE]]

\* Mutant: a reset leaves the pipes where they are.
PipesResetForgotten == UNCHANGED pipe

\* Reset only asks for the start position: position, counter and the
\* new_pipe pulse stay as they are until the next frames.
PipesReset == pipe' = [k \in Pipes |-> [pipe[k] EXCEPT !.flag = FALSE]]

Load(k) ==
  [pipe[k] EXCEPT !.x = PipeX0[k], !.y = PipeY0[k], !.flag = TRUE]

\* Mutant: the row of a returning pipe without its offset.
MovedNoOffset(k, speed) ==
  LET p    == pipe[k]
      gone == p.x < Pipe_X_Min
  IN  [p EXCEPT !.x = IF gone THEN X_Start ELSE Sub(p.x, speed),
                !.y = IF gone THEN p.counter % Y_Range ELSE p.y,
                !.new_pipe = gone,
                !.counter = Add(p.counter, pipe_num[k])]

\* Mutant: the new_pipe pulse is never taken down.
MovedPulseKept(k, speed) ==
  LET p    == pipe[k]
      gone == p.x < Pipe_X_Min
  IN  [p EXCEPT !.x = IF gone THEN X_Start ELSE Sub(p.x, speed),
                !.y = IF gone THEN (p.counter % Y_Range) + Y_Offset ELSE p.y,
                !.new_pipe = gone \/ p.new_pipe,
                !.counter = Add(p.counter, pipe_num[k])]

\* Mutant: a pipe returns from column 0 only.
MovedFromZero(k, speed) ==
  LET p    == pipe[k]
      gone == p.x = 0
  IN  [p EXCEPT !.x = IF gone THEN X_Start ELSE Sub(p.x, speed),
                !.y = IF gone THEN (p.counter % Y_Range) + Y_Offset ELSE p.y,
                !.new_pipe = gone,
                !.counter = Add(p.counter, pipe_num[k])]

Moved(k, speed) ==
  LET p    == pipe[k]
      gone == p.x < Pipe_X_Min
  IN  [p EXCEPT !.x = IF gone THEN X_Start ELSE Sub(p.x, speed),
                !.y = IF gone THEN (p.counter % Y_Range) + Y_Offset ELSE p.y,
                !.new_pipe = gone,
                !.counter = Add(p.counter, pipe_num[k])]

\* Mutant: the second instance is not wired to the stop signal.
PipeFrameUnstopped(k, stop, speed) ==
  IF ~pipe[k].flag THEN Load(k)
  ELSE IF stop /\ k # 2 THEN pipe[k]
  ELSE Moved(k, speed)

\* A pipe that has not loaded its start position does so even when stopped.
PipeFrame(k, stop, speed) ==
  IF ~pipe[k].flag THEN Load(k)
  ELSE IF stop THEN pipe[k]
  ELSE Moved(k, speed)

PipesFrame(stop, speed) ==
  pipe' = [k \in Pipes |-> PipeFrame(k, stop, speed)]

\* The coin hangs in the middle of its pipe's gap.  Both edges of coin.sv:11
\* do the same thing, which leaves the build no clock to register it with: it
\* follows its pipe combinationally.
CoinX(k) == Add(pipe[k].x, Pipe_Width \div 2)
CoinY(k) == Sub(pipe[k].y, Pipe_Gap \div 2)

PipesNext ==
  \/ PipesReset
  \/ \E stop \in BOOLEAN, speed \in Speeds : PipesFrame(stop, speed)

PipesSpec == PipesInit /\ [][PipesNext]_pipe
-----------------------------------------------------------------------------
(***************************************************************************)
(* Properties                                                              *)
(***************************************************************************)
GapRows == Y_Offset .. Y_Offset + Y_Range - 1

\* Where a pipe can be: never right of the column it returns at, with its gap
\* edge at the start row or in the generated band, or still at the power-up
\* position and about to load its start (pipe.sv:26-50).
PipesInv ==
  /\ PipesTypeOK
  /\ \A k \in Pipes :
       /\ pipe[k].x <= X_Start
       /\ \/ pipe[k].y \in {PipeY0[k]} \cup GapRows
          \/ ~pipe[k].flag /\ pipe[k].x = 0 /\ pipe[k].y = 0

\* A pipe moves left, returns at the right edge or is put back to its start:
\* the 10-bit subtraction of pipe.sv:41 never wraps past column 0.
MovesLeft ==
  [][ \A k \in Pipes :
        pipe'[k].x > pipe[k].x =>
          \/ pipe[k].x < Pipe_X_Min /\ pipe'[k].x = X_Start
          \/ ~pipe[k].flag /\ pipe'[k].x = PipeX0[k] ]_pipe

Distance(a, b) == IF a >= b THEN a - b ELSE b - a

(***************************************************************************)
(* The spacing of the pipes at one speed, from where they start: frames    *)
(* until a pipe is back at the right edge, from its start and from there,  *)
(* and the distance of two pipes that are both on their first lap, of one  *)
(* that has returned before the other, and of two that have returned, on   *)
(* the same lap and on successive ones.                                    *)
(***************************************************************************)
Lap(speed) == (X_Start - Pipe_X_Min) \div speed + 2

FirstLap(k, speed) ==
  IF PipeX0[k] < Pipe_X_Min THEN 1 ELSE (PipeX0[k] - Pipe_X_Min) \div speed + 2

Spaced(speed) ==
  \A i, j \in Pipes :
    /\ i # j => Distance(PipeX0[i], PipeX0[j]) >= Min_Apart
    /\ i # j => FirstLap(i, speed) # FirstLap(j, speed)
    /\ FirstLap(j, speed) < FirstLap(i, speed) =>
         /\ X_Start - PipeX0[i] + speed * FirstLap(j, speed) >= Min_Apart
         /\ speed * (FirstLap(i, speed) - FirstLap(j, speed)) >= Min_Apart
         /\ speed * (Lap(speed) + FirstLap(j, speed) - FirstLap(i, speed)) >= Min_Apart

\* The column of pipe k after T frames at one speed; from the second lap on it
\* repeats.
At(k, T, speed) ==
  LET f == FirstLap(k, speed)
      L == Lap(speed)
  IN  IF T < f THEN PipeX0[k] - speed * T
      ELSE IF T - f < L THEN X_Start - speed * (T - f)
      ELSE X_Start - speed * (T - f - L)

\* With its pipe at column x a coin is out of the bird's reach.
CoinClear(x) == Distance(Add(x, Pipe_Width \div 2), Bird_X_Center) > 2

\* Where the start columns must put the coins for their events to stay apart:
\* no two within the bird's reach, none there before the pipes move, and none
\* whenever a pipe returns.
EventsSpaced(speed) ==
  /\ Min_Apart > 4
  /\ CoinClear(0)
  /\ \A k \in Pipes : CoinClear(PipeX0[k])
  /\ \A k, j \in Pipes :
       \A T \in {FirstLap(k, speed), FirstLap(k, speed) + Lap(speed)} :
         CoinClear(At(j, T, speed))

OneSpeed(speed) ==
  PipesInit /\ [][PipesReset \/ \E stop \in BOOLEAN : PipesFrame(stop, speed)]_pipe

\* No two pipes come closer than Min_Apart columns: the four instances, which
\* know nothing of each other, keep the spacing of their start positions
\* through every lap (pipe.sv:41-46).
PipesApart ==
  \A i, j \in Pipes :
    i # j /\ pipe[i].flag /\ pipe[j].flag =>
      Distance(pipe[i].x, pipe[j].x) >= Min_Apart

\* While a pipe's new_pipe pulse is up no other pulse is, and no coin is where
\* the bird could touch it; and never are two coins.  The event block of
\* FlappyFish.sv:170-213 handles one event per trigger and depends on this.
EventsAlone ==
  \A j, k \in Pipes :
    /\ pipe[k].new_pipe => CoinClear(pipe[j].x)
    /\ j # k =>
         /\ ~(pipe[j].new_pipe /\ pipe[k].new_pipe)
         /\ CoinClear(pipe[j].x) \/ CoinClear(pipe[k].x)
=============================================================================
