---------------------------- MODULE MCFlappyFish ----------------------------
(***************************************************************************)
(* The game on a screen of 65 rows and 35 columns with two pipes: every    *)
(* register, test and event of the sources, on words of 7 bits.            *)
(***************************************************************************)
EXTENDS Color_Mapper

TwoPipes == 1 .. 2
SmallX0 == <<0, 17>>
SmallY0 == <<36, 40>>
SmallNum == <<64, 64>>

\* The sources' own numbers, for the first MaxFrames moving frames of a game
\* whose difficulty is chosen before it starts and whose player does not pause
\* and steers at most once a gravity period.  The first pipe's counter tells
\* how many frames have moved: it steps by 3 and never resets.
MaxFrames == 48
RealPipes == 1 .. 4
RealX0 == <<0, 152, 304, 456>>
RealY0 == <<100, 200, 300, 200>>
RealNum == <<3, 7, 11, 13>>

\* What the proofs of the events ask of the start positions.
ASSUME EventsAssumption ==
  \A speed \in Speeds : Spaced(speed) /\ EventsSpaced(speed)

RealNext ==
  \/ PressReset
  \/ game_off /\ PressContinue
  \/ Release
  \/ \E key \in Keys :
       /\ pipe[1].counter < 3 * MaxFrames
       /\ key \in {"1", "2", "3"} => ~collision_on
       /\ key \in {"W", "S"} => Counter = 0
       /\ Frame(key)

RealSpec == Init /\ [][RealNext]_vars
=============================================================================
