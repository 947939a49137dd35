-------------------------- MODULE ScoreLoopProofs ---------------------------
(***************************************************************************)
(* Proofs about ScoreLoop for every set of keycodes, every bound on the    *)
(* score up to the 127 a signed char shows, and, but for CarefulInStep,    *)
(* every player.                                                           *)
(***************************************************************************)
EXTENDS ScoreLoop, TLAPS

\* What two digits show of a score is no more than the score.
LEMMA TwoDigits ==
  ASSUME NEW v \in 0 .. MaxScore
  PROVE  v % Hundred \in Digits /\ v % Hundred <= v
BY ScoreAssumption DEF Digits

LEMMA TypeKept == ScoreTypeOK /\ [Next]_vars => ScoreTypeOK'
<1>. SUFFICES ASSUME ScoreTypeOK, [Next]_vars PROVE ScoreTypeOK'
  OBVIOUS
<1>. USE ScoreAssumption DEF ScoreTypeOK, Reports
<1>1. CASE PressReset
  BY <1>1 DEF PressReset, score, shown
<1>2. CASE PressContinue
  BY <1>2 DEF PressContinue, score, shown
<1>3. CASE Release
  BY <1>3 DEF Release, score, shown
<1>4. CASE ResetLogic
  <2>1. /\ count' \in 0 .. Reports - 1
        /\ display_count' \in 0 .. MaxScore /\ cur_max' \in 0 .. MaxScore
    BY <1>4 DEF ResetLogic
  <2>2. RESET_WAIT' \in BOOLEAN /\ pc' = "cont" /\ UNCHANGED <<keys, CONT_WAIT, stop_count, shown>>
    BY <1>4 DEF ResetLogic
  <2>. QED BY <2>1, <2>2 DEF keys, shown
<1>5. CASE ContLogic
  BY <1>5 DEF ContLogic, keys, shown
<1>6. CASE NoReport
  BY <1>6 DEF NoReport, keys, score, shown
<1>7. CASE \E code \in Keycodes \cup {0} : Report(code)
  <2>1. PICK code \in Keycodes \cup {0} : Report(code)
    BY <1>7
  <2>2. count' \in 0 .. Reports - 1 /\ display_count' \in 0 .. MaxScore
    BY <2>1 DEF Report
  <2>. QED BY <2>1, <2>2 DEF Report, keys
<1>8. CASE ShowMax \/ ShowScore \/ ShowLeds
  <2>1. cur_max % Hundred \in Digits /\ display_count % Hundred \in Digits
    BY TwoDigits
  <2>2. HEX' \in [max : Digits, cur : Digits]
    BY <1>8, <2>1 DEF ShowMax, ShowScore, ShowLeds, PrintSignedHex
  <2>3. LED' \in [low : 0 .. MaxScore, hundreds : SUBSET {"max", "cur"}]
    BY <1>8 DEF ShowMax, ShowScore, ShowLeds, PrintSignedHex
  <2>. QED BY <1>8, <2>2, <2>3 DEF ShowMax, ShowScore, ShowLeds, keys, score
<1>9. CASE UNCHANGED vars
  BY <1>9 DEF vars, keys, score, shown
<1>. QED BY <1>1, <1>2, <1>3, <1>4, <1>5, <1>6, <1>7, <1>8, <1>9 DEF Next

\* The registers of the loop stay in their ranges: counting up to a point and
\* the remainders by a hundred never leave them (main.c:72-126, 203-212).
THEOREM ScoreTypes == Spec => []ScoreTypeOK
<1>1. Init => ScoreTypeOK
  <2>1. 0 \in Digits /\ 0 \in 0 .. MaxScore /\ 0 \in 0 .. Reports - 1
    BY ScoreAssumption DEF Digits, Reports
  <2>2. [max |-> 0, cur |-> 0] \in [max : Digits, cur : Digits]
    BY <2>1
  <2>3. [low |-> 0, hundreds |-> {}] \in [low : 0 .. MaxScore, hundreds : SUBSET {"max", "cur"}]
    BY <2>1
  <2>. QED BY <2>1, <2>2, <2>3, Zenon DEF Init, ScoreTypeOK
<1>. QED BY <1>1, TypeKept, PTL DEF Spec

\* Between the last two calls the digits are ahead of the LEDs.
ShowingInv ==
  DisplaysAgree /\ (pc = "led" => HEX.cur = display_count % Hundred)

\* The score does not move while it is being shown, so the three calls that
\* show it agree in the end, presses in between or not (main.c:210-212).
THEOREM DisplaysAlwaysAgree == Spec => []DisplaysAgree
<1>1. Init => ShowingInv
  BY ScoreAssumption DEF Init, ShowingInv, DisplaysAgree
<1>2. ScoreTypeOK /\ ShowingInv /\ [Next]_vars => ShowingInv'
  <2>. SUFFICES ASSUME ScoreTypeOK, ShowingInv, [Next]_vars PROVE ShowingInv'
    OBVIOUS
  <2>. USE DEF ShowingInv, DisplaysAgree
  <2>1. CASE ShowScore
    <3>1. HEX'.cur = display_count % Hundred /\ UNCHANGED display_count /\ pc' = "led"
      BY <2>1 DEF ShowScore, PrintSignedHex, score, ScoreTypeOK
    <3>. QED BY <3>1
  <2>2. CASE ShowLeds
    BY <2>2 DEF ShowLeds
  <2>3. CASE \E code \in Keycodes \cup {0} : Report(code)
    BY <2>3 DEF Report
  <2>4. CASE ShowMax
    BY <2>4 DEF ShowMax
  <2>5. CASE ResetLogic \/ ContLogic \/ NoReport
    BY <2>5 DEF ResetLogic, ContLogic, NoReport, shown
  <2>6. CASE UNCHANGED <<pc, score, shown>>
    BY <2>6 DEF score, shown
  <2>. QED BY <2>1, <2>2, <2>3, <2>4, <2>5, <2>6
         DEF Next, vars, PressReset, PressContinue, Release
<1>3. ShowingInv => DisplaysAgree
  BY DEF ShowingInv
<1>. QED BY <1>1, <1>2, <1>3, ScoreTypes, PTL DEF Spec

\* Whatever is on the displays, half written or out of date after a Reset, is
\* still in the score or the high score (main.c:163-168, 210-212).
THEOREM ShownAlwaysKept == Spec => []ShownIsKept
<1>1. Init => ShownIsKept
  BY DEF Init, ShownIsKept
<1>2. ScoreTypeOK /\ ShownIsKept /\ [Next]_vars => ShownIsKept'
  <2>. SUFFICES ASSUME ScoreTypeOK, ShownIsKept, [Next]_vars PROVE ShownIsKept'
    OBVIOUS
  <2>0. /\ HEX.max \in Nat /\ HEX.cur \in Nat /\ LED.low \in Nat
        /\ cur_max \in Nat /\ display_count \in Nat
        /\ cur_max % Hundred <= cur_max /\ display_count % Hundred <= display_count
    BY TwoDigits, ScoreAssumption DEF ScoreTypeOK, Digits
  <2>1. CASE ShowMax
    <3>1. HEX'.max = cur_max % Hundred /\ HEX'.cur = HEX.cur /\ LED'.low = LED.low
      BY <2>1 DEF ShowMax, PrintSignedHex, ScoreTypeOK
    <3>. QED BY <2>0, <2>1, <3>1 DEF ShowMax, score, ShownIsKept
  <2>2. CASE ShowScore
    <3>1. HEX'.cur = display_count % Hundred /\ HEX'.max = HEX.max /\ LED'.low = LED.low
      BY <2>2 DEF ShowScore, PrintSignedHex, ScoreTypeOK
    <3>. QED BY <2>0, <2>2, <3>1 DEF ShowScore, score, ShownIsKept
  <2>3. CASE ShowLeds
    BY <2>0, <2>3 DEF ShowLeds, score, ShownIsKept
  <2>4. CASE ResetLogic
    BY <2>0, <2>4 DEF ResetLogic, shown, ShownIsKept
  <2>5. CASE \E code \in Keycodes \cup {0} : Report(code)
    <3>1. display_count' \in Nat /\ display_count <= display_count'
      BY <2>0, <2>5 DEF Report
    <3>. QED BY <2>0, <2>5, <3>1 DEF Report, ShownIsKept
  <2>6. CASE UNCHANGED <<display_count, cur_max, HEX, LED>>
    BY <2>6 DEF ShownIsKept
  <2>. QED BY <2>1, <2>2, <2>3, <2>4, <2>5, <2>6
         DEF Next, vars, score, shown, PressReset, PressContinue, Release, ContLogic, NoReport
<1>. QED BY <1>1, <1>2, ScoreTypes, PTL DEF Spec

\* No press, however timed, loses a score on its way into the high score
\* (main.c:163-168).
THEOREM NoScoreLost == Spec => HighScoreKept
<1>1. ScoreTypeOK /\ [Next]_vars =>
        [ /\ cur_max' >= cur_max
          /\ display_count' < display_count => cur_max' >= display_count ]_vars
  <2>. SUFFICES ASSUME ScoreTypeOK, [Next]_vars
                PROVE  /\ cur_max' >= cur_max
                       /\ display_count' < display_count => cur_max' >= display_count
    OBVIOUS
  <2>. USE DEF ScoreTypeOK
  <2>1. CASE ResetLogic
    BY <2>1, ScoreAssumption DEF ResetLogic
  <2>2. CASE \E code \in Keycodes \cup {0} : Report(code)
    BY <2>2, ScoreAssumption DEF Report
  <2>3. CASE UNCHANGED <<cur_max, display_count>>
    BY <2>3, ScoreAssumption
  <2>. QED BY <2>1, <2>2, <2>3
         DEF Next, vars, score, PressReset, PressContinue, Release, ContLogic, NoReport,
             ShowMax, ShowScore, ShowLeds
<1>. QED BY <1>1, ScoreTypes, PTL DEF Spec, HighScoreKept

\* A step of the loop keeps counting and game as they are to each other.
Presses ==
  \/ ~KEY0 /\ KEY0' /\ ~game_off
  \/ ~KEY1 /\ KEY1' /\ (KEY0 \/ ~CONT_WAIT)
  \/ KEY1 /\ ~KEY1' /\ CONT_WAIT

LEMMA PartedInNext ==
  ASSUME ScoreTypeOK, [Next]_vars
  PROVE  InStep' = InStep \/ Presses
<1>. USE DEF InStep, Presses, ScoreTypeOK
<1>1. CASE PressReset
  <2>1. KEY0' /\ ~KEY0 /\ game_off' = TRUE /\ UNCHANGED <<KEY1, CONT_WAIT, stop_count>>
    BY <1>1 DEF PressReset, score
  <2>. QED BY <2>1
<1>2. CASE PressContinue
  <2>1. /\ KEY1' /\ ~KEY1 /\ game_off' = (KEY0 \/ ~game_off)
        /\ UNCHANGED <<KEY0, CONT_WAIT, stop_count>>
    BY <1>2 DEF PressContinue, score
  <2>. QED BY <2>1
<1>3. CASE Release
  <2>1. UNCHANGED <<CONT_WAIT, stop_count, game_off>>
    BY <1>3 DEF Release, score
  <2>2. KEY1' = KEY1 \/ (KEY1 /\ ~KEY1')
    BY <1>3 DEF Release
  <2>. QED BY <2>1, <2>2
<1>4. CASE ContLogic
  BY <1>4 DEF ContLogic, keys
<1>5. CASE UNCHANGED <<keys, CONT_WAIT, stop_count>>
  BY <1>5 DEF keys
<1>. QED BY <1>1, <1>2, <1>3, <1>4, <1>5
       DEF Next, vars, score, ResetLogic, NoReport, Report, ShowMax, ShowScore, ShowLeds

\* Counting and game are set apart by Reset in a running game, by Continue under
\* Reset, and by what the loop is too slow to see, and by nothing else
\* (main.c:163-178, FlappyFish.sv:137-152).
THEOREM PartedOnlyByPlayer == Spec => PartedByPlayer
<1>1. ScoreTypeOK /\ [Next]_vars => [InStep' # InStep => Presses]_vars
  BY PartedInNext
<1>. QED BY <1>1, ScoreTypes, PTL DEF Spec, PartedByPlayer, Presses

\* So they go on and off together for a player who pauses before Reset, lets go
\* of it before Continue, and gives the loop the time to see each press.
THEOREM CarefulInStep == CarefulSpec => []InStep
<1>1. Init => InStep
  BY DEF Init, InStep
<1>2. ScoreTypeOK /\ InStep /\ [Next /\ Careful]_vars => InStep'
  <2>. SUFFICES ASSUME ScoreTypeOK, InStep, [Next /\ Careful]_vars PROVE InStep'
    OBVIOUS
  <2>1. CASE Next /\ Careful
    BY <2>1, PartedInNext DEF Careful, Presses
  <2>2. CASE UNCHANGED vars
    BY <2>2 DEF vars, keys, score, InStep
  <2>. QED BY <2>1, <2>2
<1>3. CarefulSpec => Spec
  BY PTL DEF CarefulSpec, Spec
<1>. QED BY <1>1, <1>2, <1>3, ScoreTypes, PTL DEF CarefulSpec
=============================================================================
