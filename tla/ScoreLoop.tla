----------------------------- MODULE ScoreLoop ------------------------------
(***************************************************************************)
(* The score keeping of FlappyBird2/main.c.  Once around its loop the      *)
(* program looks at the two buttons, polls the keyboard, hands the keycode *)
(* to the game hardware, counts and shows the score.  The buttons are also *)
(* wired to the hardware (FlappyFish.sv:137-152), which acts on their      *)
(* edges at once; the loop sees a level whenever it comes around, and a    *)
(* poll may take so long that it misses a press.  The session is one with  *)
(* a keyboard: a mouse, which the program lets write to the same digits,   *)
(* and LED 9, which tells that a device runs, are left out.                *)
(***************************************************************************)
EXTENDS Naturals

CONSTANTS
  Keycodes,     \* first keycodes of a report other than 0, no key
  MaxScore,     \* bound on the score; from 128 on a signed char shows it
  Hundred       \* 100, what two digits cannot show

ASSUME ScoreAssumption ==
  /\ 0 \notin Keycodes
  /\ MaxScore \in 1 .. 127
  /\ Hundred \in Nat \ {0}

\* Reports without a key that make one point.
Reports == 5

VARIABLES
  KEY0, KEY1,       \* buttons held down: Reset, Continue
  game_off,         \* the hardware's state
  pc,
  RESET_WAIT, CONT_WAIT,
  stop_count, count, display_count, cur_max,
  keycode,          \* the register the hardware reads
  HEX,              \* HEX_DIGITS_PIO: two digits of the high score, two of the score
  LED               \* LEDS_PIO: the low bits, and the hundreds segments of either score

keys == <<KEY0, KEY1, game_off>>
score == <<stop_count, count, display_count, cur_max>>
shown == <<keycode, HEX, LED>>
vars == <<keys, pc, RESET_WAIT, CONT_WAIT, score, shown>>

Digits == 0 .. Hundred - 1

ScoreTypeOK ==
  /\ KEY0 \in BOOLEAN /\ KEY1 \in BOOLEAN /\ game_off \in BOOLEAN
  /\ pc \in {"reset", "cont", "poll", "max", "cur", "led"}
  /\ RESET_WAIT \in BOOLEAN /\ CONT_WAIT \in BOOLEAN /\ stop_count \in BOOLEAN
  /\ count \in 0 .. Reports - 1
  /\ display_count \in 0 .. MaxScore /\ cur_max \in 0 .. MaxScore
  /\ keycode \in Keycodes \cup {0}
  /\ HEX \in [max : Digits, cur : Digits]
  /\ LED \in [low : 0 .. MaxScore, hundreds : SUBSET {"max", "cur"}]

Init ==
  /\ KEY0 = FALSE /\ KEY1 = FALSE /\ game_off = TRUE
  /\ pc = "reset" /\ RESET_WAIT = TRUE /\ CONT_WAIT = TRUE
  /\ stop_count = TRUE /\ count = 0 /\ display_count = 0 /\ cur_max = 0
  /\ keycode = 0
  /\ HEX = [max |-> 0, cur |-> 0]
  /\ LED = [low |-> 0, hundreds |-> {}]
-----------------------------------------------------------------------------
\* The player, and what the hardware makes of each edge.
PressReset ==
  /\ ~KEY0 /\ KEY0' = TRUE
  /\ game_off' = TRUE
  /\ UNCHANGED <<KEY1, pc, RESET_WAIT, CONT_WAIT, score, shown>>

PressContinue ==
  /\ ~KEY1 /\ KEY1' = TRUE
  /\ game_off' = (KEY0 \/ ~game_off)
  /\ UNCHANGED <<KEY0, pc, RESET_WAIT, CONT_WAIT, score, shown>>

Release ==
  /\ \/ KEY0 /\ KEY0' = FALSE /\ UNCHANGED KEY1
     \/ KEY1 /\ KEY1' = FALSE /\ UNCHANGED KEY0
  /\ UNCHANGED <<game_off, pc, RESET_WAIT, CONT_WAIT, score, shown>>
-----------------------------------------------------------------------------
\* Mutant: the score is cleared before it is compared with the high score.
ResetLogicClearsFirst ==
  /\ pc = "reset" /\ pc' = "cont"
  /\ \/ /\ KEY0 /\ RESET_WAIT
        /\ UNCHANGED cur_max
        /\ count' = 0 /\ display_count' = 0
        /\ RESET_WAIT' = FALSE
     \/ /\ KEY0 # RESET_WAIT
        /\ UNCHANGED <<cur_max, count, display_count, RESET_WAIT>>
     \/ /\ ~KEY0 /\ ~RESET_WAIT
        /\ RESET_WAIT' = TRUE
        /\ UNCHANGED <<cur_max, count, display_count>>
  /\ UNCHANGED <<keys, CONT_WAIT, stop_count, shown>>

\* Mutant: the last score becomes the high score, the best one or not.
ResetLogicKeepsLast ==
  /\ pc = "reset" /\ pc' = "cont"
  /\ \/ /\ KEY0 /\ RESET_WAIT
        /\ cur_max' = display_count
        /\ count' = 0 /\ display_count' = 0
        /\ RESET_WAIT' = FALSE
     \/ /\ KEY0 # RESET_WAIT
        /\ UNCHANGED <<cur_max, count, display_count, RESET_WAIT>>
     \/ /\ ~KEY0 /\ ~RESET_WAIT
        /\ RESET_WAIT' = TRUE
        /\ UNCHANGED <<cur_max, count, display_count>>
  /\ UNCHANGED <<keys, CONT_WAIT, stop_count, shown>>

\* main.c:163-171.  Each condition reads the button anew, but RESET_WAIT lets
\* only one of the two readings matter.
ResetLogic ==
  /\ pc = "reset" /\ pc' = "cont"
  /\ \/ /\ KEY0 /\ RESET_WAIT
        /\ cur_max' = IF cur_max < display_count THEN display_count ELSE cur_max
        /\ count' = 0 /\ display_count' = 0
        /\ RESET_WAIT' = FALSE
     \/ /\ KEY0 # RESET_WAIT
        /\ UNCHANGED <<cur_max, count, display_count, RESET_WAIT>>
     \/ /\ ~KEY0 /\ ~RESET_WAIT
        /\ RESET_WAIT' = TRUE
        /\ UNCHANGED <<cur_max, count, display_count>>
  /\ UNCHANGED <<keys, CONT_WAIT, stop_count, shown>>

\* Mutant: the level of the button, not its edge.
ContLogicLevel ==
  /\ pc = "cont" /\ pc' = "poll"
  /\ IF KEY1 THEN stop_count' = ~stop_count ELSE UNCHANGED stop_count
  /\ CONT_WAIT' = ~KEY1
  /\ UNCHANGED <<keys, RESET_WAIT, count, display_count, cur_max, shown>>

\* main.c:172-178
ContLogic ==
  /\ pc = "cont" /\ pc' = "poll"
  /\ IF KEY1 /\ CONT_WAIT THEN stop_count' = ~stop_count ELSE UNCHANGED stop_count
  /\ CONT_WAIT' = ~KEY1
  /\ UNCHANGED <<keys, RESET_WAIT, count, display_count, cur_max, shown>>

\* No report: NAK, an error, or a device that is not running yet or any more.
NoReport ==
  /\ pc = "poll" /\ pc' = "reset"
  /\ UNCHANGED <<keys, RESET_WAIT, CONT_WAIT, score, shown>>

Counting(code) == ~stop_count /\ code = 0

\* Mutant: the sixth report makes the point.
ReportLatePoint(code) ==
  /\ pc = "poll" /\ pc' = "max"
  /\ keycode' = code
  /\ IF Counting(code)
     THEN IF count = Reports
          THEN /\ display_count < MaxScore
               /\ display_count' = display_count + 1 /\ count' = 0
          ELSE count' = count + 1 /\ UNCHANGED display_count
     ELSE UNCHANGED <<count, display_count>>
  /\ UNCHANGED <<keys, RESET_WAIT, CONT_WAIT, stop_count, cur_max, HEX, LED>>

\* Mutant: the digits are written when a point is made, the LEDs always.
ReportDigitsOnPoint(code) ==
  /\ pc = "poll"
  /\ keycode' = code
  /\ IF Counting(code)
     THEN IF count + 1 = Reports
          THEN /\ display_count < MaxScore
               /\ display_count' = display_count + 1 /\ count' = 0
          ELSE count' = count + 1 /\ UNCHANGED display_count
     ELSE UNCHANGED <<count, display_count>>
  /\ pc' = IF display_count' # display_count THEN "max" ELSE "led"
  /\ UNCHANGED <<keys, RESET_WAIT, CONT_WAIT, stop_count, cur_max, HEX, LED>>

\* main.c:195-209: a report is handed on and counted, and the two scores are
\* then shown, one call after the other.
Report(code) ==
  /\ pc = "poll" /\ pc' = "max"
  /\ keycode' = code
  /\ IF Counting(code)
     THEN IF count + 1 = Reports
          THEN /\ display_count < MaxScore
               /\ display_count' = display_count + 1 /\ count' = 0
          ELSE count' = count + 1 /\ UNCHANGED display_count
     ELSE UNCHANGED <<count, display_count>>
  /\ UNCHANGED <<keys, RESET_WAIT, CONT_WAIT, stop_count, cur_max, HEX, LED>>

\* printSignedHex0 and printSignedHex1, up to 127: a segment of the LED
\* register is switched on or off for the hundreds, the digits show the rest.
PrintSignedHex(field, value) ==
  /\ LED' = [LED EXCEPT !.hundreds =
                IF value >= Hundred THEN @ \cup {field} ELSE @ \ {field}]
  /\ HEX' = [HEX EXCEPT ![field] = value % Hundred]

ShowMax ==
  /\ pc = "max" /\ pc' = "cur"
  /\ PrintSignedHex("max", cur_max)
  /\ UNCHANGED <<keys, RESET_WAIT, CONT_WAIT, score, keycode>>

ShowScore ==
  /\ pc = "cur" /\ pc' = "led"
  /\ PrintSignedHex("cur", display_count)
  /\ UNCHANGED <<keys, RESET_WAIT, CONT_WAIT, score, keycode>>

\* main.c:212 writes the score to the whole register, segments included.
ShowLeds ==
  /\ pc = "led" /\ pc' = "reset"
  /\ LED' = [low |-> display_count, hundreds |-> {}]
  /\ UNCHANGED <<keys, RESET_WAIT, CONT_WAIT, score, keycode, HEX>>

Next ==
  \/ PressReset \/ PressContinue \/ Release
  \/ ResetLogic \/ ContLogic \/ NoReport
  \/ \E code \in Keycodes \cup {0} : Report(code)
  \/ ShowMax \/ ShowScore \/ ShowLeds

Spec == Init /\ [][Next]_vars
-----------------------------------------------------------------------------
(***************************************************************************)
(* Properties                                                              *)
(***************************************************************************)
\* A score that is cleared has gone into the high score, and the high score
\* never drops (main.c:163-168).
HighScoreKept ==
  [][ /\ cur_max' >= cur_max
      /\ display_count' < display_count => cur_max' >= display_count ]_vars

\* Once a report is dealt with, digits and LEDs show the same score, although
\* they are written by calls of their own, to registers that share bits; the
\* hundreds the digits lack, set by one call, have been put out by the last
\* (main.c:94-97, 121-125, 210-212).
DisplaysAgree ==
  pc \in {"reset", "cont", "poll"} =>
    HEX.cur = LED.low % Hundred /\ LED.hundreds = {}

\* No score the player has been shown is lost, in the middle of the writes or
\* after a Reset: it is the score, or no more than the high score, and what was
\* shown for that never is (main.c:163-168, 210-212).
ShownIsKept ==
  /\ HEX.max <= cur_max
  /\ HEX.cur <= cur_max \/ HEX.cur <= display_count
  /\ LED.low <= cur_max \/ LED.low <= display_count

\* The counting is stopped exactly when the game is, but for a press of
\* Continue the loop has yet to see (main.c:172-178, FlappyFish.sv:137-152).
InStep == stop_count = (game_off # (KEY1 /\ CONT_WAIT))

\* Both are toggled by Continue, each on its own.  What sets them apart, or
\* together again, is Reset in a running game, which the program does not stop
\* counting for, Continue while Reset is held, and a press or a release of
\* Continue that was over before the loop came around; never a step of the loop.
PartedByPlayer ==
  [][ InStep' # InStep =>
        \/ ~KEY0 /\ KEY0' /\ ~game_off
        \/ ~KEY1 /\ KEY1' /\ (KEY0 \/ ~CONT_WAIT)
        \/ KEY1 /\ ~KEY1' /\ CONT_WAIT ]_vars

\* A player who lets the loop see each press and each release of Continue,
\* pauses the game before Reset, and takes the finger off Reset before Continue.
Careful ==
  /\ ~KEY0 /\ KEY0' => game_off
  /\ ~KEY1 /\ KEY1' => ~KEY0 /\ CONT_WAIT
  /\ KEY1 /\ ~KEY1' => ~CONT_WAIT

CarefulSpec == Init /\ [][Next /\ Careful]_vars
=============================================================================
