--------------------------- MODULE VGA_controller ---------------------------
(***************************************************************************)
(* The picture's timing, VGA_controller.sv: a divider makes the pixel      *)
(* clock, two counters walk over the frame, two registers hold the sync    *)
(* pulses.  The vertical sync is also the clock of the bird and the pipes  *)
(* (FlappyFish.sv:262-333), and Reset is an asynchronous input of both.    *)
(***************************************************************************)
EXTENDS Integers

CONSTANTS
  hpixels, vlines,        \* :47-48    799, 524: last pixel, last line
  H_Display, V_Display,   \* :112      640, 480
  H_Sync_On, H_Sync_Off,  \* :90       656, 752
  V_Sync                  \* :105      490: the pulse is 2 lines long

\* Both pulses lie between the picture and the end of the line or frame.
ASSUME VgaAssumption ==
  /\ hpixels \in Nat /\ vlines \in Nat
  /\ H_Display \in Nat \ {0} /\ H_Sync_On \in Nat /\ H_Sync_Off \in Nat
  /\ V_Display \in Nat \ {0} /\ V_Sync \in Nat
  /\ H_Display <= H_Sync_On /\ H_Sync_On < H_Sync_Off /\ H_Sync_Off <= hpixels + 1
  /\ V_Display < V_Sync /\ V_Sync < vlines

VARIABLES
  Reset,            \* KEY[0] is pressed
  clkdiv,           \* the 25 MHz pixel clock
  hc, vc,           \* pixel and line: DrawX and DrawY
  hs, vs            \* the sync pulses, active low

vars == <<Reset, clkdiv, hc, vc, hs, vs>>

\* The registers have no initial value: they power up at 0, as in a reset.
Init ==
  /\ Reset = FALSE
  /\ clkdiv = 0 /\ hc = 0 /\ vc = 0 /\ hs = 0 /\ vs = 0

PressReset ==
  /\ ~Reset /\ Reset' = TRUE
  /\ clkdiv' = 0 /\ hc' = 0 /\ vc' = 0 /\ hs' = 0 /\ vs' = 0

ReleaseReset == Reset /\ Reset' = FALSE /\ UNCHANGED <<clkdiv, hc, vc, hs, vs>>

\* Mutant: a frame of one line less.
CounterShort ==
  /\ hc' = IF hc = hpixels THEN 0 ELSE hc + 1
  /\ vc' = IF hc # hpixels THEN vc ELSE IF vc >= vlines - 1 THEN 0 ELSE vc + 1

\* Mutant: the line counter saturates.
CounterStuck ==
  /\ hc' = IF hc = hpixels THEN 0 ELSE hc + 1
  /\ vc' = IF hc = hpixels /\ vc < vlines THEN vc + 1 ELSE vc

\* counter_proc
Counter ==
  /\ hc' = IF hc = hpixels THEN 0 ELSE hc + 1
  /\ vc' = IF hc # hpixels THEN vc ELSE IF vc = vlines THEN 0 ELSE vc + 1

\* Mutant: the horizontal pulse taken from the pixel that is ending.
HSyncLate == hs' = IF hc \in H_Sync_On .. H_Sync_Off THEN 0 ELSE 1

\* Mutant: the lower bound of the pulse dropped.
HSyncOpen == hs' = IF hc + 1 < H_Sync_Off THEN 0 ELSE 1

\* Registered, but looking one pixel ahead: in step with hc.
HSync == hs' = IF hc + 1 \in H_Sync_On .. H_Sync_Off - 1 THEN 0 ELSE 1

\* Mutant: the pulse lasts until the counter wraps.
VSyncToEnd == vs' = IF vc + 1 >= V_Sync THEN 0 ELSE 1

\* Registered, looking one line ahead: from pixel 1 of the line before V_Sync
\* to pixel 0 of the line after it.
VSync == vs' = IF vc + 1 \in {V_Sync, V_Sync + 1} THEN 0 ELSE 1

\* A rising edge of the 50 MHz clock; every second one is a pixel.
Clk ==
  /\ ~Reset
  /\ clkdiv' = 1 - clkdiv
  /\ IF clkdiv = 0 THEN Counter /\ HSync /\ VSync ELSE UNCHANGED <<hc, vc, hs, vs>>
  /\ UNCHANGED Reset

\* blank, active low; Color_Mapper.sv draws while it is high
display == hc < H_Display /\ vc < V_Display

Next == PressReset \/ ReleaseReset \/ Clk

Spec == Init /\ [][Next]_vars

\* The board's oscillator runs; nothing is asked of the button.
FairSpec == Spec /\ WF_vars(Clk)
-----------------------------------------------------------------------------
(***************************************************************************)
(* Properties                                                              *)
(***************************************************************************)
\* No pixel since the last reset.
Fresh == hs = 0 /\ vs = 0 /\ hc = 0 /\ vc = 0

\* The horizontal pulse is in step with its counter and the vertical pulse
\* one pixel behind its own, except while a reset is being undone.
VgaInv ==
  /\ Reset \in BOOLEAN /\ clkdiv \in {0, 1}
  /\ hc \in 0 .. hpixels /\ vc \in 0 .. vlines /\ hs \in {0, 1} /\ vs \in {0, 1}
  /\ Reset => Fresh
  /\ Fresh \/ (hs = 0 <=> hc \in H_Sync_On .. H_Sync_Off - 1)
  /\ Fresh \/ (vs = 0 <=> \/ vc = V_Sync - 1 /\ hc >= 1
                          \/ vc = V_Sync
                          \/ vc = V_Sync + 1 /\ hc = 0)

\* No sync pulse is given while the picture is drawn (:110-118 against
\* :82-109), but for the one pixel after a reset.
SyncOffPicture == display /\ ~Fresh => hs = 1 /\ vs = 1

Rise == vs = 0 /\ vs' = 1

\* The bird and the pipes move on the rise of the vertical sync, and never in
\* the middle of a picture: no frame shows the top of one position and the
\* bottom of the next.  Only the rise that ends a reset is inside the picture.
NoTearing == [][Rise /\ ~Fresh => ~display']_vars

Line == hpixels + 1

\* The pixel and the line of the sync's rise, and how far away it is.
RiseAt == (V_Sync + 1) * Line + 1
Now == vc * Line + hc
Left ==
  IF Fresh THEN 0
  ELSE IF Now < RiseAt THEN RiseAt - Now
  ELSE RiseAt + (vlines + 1) * Line - Now

\* To the rest of the hardware this is a clock of one rise a frame.
Frames == INSTANCE FrameClock WITH
  Period <- (vlines + 1) * Line, First <- (V_Sync + 1) * Line, Low <- 2 * Line,
  held <- Reset, left <- Left

FrameClockSpec == Frames!Spec

\* The vertical sync goes on rising for as long as Reset is let go: what the
\* game's fairness takes for granted (FlappyFish.sv:262-333).
FramesKeepComing == <>[](~Reset) => []<><<Rise>>_vars
=============================================================================
