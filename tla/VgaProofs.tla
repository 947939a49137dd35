------------------------------ MODULE VgaProofs ------------------------------
(***************************************************************************)
(* The properties of VGA_controller.tla for every size of frame.  VgaInv   *)
(* is inductive.  For the refinement the position in the frame, a product, *)
(* is shown to step by one and to tell the lines of the sync apart; the    *)
(* rest is linear.                                                         *)
(***************************************************************************)
EXTENDS VGA_controller, TLAPS

USE VgaAssumption

\* The registers stay in range and the pulses stay in step with them.
THEOREM VgaInvariant == Spec => []VgaInv
<1>1. Init => VgaInv
  <2> SUFFICES ASSUME Init PROVE VgaInv
    OBVIOUS
  <2>1. hc \in 0 .. hpixels /\ vc \in 0 .. vlines
    BY DEF Init
  <2>2. Reset \in BOOLEAN /\ clkdiv \in {0, 1} /\ hs \in {0, 1} /\ vs \in {0, 1} /\ Fresh
    BY ZenonT(20) DEF Init, Fresh
  <2> QED BY ONLY <2>1, <2>2, Zenon DEF VgaInv
<1>2. VgaInv /\ [Next]_vars => VgaInv'
  <2> SUFFICES ASSUME VgaInv, [Next]_vars PROVE VgaInv'
    OBVIOUS
  <2> USE DEF VgaInv, Fresh
  <2>1. CASE PressReset
    BY <2>1 DEF PressReset
  <2>2. CASE ReleaseReset
    BY <2>2 DEF ReleaseReset
  <2>3. CASE Clk /\ clkdiv = 0
    BY <2>3 DEF Clk, Counter, HSync, VSync
  <2>4. CASE Clk /\ clkdiv = 1
    BY <2>4 DEF Clk
  <2>5. CASE UNCHANGED vars
    BY <2>5 DEF vars
  <2> QED BY <2>1, <2>2, <2>3, <2>4, <2>5 DEF Next
<1> QED BY <1>1, <1>2, PTL DEF Spec

\* No sync pulse is given while the picture is drawn.
THEOREM PulsesOffPicture == Spec => []SyncOffPicture
<1>1. VgaInv => SyncOffPicture
  BY DEF VgaInv, SyncOffPicture, display
<1> QED BY <1>1, VgaInvariant, PTL

\* The game's clock does not rise in the middle of a picture.
THEOREM PictureWhole == Spec => NoTearing
<1>1. VgaInv /\ VgaInv' /\ [Next]_vars => [Rise /\ ~Fresh => ~display']_vars
  <2> SUFFICES ASSUME VgaInv, VgaInv', [Next]_vars, Rise, ~Fresh PROVE ~display'
    OBVIOUS
  <2>1. Clk /\ clkdiv = 0
    BY DEF Next, vars, PressReset, ReleaseReset, Clk, Rise, VgaInv
  <2>2. vc' >= V_Sync
    BY <2>1 DEF Clk, Counter, HSync, VSync, Rise, VgaInv
  <2> QED BY <2>2 DEF display, VgaInv
<1> QED BY <1>1, VgaInvariant, PTL DEF Spec, NoTearing
-----------------------------------------------------------------------------
LEMMA Distribute ==
  ASSUME NEW a \in Int, NEW b \in Int
  PROVE  (a + 1) * b = a * b + b
OBVIOUS

LEMMA Monotone ==
  ASSUME NEW a \in Nat, NEW b \in Nat, NEW c \in Nat, a <= b
  PROVE  a * c <= b * c
OBVIOUS

\* The last pixels before a rise, as a distance and as a stretch of the frame.
LEMMA WaitIsLow ==
  ASSUME NEW rise \in Nat, NEW now \in Nat, NEW low \in Nat, NEW frame \in Nat,
         now < frame, rise < frame, 2 * low < rise
  PROVE  (IF now < rise THEN rise - now ELSE rise + frame - now) <= 2 * low
           <=> rise - 2 * low <= now /\ now < rise
OBVIOUS

\* The position in the frame goes up by one a pixel and starts again.
LEMMA NowSteps ==
  ASSUME VgaInv, Counter
  PROVE  /\ Now \in Nat /\ Now' \in Nat
         /\ \/ Now' = Now + 1
            \/ Now = (vlines + 1) * Line - 1 /\ Now' = 0
<1> USE DEF VgaInv, Counter, Line, Now
<1>1. CASE hc # hpixels
  BY <1>1
<1>2. CASE hc = hpixels /\ vc # vlines
  <2>1. vc' * Line = vc * Line + Line
    BY <1>2, Distribute
  <2> QED BY <1>2, <2>1
<1>3. CASE hc = hpixels /\ vc = vlines
  <2>1. (vlines + 1) * Line = vlines * Line + Line
    BY Distribute
  <2>2. Now' = 0
    BY <1>3
  <2> QED BY <1>3, <2>1, <2>2
<1> QED BY <1>1, <1>2, <1>3

\* The lines of the vertical pulse in terms of the position.
LEMMA PulseInFrame ==
  ASSUME NEW v \in 0 .. vlines, NEW h \in 0 .. hpixels
  PROVE  /\ (\/ v = V_Sync - 1 /\ h >= 1
             \/ v = V_Sync
             \/ v = V_Sync + 1 /\ h = 0)
           <=> RiseAt - 2 * Line <= v * Line + h /\ v * Line + h < RiseAt
         /\ v * Line + h \in Nat
         /\ v * Line + h < (vlines + 1) * Line
         /\ RiseAt \in Nat /\ RiseAt < (vlines + 1) * Line
         /\ Line \in Nat /\ (V_Sync + 1) * Line > 2 * Line
         /\ (V_Sync + 1) * Line \in Nat /\ (vlines + 1) * Line \in Nat
<1> USE DEF Line, RiseAt
<1> DEFINE P == V_Sync * Line
<1>1. P \in Nat /\ (V_Sync + 1) * Line = P + Line /\ (V_Sync - 1) * Line = P - Line
  BY Distribute
<1>2. v * Line \in Nat
  OBVIOUS
<1>9. (V_Sync + 2) * Line = P + Line + Line
  BY <1>1, Distribute
<1>3. CASE v < V_Sync - 1
  <2>1. (v + 1) * Line <= (V_Sync - 1) * Line
    BY <1>3, Monotone
  <2>2. v * Line + Line <= P - Line
    BY <2>1, <1>1, Distribute
  <2> QED BY <1>1, <1>2, <1>3, <2>2
<1>4. CASE v \in {V_Sync - 1, V_Sync, V_Sync + 1}
  BY <1>1, <1>2, <1>4
<1>5. CASE v > V_Sync + 1
  <2>1. (V_Sync + 2) * Line <= v * Line
    BY <1>5, Monotone
  <2> QED BY <1>1, <1>2, <1>5, <1>9, <2>1
<1>6. v * Line + h < (vlines + 1) * Line
  <2>1. v * Line <= vlines * Line
    BY Monotone
  <2> QED BY <2>1, <1>2, Distribute
<1>7. RiseAt \in Nat /\ RiseAt < (vlines + 1) * Line /\ (vlines + 1) * Line \in Nat
  <2>1. (V_Sync + 2) * Line <= (vlines + 1) * Line
    BY Monotone
  <2> QED BY <1>1, <1>9, <2>1
<1>8. (V_Sync + 1) * Line > 2 * Line /\ Line \in Nat
  <2>1. 3 * Line <= (V_Sync + 1) * Line
    BY Monotone
  <2> QED BY <2>1
<1> QED BY <1>1, <1>2, <1>3, <1>4, <1>5, <1>6, <1>7, <1>8
-----------------------------------------------------------------------------
\* To the rest of the hardware the vertical sync is a clock: one rise a frame,
\* none during a reset, one on the first pixel after it.
THEOREM FramesRefineClock == Spec => FrameClockSpec
<1>1. Init => Frames!Init
  BY DEF Init, Frames!Init, Left, Fresh
<1>2. VgaInv /\ VgaInv' /\ [Next]_vars => [Frames!Next]_Frames!clock
  <2> SUFFICES ASSUME VgaInv, VgaInv', [Next]_vars
               PROVE  Frames!Next \/ UNCHANGED Frames!clock
    OBVIOUS
  <2>1. CASE PressReset
    <3>1. Fresh' /\ vs' = 0 /\ Left' = 0
      BY <2>1 DEF PressReset, Fresh, Left
    <3> QED BY <2>1, <3>1 DEF PressReset, Frames!Press, Frames!Next
  <2>2. CASE ReleaseReset
    <3>1. Left' = Left
      BY <2>2 DEF ReleaseReset, Left, Fresh, Now
    <3> QED BY <2>2, <3>1 DEF ReleaseReset, Frames!LetGo, Frames!Next
  <2>3. CASE Clk /\ clkdiv = 0
    <3>1. Counter /\ HSync /\ VSync /\ ~Reset /\ Reset' = Reset
      BY <2>3 DEF Clk
    <3>2. ~Fresh'
      BY <3>1 DEF Counter, HSync, Fresh, VgaInv
    <3>3. /\ vc \in 0 .. vlines /\ hc \in 0 .. hpixels
          /\ vc' \in 0 .. vlines /\ hc' \in 0 .. hpixels /\ vs' \in {0, 1}
          /\ Now = vc * Line + hc /\ Now' = vc' * Line + hc'
          /\ vs' = 0 <=> \/ vc' = V_Sync - 1 /\ hc' >= 1
                         \/ vc' = V_Sync
                         \/ vc' = V_Sync + 1 /\ hc' = 0
      BY <3>2 DEF VgaInv, Now
    <3>4. vs' = 0 <=> RiseAt - 2 * Line <= Now' /\ Now' < RiseAt
      BY <3>3, PulseInFrame
    <3>5. /\ Now \in Nat /\ Now < (vlines + 1) * Line /\ Line \in Nat /\ Line > 0
          /\ Now' \in Nat /\ Now' < (vlines + 1) * Line
          /\ RiseAt \in Nat /\ RiseAt < (vlines + 1) * Line
          /\ (vlines + 1) * Line \in Nat
          /\ (V_Sync + 1) * Line > 2 * Line /\ (V_Sync + 1) * Line = RiseAt - 1
      <4>1. /\ vc * Line + hc \in Nat /\ vc * Line + hc < (vlines + 1) * Line
            /\ vc' * Line + hc' \in Nat /\ vc' * Line + hc' < (vlines + 1) * Line
        BY <3>3, PulseInFrame
      <4>2. /\ RiseAt \in Nat /\ RiseAt < (vlines + 1) * Line
            /\ Line \in Nat /\ (vlines + 1) * Line \in Nat
            /\ (V_Sync + 1) * Line > 2 * Line /\ (V_Sync + 1) * Line \in Nat
        BY <3>3, PulseInFrame
      <4>3. RiseAt = (V_Sync + 1) * Line + 1
        BY DEF RiseAt
      <4>4. Line > 0
        BY DEF Line
      <4> HIDE DEF Line, RiseAt, Now
      <4>5. (V_Sync + 1) * Line = RiseAt - 1
        BY <4>2, <4>3
      <4> QED BY <3>3, <4>1, <4>2, <4>4, <4>5
    <3> DEFINE F == (vlines + 1) * Line  G == (V_Sync + 1) * Line
    <3>6. Left' = IF Now' < RiseAt THEN RiseAt - Now' ELSE RiseAt + F - Now'
      BY <3>2 DEF Left, RiseAt, Line
    <3>7. vs' = IF Left' <= 2 * Line THEN 0 ELSE 1
      <4> HIDE DEF F, Line, RiseAt, Now, Left
      <4>1. vs' \in {0, 1} /\ F \in Nat /\ Now' < F /\ RiseAt < F
        BY <3>3, <3>5 DEF F
      <4>2. 2 * Line < RiseAt /\ Line \in Nat /\ RiseAt \in Nat /\ Now' \in Nat
        BY <3>5
      <4>3. Left' <= 2 * Line <=> RiseAt - 2 * Line <= Now' /\ Now' < RiseAt
        BY <3>6, <4>1, <4>2, WaitIsLow
      <4> QED BY ONLY <3>4, <4>1, <4>3
    <3>8. Left' = (IF Left = 0 THEN G ELSE IF Left = 1 THEN F ELSE Left - 1)
      <4>1. CASE Fresh
        <5>1. Now' = 1 /\ Left = 0
          BY <4>1, <3>1 DEF Counter, Fresh, Now, Line, Left
        <5> HIDE DEF F, G, Now, RiseAt, Line, Left
        <5>2. Left' = RiseAt - 1 /\ G = RiseAt - 1
          BY <5>1, <3>5, <3>6 DEF G
        <5> QED BY <5>1, <5>2
      <4>2. CASE ~Fresh
        <5>1. Left = IF Now < RiseAt THEN RiseAt - Now ELSE RiseAt + F - Now
          BY <4>2 DEF Left
        <5>2. \/ Now' = Now + 1
              \/ Now = F - 1 /\ Now' = 0
          BY <3>1, NowSteps
        <5> HIDE DEF F, G, Now, RiseAt, Line, Left
        <5>3. F \in Nat /\ Now < F /\ RiseAt < F
          BY <3>5 DEF F
        <5> QED BY <5>1, <5>2, <5>3, <3>5, <3>6
      <4> QED BY <4>1, <4>2
    <3> QED BY <3>1, <3>7, <3>8 DEF Frames!Pixel, Frames!Next
  <2>4. CASE Clk /\ clkdiv = 1
    <3>1. UNCHANGED <<Reset, hc, vc, hs, vs>>
      BY <2>4 DEF Clk
    <3> QED BY <3>1 DEF Left, Fresh, Now, Frames!clock
  <2>6. clkdiv \in {0, 1}
    BY DEF VgaInv
  <2>5. CASE UNCHANGED vars
    BY <2>5 DEF vars, Left, Fresh, Now, Frames!clock
  <2> QED BY <2>1, <2>2, <2>3, <2>4, <2>5, <2>6 DEF Next
<1> QED BY <1>1, <1>2, VgaInvariant, PTL DEF Spec, FrameClockSpec, Frames!Spec
=============================================================================
