---------------------------- MODULE PipesProofs -----------------------------
(***************************************************************************)
(* For every set of pipes, start layout, set of speeds and word width that *)
(* PipesAssumption admits: where pipes can be and how a frame moves them.  *)
(***************************************************************************)
EXTENDS Pipes, TLAPS

\* Reduction modulo Y_Range gives one of the rows of the generated band.
LEMMA NewRow ==
  ASSUME NEW c \in Words
  PROVE  (c % Y_Range) + Y_Offset \in GapRows /\ GapRows \subseteq Words
<1>1. c % Y_Range \in 0 .. Y_Range - 1
  BY PipesAssumption, WordAssumption DEF Words
<1> QED  BY <1>1, PipesAssumption, WordAssumption DEF GapRows, Words

\* What one frame does to one pipe.
LEMMA FrameStep ==
  ASSUME PipesInv, NEW k \in Pipes, NEW stop \in BOOLEAN, NEW speed \in Speeds
  PROVE  LET q == PipeFrame(k, stop, speed) IN
         /\ q \in PipeRegisters
         /\ q.x <= X_Start
         /\ q.y \in {PipeY0[k]} \cup GapRows
         /\ q.x > pipe[k].x =>
              \/ pipe[k].x < Pipe_X_Min /\ q.x = X_Start
              \/ ~pipe[k].flag /\ q.x = PipeX0[k]
<1> DEFINE p == pipe[k]
<1>1. /\ p \in PipeRegisters /\ p.x \in Int /\ p.x <= X_Start
      /\ p.flag => p.y \in {PipeY0[k]} \cup GapRows
  BY DEF PipesInv, PipesTypeOK, PipeRegisters, Words
<1>2. CASE ~p.flag
  <2>1. PipeFrame(k, stop, speed) = Load(k)
    BY <1>2 DEF PipeFrame
  <2>2. /\ PipeX0[k] \in Words /\ PipeX0[k] <= X_Start
        /\ PipeY0[k] \in Words
    BY PipesAssumption, WordAssumption DEF Words
  <2> QED  BY <1>1, <1>2, <2>1, <2>2 DEF Load, PipeRegisters
<1>3. CASE p.flag /\ stop
  <2>1. PipeFrame(k, stop, speed) = p
    BY <1>3 DEF PipeFrame
  <2>2. ~(p.x > p.x)
    BY <1>1
  <2>3. p.y \in {PipeY0[k]} \cup GapRows
    BY <1>1, <1>3
  <2> HIDE DEF p
  <2>4. /\ p.y \in {PipeY0[k]} \cup GapRows
        /\ p \in PipeRegisters /\ p.x <= X_Start
    BY <1>1, <2>3
  <2> QED  BY <2>1, <2>2, <2>4 DEF p
<1>4. CASE p.flag /\ ~stop
  <2> DEFINE gone == p.x < Pipe_X_Min
  <2>1. PipeFrame(k, stop, speed)
          = [x |-> IF gone THEN X_Start ELSE Sub(p.x, speed),
             y |-> IF gone THEN (p.counter % Y_Range) + Y_Offset ELSE p.y,
             counter |-> Add(p.counter, pipe_num[k]),
             flag |-> p.flag, new_pipe |-> gone]
    BY <1>1, <1>4 DEF PipeFrame, Moved, PipeRegisters
  <2>2. Add(p.counter, pipe_num[k]) \in Words
    BY <1>1, PipesAssumption, WordAssumption DEF PipeRegisters, Add, Words
  <2>3. CASE gone
    <3>1. (p.counter % Y_Range) + Y_Offset \in GapRows /\ GapRows \subseteq Words
      BY <1>1, NewRow DEF PipeRegisters
    <3>2. X_Start \in Words /\ X_Start <= X_Start
      BY PipesAssumption, WordAssumption DEF Words
    <3> QED  BY <1>1, <1>4, <2>1, <2>2, <2>3, <3>1, <3>2 DEF PipeRegisters
  <2>4. CASE ~gone
    <3>1. /\ Sub(p.x, speed) \in Words
          /\ Sub(p.x, speed) <= X_Start
          /\ ~(Sub(p.x, speed) > p.x)
      BY <1>1, <2>4, PipesAssumption, WordAssumption DEF PipeRegisters, Sub, Words
    <3> QED  BY <1>1, <1>4, <2>1, <2>2, <2>4, <3>1 DEF PipeRegisters
  <2> QED  BY <2>3, <2>4
<1> QED  BY <1>2, <1>3, <1>4

\* Pipes stay between the left wrap column and the column they return at, and
\* their gaps in the generated band (pipe.sv:26-50).
THEOREM PipesInvariant == PipesSpec => []PipesInv
<1>1. PipesInit => PipesInv
  BY WordAssumption, PipesAssumption
  DEF PipesInit, PipesInv, PipesTypeOK, PipeRegisters, Words
<1>2. ASSUME PipesInv, [PipesNext]_pipe
      PROVE  PipesInv'
  <2>1. CASE PipesReset
    BY <1>2, <2>1 DEF PipesReset, PipesInv, PipesTypeOK, PipeRegisters
  <2>2. ASSUME NEW stop \in BOOLEAN, NEW speed \in Speeds, PipesFrame(stop, speed)
        PROVE  PipesInv'
    BY <1>2, <2>2, FrameStep DEF PipesFrame, PipesInv, PipesTypeOK
  <2>3. CASE UNCHANGED pipe
    BY <1>2, <2>3 DEF PipesInv, PipesTypeOK
  <2> QED  BY <1>2, <2>1, <2>2, <2>3 DEF PipesNext
<1> QED  BY <1>1, <1>2, PTL DEF PipesSpec

\* A frame moves a pipe left, back to the right edge or to its start, never
\* through column 0 (pipe.sv:41).
THEOREM PipesMoveLeft == PipesSpec => MovesLeft
<1> DEFINE Left ==
      \A k \in Pipes :
        pipe'[k].x > pipe[k].x =>
          \/ pipe[k].x < Pipe_X_Min /\ pipe'[k].x = X_Start
          \/ ~pipe[k].flag /\ pipe'[k].x = PipeX0[k]
<1>1. ASSUME PipesInv, [PipesNext]_pipe
      PROVE  [Left]_pipe
  <2>1. CASE PipesReset
    BY <1>1, <2>1 DEF PipesReset, PipesInv, PipesTypeOK, PipeRegisters, Words
  <2>2. ASSUME NEW stop \in BOOLEAN, NEW speed \in Speeds, PipesFrame(stop, speed)
        PROVE  Left
    BY <1>1, <2>2, FrameStep DEF PipesFrame
  <2> QED  BY <1>1, <2>1, <2>2 DEF PipesNext
<1> QED  BY <1>1, PipesInvariant, PTL DEF PipesSpec, MovesLeft
-----------------------------------------------------------------------------
(***************************************************************************)
(* The spacing.  At one speed all columns are a function of one phase, the *)
(* number of frames moved since the pipes were loaded, counted in laps     *)
(* from the second on; stops hold it and a reset starts it again.          *)
(***************************************************************************)
Phases(speed) == 0 .. 2 * Lap(speed) - 1

NextPhase(T, speed) == IF T = 2 * Lap(speed) - 1 THEN Lap(speed) ELSE T + 1

\* Products, which the solver does not compare by itself.
LEMMA Times ==
  ASSUME NEW s \in Nat \ {0}, NEW a \in Int, NEW b \in Int
  PROVE  /\ s * a \in Int /\ s * 0 = 0
         /\ s * (a + 1) = s * a + s /\ s * (a - b) = s * a - s * b
         /\ a <= b => s * a <= s * b
<1>1. s * a \in Int /\ s * 0 = 0 /\ s * (a + 1) = s * a + s /\ s * (a - b) = s * a - s * b
  OBVIOUS
<1>2. ASSUME a <= b PROVE s * a <= s * b
  <2>1. PICK d \in Nat : b = a + d
    <3>1. b - a \in Nat /\ b = a + (b - a)
      BY <1>2
    <3> QED  BY <3>1
  <2>2. s * b = s * a + s * d
    BY <2>1
  <2>3. s * d \in Nat
    OBVIOUS
  <2> QED  BY <1>1, <2>2, <2>3
<1> QED  BY <1>1, <1>2

LEMMA Quotient ==
  ASSUME NEW s \in Nat \ {0}, NEW a \in Nat
  PROVE  a \div s \in Nat /\ s * (a \div s) <= a /\ a < s * (a \div s) + s
<1>1. a % s \in 0 .. s - 1
  OBVIOUS
<1>2. a \div s \in Int /\ a = s * (a \div s) + (a % s)
  OBVIOUS
<1>3. a \div s >= 0
  OBVIOUS
<1> QED  BY <1>1, <1>2, <1>3

\* A distance of a columns is used up in the last of (a \div s) + 2 frames.
LEMMA LastFrame ==
  ASSUME NEW s \in Nat \ {0}, NEW a \in Nat, NEW n \in 0 .. (a \div s) + 1
  PROVE  a - s * n < 0 <=> n = (a \div s) + 1
<1> DEFINE q == a \div s
<1>1. q \in Nat /\ s * q <= a /\ a < s * q + s
  BY Quotient
<1> HIDE DEF q
<1>2. n \in Int /\ s * n \in Int /\ s * q \in Int /\ s * (q + 1) = s * q + s
  BY <1>1, Times DEF q
<1>3. CASE n = q + 1
  BY <1>1, <1>2, <1>3 DEF q
<1>4. CASE n # q + 1
  <2>1. n <= q
    BY <1>1, <1>4 DEF q
  <2>2. s * n <= s * q
    BY <1>1, <1>2, <2>1, Times
  <2> QED  BY <1>1, <1>2, <1>4, <2>2 DEF q
<1> QED  BY <1>3, <1>4

LEMMA Laps ==
  ASSUME NEW speed \in Speeds, NEW k \in Pipes
  PROVE  /\ speed \in Nat \ {0} /\ X_Start \in Nat /\ PipeX0[k] \in 0 .. X_Start
         /\ Pipe_X_Min \in Nat /\ Pipe_X_Min <= X_Start
         /\ Lap(speed) \in Nat /\ Lap(speed) >= 2
         /\ FirstLap(k, speed) \in 1 .. Lap(speed)
<1> DEFINE a == PipeX0[k] - Pipe_X_Min
           b == X_Start - Pipe_X_Min
<1>1. /\ speed \in Nat \ {0} /\ X_Start \in Nat /\ PipeX0[k] \in 0 .. X_Start
      /\ Pipe_X_Min \in Nat /\ Pipe_X_Min <= X_Start
  BY PipesAssumption, WordAssumption
<1>2. b \in Nat /\ Lap(speed) = (b \div speed) + 2 /\ b \div speed \in Nat
  BY <1>1, Quotient DEF Lap
<1>3. CASE PipeX0[k] < Pipe_X_Min
  BY <1>1, <1>2, <1>3 DEF FirstLap
<1>4. CASE PipeX0[k] >= Pipe_X_Min
  <2>1. a \in Nat /\ a <= b /\ FirstLap(k, speed) = (a \div speed) + 2
    BY <1>1, <1>4 DEF FirstLap
  <2> HIDE DEF a, b
  <2> DEFINE p == a \div speed
             q == b \div speed
  <2>2. /\ p \in Nat /\ speed * p <= a
        /\ q \in Nat /\ b < speed * q + speed
    BY <1>1, <1>2, <2>1, Quotient
  <2>3. p <= q
    <3> HIDE DEF p, q
    <3>1. SUFFICES ASSUME q + 1 <= p PROVE FALSE
      BY <2>2
    <3>2. speed * (q + 1) <= speed * p /\ speed * (q + 1) = speed * q + speed
      BY <1>1, <2>2, <3>1, Times
    <3>3. speed * p \in Int /\ speed * q \in Int
      BY <1>1, <2>2, Times
    <3> QED  BY <1>1, <1>2, <2>1, <2>2, <3>2, <3>3
  <2> QED  BY <1>1, <1>2, <2>1, <2>2, <2>3
<1> QED  BY <1>1, <1>2, <1>3, <1>4

\* The next phase is where one frame takes the pipe, and it is the first or the
\* second lap's end when that frame brings the pipe back.
LEMMA PhaseStep ==
  ASSUME NEW speed \in Speeds, NEW k \in Pipes, NEW T \in Phases(speed)
  PROVE  /\ NextPhase(T, speed) \in Phases(speed)
         /\ At(k, T, speed) \in Int
         /\ At(k, NextPhase(T, speed), speed) =
              IF At(k, T, speed) < Pipe_X_Min THEN X_Start ELSE At(k, T, speed) - speed
         /\ At(k, T, speed) < Pipe_X_Min =>
              NextPhase(T, speed) \in {FirstLap(k, speed), FirstLap(k, speed) + Lap(speed)}
<1> DEFINE L == Lap(speed)
           f == FirstLap(k, speed)
           x == At(k, T, speed)
           y == At(k, NextPhase(T, speed), speed)
<1>1. /\ speed \in Nat \ {0} /\ X_Start \in Nat /\ PipeX0[k] \in 0 .. X_Start
      /\ Pipe_X_Min \in Nat /\ Pipe_X_Min <= X_Start
      /\ L \in Nat /\ L >= 2 /\ f \in 1 .. L
  BY Laps
<1>2. NextPhase(T, speed) \in Phases(speed)
  BY <1>1 DEF NextPhase, Phases
<1>3. CASE T < f
  <2>1. /\ NextPhase(T, speed) = T + 1 /\ T \in Nat
        /\ x = PipeX0[k] - speed * T /\ speed * T \in Int
    BY <1>1, <1>3, Times DEF NextPhase, Phases, At
  <2>2. CASE T = f - 1
    <3>1. y = X_Start - speed * 0 /\ speed * 0 = 0
      BY <1>1, <2>1, <2>2, Times DEF At
    <3>2. x < Pipe_X_Min
      <4>1. CASE PipeX0[k] < Pipe_X_Min
        BY <1>1, <2>1, <2>2, <4>1, Times DEF FirstLap
      <4>2. CASE PipeX0[k] >= Pipe_X_Min
        <5> DEFINE a == PipeX0[k] - Pipe_X_Min
        <5>1. a \in Nat /\ f = (a \div speed) + 2
          BY <1>1, <4>2 DEF FirstLap
        <5>2. T = (a \div speed) + 1 /\ T \in 0 .. (a \div speed) + 1
          BY <1>1, <2>1, <2>2, <5>1, Quotient
        <5>3. a - speed * T < 0
          BY <1>1, <5>1, <5>2, LastFrame
        <5> QED  BY <1>1, <2>1, <5>3
      <4> QED  BY <1>1, <4>1, <4>2
    <3>3. NextPhase(T, speed) = f
      BY <1>1, <2>1, <2>2
    <3> HIDE DEF x, y, f, L
    <3> QED  BY <1>1, <1>2, <2>1, <3>1, <3>2, <3>3 DEF x, y, f, L
  <2>3. CASE T < f - 1
    <3>1. y = PipeX0[k] - speed * (T + 1) /\ speed * (T + 1) = speed * T + speed
      BY <1>1, <2>1, <2>3, Times DEF At
    <3>2. x >= Pipe_X_Min
      <4> DEFINE a == PipeX0[k] - Pipe_X_Min
      <4>1. a \in Nat /\ f = (a \div speed) + 2
        BY <1>1, <2>1, <2>3 DEF FirstLap
      <4>2. T # (a \div speed) + 1 /\ T \in 0 .. (a \div speed) + 1
        BY <1>1, <2>1, <2>3, <4>1, Quotient
      <4>3. ~(a - speed * T < 0)
        BY <1>1, <4>1, <4>2, LastFrame
      <4> QED  BY <1>1, <2>1, <4>3
    <3> QED  BY <1>1, <1>2, <2>1, <3>1, <3>2
  <2> QED  BY <1>1, <1>3, <2>1, <2>2, <2>3
<1>4. CASE T >= f
  <2> DEFINE m == IF T - f < L THEN T - f ELSE T - f - L
             b == X_Start - Pipe_X_Min
  <2>1. T \in Nat /\ T <= 2 * L - 1 /\ m \in 0 .. L - 1 /\ x = X_Start - speed * m
    BY <1>1, <1>4 DEF Phases, At
  <2>2. b \in Nat /\ L = (b \div speed) + 2
    BY <1>1 DEF Lap
  <2>3. x < Pipe_X_Min <=> m = L - 1
    <3>1. m \in 0 .. (b \div speed) + 1
      BY <1>1, <2>1, <2>2, Quotient
    <3>2. b - speed * m < 0 <=> m = (b \div speed) + 1
      BY <1>1, <2>2, <3>1, LastFrame
    <3>3. speed * m \in Int /\ b \div speed \in Nat
      BY <1>1, <2>1, <2>2, Times, Quotient
    <3> HIDE DEF m, x
    <3>4. x < Pipe_X_Min <=> b - speed * m < 0
      BY <1>1, <2>1, <3>3
    <3> QED  BY <1>1, <2>1, <2>2, <3>2, <3>3, <3>4
  <2>4. y = X_Start - speed * (IF m = L - 1 THEN 0 ELSE m + 1)
    <3>1. CASE T = 2 * L - 1
      BY <1>1, <1>4, <2>1, <3>1 DEF NextPhase, At
    <3>2. CASE T # 2 * L - 1
      BY <1>1, <1>4, <2>1, <3>2 DEF NextPhase, At
    <3> QED  BY <3>1, <3>2
  <2>5. speed * 0 = 0 /\ speed * (m + 1) = speed * m + speed /\ speed * m \in Int
    BY <1>1, <2>1, Times
  <2>6. m = L - 1 => NextPhase(T, speed) \in {f, f + L}
    <3>1. CASE T = 2 * L - 1
      BY <1>1, <1>4, <2>1, <3>1 DEF NextPhase
    <3>2. CASE T # 2 * L - 1
      BY <1>1, <1>4, <2>1, <3>2 DEF NextPhase
    <3> QED  BY <3>1, <3>2
  <2> HIDE DEF m, x, y
  <2> QED  BY <1>1, <1>2, <2>1, <2>3, <2>4, <2>5, <2>6 DEF x, y
<1> QED  BY <1>1, <1>3, <1>4 DEF Phases

\* Start positions that are spaced stay so, in every phase.
LEMMA ApartInPhase ==
  ASSUME NEW speed \in Speeds, Spaced(speed), NEW T \in Phases(speed),
         NEW i \in Pipes, NEW j \in Pipes, i # j
  PROVE  Distance(At(i, T, speed), At(j, T, speed)) >= Min_Apart
<1> DEFINE L == Lap(speed)
           f(k) == FirstLap(k, speed)
           x(k) == At(k, T, speed)
<1>1. ASSUME NEW a \in Pipes, NEW b \in Pipes, a # b, f(b) < f(a)
      PROVE  Distance(x(a), x(b)) >= Min_Apart /\ Distance(x(b), x(a)) >= Min_Apart
  <2> DEFINE fa == f(a)
             fb == f(b)
  <2>1. /\ speed \in Nat \ {0} /\ X_Start \in Nat /\ Min_Apart \in Nat
        /\ PipeX0[a] \in Nat /\ PipeX0[b] \in Nat
        /\ L \in Nat /\ fa \in 1 .. L /\ fb \in 1 .. L /\ fb < fa
        /\ T \in Nat /\ T <= 2 * L - 1
    BY <1>1, Laps, PipesAssumption DEF Phases
  <2>2. /\ Distance(PipeX0[a], PipeX0[b]) >= Min_Apart
        /\ X_Start - PipeX0[a] + speed * fb >= Min_Apart
        /\ speed * (fa - fb) >= Min_Apart
        /\ speed * (L + fb - fa) >= Min_Apart
    BY <1>1 DEF Spaced
  <2>3. /\ x(a) = IF T < fa THEN PipeX0[a] - speed * T
                 ELSE IF T - fa < L THEN X_Start - speed * (T - fa)
                 ELSE X_Start - speed * (T - fa - L)
        /\ x(b) = IF T < fb THEN PipeX0[b] - speed * T
                 ELSE IF T - fb < L THEN X_Start - speed * (T - fb)
                 ELSE X_Start - speed * (T - fb - L)
    BY DEF At
  <2> HIDE DEF L, fa, fb, x
  <2>4. /\ speed * T \in Int /\ speed * fa \in Int /\ speed * fb \in Int /\ speed * L \in Int
        /\ speed * (T - fa) = speed * T - speed * fa
        /\ speed * (T - fb) = speed * T - speed * fb
        /\ speed * (fa - fb) = speed * fa - speed * fb
    BY <2>1, Times
  <2>5. /\ speed * (T - fa - L) = speed * T - speed * fa - speed * L
        /\ speed * (T - fb - L) = speed * T - speed * fb - speed * L
        /\ speed * (L + fb - fa) = speed * L + speed * fb - speed * fa
    BY <2>1
  <2>6. CASE T < fb
    BY <2>1, <2>2, <2>3, <2>4, <2>6 DEF Distance
  <2>7. CASE fb <= T /\ T < fa
    BY <2>1, <2>2, <2>3, <2>4, <2>7 DEF Distance
  <2>8. CASE fa <= T /\ T - fb < L
    BY <2>1, <2>2, <2>3, <2>4, <2>8 DEF Distance
  <2>9. CASE fa <= T /\ T - fb >= L /\ T - fa < L
    BY <2>1, <2>2, <2>3, <2>4, <2>5, <2>9 DEF Distance
  <2>10. CASE fa <= T /\ T - fa >= L
    BY <2>1, <2>2, <2>3, <2>4, <2>5, <2>10 DEF Distance
  <2> QED  BY <2>1, <2>6, <2>7, <2>8, <2>9, <2>10
<1>2. f(i) # f(j) /\ f(i) \in Nat /\ f(j) \in Nat
  BY Laps DEF Spaced
<1> HIDE DEF f, x
<1>3. CASE f(i) < f(j)
  BY <1>1, <1>3 DEF x
<1>4. CASE f(j) < f(i)
  BY <1>1, <1>4 DEF x
<1> QED  BY <1>2, <1>3, <1>4

InPhase(T, speed) == \A k \in Pipes : pipe[k].flag /\ pipe[k].x = At(k, T, speed)

SpacingInv(speed) ==
  /\ PipesInv
  /\ \/ \A k \in Pipes : ~pipe[k].flag
     \/ \E T \in Phases(speed) : InPhase(T, speed)

\* Pipes that stand in their start columns are in the first phase of any speed.
LEMMA AtStart ==
  ASSUME NEW speed \in Speeds
  PROVE  /\ \A k \in Pipes : At(k, 0, speed) = PipeX0[k]
         /\ Pipes # {} => 0 \in Phases(speed)
<1>1. ASSUME NEW k \in Pipes
      PROVE  At(k, 0, speed) = PipeX0[k] /\ 0 \in Phases(speed)
  <2>1. At(k, 0, speed) = PipeX0[k] - speed * 0 /\ 0 \in Phases(speed)
    BY Laps DEF At, Phases
  <2>2. speed * 0 = 0 /\ PipeX0[k] \in Nat
    BY Laps, Times
  <2> QED  BY <2>1, <2>2
<1> QED  BY <1>1

LEMMA PhaseMoves ==
  ASSUME NEW speed \in Speeds, PipesInv, NEW T \in Phases(speed), InPhase(T, speed),
         PipesFrame(FALSE, speed)
  PROVE  InPhase(NextPhase(T, speed), speed)'
<1> SUFFICES ASSUME NEW k \in Pipes
             PROVE  pipe'[k].flag /\ pipe'[k].x = At(k, NextPhase(T, speed), speed)
  BY DEF InPhase
<1>1. pipe[k] \in PipeRegisters
  BY DEF PipesInv, PipesTypeOK
<1>2. pipe'[k] = Moved(k, speed) /\ pipe[k].flag /\ pipe[k].x = At(k, T, speed)
  BY DEF PipesFrame, PipeFrame, InPhase
<1>3. /\ pipe'[k].flag
      /\ pipe'[k].x = IF pipe[k].x < Pipe_X_Min THEN X_Start ELSE Sub(pipe[k].x, speed)
  BY <1>1, <1>2 DEF Moved, PipeRegisters
<1>4. pipe[k].x >= Pipe_X_Min => Sub(pipe[k].x, speed) = pipe[k].x - speed
  BY <1>1, PipesAssumption, WordAssumption DEF PipeRegisters, Words, Sub
<1>5. pipe[k].x \in Nat /\ Pipe_X_Min \in Nat
  BY <1>1, PipesAssumption, WordAssumption DEF PipeRegisters, Words
<1> QED  BY <1>2, <1>3, <1>4, <1>5, PhaseStep

LEMMA SpacingStep ==
  ASSUME NEW speed \in Speeds, SpacingInv(speed), PipesInv',
         [PipesReset \/ \E stop \in BOOLEAN : PipesFrame(stop, speed)]_pipe
  PROVE  SpacingInv(speed)'
<1>1. \A k \in Pipes : pipe[k] \in PipeRegisters
  BY DEF SpacingInv, PipesInv, PipesTypeOK
<1>2. CASE UNCHANGED pipe
  BY <1>2 DEF SpacingInv, InPhase
<1>3. CASE PipesReset
  <2>1. \A k \in Pipes : ~pipe'[k].flag
    BY <1>1, <1>3 DEF PipesReset, PipeRegisters
  <2> QED  BY <2>1 DEF SpacingInv
<1>4. ASSUME NEW stop \in BOOLEAN, PipesFrame(stop, speed)
      PROVE  SpacingInv(speed)'
  <2>1. \A k \in Pipes : pipe'[k] = PipeFrame(k, stop, speed)
    BY <1>4 DEF PipesFrame
  <2>2. CASE \A k \in Pipes : ~pipe[k].flag
    <3>1. \A k \in Pipes : pipe'[k] = Load(k)
      BY <2>1, <2>2 DEF PipeFrame
    <3>2. \A k \in Pipes : pipe'[k].flag /\ pipe'[k].x = PipeX0[k]
      BY <1>1, <3>1 DEF Load, PipeRegisters
    <3> QED  BY <3>2, AtStart DEF SpacingInv, InPhase
  <2>3. ASSUME NEW T \in Phases(speed), InPhase(T, speed)
        PROVE  SpacingInv(speed)'
    <3>1. CASE stop
      <4>1. \A k \in Pipes : pipe'[k] = pipe[k]
        BY <2>1, <2>3, <3>1 DEF PipeFrame, InPhase
      <4> QED  BY <2>3, <4>1 DEF SpacingInv, InPhase
    <3>2. CASE ~stop
      <4>1. InPhase(NextPhase(T, speed), speed)'
        BY <1>4, <2>3, <3>2, PhaseMoves DEF SpacingInv
      <4>2. CASE Pipes = {}
        BY <4>2 DEF SpacingInv
      <4>3. CASE Pipes # {}
        BY <4>1, <4>3, PhaseStep DEF SpacingInv
      <4> QED  BY <4>2, <4>3
    <3> QED  BY <3>1, <3>2
  <2> QED  BY <2>2, <2>3 DEF SpacingInv
<1> QED  BY <1>2, <1>3, <1>4

LEMMA PhaseApart ==
  ASSUME NEW speed \in Speeds, Spaced(speed), SpacingInv(speed)
  PROVE  PipesApart
<1> SUFFICES ASSUME NEW i \in Pipes, NEW j \in Pipes, i # j, pipe[i].flag, pipe[j].flag
             PROVE  Distance(pipe[i].x, pipe[j].x) >= Min_Apart
  BY DEF PipesApart
<1>1. PICK T \in Phases(speed) : InPhase(T, speed)
  BY DEF SpacingInv
<1> QED  BY <1>1, ApartInPhase DEF InPhase

\* Pipes that start apart and keep one speed stay apart through every lap, stop
\* and reset (pipe.sv:23-46), whatever the screen, the speed and their number.
THEOREM SpacingKept ==
  ASSUME NEW speed \in Speeds, Spaced(speed)
  PROVE  OneSpeed(speed) => []PipesApart
<1> DEFINE Step == PipesReset \/ \E stop \in BOOLEAN : PipesFrame(stop, speed)
<1>1. Step => PipesNext
  BY DEF PipesNext
<1>2. PipesInit => \A k \in Pipes : ~pipe[k].flag
  BY DEF PipesInit
<1>3. SpacingInv(speed) => PipesApart
  BY PhaseApart
<1>4. SpacingInv(speed) /\ PipesInv' /\ [Step]_pipe => SpacingInv(speed)'
  BY SpacingStep
<1>5. PipesInit /\ PipesInv => SpacingInv(speed)
  BY <1>2 DEF SpacingInv
<1>6. OneSpeed(speed) => PipesSpec
  BY <1>1, PTL DEF OneSpeed, PipesSpec
<1> QED  BY <1>3, <1>4, <1>5, <1>6, PipesInvariant, PTL DEF OneSpeed
-----------------------------------------------------------------------------
(***************************************************************************)
(* The events.  A pulse is the frame in which a pipe has just returned,    *)
(* which Spaced gives a phase of its own and EventsSpaced clear coins;     *)
(* it survives a stop, and a reset as far as the loading of the start      *)
(* columns, where the coins are clear as well.                             *)
(***************************************************************************)
EventsInv(speed) == SpacingInv(speed) /\ EventsAlone

\* Coins whose pipes are Min_Apart columns apart are not touched together.
LEMMA OneInReach ==
  ASSUME NEW a \in 0 .. X_Start, NEW b \in 0 .. X_Start,
         Min_Apart > 4, Distance(a, b) >= Min_Apart
  PROVE  CoinClear(a) \/ CoinClear(b)
<1>1. /\ Pipe_Width \div 2 \in Nat /\ X_Start + (Pipe_Width \div 2) < Word
      /\ X_Start \in Nat /\ Min_Apart \in Nat /\ Bird_X_Center \in Nat /\ Word \in Nat
  BY PipesAssumption, WordAssumption DEF X_Start, Words
<1> DEFINE h == Pipe_Width \div 2
<1> HIDE DEF h
<1>2. Add(a, h) = a + h /\ Add(b, h) = b + h
  BY <1>1 DEF Add, h
<1> QED  BY <1>1, <1>2 DEF CoinClear, Distance, h

\* A frame of moving pipes: whoever raises its pulse does so alone.
LEMMA EventsMove ==
  ASSUME NEW speed \in Speeds, Spaced(speed), EventsSpaced(speed),
         PipesInv, PipesInv', NEW T \in Phases(speed), InPhase(T, speed),
         PipesFrame(FALSE, speed)
  PROVE  EventsAlone'
<1> DEFINE N == NextPhase(T, speed)
           f(k) == FirstLap(k, speed)
<1>1. \A k \in Pipes : pipe[k] \in PipeRegisters /\ pipe'[k].x \in 0 .. X_Start
  BY DEF PipesInv, PipesTypeOK, PipeRegisters, Words
<1>2. \A k \in Pipes : pipe'[k].x = At(k, N, speed)
  BY PhaseMoves DEF InPhase
<1>3. ASSUME NEW k \in Pipes, pipe'[k].new_pipe
      PROVE  N \in {f(k), f(k) + Lap(speed)}
  <2>1. pipe'[k] = Moved(k, speed) /\ pipe[k].x = At(k, T, speed)
    BY DEF PipesFrame, PipeFrame, InPhase
  <2>2. At(k, T, speed) < Pipe_X_Min
    BY <1>1, <1>3, <2>1 DEF Moved, PipeRegisters
  <2> QED  BY <2>2, PhaseStep
<1>4. ASSUME NEW k \in Pipes, NEW j \in Pipes, pipe'[k].new_pipe
      PROVE  CoinClear(pipe'[j].x)
  BY <1>2, <1>3, <1>4 DEF EventsSpaced
<1>5. ASSUME NEW k \in Pipes, NEW j \in Pipes, j # k, pipe'[k].new_pipe, pipe'[j].new_pipe
      PROVE  FALSE
  <2>1. f(j) # f(k)
    BY <1>5 DEF Spaced
  <2>2. f(j) \in 1 .. Lap(speed) /\ f(k) \in 1 .. Lap(speed) /\ Lap(speed) \in Nat
    BY Laps
  <2>3. N \in {f(j), f(j) + Lap(speed)} /\ N \in {f(k), f(k) + Lap(speed)}
    BY <1>3, <1>5
  <2> HIDE DEF f, N
  <2> QED  BY <2>1, <2>2, <2>3
<1>6. ASSUME NEW k \in Pipes, NEW j \in Pipes, j # k
      PROVE  CoinClear(pipe'[j].x) \/ CoinClear(pipe'[k].x)
  <2>1. N \in Phases(speed)
    BY PhaseStep, <1>6
  <2>2. Distance(pipe'[j].x, pipe'[k].x) >= Min_Apart
    BY <1>2, <1>6, <2>1, ApartInPhase
  <2> QED  BY <1>1, <2>2, OneInReach DEF EventsSpaced
<1> HIDE DEF N, f
<1>7. ASSUME NEW j \in Pipes, NEW k \in Pipes
      PROVE  /\ pipe'[k].new_pipe => CoinClear(pipe'[j].x)
             /\ j # k =>
                  /\ ~(pipe'[j].new_pipe /\ pipe'[k].new_pipe)
                  /\ CoinClear(pipe'[j].x) \/ CoinClear(pipe'[k].x)
  BY <1>4, <1>5, <1>6
<1> QED  BY <1>7 DEF EventsAlone, CoinClear, Distance, Add

\* Pulses that a reset has left up are still alone over the start columns.
LEMMA EventsLoad ==
  ASSUME EventsAlone, \A k \in Pipes : CoinClear(PipeX0[k]),
         \A k \in Pipes : pipe'[k].x = PipeX0[k] /\ pipe'[k].new_pipe = pipe[k].new_pipe
  PROVE  EventsAlone'
  BY DEF EventsAlone, CoinClear, Distance, Add

LEMMA EventsStay ==
  ASSUME EventsAlone,
         \A k \in Pipes : pipe'[k].x = pipe[k].x /\ pipe'[k].new_pipe = pipe[k].new_pipe
  PROVE  EventsAlone'
  BY DEF EventsAlone, CoinClear, Distance, Add

LEMMA EventsStep ==
  ASSUME NEW speed \in Speeds, Spaced(speed), EventsSpaced(speed),
         EventsInv(speed), PipesInv',
         [PipesReset \/ \E stop \in BOOLEAN : PipesFrame(stop, speed)]_pipe
  PROVE  EventsInv(speed)'
<1>1. SpacingInv(speed)'
  BY SpacingStep DEF EventsInv
<1>2. EventsAlone /\ \A k \in Pipes : pipe[k] \in PipeRegisters
  BY DEF EventsInv, SpacingInv, PipesInv, PipesTypeOK
<1>3. CASE UNCHANGED pipe
  BY <1>1, <1>2, <1>3, EventsStay DEF EventsInv
<1>4. CASE PipesReset
  <2>1. \A k \in Pipes : pipe'[k].x = pipe[k].x /\ pipe'[k].new_pipe = pipe[k].new_pipe
    BY <1>2, <1>4 DEF PipesReset, PipeRegisters
  <2> QED  BY <1>1, <1>2, <2>1, EventsStay DEF EventsInv
<1>5. ASSUME NEW stop \in BOOLEAN, PipesFrame(stop, speed)
      PROVE  EventsAlone'
  <2>1. \A k \in Pipes : pipe'[k] = PipeFrame(k, stop, speed)
    BY <1>5 DEF PipesFrame
  <2>2. CASE \A k \in Pipes : ~pipe[k].flag
    <3>1. \A k \in Pipes : pipe'[k] = Load(k)
      BY <2>1, <2>2 DEF PipeFrame
    <3>2. \A k \in Pipes : pipe'[k].x = PipeX0[k] /\ pipe'[k].new_pipe = pipe[k].new_pipe
      BY <1>2, <3>1 DEF Load, PipeRegisters
    <3> QED  BY <1>2, <3>2, EventsLoad DEF EventsSpaced
  <2>3. ASSUME NEW T \in Phases(speed), InPhase(T, speed)
        PROVE  EventsAlone'
    <3>1. CASE stop
      <4>1. \A k \in Pipes : pipe'[k] = pipe[k]
        BY <2>1, <2>3, <3>1 DEF PipeFrame, InPhase
      <4> QED  BY <1>2, <4>1, EventsStay
    <3>2. CASE ~stop
      <4>1. PipesFrame(FALSE, speed)
        BY <1>5, <3>2
      <4> QED  BY <2>3, <4>1, EventsMove DEF EventsInv, SpacingInv
    <3> QED  BY <3>1, <3>2
  <2> QED  BY <2>2, <2>3 DEF EventsInv, SpacingInv
<1> QED  BY <1>1, <1>3, <1>4, <1>5 DEF EventsInv

LEMMA EventsStart ==
  ASSUME NEW speed \in Speeds, EventsSpaced(speed), PipesInit, PipesInv
  PROVE  EventsInv(speed)
<1>1. \A k \in Pipes : ~pipe[k].flag /\ ~pipe[k].new_pipe /\ pipe[k].x = 0
  BY DEF PipesInit
<1> QED  BY <1>1 DEF EventsInv, SpacingInv, EventsAlone, EventsSpaced

\* At one speed the event block of FlappyFish.sv:170-213 is never asked for two
\* events, through every lap, stop and reset, for any start columns that keep
\* pipes and coins apart.
THEOREM EventsAlwaysAlone ==
  ASSUME NEW speed \in Speeds, Spaced(speed), EventsSpaced(speed)
  PROVE  OneSpeed(speed) => []EventsAlone
<1> DEFINE Step == PipesReset \/ \E stop \in BOOLEAN : PipesFrame(stop, speed)
<1>1. Step => PipesNext
  BY DEF PipesNext
<1>2. PipesInit /\ PipesInv => EventsInv(speed)
  BY EventsStart
<1>3. EventsInv(speed) /\ PipesInv' /\ [Step]_pipe => EventsInv(speed)'
  BY EventsStep
<1>4. EventsInv(speed) => EventsAlone
  BY DEF EventsInv
<1>5. OneSpeed(speed) => PipesSpec
  BY <1>1, PTL DEF OneSpeed, PipesSpec
<1> QED  BY <1>2, <1>3, <1>4, <1>5, PipesInvariant, PTL DEF OneSpeed
=============================================================================
