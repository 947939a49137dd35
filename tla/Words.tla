------------------------------- MODULE Words -------------------------------
(***************************************************************************)
(* The arithmetic of the game's `logic [9:0]` registers: every coordinate, *)
(* velocity and counter of bird.sv, pipe.sv, coin.sv and                   *)
(* Collision_Checker.sv is an unsigned 10-bit word, so sums and            *)
(* differences wrap at Word = 2^10.  Both operands are words, which is why *)
(* one conditional correction replaces the general remainder.              *)
(***************************************************************************)
EXTENDS Integers

CONSTANT Word     \* 2^10 in the sources; smaller in the scaled runs

ASSUME WordAssumption == Word \in Nat /\ Word > 1

Words == 0 .. Word - 1

\* Mutant: the carry compared one too far.
AddLateCarry(a, b) == IF a + b <= Word THEN a + b ELSE a + b - Word

Add(a, b) == IF a + b < Word THEN a + b ELSE a + b - Word

Sub(a, b) == IF a >= b THEN a - b ELSE a - b + Word

\* A velocity is written in two's complement: `-5`, `~Bird_Y_Step + 1`.
Signed(w) == IF 2 * w < Word THEN w ELSE w - Word
=============================================================================
