----------------------------- MODULE FrameClock -----------------------------
(***************************************************************************)
(* What the game may rely on when it uses the vertical sync as its clock:  *)
(* one rise every Period pixels for as long as Reset is not pressed, no    *)
(* rise while it is, and one on the first pixel after it is let go.        *)
(***************************************************************************)
EXTENDS Naturals

\* Meant for 0 < Low < First <= Period.
CONSTANTS
  Period,   \* pixels of a frame
  First,    \* pixels from the first rise after a reset to the second
  Low       \* pixels the sync is low before a rise

VARIABLES
  held,     \* Reset is pressed
  vs,       \* the clock
  left      \* pixels until it rises; 0 when it waits for its first pixel

clock == <<held, vs, left>>

Init == held = FALSE /\ vs = 0 /\ left = 0

Press == ~held /\ held' = TRUE /\ vs' = 0 /\ left' = 0

LetGo == held /\ held' = FALSE /\ UNCHANGED <<vs, left>>

Pixel ==
  /\ ~held
  /\ left' = IF left = 0 THEN First ELSE IF left = 1 THEN Period ELSE left - 1
  /\ vs' = IF left' <= Low THEN 0 ELSE 1
  /\ UNCHANGED held

Next == Press \/ LetGo \/ Pixel

Spec == Init /\ [][Next]_clock
=============================================================================
