---------------------------- MODULE ReportStream ----------------------------
(***************************************************************************)
(* What the main loop may rely on when it polls a keyboard: it gets every  *)
(* report the keyboard makes, once, in the order they were made.  Reports  *)
(* are numbered.                                                           *)
(***************************************************************************)
EXTENDS Naturals

VARIABLES
  made,   \* reports the keyboard has made
  got     \* the last report the main loop has been given

Init == made = 0 /\ got = 0

Make == made' = made + 1 /\ UNCHANGED got

Deliver == got < made /\ got' = got + 1 /\ UNCHANGED made

Next == Make \/ Deliver

Spec == Init /\ [][Next]_<<made, got>>
=============================================================================
