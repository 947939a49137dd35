------------------------------- MODULE Coins --------------------------------
(***************************************************************************)
(* What the player may rely on of the coins: each is a flag of its own,    *)
(* put up when its pipe returns, taken down when the bird comes to touch   *)
(* it, and left alone by everything else, the other coins included.        *)
(***************************************************************************)
CONSTANT Pipes

VARIABLES
  returned,   \* pipe k has just returned
  touched,    \* coin k is under the bird
  shown       \* coin k is on the screen

coinVars == <<returned, touched, shown>>

Init ==
  /\ returned = [k \in Pipes |-> FALSE]
  /\ touched = [k \in Pipes |-> FALSE]
  /\ shown = [k \in Pipes |-> TRUE]

Next ==
  /\ returned' \in [Pipes -> BOOLEAN] /\ touched' \in [Pipes -> BOOLEAN]
  /\ shown' = [k \in Pipes |-> \/ returned'[k] /\ ~returned[k]
                               \/ shown[k] /\ ~(touched'[k] /\ ~touched[k])]

Spec == Init /\ [][Next]_coinVars
=============================================================================
