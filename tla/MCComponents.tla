--------------------------- MODULE MCComponents ---------------------------
(***************************************************************************)
(* The model TLC checks of Components: the sets and the bounds get their   *)
(* values in Components.cfg, but for the deliveries LINE may POST, which   *)
(* are sequences of its events.                                            *)
(***************************************************************************)
EXTENDS Components

CONSTANTS img1, img2, k1, w1, q1    \* LINE events

MCBodies == {<<img1, w1>>, <<img2>>, <<q1, k1>>}
=============================================================================
