------------------------ MODULE MCClientLifecycle --------------------------
(* Three lives: a client forgotten after the first is used in the second,   *)
(* and what the second left over is met in the third.                       *)
EXTENDS ClientLifecycle
=============================================================================
