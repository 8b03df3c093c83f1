-------------------------- MODULE MCReceiveWindow --------------------------
(* ReceiveWindow with two lanes and a window of three numbers: six packets *)
(* let one lane move a whole window ahead of a delayed packet of its own   *)
(* and of the other lane.                                                  *)
EXTENDS ReceiveWindow

=============================================================================
