--------------------------- MODULE MCFrameLedger ----------------------------
(* FrameLedger on a small instance. *)
EXTENDS FrameLedger
=============================================================================
