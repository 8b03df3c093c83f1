--------------------------- MODULE MCRaceRecovery ---------------------------
(* Two guests, short races of different lengths.                           *)
EXTENDS RaceRecovery

RaceEnds == {4, 7}
=============================================================================
