---- MODULE MCSceneBarrier ----
(***************************************************************************)
(* Two loads of one track, so that neither the map nor the bytes of the    *)
(* baseline tell them apart, in every order of a race that is finished,    *)
(* one that is left and a scene without racers.                            *)
(***************************************************************************)
EXTENDS SceneBarrier
SameTrack == [k \in 1..Scenes |-> "track"]
Cycle == {<<"race", "cutscene">>, <<"cutscene", "abandoned">>,
          <<"abandoned", "race">>}
OneRace == {<<"race", "race">>}
====
