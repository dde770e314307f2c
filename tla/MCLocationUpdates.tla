------------------------- MODULE MCLocationUpdates --------------------------
(* Location updates with what may happen to them in combinations.          *)
EXTENDS LocationUpdates, TLC

CONSTANTS sub, timedSub, timedOnce

MCHalAnswers == {h \in HalAnswer : h.mode}

MCWorlds == {{"sleep", "offline"}, {"off"}, {"refuse"}, {"mock"}, {"off", "sleep"}}

MCSleep == {{"sleep"}}
=============================================================================
