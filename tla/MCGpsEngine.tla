---------------------------- MODULE MCGpsEngine -----------------------------
(* The GPS engine with a HAL that may refuse to start or to stop.          *)
EXTENDS GpsEngine

MCHalAnswers == {hal \in HalAnswer : hal.mode}
=============================================================================
