----------------------------- MODULE MCGeofence -----------------------------
(* Geofences with calls that subscribe and calls that do not.              *)
EXTENDS Geofence

CONSTANTS m1, m2, m3, g1, g2

(* With cancels every add is taken; without them the HAL may refuse it, or *)
(* Luna may fail to list a call whose slot is taken.                       *)
MCWorlds == {{"cancel", "refuse_remove", "add_fails", "remove_fails"},
             {"refuse_add", "refuse_remove", "remove_fails"},
             {"unlisted", "refuse_add", "add_fails"}}

MCOnlyCancels == {{"cancel"}}
=============================================================================
