---------------------------- MODULE MCGpsThread -----------------------------
(* The GPS thread with what may happen to it in combinations.              *)
EXTENDS GpsThread, TLC

CONSTANTS w1, w2, Wifi, Mobile, Offline

(* The data connection with a shutdown, and with downloads that take the   *)
(* slot; the downloads by themselves; the data network.                    *)
MCWorlds == {{"atl", "wan", "exit"},
             {"atl", "wan", "xtra"},
             {"ntp", "xtra", "exit"},
             {"ntp", "clock", "no_thread", "nyx_fails"},
             {"network", "exit"}, {"network", "no_ril"}, {"network", "ril_fails"}}
=============================================================================
