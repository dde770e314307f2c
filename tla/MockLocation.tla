---------------------------- MODULE MockLocation ----------------------------
(***************************************************************************)
(* A mock location provider (src/mock/MockLocation.c).  There are two, "gps" *)
(* and "network", each a word of flags; a state of one provider is the set *)
(* of the flags that are up.  enableMockLocation / disableMockLocation end *)
(* in SetMockState; the gps engine starts and stops through StartMock and  *)
(* StopMock, which the macros of MockLocation.h put in front of the HAL.   *)
(***************************************************************************)

MockFlag == {"ENABLED", "STARTED", "DISABLE_AFTER_STOP"}

(* start_mock_location and stop_mock_location succeed, and so keep the     *)
(* call from the real device, exactly when the provider is enabled.        *)
MockAnswers(flag) == "ENABLED" \in flag

(* A provider in use is not disabled at once but when it stops.            *)
SetMockState(flag, state) ==
    CASE state                          -> flag \cup {"ENABLED"}
      [] ~state /\ "STARTED" \in flag   -> flag \cup {"DISABLE_AFTER_STOP"}
      [] ~state /\ "STARTED" \notin flag -> flag \ {"ENABLED"}

StartMock(flag) == IF MockAnswers(flag) THEN flag \cup {"STARTED"} ELSE flag

(* DISABLE_AFTER_STOP itself is never taken down again.                    *)
StopMock(flag) ==
    IF ~MockAnswers(flag)
    THEN flag
    ELSE IF "DISABLE_AFTER_STOP" \in flag
         THEN flag \ {"STARTED", "ENABLED"}
         ELSE flag \ {"STARTED"}

(* set_mock_location hands the position to the provider only in this case. *)
MockFeeds(flag) == {"ENABLED", "STARTED"} \subseteq flag
=============================================================================
