---------------------------- MODULE GpsProvider -----------------------------
(***************************************************************************)
(* GPSPositionProvider: what its request handlers do to its own fields and *)
(* to the GNSS HAL behind GPSNyxInterface.                                 *)
(*                                                                         *)
(* The handlers all run on the main loop and never yield, so each is a     *)
(* function from the provider's state e to the next one; a service call    *)
(* that makes several requests composes them.  The fields of e:            *)
(*   enabled    mEnabled                                                   *)
(*   started    mEngineStarted                                             *)
(*   flags      mAPIProgressFlag, as the set of its bits                   *)
(*   timer      mPosTimer: "none" is 0, "armed" a source id that is still  *)
(*              pending, "fired" the id of a source that has run           *)
(*   ttffState, reqTime, lastFix, ttff                                     *)
(*              mTTFFState, mFixRequestTime, mLastFixTime, mTTFF           *)
(*   params     mPositionMode and mFixInterval, as "default" or "custom"   *)
(*   modified   mGpsParamModified                                          *)
(*   halParams  the position mode the HAL was last given                   *)
(*   radio      the HAL has a positioning session                          *)
(*   mock       the flags of the gps mock provider in front of the HAL     *)
(* hal holds the answers of the HAL to the calls made during one handler:  *)
(* start, stop and mode say whether nyx_gps_start, nyx_gps_stop and        *)
(* nyx_gps_set_position_mode return NYX_ERROR_NONE.                        *)
(***************************************************************************)
EXTENDS Integers, MockLocation

ApiFlag == {"LOCATION_UPDATES_ON", "NMEA_GET_DATA_ON", "SATELLITE_GET_DATA_ON"}

Param == {"default", "custom"}

HalAnswer == [start : BOOLEAN, stop : BOOLEAN, mode : BOOLEAN]

GpsInit == [enabled   |-> FALSE, started |-> FALSE, flags |-> {},
            timer     |-> "none",
            ttffState |-> FALSE, reqTime |-> 0, lastFix |-> 0, ttff |-> 0,
            params    |-> "default", modified |-> FALSE,
            halParams |-> "default", radio |-> FALSE, mock |-> {}]

-----------------------------------------------------------------------------
(* The engine.                                                             *)

(* setPosModeWithCapability: a HAL that refuses the mode is only logged.   *)
SetPosMode(e, hal) == IF hal.mode THEN [e EXCEPT !.halParams = e.params] ELSE e

(* gps_mock_start / gps_mock_stop: an enabled mock takes the call.         *)
HalStarts(e, hal) == MockAnswers(e.mock) \/ hal.start
HalStops(e, hal) == MockAnswers(e.mock) \/ hal.stop

HalStart(e) == IF MockAnswers(e.mock)
               THEN [e EXCEPT !.mock = StartMock(@)]
               ELSE [e EXCEPT !.radio = TRUE]

HalStop(e) == IF MockAnswers(e.mock)
              THEN [e EXCEPT !.mock = StopMock(@)]
              ELSE [e EXCEPT !.radio = FALSE]

GpsEnable(e, hal) == IF e.started \/ ~HalStarts(e, hal)
                     THEN e
                     ELSE [HalStart(e) EXCEPT !.started = TRUE]

(* A broken variant: the provider goes back to its own parameters without  *)
(* telling the HAL.                                                        *)
ResetParams_Silently(e, hal) ==
    IF e.modified THEN [e EXCEPT !.params = "default", !.modified = FALSE] ELSE e

ResetParams(e, hal) ==
    IF e.modified
    THEN SetPosMode([e EXCEPT !.params = "default", !.modified = FALSE], hal)
    ELSE e

(* A broken variant: a refused stop is taken for a stop.                   *)
GpsDisable_IgnoresRefusal(e, hal) ==
    LET r == ResetParams(e, hal)
    IN  IF ~e.started THEN e
        ELSE IF HalStops(e, hal) THEN [HalStop(r) EXCEPT !.started = FALSE]
        ELSE [r EXCEPT !.started = FALSE]

(* The parameters are reset before the HAL is asked to stop, so also when  *)
(* it then refuses.                                                        *)
GpsDisable(e, hal) ==
    LET r == ResetParams(e, hal)
    IN  IF ~e.started THEN e
        ELSE IF HalStops(e, hal) THEN [HalStop(r) EXCEPT !.started = FALSE]
        ELSE r

-----------------------------------------------------------------------------
(* The requests.                                                           *)

(* processRequest, for POSITION_CMD, NMEA_CMD and SATELITTE_CMD: a feed    *)
(* that is already on is a duplicate, and the flag goes up only when the   *)
(* engine runs.                                                            *)
Accepts(e, f) == e.enabled /\ f \notin e.flags

StartFeed(e, f, hal) ==
    LET up == GpsEnable(SetPosMode(e, hal), hal)
    IN  IF ~Accepts(e, f) THEN e
        ELSE IF up.started THEN [up EXCEPT !.flags = @ \cup {f}]
        ELSE up

(* POSITION_CMD also stamps the request until there is a first fix, and    *)
(* arms the timer if mPosTimer is 0.                                       *)
StampRequest(e, now) == IF e.ttffState THEN e ELSE [e EXCEPT !.reqTime = now]

ArmTimer(e) == IF e.timer = "none" THEN [e EXCEPT !.timer = "armed"] ELSE e

StartPosition(e, hal, now) ==
    LET f == "LOCATION_UPDATES_ON"
        s == StartFeed(StampRequest(e, now), f, hal)
    IN  IF ~Accepts(e, f) THEN e
        ELSE IF f \in s.flags THEN ArmTimer(s) ELSE s

(* STOP_NMEA_CMD and STOP_SATELITTE_CMD: the flag goes down even if the    *)
(* engine then refuses to stop.                                            *)
StopFeed(e, f, hal) ==
    LET d == [e EXCEPT !.flags = @ \ {f}]
    IN  IF ~e.enabled THEN e
        ELSE IF d.flags = {} THEN GpsDisable(d, hal)
        ELSE d

(* STOP_POSITION_CMD also ends the first-fix measurement of the session.   *)
ResetFirstFix(e) ==
    [e EXCEPT !.ttffState = FALSE, !.reqTime = 0, !.lastFix = 0, !.ttff = 0]

StopPosition(e, hal) ==
    IF ~e.enabled THEN e
    ELSE StopFeed(ResetFirstFix([e EXCEPT !.timer = "none"]),
                  "LOCATION_UPDATES_ON", hal)

(* A broken variant: the timer outlives the session.                       *)
StopGps_KeepsTimer(e, hal) ==
    LET d == GpsDisable(e, hal)
    IN  IF ~e.enabled \/ ~e.started THEN e
        ELSE IF d.started THEN d
        ELSE [d EXCEPT !.flags = {}]

(* A broken variant: the flags go down before the HAL has agreed.          *)
StopGps_FlagsFirst(e, hal) ==
    IF ~e.enabled \/ ~e.started THEN e
    ELSE GpsDisable([e EXCEPT !.flags = {}, !.timer = "none"], hal)

(* STOP_GPS_CMD: every feed at once, unless the HAL refuses; the first-fix *)
(* measurement is left as it is.                                           *)
StopGps(e, hal) ==
    LET d == GpsDisable(e, hal)
    IN  IF ~e.enabled \/ ~e.started THEN e
        ELSE IF d.started THEN d
        ELSE [d EXCEPT !.flags = {}, !.timer = "none"]

(* SET_GPS_PARAMETERS_CMD: parameters it does not name are the defaults.   *)
SetGpsParameters(e, p, hal) ==
    IF ~e.enabled THEN e
    ELSE SetPosMode([e EXCEPT !.params = p, !.modified = TRUE], hal)

(* gpsTimeoutCb: the source is gone, mPosTimer keeps its id.               *)
PosTimerFires(e) == [e EXCEPT !.timer = "fired"]

(* LocationService::setMockLocationState, run when listed says that        *)
(* getLocationUpdates has gps clients: the engine is stopped and started   *)
(* around the change.                                                      *)
SetMockLocationState(e, name, state, listed, h1, h2, now) ==
    LET set(x) == IF name = "gps"
                  THEN [x EXCEPT !.mock = SetMockState(@, state)]
                  ELSE x
    IN  IF listed THEN StartPosition(set(StopGps(e, h1)), h2, now) ELSE set(e)

(* A broken variant: a fix that has not come yet is subtracted from.       *)
ReadTimeToFirstFix_Unguarded(e) == [e EXCEPT !.ttff = e.lastFix - e.reqTime]

(* getTimeToFirstFixValue                                                  *)
ReadTimeToFirstFix(e) ==
    IF e.lastFix > e.reqTime THEN [e EXCEPT !.ttff = e.lastFix - e.reqTime] ELSE e
=============================================================================
