----------------------------- MODULE GpsEngine ------------------------------
(***************************************************************************)
(* The GPS engine: GPSPositionProvider on the main loop, the GNSS HAL and  *)
(* its callback thread, and the mock provider between them.                *)
(*                                                                         *)
(* The main loop runs one request handler, timer or Luna method at a time  *)
(* (the functions of GpsProvider).  The HAL calls gpsLocationCb on a       *)
(* thread of its own, and no lock is taken: fix says how far that callback *)
(* has come, and every other action may fall between its steps.            *)
(***************************************************************************)
EXTENDS GpsProvider

CONSTANTS
    MaxTime,      \* bound on the clock
    HalAnswers,   \* the answers the HAL may give; a subset of HalAnswer
    MockNames     \* the mock providers that clients enable and disable

ASSUME EngineAssumption ==
    /\ MaxTime \in Nat
    /\ HalAnswers \subseteq HalAnswer
    /\ MockNames \subseteq {"gps", "network"}

VARIABLES
    eng,          \* the provider, with the HAL session and the mock flags
    fix,          \* gpsLocationCb on the HAL's thread
    now,          \* gettimeofday
    mocked        \* a gps mock provider has been enabled (history)

vars == <<eng, fix, now, mocked>>

(* "enter": mTTFFState has been read FALSE; "stamp": mLastFixTime is       *)
(* written; "latch": mTTFFState is written, or was TRUE, and the position  *)
(* is to be handed on.                                                     *)
FixStep == {"idle", "enter", "stamp", "latch"}

GpsState == [enabled : BOOLEAN, started : BOOLEAN, flags : SUBSET ApiFlag,
             timer : {"none", "armed", "fired"},
             ttffState : BOOLEAN, reqTime : Nat, lastFix : Nat, ttff : Nat,
             params : Param, modified : BOOLEAN, halParams : Param,
             radio : BOOLEAN, mock : SUBSET MockFlag]

TypeOK == /\ eng \in GpsState
          /\ fix \in FixStep
          /\ now \in Nat
          /\ mocked \in BOOLEAN

Init == /\ eng = GpsInit
        /\ fix = "idle"
        /\ now = 1
        /\ mocked = FALSE

-----------------------------------------------------------------------------
(* The main loop.                                                          *)

(* LocationService::init enables the provider if its init succeeded.       *)
Enable == /\ ~eng.enabled
          /\ eng' = [eng EXCEPT !.enabled = TRUE]
          /\ UNCHANGED <<fix, now, mocked>>

MainLoop(e) == eng' = e /\ UNCHANGED <<fix, now, mocked>>

RequestPosition == \E hal \in HalAnswers : MainLoop(StartPosition(eng, hal, now))

RequestFeed == \E hal \in HalAnswers, f \in ApiFlag \ {"LOCATION_UPDATES_ON"} :
                   MainLoop(StartFeed(eng, f, hal))

CancelPosition == \E hal \in HalAnswers : MainLoop(StopPosition(eng, hal))

CancelFeed == \E hal \in HalAnswers, f \in ApiFlag \ {"LOCATION_UPDATES_ON"} :
                  MainLoop(StopFeed(eng, f, hal))

ForceStop == \E hal \in HalAnswers : MainLoop(StopGps(eng, hal))

SetParameters == \E hal \in HalAnswers, p \in Param :
                     MainLoop(SetGpsParameters(eng, p, hal))

PosTimeout == /\ eng.timer = "armed"
              /\ MainLoop(PosTimerFires(eng))

SetMock ==
    \E name \in MockNames, state \in BOOLEAN, listed \in BOOLEAN,
       h1 \in HalAnswers, h2 \in HalAnswers :
        /\ eng' = SetMockLocationState(eng, name, state, listed, h1, h2, now)
        /\ mocked' = (mocked \/ (name = "gps" /\ state))
        /\ UNCHANGED <<fix, now>>

GetTimeToFirstFix == MainLoop(ReadTimeToFirstFix(eng))

(* setMockLocation calls gpsLocationCb from the main loop, in one go.      *)
MockFix == /\ MockFeeds(eng.mock)
           /\ MainLoop(IF eng.ttffState THEN eng
                       ELSE [eng EXCEPT !.lastFix = now, !.ttffState = TRUE])

-----------------------------------------------------------------------------
(* The HAL's thread.  A callback begins while the HAL has a session; the   *)
(* main loop may end the session before the callback is through.           *)

(* A broken variant: the first fix is not told from the later ones.        *)
FixArrives_EveryFixIsFirst ==
    /\ fix = "idle"
    /\ eng.radio
    /\ fix' = "enter"
    /\ UNCHANGED <<eng, now, mocked>>

FixArrives == /\ fix = "idle"
              /\ eng.radio
              /\ fix' = IF eng.ttffState THEN "latch" ELSE "enter"
              /\ UNCHANGED <<eng, now, mocked>>

FixStamp == /\ fix = "enter"
            /\ eng' = [eng EXCEPT !.lastFix = now]
            /\ fix' = "stamp"
            /\ UNCHANGED <<now, mocked>>

FixLatch == /\ fix = "stamp"
            /\ eng' = [eng EXCEPT !.ttffState = TRUE]
            /\ fix' = "latch"
            /\ UNCHANGED <<now, mocked>>

(* getLocationUpdateCb is called if LOCATION_UPDATES_ON is up by now.      *)
FixDone == /\ fix = "latch"
           /\ fix' = "idle"
           /\ UNCHANGED <<eng, now, mocked>>

-----------------------------------------------------------------------------
(* The rest of the world: time passes, and a system sleep may cost the HAL *)
(* its session without a word to the service.                              *)

Tick == /\ now < MaxTime
        /\ now' = now + 1
        /\ UNCHANGED <<eng, fix, mocked>>

SleepDropsSession == /\ eng.radio
                     /\ eng' = [eng EXCEPT !.radio = FALSE]
                     /\ UNCHANGED <<fix, now, mocked>>

Next ==
    \/ Enable
    \/ RequestPosition \/ RequestFeed
    \/ CancelPosition \/ CancelFeed \/ ForceStop
    \/ SetParameters \/ PosTimeout \/ SetMock \/ GetTimeToFirstFix \/ MockFix
    \/ FixArrives \/ FixStamp \/ FixLatch \/ FixDone
    \/ Tick \/ SleepDropsSession

Spec == Init /\ [][Next]_vars
-----------------------------------------------------------------------------
(* Properties.                                                             *)

Position == "LOCATION_UPDATES_ON"

(* No feed is left waiting on an engine that is off: whatever the HAL      *)
(* refuses and in whatever order feeds come and go, a flag that is up      *)
(* means mEngineStarted.  (processRequest rejects a feed whose flag is up, *)
(* so a flag without an engine could never be repaired by asking again.)   *)
FeedsHaveEngine == eng.flags # {} => eng.started

(* mPosTimer has a source id exactly during a position session.  Were it 0 *)
(* in a session, that session would never report ERROR_TIMEOUT; were it    *)
(* left over from another one, POSITION_CMD would not arm a new one.       *)
TimerIffPosition == eng.timer # "none" <=> Position \in eng.flags

(* Parameters other than the configured ones live no longer than the       *)
(* session they were set for: as long as the HAL accepts every mode it is  *)
(* given, it runs with the defaults unless mGpsParamModified tells         *)
(* handleGpsDisable to put them back.                                      *)
HalParamsAreMarked ==
    (\A hal \in HalAnswers : hal.mode) =>
        (~eng.modified => eng.halParams = "default")

(* Without a gps mock provider the time to first fix, once reported in a    *)
(* session, is final: no later fix, duplicate request or callback half     *)
(* done changes it.                                                        *)
FirstFixIsFinal ==
    [][/\ Position \in eng.flags /\ Position \in eng'.flags
       /\ eng.ttff # 0 /\ ~mocked'
       => eng'.ttff = eng.ttff]_vars

(* The receiver is never left on behind the provider's back: as long as no *)
(* gps mock provider has come between them, a HAL session belongs to a     *)
(* started engine (a stop the HAL refused leaves mEngineStarted up, so     *)
(* that the next stop asks again).                                         *)
RadioHasOwner == ~mocked => (eng.radio => eng.started)

(* The comment at STOP_POSITION_CMD says that the time to first fix is per *)
(* session "so it has to reset when the session ends": a step that ends    *)
(* the position session leaves no measurement behind.                      *)
SessionEndResetsFirstFix ==
    [][/\ Position \in eng.flags
       /\ Position \notin eng'.flags
       => eng'.ttff = 0 /\ ~eng'.ttffState]_vars

(* The engine implements the abstract engine on demand.                    *)
Demand == INSTANCE EngineDemand
            WITH Feed <- ApiFlag, demand <- eng.flags, running <- eng.started

DemandSpec == Demand!Spec
=============================================================================
