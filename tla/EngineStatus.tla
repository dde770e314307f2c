---------------------------- MODULE EngineStatus ----------------------------
(***************************************************************************)
(* The status of the GPS engine: the HAL's thread sets it and leaves the   *)
(* news to the main loop, and getGpsStatus, on the main loop, tells it to  *)
(* whoever asks.  Both write mCachedGpsEngineStatus, without a lock, so    *)
(* they are split into the steps that read and write what they share.      *)
(***************************************************************************)
EXTENDS Integers, Sequences

CONSTANTS
    MaxStatus     \* bound on the status reports waiting

ASSUME StatusAssumption == MaxStatus \in Nat

VARIABLES
    engine,       \* mGPSStatus: the engine is on
    cached,       \* mCachedGpsEngineStatus
    reporting,    \* where the HAL's thread is in gpsStatusCb
    asking,       \* where the main loop is in getGpsStatus
    reports,      \* sendGPSStatus callbacks waiting on the main loop
    informed      \* what the subscribers of getGpsStatus were told last

statusVars == <<engine, cached, reporting, asking, reports, informed>>

StatusTypeOK ==
    /\ engine \in BOOLEAN /\ cached \in BOOLEAN
    /\ reporting \in {"idle", "set", "cached"}
    /\ asking \in [at : {"idle", "read", "cached"}, saw : BOOLEAN]
    /\ reports \in Seq(BOOLEAN) /\ Len(reports) <= MaxStatus
    /\ informed \in SUBSET BOOLEAN

NotAsking == [at |-> "idle", saw |-> FALSE]
Idle == asking.at = "idle"

StatusInit == /\ engine = FALSE /\ cached = FALSE
              /\ reporting = "idle" /\ asking = NotAsking
              /\ reports = <<>> /\ informed = {}

(* The service ends, and is started again.                                 *)
StatusRestart == /\ engine' = FALSE /\ cached' = FALSE
                 /\ reporting' = "idle" /\ asking' = NotAsking
                 /\ reports' = <<>> /\ informed' = {}

(* gpsStatusCb on the HAL's thread: only a change goes any further.        *)
HalStatus ==
    /\ reporting = "idle"
    /\ engine' = ~ engine
    /\ reporting' = "set"
    /\ UNCHANGED <<informed, cached, asking, reports>>

(* A broken variant: nothing is sent when the cache has the status.        *)
HalCaches_OnlyNews ==
    /\ reporting = "set"
    /\ cached' = engine
    /\ reporting' = IF cached = engine THEN "idle" ELSE "cached"
    /\ UNCHANGED <<informed, engine, asking, reports>>

(* getGpsStatusCb, on the HAL's thread: the cached status, ...             *)
HalCaches ==
    /\ reporting = "set"
    /\ cached' = engine
    /\ reporting' = "cached"
    /\ UNCHANGED <<informed, engine, asking, reports>>

(* ... and the report, left to the main loop.                              *)
HalReports ==
    /\ reporting = "cached" /\ Len(reports) < MaxStatus
    /\ reports' = Append(reports, engine)
    /\ reporting' = "idle"
    /\ UNCHANGED <<informed, engine, cached, asking>>

SendGPSStatus ==
    /\ Idle /\ reports # <<>>
    /\ reports' = Tail(reports)
    /\ informed' = IF informed = {} THEN {} ELSE {Head(reports)}
    /\ UNCHANGED <<engine, cached, reporting, asking>>

(* getGpsStatus reads the provider's status, ...                           *)
GetGpsStatus ==
    /\ Idle
    /\ asking' = [at |-> "read", saw |-> engine]
    /\ UNCHANGED <<informed, engine, cached, reporting, reports>>

(* ... puts it into the cache, ...                                         *)
GetGpsStatusCaches ==
    /\ asking.at = "read"
    /\ cached' = asking.saw
    /\ asking' = [asking EXCEPT !.at = "cached"]
    /\ UNCHANGED <<informed, engine, reporting, reports>>

(* ... subscribes, if it is to, and replies what the cache has by then.    *)
GetGpsStatusReplies(subscribe) ==
    /\ asking.at = "cached"
    /\ asking' = NotAsking
    /\ informed' = IF subscribe THEN informed \cup {cached} ELSE informed
    /\ UNCHANGED <<engine, cached, reporting, reports>>

StatusNext == \/ HalStatus \/ HalCaches \/ HalReports \/ SendGPSStatus
              \/ GetGpsStatus \/ GetGpsStatusCaches
              \/ \E subscribe \in BOOLEAN : GetGpsStatusReplies(subscribe)

StatusSpec == StatusInit /\ [][StatusNext \/ StatusRestart]_statusVars
-----------------------------------------------------------------------------
(* Once the HAL's thread and the main loop are done, every subscriber of   *)
(* getGpsStatus knows the engine's status, though the HAL's callback and   *)
(* the call overwrite each other's cache.                                  *)
EngineKnown ==
    reporting = "idle" /\ Idle /\ reports = <<>> => informed \subseteq {engine}
=============================================================================
