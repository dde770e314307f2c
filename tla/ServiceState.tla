---------------------------- MODULE ServiceState ----------------------------
(***************************************************************************)
(* What the service keeps beside its position sessions: what it was told   *)
(* of the connections, the geocoding calls that go by it, the settings,    *)
(* the status of the GPS engine and the stored positions.  The parts meet  *)
(* in the process that ends, and is started again, with all of them; a     *)
(* world says which of them are used.                                      *)
(***************************************************************************)
EXTENDS Geocoding, HandlerSettings, EngineStatus, StoredPositions

serviceVars == <<connVars, geoVars, settingsVars, statusVars, storedVars, may>>

ServiceTypeOK == /\ ConnTypeOK /\ GeoTypeOK /\ SettingsTypeOK /\ StatusTypeOK
                 /\ StoredTypeOK

ServiceInit == /\ may \in Worlds
               /\ ConnInit /\ GeoInit /\ SettingsInit /\ StatusInit /\ StoredInit

Connection == /\ "connection" \in may /\ ConnNext
              /\ UNCHANGED <<geoVars, settingsVars, statusVars, storedVars, may>>
Geocodes == /\ "geocoding" \in may /\ GeoNext
            /\ UNCHANGED <<connVars, settingsVars, statusVars, storedVars, may>>
Settings == /\ "settings" \in may /\ SettingsNext
            /\ UNCHANGED <<connVars, geoVars, statusVars, storedVars, may>>
GpsStatus == /\ "engine" \in may /\ StatusNext
             /\ UNCHANGED <<connVars, geoVars, settingsVars, storedVars, may>>
Positions == /\ "positions" \in may /\ StoredNext
             /\ UNCHANGED <<connVars, geoVars, settingsVars, statusVars, may>>

(* The process ends, of itself or not (its deinit leaves nothing behind),  *)
(* and init finds what was stored and registers anew.                      *)
Restart == /\ "crash" \in may
           /\ ConnRestart /\ GeoRestart /\ SettingsRestart /\ StatusRestart
           /\ StoredRestart
           /\ UNCHANGED may

ServiceNext == Connection \/ Geocodes \/ Settings \/ GpsStatus \/ Positions
                   \/ Restart

ServiceSpec == ServiceInit /\ [][ServiceNext]_serviceVars
=============================================================================
