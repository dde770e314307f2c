-------------------------- MODULE HandlerSettings --------------------------
(***************************************************************************)
(* The settings the service keeps with luna-prefs and in memory: whether a *)
(* handler is on (setState) and which server the network handler asks      *)
(* (setNetworkProvider).  Each has a call that asks for it and whose       *)
(* subscribers hear of changes.                                            *)
(*                                                                         *)
(* Every call runs on the main loop to its end.  luna-prefs may fail       *)
(* ("write_fails", "read_fails").  What a handler that goes off does to    *)
(* the calls for positions is in LocationUpdates.                          *)
(***************************************************************************)
EXTENDS World

CONSTANTS
    Setting       \* the handlers the schema takes: "gps", "network" and those
                  \* the service has no memory of

(* The handlers whose setting is kept in memory.                           *)
Remembered == {"gps", "network"}

ASSUME SettingsAssumption == Remembered \subseteq Setting

VARIABLES
    pref,         \* the stored settings; FALSE and "beacondb" when missing
    status,       \* mGpsStatus and mNwStatus
    backend,      \* sBackend, or "unread" while sBackendLoaded is false
    heard         \* per list, what its subscribers were told last

settingsVars == <<pref, status, backend, heard>>

Backend == {"beacondb", "google"}

SettingsTypeOK ==
    /\ pref \in [state : [Setting -> BOOLEAN], backend : Backend]
    /\ status \in [Remembered -> BOOLEAN]
    /\ backend \in Backend \cup {"unread"}
    /\ heard \in [state    : [Setting -> SUBSET BOOLEAN],
                  handlers : SUBSET [Remembered -> BOOLEAN],
                  backend  : SUBSET Backend]
-----------------------------------------------------------------------------
(* Settings that are found at the start, and a service that nobody has     *)
(* subscribed to.                                                          *)

(* loadHandlerStatus, and the name currentBackend reads: a preference that *)
(* cannot be read counts as one that is missing.                           *)
Loaded(value, default) == {value} \cup IF "read_fails" \in may THEN {default} ELSE {}

SettingsInit ==
    /\ pref = [state |-> [h \in Setting |-> FALSE], backend |-> "beacondb"]
    /\ status = [h \in Remembered |-> FALSE]
    /\ backend = "unread"
    /\ heard = [state |-> [h \in Setting |-> {}], handlers |-> {},
                backend |-> {}]

SettingsRestart ==
    /\ status' \in {f \in [Remembered -> BOOLEAN] :
                       \A h \in Remembered : f[h] \in Loaded(pref.state[h], FALSE)}
    /\ backend' = "unread"
    /\ heard' = [state |-> [h \in Setting |-> {}], handlers |-> {},
                 backend |-> {}]
    /\ UNCHANGED pref
-----------------------------------------------------------------------------
(* The settings of the handlers.                                           *)

(* Every subscriber of a list hears v.                                     *)
Tell(list, v) == IF list = {} THEN {} ELSE {v}

(* getState adds the call to the list and replies what is stored.          *)
GetState(h) ==
    /\ \E v \in Loaded(pref.state[h], FALSE) :
           heard' = [heard EXCEPT !.state[h] = @ \cup {v}]
    /\ UNCHANGED <<pref, status, backend>>

(* getAllLocationHandlers replies what is in memory.                       *)
GetAllLocationHandlers ==
    /\ heard' = [heard EXCEPT !.handlers = @ \cup {status}]
    /\ UNCHANGED <<pref, status, backend>>

(* A change of a handler in memory, which both lists hear of; one to       *)
(* "passive" or "hybrid" is only stored.                                   *)
Announce(h, on) ==
    IF h \notin Remembered \/ status[h] = on THEN UNCHANGED <<status, heard>>
    ELSE /\ status' = [status EXCEPT ![h] = on]
         /\ heard' = [heard EXCEPT !.state[h] = Tell(@, on),
                                   !.handlers = Tell(@, status')]

(* LPAppSetValueInt, whose result setState does not look at.               *)
Stored(p) == {p} \cup IF "write_fails" \in may THEN {pref} ELSE {}

(* setState replies success, whether the setting was stored or not.        *)
SetState(h, on) ==
    /\ pref' \in Stored([pref EXCEPT !.state[h] = on])
    /\ Announce(h, on)
    /\ UNCHANGED backend
-----------------------------------------------------------------------------
(* The server the network handler asks.                                    *)

(* currentBackend reads the preference once, for a request of any kind.    *)
CurrentBackend ==
    /\ backend = "unread"
    /\ backend' \in Loaded(pref.backend, "beacondb")
    /\ UNCHANGED <<pref, status, heard>>

GetNetworkProvider ==
    /\ backend' \in IF backend = "unread" THEN Loaded(pref.backend, "beacondb")
                                          ELSE {backend}
    /\ heard' = [heard EXCEPT !.backend = @ \cup {backend'}]
    /\ UNCHANGED <<pref, status>>

(* A broken variant: the memory changes before the write is known to work. *)
SetNetworkProvider_MemoryFirst(b) ==
    /\ pref' \in Stored([pref EXCEPT !.backend = b])
    /\ backend' = b
    /\ heard' = [heard EXCEPT !.backend = Tell(@, b)]
    /\ UNCHANGED status

(* setNetworkProvider gives up, with an error, when the write fails.       *)
SetNetworkProvider(b) ==
    /\ \/ /\ pref' = [pref EXCEPT !.backend = b]
          /\ backend' = b
          /\ heard' = [heard EXCEPT !.backend = Tell(@, b)]
       \/ "write_fails" \in may /\ UNCHANGED <<pref, backend, heard>>
    /\ UNCHANGED status

SettingsNext ==
    \/ \E h \in Setting : GetState(h) \/ \E on \in BOOLEAN : SetState(h, on)
    \/ GetAllLocationHandlers
    \/ CurrentBackend \/ GetNetworkProvider
    \/ \E b \in Backend : SetNetworkProvider(b)

SettingsSpec ==
    /\ SettingsInit
    /\ [][(SettingsNext \/ SettingsRestart) /\ UNCHANGED may]_<<settingsVars, may>>
-----------------------------------------------------------------------------
(* Properties.                                                             *)

(* What is in memory is what a restart finds, as long as luna-prefs works; *)
(* of the network provider also when writing fails, because its setter     *)
(* checks.                                                                 *)
SettingsStored ==
    "read_fails" \notin may =>
        /\ backend \in {"unread", pref.backend}
        /\ "write_fails" \notin may =>
               \A h \in Remembered : status[h] = pref.state[h]

(* Whoever asked, and whenever, knows what the service goes by: subscribers*)
(* of getState are answered from the store and told from memory.           *)
SubscribersKnow ==
    /\ heard.handlers \subseteq {status}
    /\ heard.backend \subseteq {backend}
    /\ may \cap {"write_fails", "read_fails"} = {} =>
           \A h \in Remembered : heard.state[h] \subseteq {status[h]}

(* The three views of a setting, luna-prefs, memory and what subscribers   *)
(* were told, agree through failures and restarts as far as the setters    *)
(* look at the results of their calls (setState, setNetworkProvider).      *)
SettingsAgree == SettingsStored /\ SubscribersKnow
=============================================================================
