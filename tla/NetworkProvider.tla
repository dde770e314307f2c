-------------------------- MODULE NetworkProvider ---------------------------
(***************************************************************************)
(* NetworkPositionProvider: positions from a geolocation server.  One      *)
(* request serves every client of getLocationUpdates' network list: it     *)
(* subscribes to the WiFi and telephony services, posts a query whenever   *)
(* what they report is news, and gives the server's answer to all clients. *)
(* Everything runs on the main loop; queries under way are answered later, *)
(* in any order, whatever has become of the request.                       *)
(***************************************************************************)
EXTENDS Integers, FiniteSets, MockLocation

CONSTANTS
    Client,       \* the calls of getLocationUpdates for the network handler
    Subscriber,   \* those with "subscribe": true
    ApList,       \* lists of access points, far enough apart to be news
    Sparse,       \* those with fewer than two access points
    Cell,         \* the ids of registered cells
    Pos,          \* the positions (with accuracy) that servers answer with
    None,         \* a null list, cellInfo or curCellid
    Zero,         \* the position of a fix that has been reset: 0, 0
    Worlds,       \* what may happen to the provider, in combinations
    MaxQueries    \* bound on the queries under way

(* /etc/location/wsp.conf has no key for Google; a query cannot be posted; *)
(* the answer is an error, or no position; a service goes down; a call to  *)
(* one fails; the network mock provider is switched on and off.            *)
Fault == {"no_key", "post_fails", "http_error", "no_position", "service_down",
          "call_fails", "mock"}

Backend == {"beacondb", "google"}
Server == Backend \cup {"mock"}

ASSUME NetworkAssumption ==
    /\ Subscriber \subseteq Client
    /\ Sparse \subseteq ApList
    /\ None \notin ApList \cup Cell
    /\ Zero \notin Pos
    /\ Worlds \subseteq SUBSET Fault
    /\ MaxQueries \in Nat

VARIABLES
    net,          \* the provider's fields
    backend,      \* currentBackend()
    mock,         \* the flags of the network mock provider
    queries,      \* how many queries each server has not answered yet
    radio,        \* mwifiStatus, mtelephonyPowerd, mConnectivityStatus
    allowed,      \* mNwStatus, the network handler's setting
    clients,      \* the list getLocationUpdates keeps for the network
    waiting,      \* those no reply has been sent to
    source,       \* the server the last fix came from (history)
    mocked,       \* the mock provider has been enabled (history)
    may           \* what may happen, a member of Worlds

vars == <<net, backend, mock, queries, radio, allowed, clients, waiting, source,
          mocked, may>>

(* running, mocking   mProcessRequestInProgress, mMockRequestInProgress    *)
(* timers             the timeout sources behind mTimeoutId                *)
(* wifiReg, telReg    mWifiCookie, mTelephonyCookie                        *)
(* wifiSub, cellSub   the getNetworks and getCellInfo subscriptions        *)
(* aps, lastAps       wifiAccessPointsList, lastAps                        *)
(* cell, curCell      cellInfo, curCellid                                  *)
(* pos, stamped       lastLatitude.. lastAccuracy, lastTimeStamp > 0       *)
NetState ==
    [running : BOOLEAN, mocking : BOOLEAN, timers : Nat,
     wifiReg : BOOLEAN, telReg : BOOLEAN, wifiSub : BOOLEAN, cellSub : BOOLEAN,
     firstCell : BOOLEAN,
     aps : ApList \cup {None}, lastAps : ApList \cup {None},
     cell : Cell \cup {None}, curCell : Cell \cup {None},
     pos : Pos \cup {Zero}, stamped : BOOLEAN, fixBackend : Backend]

TypeOK == /\ net \in NetState
          /\ backend \in Backend
          /\ mock \subseteq MockFlag
          /\ queries \in [Server -> Nat]
          /\ radio \in [wifi : BOOLEAN, tel : BOOLEAN, online : BOOLEAN]
          /\ allowed \in BOOLEAN
          /\ clients \subseteq Client
          /\ waiting \subseteq Client
          /\ source \in Server
          /\ mocked \in BOOLEAN
          /\ may \in Worlds

Init ==
    /\ net = [running |-> FALSE, mocking |-> FALSE, timers |-> 0,
              wifiReg |-> FALSE, telReg |-> FALSE,
              wifiSub |-> FALSE, cellSub |-> FALSE, firstCell |-> TRUE,
              aps |-> None, lastAps |-> None, cell |-> None, curCell |-> None,
              pos |-> Zero, stamped |-> FALSE, fixBackend |-> "beacondb"]
    /\ backend \in Backend
    /\ mock = {}
    /\ queries = [s \in Server |-> 0]
    /\ radio \in [wifi : BOOLEAN, tel : BOOLEAN, online : BOOLEAN]
    /\ allowed = TRUE
    /\ clients = {}
    /\ waiting = {}
    /\ source = "beacondb"
    /\ mocked = FALSE
    /\ may \in Worlds

-----------------------------------------------------------------------------
(* The provider.                                                           *)

(* NetworkPositionData::resetData                                          *)
ResetData(n) == [n EXCEPT !.pos = Zero, !.stamped = FALSE,
                          !.aps = None, !.lastAps = None,
                          !.cell = None, !.curCell = None]

HasKey == "no_key" \notin may

(* Whether a call to another service works; the provider goes on either way. *)
CallWorks == IF "call_fails" \in may THEN BOOLEAN ELSE {TRUE}

(* POSITION_CMD with no request running; t and w: the registrations for the *)
(* status of the telephony and the WiFi service work.                      *)
StartPosition(n, t, w) ==
    [n EXCEPT !.running = TRUE, !.telReg = t, !.wifiReg = w, !.timers = @ + 1]

(* A broken variant: it does not matter whether a request is running.      *)
StopPosition_Unguarded(n) ==
    IF n.mocking THEN ResetData([n EXCEPT !.mocking = FALSE])
    ELSE ResetData([n EXCEPT !.running = FALSE, !.firstCell = TRUE,
                             !.wifiSub = FALSE, !.cellSub = FALSE,
                             !.wifiReg = FALSE, !.telReg = FALSE,
                             !.timers = @ - 1])

(* A broken variant: the time of the last fix survives it.                 *)
StopPosition_KeepsStamp(n) ==
    IF n.mocking THEN ResetData([n EXCEPT !.mocking = FALSE])
    ELSE IF ~n.running THEN n
    ELSE [n EXCEPT !.running = FALSE, !.firstCell = TRUE, !.timers = @ - 1,
                   !.wifiSub = FALSE, !.cellSub = FALSE,
                   !.wifiReg = FALSE, !.telReg = FALSE, !.pos = Zero,
                   !.aps = None, !.lastAps = None,
                   !.cell = None, !.curCell = None]

(* STOP_POSITION_CMD: a mock request hides a real one.                     *)
StopPosition(n) ==
    IF n.mocking THEN ResetData([n EXCEPT !.mocking = FALSE])
    ELSE IF ~n.running THEN n
    ELSE ResetData([n EXCEPT !.running = FALSE, !.firstCell = TRUE,
                             !.wifiSub = FALSE, !.cellSub = FALSE,
                             !.wifiReg = FALSE, !.telReg = FALSE,
                             !.timers = @ - 1])

(* parseWifiData and parseCellData: is what a radio that is on reports     *)
(* something else than what was posted last?                               *)
WifiNews(n) == radio.wifi /\ n.aps \in ApList \ Sparse /\ n.aps # n.lastAps
CellNews(n) == radio.tel /\ n.cell # None /\ n.cell # n.curCell

(* What they take note of, before the query is posted.                     *)
Noted(n) == [n EXCEPT !.lastAps = IF WifiNews(n) THEN n.aps ELSE @,
                      !.curCell = IF CellNews(n) THEN n.cell ELSE @]

(* networkPostQuery: an enabled mock provider takes the query, and is then *)
(* started; Google takes none without a key.                               *)
PostQuery ==
    LET server == IF MockAnswers(mock) THEN "mock" ELSE backend
    IN  /\ server = "google" => HasKey
        /\ \A s \in Server : queries[s] < MaxQueries
        /\ queries' = [queries EXCEPT ![server] = @ + 1]
        /\ mock' = StartMock(mock)

PostFails ==
    /\ \/ backend = "google" /\ ~HasKey /\ ~MockAnswers(mock)
       \/ "post_fails" \in may
    /\ mock' = StartMock(mock)
    /\ UNCHANGED queries

(* triggerPostQuery; nobody looks at its result.                           *)
TriggerPostQuery(n) ==
    IF WifiNews(n) \/ CellNews(n)
    THEN net' = Noted(n) /\ (PostQuery \/ PostFails)
    ELSE net' = n /\ UNCHANGED <<queries, mock>>

(* getLocationUpdateCb, for the list c: everybody is answered; who does    *)
(* not subscribe leaves the list, and the last to leave stops the request. *)
LocationUpdate(n, c) ==
    /\ clients' = c \cap Subscriber
    /\ waiting' = {}
    /\ net' = IF ~(c \subseteq Subscriber) /\ c \cap Subscriber = {}
              THEN StopPosition(n)
              ELSE n

(* The same with ERROR_NETWORK_ERROR, which is dropped while the           *)
(* connection manager is connected.                                        *)
NetworkError(n, c) ==
    IF radio.online
    THEN net' = n /\ clients' = c /\ UNCHANGED waiting
    ELSE LocationUpdate(n, c)

-----------------------------------------------------------------------------
(* The clients.                                                            *)

(* The cases of POSITION_CMD.  With a request running the newcomer gets    *)
(* the last fix, if there is one from the current server.                  *)
HasFix == net.stamped /\ net.fixBackend = backend

MockRequest(c) ==
    /\ MockAnswers(mock)
    /\ \/ PostQuery /\ net' = [net EXCEPT !.mocking = TRUE]
          /\ waiting' = waiting \cup {c}
       \/ PostFails /\ UNCHANGED <<net, waiting>>
    /\ clients' = clients \cup {c}

JoinRequest(c) ==
    /\ ~MockAnswers(mock) /\ net.running
    /\ IF HasFix
       THEN LocationUpdate(net, clients \cup {c})
       ELSE /\ clients' = clients \cup {c}
            /\ waiting' = waiting \cup {c}
            /\ UNCHANGED net
    /\ UNCHANGED <<queries, mock>>

(* ERROR_LICENSE_KEY_INVALID; the client stays listed.                     *)
NoKey(c) ==
    /\ ~MockAnswers(mock) /\ ~net.running
    /\ backend = "google" /\ ~HasKey
    /\ clients' = clients \cup {c}
    /\ UNCHANGED <<net, waiting, queries, mock>>

(* A broken variant: a second client starts the request again.             *)
FirstRequest_EveryTime(c) ==
    /\ ~MockAnswers(mock) /\ (net.running => ~HasFix)
    /\ backend = "google" => HasKey
    /\ \E t, w \in CallWorks : net' = StartPosition(net, t, w)
    /\ clients' = clients \cup {c}
    /\ waiting' = waiting \cup {c}
    /\ UNCHANGED <<queries, mock>>

FirstRequest(c) ==
    /\ ~MockAnswers(mock) /\ ~net.running
    /\ backend = "google" => HasKey
    /\ \E t, w \in CallWorks : net' = StartPosition(net, t, w)
    /\ clients' = clients \cup {c}
    /\ waiting' = waiting \cup {c}
    /\ UNCHANGED <<queries, mock>>

(* getLocationUpdates                                                      *)
Request(c) ==
    /\ allowed
    /\ c \notin clients
    /\ MockRequest(c) \/ JoinRequest(c) \/ NoKey(c) \/ FirstRequest(c)
    /\ UNCHANGED <<backend, radio, allowed, source, mocked, may>>

(* A broken variant: the list is looked at with the leaver still on it.    *)
Cancel_CountsItself(c) ==
    /\ c \in clients
    /\ clients' = clients \ {c}
    /\ waiting' = waiting \ {c}
    /\ net' = IF clients = {} THEN StopPosition(net) ELSE net
    /\ UNCHANGED <<backend, mock, queries, radio, allowed, source, mocked, may>>

(* cancelSubscription: the last client to leave stops the request.         *)
Cancel(c) ==
    /\ c \in clients
    /\ clients' = clients \ {c}
    /\ waiting' = waiting \ {c}
    /\ net' = IF clients = {c} THEN StopPosition(net) ELSE net
    /\ UNCHANGED <<backend, mock, queries, radio, allowed, source, mocked, may>>

(* setState for the network handler: off stops the request and tells the   *)
(* clients; on starts nothing.                                             *)
SetState ==
    /\ allowed' = ~allowed
    /\ IF allowed
       THEN LocationUpdate(StopPosition(net), clients)
       ELSE UNCHANGED <<net, clients, waiting>>
    /\ UNCHANGED <<backend, mock, queries, radio, source, mocked, may>>

SetNetworkProvider ==
    /\ backend' \in Backend \ {backend}
    /\ UNCHANGED <<net, mock, queries, radio, allowed, clients, waiting, source,
                   mocked, may>>

SetMock ==
    /\ "mock" \in may
    /\ \E state \in BOOLEAN : /\ mock' = SetMockState(mock, state)
                              /\ mocked' = (mocked \/ state)
    /\ UNCHANGED <<net, backend, queries, radio, allowed, clients, waiting, source,
                   may>>

-----------------------------------------------------------------------------
(* The services and the timer.                                             *)

ServicesOnly == UNCHANGED <<backend, radio, allowed, clients, waiting, source, mocked, may>>

(* wifiServiceStatusUpdate and telephonyServiceStatusUpdate                *)
WifiService ==
    /\ net.wifiReg
    /\ \/ /\ ~net.wifiSub
          /\ \E ok \in CallWorks : net' = [net EXCEPT !.wifiSub = ok /\ net.running]
       \/ /\ net.wifiSub /\ "service_down" \in may
          /\ net' = [net EXCEPT !.wifiSub = FALSE]
    /\ ServicesOnly /\ UNCHANGED <<queries, mock>>

TelephonyService ==
    /\ net.telReg
    /\ \/ /\ ~net.cellSub
          /\ \E ok \in CallWorks : net' = [net EXCEPT !.cellSub = ok /\ net.running]
       \/ /\ net.cellSub /\ "service_down" \in may
          /\ net' = [net EXCEPT !.cellSub = FALSE]
    /\ ServicesOnly /\ UNCHANGED <<queries, mock>>

(* onUpdateWifiData                                                        *)
WifiScanned ==
    /\ net.wifiSub
    /\ \E list \in ApList : TriggerPostQuery([net EXCEPT !.aps = list])
    /\ ServicesOnly

(* onUpdateCellData: later changes wait for the timer.                     *)
CellChanged ==
    /\ net.cellSub
    /\ \E id \in Cell :
        LET n == [net EXCEPT !.cell = id]
        IN  IF net.firstCell /\ ~radio.wifi
            THEN TriggerPostQuery([n EXCEPT !.firstCell = FALSE])
            ELSE net' = n /\ UNCHANGED <<queries, mock>>
    /\ ServicesOnly

(* A broken variant: the timer asks for a scan, connected or not.          *)
TimerFires_NeverReports ==
    /\ net.timers > 0
    /\ IF radio.tel /\ ~radio.wifi THEN TriggerPostQuery(net)
       ELSE UNCHANGED <<net, queries, mock>>
    /\ ServicesOnly

(* networkUpdateCallback: no connection is reported; WiFi is asked for a   *)
(* scan, which it answers in WifiScanned; a cell is posted from here.      *)
TimerFires ==
    /\ net.timers > 0
    /\ \/ /\ ~radio.online
          /\ NetworkError(net, clients)
          /\ UNCHANGED <<queries, mock>>
       \/ /\ radio.online /\ radio.tel /\ ~radio.wifi
          /\ TriggerPostQuery(net)
          /\ UNCHANGED <<clients, waiting>>
    /\ UNCHANGED <<backend, radio, allowed, source, mocked, may>>

(* Handle_WifiNotification, Handle_TelephonyNotification and               *)
(* Handle_ConnectivityNotification                                         *)
RadioChanges ==
    /\ \/ /\ radio' = [radio EXCEPT !.wifi = ~@]
          /\ UNCHANGED net
       \/ /\ radio' = [radio EXCEPT !.tel = ~@]
          /\ net' = IF radio.tel THEN [net EXCEPT !.cell = None, !.curCell = None]
                    ELSE net
       \/ /\ radio' = [radio EXCEPT !.online = ~@]
          /\ UNCHANGED net
    /\ UNCHANGED <<backend, mock, queries, allowed, clients, waiting, source, mocked, may>>

-----------------------------------------------------------------------------
(* The servers' answers: handleResponse, whoever waits for it by now.      *)

Answered(s) ==
    /\ queries[s] > 0
    /\ queries' = [queries EXCEPT ![s] = @ - 1]
    /\ mock' = IF s = "mock" THEN StopMock(mock) ELSE mock
    /\ UNCHANGED <<backend, radio, allowed, mocked, may>>

(* A position: the one of the last fix makes that fix current, another is  *)
(* the new fix and goes out.                                               *)
PositionAnswer(s) ==
    /\ Answered(s)
    /\ \E p \in Pos :
        IF p = net.pos
        THEN /\ net' = [net EXCEPT !.stamped = TRUE]
             /\ UNCHANGED <<clients, waiting, source>>
        ELSE /\ LocationUpdate([net EXCEPT !.pos = p, !.stamped = TRUE,
                                           !.fixBackend = backend], clients)
             /\ source' = s

(* Status 200 without a position is dropped; any other status is an error. *)
FailedAnswer(s) ==
    /\ Answered(s)
    /\ \/ /\ "no_position" \in may
          /\ UNCHANGED <<net, clients, waiting>>
       \/ /\ "http_error" \in may
          /\ NetworkError(net, clients)
    /\ UNCHANGED source

Next ==
    \/ \E c \in Client : Request(c) \/ Cancel(c)
    \/ SetState \/ SetNetworkProvider \/ SetMock
    \/ WifiService \/ TelephonyService \/ WifiScanned \/ CellChanged
    \/ TimerFires \/ RadioChanges
    \/ \E s \in Server : PositionAnswer(s) \/ FailedAnswer(s)

Spec == Init /\ [][Next]_vars

(* The timer is a repeating GLib source; a registration is answered with   *)
(* the state of the service; WiFi reports after each scan; a query ends in *)
(* an answer or a time-out.                                                *)
FairSpec ==
    /\ Spec
    /\ WF_vars(TimerFires)
    /\ WF_vars(WifiService /\ ~net.wifiSub)
    /\ WF_vars(WifiScanned)
    /\ \A s \in Server : WF_vars(PositionAnswer(s) \/ FailedAnswer(s))
-----------------------------------------------------------------------------
(* Properties.                                                             *)

(* Registrations, subscriptions and the timer belong to a running request: *)
(* nothing of them outlives it, whatever the services do meanwhile, and    *)
(* there is one timer, whoever joins.                                      *)
Quiet(n) ==
    /\ n.wifiSub => n.wifiReg
    /\ n.cellSub => n.telReg
    /\ n.wifiReg \/ n.telReg => n.running
    /\ n.timers = IF n.running THEN 1 ELSE 0

QuietWhenStopped == Quiet(net)

(* A request runs for somebody: without clients the provider stops.        *)
(* (Unless a mock provider was enabled while it ran: the one STOP then     *)
(* ends the mock request only.)                                            *)
RunsForClients == ~mocked => (net.running => clients # {})

(* The fields of the last fix have a time exactly when they hold an answer *)
(* of a server; POSITION_CMD would hand out 0, 0 as a position otherwise.  *)
NoFixAtZero == net.stamped <=> net.pos # Zero

(* While the device stays offline, nobody is left to wait: the timer tells *)
(* every client of a real request.                                         *)
OfflineIsReported ==
    <>[]~radio.online => []<>(net.running => waiting = {})

(* NetworkPositionProvider.h: mFixBackend is "the server the last fix came *)
(* from".                                                                  *)
FixBackendIsSource == net.stamped => net.fixBackend = source

(* processRequest: "A request is already running and will answer this      *)
(* client too", here with WiFi on, the device online and the servers       *)
(* answering with positions.                                               *)
RunningRequestAnswers ==
    [](radio.wifi /\ radio.online) =>
        \A c \in Client : c \in waiting /\ net.running ~> c \notin waiting
=============================================================================
