----------------------------- MODULE GpsThread ------------------------------
(***************************************************************************)
(* The GPS thread of GPSPositionProvider and who gives it work: the HAL    *)
(* wants a data connection opened or closed, the WAN service reports that  *)
(* its "supl" context comes and goes, the nyx module's client has          *)
(* downloaded something, the process ends.  The thread has one slot for    *)
(* what to do next, mGPSThreadAction; a writer that comes before the       *)
(* thread has woken up replaces what is there.  mGPSThreadMutex is held    *)
(* for the whole of each of these steps.                                   *)
(*                                                                         *)
(* The provider also tells the HAL about the data network, and the         *)
(* requests for time and XTRA data are those of Downloads.                 *)
(***************************************************************************)
EXTENDS Downloads, Sequences

CONSTANTS
    Network,      \* what connectionmanager may report: connected, and the type
    Never,        \* no report yet
    MaxReports    \* bound on the context reports on their way

ASSUME GpsThreadAssumption == Never \notin Network /\ MaxReports \in Nat

VARIABLES
    slot,         \* mGPSThreadAction
    conn,         \* mGPSDataConnectionState
    available,    \* mNetworkInfo.available
    thread,       \* whether the GPS thread runs
    phase,        \* of the main thread: "up" is the main loop
    hal,          \* the HAL's data connection, as it was told last
    lost,         \* the actions that were replaced before the thread saw them
    wanUp,        \* mServiceConnected
    supl,         \* the "supl" context of the WAN service
    call,         \* what the WAN service has been asked for
    reports,      \* the context reports on their way
    ready,        \* mNyxReady
    network,      \* mDataNetworkKnown, ..Connected, ..Type
    sent,         \* mDataNetworkSent, mSent..
    halNetwork    \* the data network the HAL knows of

atl  == <<slot, conn, available, hal, lost>>
wan  == <<wanUp, supl, call, reports>>
ril  == <<ready, network, sent, halNetwork>>
vars == <<downloads, atl, wan, ril, thread, phase>>

(* Nothing in the code writes ACTION_FAIL_ATL or ACTION_NI_NOTIFY, and so  *)
(* there is no DATA_CONNECTION_FAILED either.                              *)
Action == {"OPEN_ATL", "CLOSE_ATL", "XTRA_DATA", "XTRA_TIME", "QUIT"}

TypeOK == /\ DownloadsOK
          /\ slot \in Action \cup {"NONE"}
          /\ conn \in {"IDLE", "OPEN", "CLOSED"}
          /\ available \in BOOLEAN
          /\ thread \in BOOLEAN
          /\ phase \in {"up", "closing", "closed", "joining", "gone"}
          /\ hal \in {"none", "open", "closed"}
          /\ lost \subseteq Action
          /\ wanUp \in BOOLEAN
          /\ supl \in BOOLEAN
          /\ call \in {"none", "connect", "disconnect"}
          /\ reports \in Seq(BOOLEAN)
          /\ ready \in BOOLEAN
          /\ network \in Network \cup {Never}
          /\ sent \in Network \cup {Never}
          /\ halNetwork \in Network \cup {Never}

(* GPSPositionProvider::init has returned; it may have failed to open the  *)
(* nyx device.                                                             *)
Init == /\ DownloadsInit
        /\ slot = "NONE"
        /\ conn = "IDLE"
        /\ available = FALSE
        /\ thread = TRUE
        /\ phase = "up"
        /\ hal = "none"
        /\ lost = {}
        /\ wanUp = FALSE
        /\ supl = FALSE
        /\ call = "none"
        /\ reports = <<>>
        /\ ready = open
        /\ network = Never
        /\ sent = Never
        /\ halNetwork = Never

-----------------------------------------------------------------------------
(* A new action for the thread; what it replaces is gone.                  *)
Post(a) == /\ slot' = a
           /\ lost' = IF slot \in {"NONE", a} THEN lost ELSE lost \cup {slot}

(* The main loop is free for the next event.                               *)
MainLoop == phase = "up" /\ pc[Main] = "out"

(* agpsStatusCb, for the two states of which more is made than a log line. *)
AgpsStatus(a) ==
    /\ "atl" \in may
    /\ open
    /\ pc[Hal] = "out"
    /\ Post(a)
    /\ UNCHANGED <<downloads, conn, available, hal, wan, ril, thread, phase>>

(* xtraDataCb: the data may be missing.                                    *)
XtraData ==
    /\ open
    /\ "data" \in asked
    /\ asked' = asked \ {"data"}
    /\ Post("XTRA_DATA")
    /\ UNCHANGED <<may, open, xtraDefault, clock, ntp, client, xtra, pc,
                   conn, available, hal, wan, ril, thread, phase>>

(* xtraTimeCb                                                              *)
XtraTime ==
    /\ open
    /\ "time" \in asked
    /\ asked' = asked \ {"time"}
    /\ Post("XTRA_TIME")
    /\ UNCHANGED <<may, open, xtraDefault, clock, ntp, client, xtra, pc,
                   conn, available, hal, wan, ril, thread, phase>>

-----------------------------------------------------------------------------
(* gpsThreadProc, from one wait to the next.                               *)

(* A broken variant: with nobody to ask, the connection counts as failed.  *)
OpenConnection_Fails ==
    /\ slot = "OPEN_ATL"
    /\ \/ available /\ conn' = "OPEN" /\ hal' = "open" /\ UNCHANGED call
       \/ ~available /\ wanUp /\ conn' = "IDLE" /\ call' = "connect" /\ UNCHANGED hal
       \/ ~available /\ ~wanUp /\ conn' = "FAILED" /\ UNCHANGED <<hal, call>>
    /\ UNCHANGED <<ntp, xtra>>

(* ACTION_OPEN_ATL, with a network, without one, and without a WAN service *)
(* to ask for one.                                                         *)
OpenConnection ==
    /\ slot = "OPEN_ATL"
    /\ \/ available /\ conn' = "OPEN" /\ hal' = "open" /\ UNCHANGED call
       \/ ~available /\ wanUp /\ conn' = "IDLE" /\ call' = "connect" /\ UNCHANGED hal
       \/ ~available /\ ~wanUp /\ UNCHANGED <<conn, hal, call>>
    /\ UNCHANGED <<ntp, xtra>>

(* ACTION_CLOSE_ATL                                                        *)
CloseConnection ==
    /\ slot = "CLOSE_ATL"
    /\ \/ available /\ call' = "disconnect" /\ UNCHANGED <<conn, hal>>
       \/ ~available /\ conn' = "CLOSED" /\ hal' = "closed" /\ UNCHANGED call
    /\ UNCHANGED <<ntp, xtra>>

(* ACTION_XTRA_DATA and ACTION_XTRA_TIME                                   *)
InjectExtra ==
    /\ \/ slot = "XTRA_DATA" /\ xtra' = "IDLE" /\ UNCHANGED ntp
       \/ slot = "XTRA_TIME" /\ ntp' = "IDLE" /\ UNCHANGED xtra
    /\ UNCHANGED <<conn, hal, call>>

Work ==
    /\ thread
    /\ OpenConnection \/ CloseConnection \/ InjectExtra
    /\ slot' = "NONE"
    /\ UNCHANGED <<may, open, xtraDefault, clock, client, asked, pc, available, lost,
                   wanUp, supl, reports, ril, thread, phase>>

Quit ==
    /\ thread
    /\ slot = "QUIT"
    /\ thread' = FALSE
    /\ UNCHANGED <<downloads, atl, wan, ril, phase>>

-----------------------------------------------------------------------------
(* The WAN service, GpsWanInterface and updateNetworkState.                *)

(* The WAN service's own doing, of itself or as it has been asked; every   *)
(* change of the context is reported to who subscribes.                    *)
SuplChanges ==
    /\ "wan" \in may
    /\ wanUp
    /\ Len(reports) < MaxReports
    /\ supl' = ~supl
    /\ reports' = Append(reports, ~supl)
    /\ call' = IF call = (IF supl THEN "disconnect" ELSE "connect") THEN "none" ELSE call
    /\ UNCHANGED <<downloads, atl, wanUp, ril, thread, phase>>

(* serviceStarted subscribes to the contexts, and the first answer says    *)
(* how things are.                                                         *)
ServiceStarted ==
    /\ "wan" \in may
    /\ MainLoop
    /\ ~wanUp
    /\ wanUp' = TRUE
    /\ reports' = <<supl>>
    /\ UNCHANGED <<downloads, atl, supl, call, ril, thread, phase>>

(* serviceStopped gives the subscription up; the contexts went with the    *)
(* service.                                                                *)
ServiceStopped ==
    /\ MainLoop
    /\ wanUp
    /\ wanUp' = FALSE
    /\ supl' = FALSE
    /\ reports' = <<>>
    /\ call' = "none"
    /\ UNCHANGED <<downloads, atl, ril, thread, phase>>

(* A broken variant: the HAL keeps a connection whose network has gone.    *)
UpdateNetworkState_KeepsOpen(up) ==
    /\ available' = up
    /\ IF up /\ ~available /\ conn = "IDLE" THEN Post("OPEN_ATL")
       ELSE UNCHANGED <<slot, lost>>

(* A broken variant: that the network has gone is for others to see.       *)
UpdateNetworkState_OnlyUp(up) ==
    /\ available' = (up \/ available)
    /\ IF up /\ ~available /\ conn = "IDLE" THEN Post("OPEN_ATL")
       ELSE UNCHANGED <<slot, lost>>

(* updateNetworkState: only a change counts.                               *)
UpdateNetworkState(up) ==
    /\ available' = up
    /\ IF up /\ ~available /\ conn = "IDLE" THEN Post("OPEN_ATL")
       ELSE IF ~up /\ available /\ conn = "OPEN" THEN Post("CLOSE_ATL")
       ELSE UNCHANGED <<slot, lost>>

(* getContextCb                                                            *)
GetContext ==
    /\ MainLoop
    /\ reports # <<>>
    /\ reports' = Tail(reports)
    /\ UpdateNetworkState(Head(reports))
    /\ UNCHANGED <<downloads, conn, hal, wanUp, supl, call, ril, thread, phase>>

-----------------------------------------------------------------------------
(* The data network.                                                       *)

(* A broken variant: what the HAL failed to take counts as sent.           *)
SendDataNetwork_Once(n) ==
    IF ~ready \/ sent = n THEN UNCHANGED <<sent, halNetwork>>
    ELSE /\ sent' = n
         /\ \/ "no_ril" \notin may /\ halNetwork' = n
            \/ {"no_ril", "ril_fails"} \cap may # {} /\ UNCHANGED halNetwork

(* sendDataNetworkLocked: a HAL without IAGnssRil answers NOT_IMPLEMENTED, *)
(* which is as good as sent.                                               *)
SendDataNetwork(n) ==
    IF ~ready \/ sent = n THEN UNCHANGED <<sent, halNetwork>>
    ELSE \/ "no_ril" \notin may /\ sent' = n /\ halNetwork' = n
         \/ "no_ril" \in may /\ sent' = n /\ UNCHANGED halNetwork
         \/ "ril_fails" \in may /\ UNCHANGED <<sent, halNetwork>>

(* updateDataNetwork                                                       *)
UpdateDataNetwork(n) ==
    /\ "network" \in may
    /\ MainLoop
    /\ network' = n
    /\ SendDataNetwork(n)
    /\ UNCHANGED <<downloads, atl, wan, ready, thread, phase>>

-----------------------------------------------------------------------------
(* shutdown, from the destructor of the provider.                          *)

ShutdownBegins ==
    /\ "exit" \in may
    /\ MainLoop
    /\ phase' = "closing"
    /\ ready' = FALSE
    /\ UNCHANGED <<downloads, atl, wan, network, sent, halNetwork, thread>>

(* deInitialize: a callback of the HAL that has begun comes to its end.    *)
Deinitialize ==
    /\ phase = "closing"
    /\ pc[Hal] = "out"
    /\ phase' = "closed"
    /\ open' = FALSE
    /\ UNCHANGED <<may, xtraDefault, clock, ntp, client, xtra, asked, pc,
                   atl, wan, ril, thread>>

(* A broken variant: the thread is told to quit before the nyx device is   *)
(* closed.                                                                 *)
PostQuit_Early ==
    /\ phase \in {"closing", "closed"}
    /\ phase' = "joining"
    /\ Post("QUIT")
    /\ UNCHANGED <<downloads, conn, available, hal, wan, ril, thread>>

PostQuit ==
    /\ phase = "closed"
    /\ phase' = "joining"
    /\ Post("QUIT")
    /\ UNCHANGED <<downloads, conn, available, hal, wan, ril, thread>>

Joined ==
    /\ phase = "joining"
    /\ ~thread
    /\ phase' = "gone"
    /\ UNCHANGED <<downloads, atl, wan, ril, thread>>

-----------------------------------------------------------------------------
(* A request for time or XTRA data by the HAL or from the main loop, and   *)
(* what comes of it.                                                       *)
Requests ==
    /\ \/ open /\ (RequestTime(Hal) \/ RequestXtra(Hal))
       \/ MainLoop /\ (RequestTime(Main) \/ RequestXtra(Main))
    /\ UNCHANGED <<atl, wan, ril, thread, phase>>

Downloading ==
    /\ \/ SetClock
       \/ \E p \in Proc : CallerStep(p) \/ DownloadStep(p)
    /\ UNCHANGED <<atl, wan, ril, thread, phase>>

Closing == ShutdownBegins \/ Deinitialize \/ PostQuit \/ Joined

Next == \/ AgpsStatus("OPEN_ATL") \/ AgpsStatus("CLOSE_ATL")
        \/ XtraData \/ XtraTime
        \/ Work \/ Quit
        \/ SuplChanges \/ ServiceStarted \/ ServiceStopped \/ GetContext
        \/ \E n \in Network : UpdateDataNetwork(n)
        \/ Closing
        \/ Requests \/ Downloading

Spec == Init /\ [][Next]_vars

(* The thread is woken by whoever gives it work, downloads and callbacks   *)
(* come to an end, and so does a shutdown that has begun.                  *)
Fairness == /\ WF_vars(Work) /\ WF_vars(Quit) /\ WF_vars(Downloading)
            /\ WF_vars(phase # "up" /\ Closing)

FairSpec == Spec /\ Fairness

-----------------------------------------------------------------------------
(* As long as no request for opening or closing was replaced in the slot,  *)
(* the HAL is told of a connection that is gone, and the network it waits  *)
(* for is handed to it: a network that comes or goes finds its action in   *)
(* the slot until the thread has taken it (updateNetworkState,             *)
(* gpsThreadProc).                                                         *)
HalConnectionFollows ==
    lost \cap {"OPEN_ATL", "CLOSE_ATL"} = {} =>
        /\ hal = "open" /\ ~available => slot = "CLOSE_ATL"
        /\ conn = "IDLE" /\ available => slot = "OPEN_ATL"

(* With the WAN service up and every report in, the provider knows whether *)
(* there is a network, whatever became of the service in between           *)
(* (serviceStarted, serviceStopped, getContextCb).                         *)
AvailabilityFollows == wanUp /\ reports = <<>> => available = supl

(* "Sent when it changes": a HAL with IAGnssRil knows of the data network  *)
(* reported last; if it failed then, the report does not count as sent,    *)
(* and the next one is made whatever it says (sendDataNetworkLocked).      *)
HalKnowsNetwork ==
    ready /\ network # Never /\ "no_ril" \notin may =>
        halNetwork = network \/ ("ril_fails" \in may /\ sent # network)

(* XTRA data is being downloaded if the state says so, or has arrived;     *)
(* what the nyx module refused, and what another action replaced in the    *)
(* slot, is the exception.                                                 *)
XtraIsNotLatched ==
    xtra = "DOWNLOADING" =>
        \/ \E p \in Proc : pc[p] = "xtra_fetches"
        \/ "data" \in asked \/ slot = "XTRA_DATA" \/ "XTRA_DATA" \in lost
        \/ "nyx_fails" \in may \/ ~open

(* No state that says a download runs is left behind, in NtpClient or in   *)
(* the provider, by whichever threads request, fail and end.               *)
DownloadsAreNotLatched == ClientIsNotLatched /\ XtraIsNotLatched

(* The thread is joined by a shutdown that waits for it: ACTION_QUIT       *)
(* reaches the thread (shutdown).                                          *)
ShutdownEnds == phase = "joining" ~> phase = "gone"
=============================================================================
