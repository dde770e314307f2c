-------------------------- MODULE GpsThreadProofs ---------------------------
(***************************************************************************)
(* What holds of the GPS thread and the downloads for every value of the   *)
(* constants: any number of download threads, any set of worlds, any bound *)
(* on the reports under way.                                               *)
(***************************************************************************)
EXTENDS GpsThread, TLAPS

(* Callers and download threads are processes.                             *)
LEMMA CallerInProc == Caller \subseteq Proc /\ Worker \subseteq Proc
BY DEF Proc

-----------------------------------------------------------------------------
(* The downloads.                                                          *)

(* A request that is let in leaves types and client as they were.         *)
LEMMA RequestsKeep ==
    ASSUME DownloadsOK, ClientIsNotLatched, NEW p \in Caller,
           RequestTime(p) \/ RequestXtra(p)
    PROVE  DownloadsOK' /\ ClientIsNotLatched' /\ UNCHANGED <<may, open>>
<1>1. p \in Proc /\ pc[p] = "out"
    BY CallerInProc DEF RequestTime, RequestXtra, Goes
<1>2. CASE RequestTime(p)
    <2>1. pc' = [pc EXCEPT ![p] = "time_given"]
        BY <1>2 DEF RequestTime, Goes
    <2>2. DownloadsOK'
        BY <1>1, <1>2, <2>1 DEF RequestTime, DownloadsOK, Place, Download
    <2>3. ClientIsNotLatched'
        BY <1>1, <1>2, <2>1 DEF RequestTime, ClientIsNotLatched, DownloadsOK
    <2> QED BY <1>2, <2>2, <2>3 DEF RequestTime
<1>3. CASE RequestXtra(p)
    <2>1. pc' = [pc EXCEPT ![p] = "xtra_free"]
        BY <1>3 DEF RequestXtra, Goes
    <2>2. DownloadsOK'
        BY <1>1, <1>3, <2>1 DEF RequestXtra, DownloadsOK, Place, Download
    <2>3. ClientIsNotLatched'
        BY <1>1, <1>3, <2>1 DEF RequestXtra, ClientIsNotLatched, DownloadsOK
    <2> QED BY <1>3, <2>2, <2>3 DEF RequestXtra
<1> QED BY <1>2, <1>3

(* A caller's next step: the client is busy only with a thread at work, or *)
(* with the caller about to take it back.                                  *)
LEMMA CallerKeeps ==
    ASSUME DownloadsOK, ClientIsNotLatched, NEW p \in Proc, CallerStep(p)
    PROVE  DownloadsOK' /\ ClientIsNotLatched' /\ UNCHANGED <<may, open>>
<1>1. CASE LooksAtNtp(p)
    BY <1>1 DEF LooksAtNtp, Goes, ClientIsNotLatched, DownloadsOK, Place
<1>2. CASE NotesNtp(p)
    BY <1>2 DEF NotesNtp, Goes, ClientIsNotLatched, DownloadsOK, Place, Download
<1>3. CASE AsksNyxForTime(p)
    BY <1>3 DEF AsksNyxForTime, Goes, ClientIsNotLatched, DownloadsOK, Place
<1>4. CASE StartsClient(p)
    BY <1>4 DEF StartsClient, Goes, ClientIsNotLatched, DownloadsOK, Place
<1>5. CASE CreatesNtpThread(p)
    <2>1. PICK q \in Proc : /\ pc' \in [Proc -> Place]
                            /\ pc'[q] \in {"query", "failing"}
        <3>1. CASE \E w \in Worker : /\ pc[w] = "out"
                                     /\ pc' = [pc EXCEPT ![p] = "out", ![w] = "query"]
            BY <3>1, CallerInProc DEF DownloadsOK, Place
        <3>2. CASE pc' = [pc EXCEPT ![p] = "failing"]
            BY <3>2 DEF DownloadsOK, Place
        <3> QED BY <1>5, <3>1, <3>2 DEF CreatesNtpThread
    <2> QED BY <1>5, <2>1 DEF CreatesNtpThread, ClientIsNotLatched, DownloadsOK, Download
<1>6. CASE AsksNyxForXtra(p)
    BY <1>6 DEF AsksNyxForXtra, Goes, ClientIsNotLatched, DownloadsOK, Place, Download
<1>7. CASE CreatesXtraThread(p)
    <2>1. PICK w \in Worker : /\ pc[w] = "out"
                              /\ pc' = [pc EXCEPT ![p] = "out", ![w] = "xtra_begins"]
        BY <1>7 DEF CreatesXtraThread
    <2>2. \A q \in Proc : pc[q] \in {"query", "answered", "failing"} => pc'[q] = pc[q]
        BY <1>7, <2>1 DEF CreatesXtraThread, DownloadsOK
    <2>3. pc' \in [Proc -> Place]
        BY <2>1, CallerInProc DEF DownloadsOK, Place
    <2> QED BY <1>7, <2>2, <2>3 DEF CreatesXtraThread, ClientIsNotLatched, DownloadsOK
<1> QED BY <1>1, <1>2, <1>3, <1>4, <1>5, <1>6, <1>7 DEF CallerStep

(* A download thread's next step.                                          *)
LEMMA DownloadKeeps ==
    ASSUME DownloadsOK, ClientIsNotLatched, NEW p \in Proc, DownloadStep(p)
    PROVE  DownloadsOK' /\ ClientIsNotLatched' /\ UNCHANGED <<may, open>>
<1>1. CASE NtpGivesUp(p)
    BY <1>1 DEF NtpGivesUp, Goes, ClientIsNotLatched, DownloadsOK, Place, Download
<1>2. CASE ReportsNoTime(p)
    BY <1>2 DEF ReportsNoTime, Goes, ClientIsNotLatched, DownloadsOK, Place, Download
<1>3. CASE NtpAnswers(p)
    BY <1>3 DEF NtpAnswers, Goes, ClientIsNotLatched, DownloadsOK, Place, Download
<1>4. CASE NtpEnds(p)
    BY <1>4 DEF NtpEnds, Goes, ClientIsNotLatched, DownloadsOK, Place, Download
<1>5. CASE XtraBegins(p)
    BY <1>5 DEF XtraBegins, Goes, ClientIsNotLatched, DownloadsOK, Place, Download
<1>6. CASE XtraEnds(p)
    BY <1>6 DEF XtraEnds, Goes, ClientIsNotLatched, DownloadsOK, Place, Download
<1> QED BY <1>1, <1>2, <1>3, <1>4, <1>5, <1>6 DEF DownloadStep

(* The two together, as steps of the whole.                                *)
LEMMA RequestsStep ==
    ASSUME DownloadsOK, ClientIsNotLatched, Requests \/ Downloading
    PROVE  /\ DownloadsOK' /\ ClientIsNotLatched'
           /\ UNCHANGED <<may, open, atl, wan, ril, thread, phase>>
<1>1. CASE Requests
    BY <1>1, RequestsKeep DEF Requests, Caller
<1>2. CASE Downloading
    <2>1. CASE SetClock
        BY <1>2, <2>1 DEF Downloading, SetClock, DownloadsOK, ClientIsNotLatched
    <2>2. CASE \E p \in Proc : CallerStep(p) \/ DownloadStep(p)
        BY <1>2, <2>2, CallerKeeps, DownloadKeeps DEF Downloading
    <2> QED BY <1>2, <2>1, <2>2 DEF Downloading
<1> QED BY <1>1, <1>2

-----------------------------------------------------------------------------
(* The inductive invariant.  Beyond the properties: while no request for   *)
(* the connection was replaced, the HAL has a connection only if the       *)
(* provider knows it has; the last report on its way is how things are;    *)
(* what counts as sent has reached a HAL with IAGnssRil, and with a HAL    *)
(* that does not fail that is what was reported last.                      *)

Unreplaced == lost \cap {"OPEN_ATL", "CLOSE_ATL"} = {}

Connection == /\ HalConnectionFollows
              /\ Unreplaced /\ hal = "open" => conn = "OPEN"

Reports == /\ AvailabilityFollows
           /\ wanUp /\ reports # <<>> => reports[Len(reports)] = supl

DataNetwork ==
    "no_ril" \notin may =>
        /\ sent # Never => halNetwork = sent
        /\ ready /\ network # Never /\ "ril_fails" \notin may => sent = network

IInv == /\ TypeOK /\ Connection /\ Reports /\ DataNetwork
        /\ ClientIsNotLatched

(* The invariant holds at the start.                                       *)
LEMMA InitIInv == Init => IInv
<1> SUFFICES ASSUME Init PROVE IInv
    OBVIOUS
<1>1. DownloadsOK /\ ClientIsNotLatched
    BY DEF Init, DownloadsInit, DownloadsOK, ClientIsNotLatched, Place, Download
<1>2. ready \in BOOLEAN
    BY DEF Init, DownloadsInit
<1>3. TypeOK
    <2>1. reports \in Seq(BOOLEAN) /\ lost \subseteq Action
        BY DEF Init
    <2> QED BY <1>1, <1>2, <2>1 DEF Init, TypeOK
<1>4. Connection /\ Reports /\ DataNetwork
    BY DEF Init, Connection, HalConnectionFollows, Unreplaced, Reports,
           AvailabilityFollows, DataNetwork
<1> QED BY <1>1, <1>3, <1>4 DEF IInv

(* What is left of the reports ends as they did.                           *)
LEMMA TailEnds ==
    ASSUME NEW q \in Seq(BOOLEAN), q # <<>>
    PROVE  /\ Head(q) \in BOOLEAN /\ Tail(q) \in Seq(BOOLEAN)
           /\ Tail(q) = <<>> => Head(q) = q[Len(q)]
           /\ Tail(q) # <<>> => Tail(q)[Len(Tail(q))] = q[Len(q)]
<1>1. Head(q) \in BOOLEAN /\ Tail(q) \in Seq(BOOLEAN)
    OBVIOUS
<1>2. Len(q) \in Nat /\ Len(q) # 0 /\ Len(Tail(q)) = Len(q) - 1
    OBVIOUS
<1>3. Tail(q) = <<>> => Head(q) = q[Len(q)]
    <2>1. Tail(q) = <<>> => Len(q) = 1
        <3>1. Len(<< >>) = 0
            OBVIOUS
        <3>2. Tail(q) = << >> => Len(Tail(q)) = 0
            BY <3>1
        <3> QED BY <1>2, <3>2
    <2>2. Head(q) = q[1]
        OBVIOUS
    <2> QED BY <2>1, <2>2
<1>4. Tail(q) # <<>> => Tail(q)[Len(Tail(q))] = q[Len(q)]
    <2> SUFFICES ASSUME Tail(q) # <<>> PROVE Tail(q)[Len(Tail(q))] = q[Len(q)]
        OBVIOUS
    <2>1. Len(Tail(q)) \in 1 .. Len(q) - 1
        BY <1>1, <1>2
    <2>2. \A i \in 1 .. Len(q) - 1 : Tail(q)[i] = q[i + 1]
        OBVIOUS
    <2> QED BY <1>2, <2>1, <2>2
<1> QED BY <1>1, <1>3, <1>4

(* A report joins the others, last.                                        *)
LEMMA AppendEnds ==
    ASSUME NEW q \in Seq(BOOLEAN), NEW b \in BOOLEAN
    PROVE  /\ Append(q, b) \in Seq(BOOLEAN) /\ Append(q, b) # <<>>
           /\ Append(q, b)[Len(Append(q, b))] = b
OBVIOUS

-----------------------------------------------------------------------------
(* The steps that touch the slot and the connection.                       *)
LEMMA AgpsStatusKeeps ==
    ASSUME IInv, NEW a \in {"OPEN_ATL", "CLOSE_ATL"}, AgpsStatus(a)
    PROVE  IInv'
<1> USE DEF AgpsStatus, Post, downloads, wan, ril
<1>1. TypeOK'
    BY DEF IInv, TypeOK, DownloadsOK, Action
<1>2. Connection'
    BY DEF IInv, TypeOK, Connection, HalConnectionFollows, Unreplaced, Action
<1>3. Reports' /\ DataNetwork' /\ ClientIsNotLatched'
    BY DEF IInv, Reports, AvailabilityFollows, DataNetwork, ClientIsNotLatched
<1> QED BY <1>1, <1>2, <1>3 DEF IInv

(* The nyx module's client has something for the thread.                   *)
LEMMA ArrivalKeeps ==
    ASSUME IInv, XtraData \/ XtraTime
    PROVE  IInv'
<1>1. PICK a \in {"XTRA_DATA", "XTRA_TIME"} : Post(a)
    BY DEF XtraData, XtraTime
<1>2. /\ asked' \subseteq asked
      /\ UNCHANGED <<may, open, xtraDefault, clock, ntp, client, xtra, pc>>
      /\ UNCHANGED <<conn, available, hal, wan, ril, thread, phase>>
    BY DEF XtraData, XtraTime
<1>3. TypeOK'
    <2>1. DownloadsOK'
        BY <1>2 DEF IInv, TypeOK, DownloadsOK
    <2> QED BY <1>1, <1>2, <2>1 DEF IInv, TypeOK, Post, Action, wan, ril
<1>4. Connection'
    BY <1>1, <1>2 DEF IInv, TypeOK, Connection, HalConnectionFollows, Unreplaced,
                      Post, Action
<1>5. Reports' /\ DataNetwork' /\ ClientIsNotLatched'
    BY <1>2 DEF IInv, Reports, AvailabilityFollows, DataNetwork,
                ClientIsNotLatched, wan, ril
<1> QED BY <1>3, <1>4, <1>5 DEF IInv

(* What the thread does with an action.                                    *)
LEMMA WorkKeeps ==
    ASSUME IInv, Work
    PROVE  IInv'
<1> USE DEF Work, OpenConnection, CloseConnection, InjectExtra, ril
<1>1. TypeOK'
    BY DEF IInv, TypeOK, DownloadsOK, Action, Download
<1>2. Connection'
    BY DEF IInv, TypeOK, Connection, HalConnectionFollows, Unreplaced, Action
<1>3. Reports' /\ DataNetwork' /\ ClientIsNotLatched'
    BY DEF IInv, Reports, AvailabilityFollows, DataNetwork, ClientIsNotLatched
<1> QED BY <1>1, <1>2, <1>3 DEF IInv

(* A report of the WAN service reaches the provider.                       *)
LEMMA GetContextKeeps ==
    ASSUME IInv, GetContext
    PROVE  IInv'
<1> USE DEF GetContext, UpdateNetworkState, Post, downloads, ril
<1>1. reports \in Seq(BOOLEAN) /\ reports # <<>>
    BY DEF IInv, TypeOK
<1>2. /\ Head(reports) \in BOOLEAN /\ Tail(reports) \in Seq(BOOLEAN)
      /\ Tail(reports) = <<>> => Head(reports) = reports[Len(reports)]
      /\ Tail(reports) # <<>> =>
            Tail(reports)[Len(Tail(reports))] = reports[Len(reports)]
    BY <1>1, TailEnds
<1>3. TypeOK'
    <2>1. DownloadsOK'
        BY DEF IInv, TypeOK, DownloadsOK
    <2>2. slot' \in Action \cup {"NONE"} /\ lost' \subseteq Action
        BY DEF IInv, TypeOK, Action
    <2>3. UNCHANGED <<conn, hal, wanUp, supl, call, ready, network, sent, halNetwork,
                      thread, phase>> /\ available' \in BOOLEAN /\ reports' = Tail(reports)
        BY <1>2
    <2> QED BY <1>2, <2>1, <2>2, <2>3 DEF IInv, TypeOK
<1>4. Connection'
    BY <1>2 DEF IInv, TypeOK, Connection, HalConnectionFollows, Unreplaced, Action
<1>5. Reports'
    BY <1>1, <1>2 DEF IInv, Reports, AvailabilityFollows
<1>6. DataNetwork' /\ ClientIsNotLatched'
    BY DEF IInv, DataNetwork, ClientIsNotLatched
<1> QED BY <1>3, <1>4, <1>5, <1>6 DEF IInv

(* The steps of the WAN service.                                           *)
LEMMA WanKeeps ==
    ASSUME IInv, SuplChanges \/ ServiceStarted \/ ServiceStopped
    PROVE  IInv'
<1>1. CASE SuplChanges
    <2>1. reports' \in Seq(BOOLEAN) /\ reports' # <<>> /\ reports'[Len(reports')] = supl'
        BY <1>1, AppendEnds DEF SuplChanges, IInv, TypeOK
    <2>2. TypeOK'
        BY <1>1, <2>1 DEF SuplChanges, IInv, TypeOK, DownloadsOK, downloads, atl, ril
    <2>3. Connection' /\ DataNetwork' /\ ClientIsNotLatched'
        BY <1>1 DEF SuplChanges, IInv, Connection, HalConnectionFollows, Unreplaced,
                    DataNetwork, ClientIsNotLatched, downloads, atl, ril
    <2>4. Reports'
        BY <2>1 DEF Reports, AvailabilityFollows
    <2> QED BY <2>2, <2>3, <2>4 DEF IInv
<1>2. CASE ServiceStarted
    <2>1. reports' \in Seq(BOOLEAN) /\ reports' # <<>> /\ reports'[Len(reports')] = supl'
        BY <1>2 DEF ServiceStarted, IInv, TypeOK
    <2>2. TypeOK'
        BY <1>2, <2>1 DEF ServiceStarted, IInv, TypeOK, DownloadsOK, downloads, atl, ril
    <2>3. Connection' /\ DataNetwork' /\ ClientIsNotLatched'
        BY <1>2 DEF ServiceStarted, IInv, Connection, HalConnectionFollows, Unreplaced,
                    DataNetwork, ClientIsNotLatched, downloads, atl, ril
    <2>4. Reports'
        BY <2>1 DEF Reports, AvailabilityFollows
    <2> QED BY <2>2, <2>3, <2>4 DEF IInv
<1>3. CASE ServiceStopped
    <2>1. TypeOK'
        <3>1. reports' \in Seq(BOOLEAN)
            BY <1>3 DEF ServiceStopped
        <3>2. DownloadsOK'
            BY <1>3 DEF ServiceStopped, IInv, TypeOK, DownloadsOK, downloads
        <3>3. /\ wanUp' = FALSE /\ supl' = FALSE /\ call' = "none"
              /\ UNCHANGED <<slot, conn, available, hal, lost, ready, network, sent,
                             halNetwork, thread, phase>>
            BY <1>3 DEF ServiceStopped, atl, ril
        <3> QED BY <3>1, <3>2, <3>3 DEF IInv, TypeOK
    <2>2. Connection' /\ DataNetwork' /\ ClientIsNotLatched'
        BY <1>3 DEF ServiceStopped, IInv, Connection, HalConnectionFollows, Unreplaced,
                    DataNetwork, ClientIsNotLatched, downloads, atl, ril
    <2>3. Reports'
        BY <1>3 DEF ServiceStopped, Reports, AvailabilityFollows
    <2> QED BY <2>1, <2>2, <2>3 DEF IInv
<1> QED BY <1>1, <1>2, <1>3

(* The steps that tell the HAL about the data network.                     *)
LEMMA UpdateDataNetworkKeeps ==
    ASSUME IInv, NEW n \in Network, UpdateDataNetwork(n)
    PROVE  IInv'
<1> USE DEF UpdateDataNetwork
<1>1. /\ sent' \in {sent, n} /\ halNetwork' \in {halNetwork, n} /\ network' = n
      /\ UNCHANGED <<downloads, atl, wan, ready, thread, phase>>
    BY DEF SendDataNetwork
<1>2. TypeOK'
    BY <1>1 DEF IInv, TypeOK, DownloadsOK, downloads, atl, wan
<1>3. Connection' /\ Reports' /\ ClientIsNotLatched'
    BY <1>1 DEF IInv, Connection, HalConnectionFollows, Unreplaced, Reports,
                AvailabilityFollows, ClientIsNotLatched, downloads, atl, wan
<1>4. DataNetwork'
    BY <1>1 DEF IInv, DataNetwork, SendDataNetwork, downloads
<1> QED BY <1>2, <1>3, <1>4 DEF IInv

(* The end of the process, and that of the thread.                         *)
LEMMA ClosingKeeps ==
    ASSUME IInv, Closing \/ Quit
    PROVE  IInv'
<1>1. /\ UNCHANGED <<may, xtraDefault, clock, ntp, client, xtra, asked, pc>>
      /\ open' \in {open, FALSE}
      /\ UNCHANGED <<conn, available, hal, wanUp, supl, call, reports>>
      /\ UNCHANGED <<network, sent, halNetwork>>
      /\ ready' \in {ready, FALSE} /\ thread' \in {thread, FALSE}
      /\ phase' \in {phase, "closing", "closed", "joining", "gone"}
      /\ (UNCHANGED <<slot, lost>>) \/ Post("QUIT")
    <2> USE DEF downloads, atl, wan, ril
    <2>1. CASE Quit BY <2>1 DEF Quit
    <2>2. CASE ShutdownBegins BY <2>2 DEF ShutdownBegins
    <2>3. CASE Deinitialize BY <2>3 DEF Deinitialize
    <2>4. CASE PostQuit BY <2>4 DEF PostQuit
    <2>5. CASE Joined BY <2>5 DEF Joined
    <2> QED BY <2>1, <2>2, <2>3, <2>4, <2>5 DEF Closing
<1>2. slot' \in Action \cup {"NONE"} /\ lost' \subseteq Action
    BY <1>1 DEF IInv, TypeOK, Post, Action
<1>3. DownloadsOK' /\ ClientIsNotLatched'
    BY <1>1 DEF IInv, TypeOK, DownloadsOK, ClientIsNotLatched
<1>4. /\ ready' \in BOOLEAN /\ thread' \in BOOLEAN
      /\ phase' \in {"up", "closing", "closed", "joining", "gone"}
    BY <1>1 DEF IInv, TypeOK
<1>5. TypeOK'
    BY <1>1, <1>2, <1>3, <1>4 DEF IInv, TypeOK
<1>6. Connection'
    BY <1>1 DEF IInv, TypeOK, Connection, HalConnectionFollows, Unreplaced,
                Post, Action
<1>7. Reports'
    BY <1>1 DEF IInv, Reports, AvailabilityFollows
<1>8. DataNetwork'
    <2>1. ready' => ready
        BY <1>1
    <2> QED BY <1>1, <2>1 DEF IInv, DataNetwork
<1> QED BY <1>3, <1>5, <1>6, <1>7, <1>8 DEF IInv

(* Requests and downloads leave the rest alone.                            *)
LEMMA DownloadsKeep ==
    ASSUME IInv, Requests \/ Downloading
    PROVE  IInv'
<1>1. /\ DownloadsOK' /\ ClientIsNotLatched'
      /\ UNCHANGED <<may, open, atl, wan, ril, thread, phase>>
    BY RequestsStep DEF IInv, TypeOK
<1>2. TypeOK'
    BY <1>1 DEF IInv, TypeOK, atl, wan, ril
<1>3. Connection' /\ Reports' /\ DataNetwork'
    BY <1>1 DEF IInv, Connection, HalConnectionFollows, Unreplaced, Reports,
                AvailabilityFollows, DataNetwork, atl, wan, ril
<1> QED BY <1>1, <1>2, <1>3 DEF IInv

(* Nothing happens.                                                        *)
LEMMA StutterKeeps == ASSUME IInv, UNCHANGED vars PROVE IInv'
<1>1. TypeOK'
    BY DEF IInv, TypeOK, DownloadsOK, vars, downloads, atl, wan, ril
<1>2. Connection' /\ Reports' /\ DataNetwork' /\ ClientIsNotLatched'
    BY DEF IInv, Connection, HalConnectionFollows, Unreplaced, Reports,
           AvailabilityFollows, DataNetwork, ClientIsNotLatched,
           vars, downloads, atl, wan, ril
<1> QED BY <1>1, <1>2 DEF IInv

(* Every step of the whole keeps the invariant.                            *)
LEMMA StepKeeps == IInv /\ [Next]_vars => IInv'
<1> SUFFICES ASSUME IInv, [Next]_vars PROVE IInv'
    OBVIOUS
<1>1. CASE AgpsStatus("OPEN_ATL") \/ AgpsStatus("CLOSE_ATL")
    BY <1>1, AgpsStatusKeeps
<1>2. CASE XtraData \/ XtraTime
    BY <1>2, ArrivalKeeps
<1>3. CASE Work
    BY <1>3, WorkKeeps
<1>4. CASE Closing \/ Quit
    BY <1>4, ClosingKeeps
<1>5. CASE SuplChanges \/ ServiceStarted \/ ServiceStopped
    BY <1>5, WanKeeps
<1>6. CASE GetContext
    BY <1>6, GetContextKeeps
<1>7. CASE \E n \in Network : UpdateDataNetwork(n)
    BY <1>7, UpdateDataNetworkKeeps
<1>8. CASE Requests \/ Downloading
    BY <1>8, DownloadsKeep
<1>9. CASE UNCHANGED vars
    BY <1>9, StutterKeeps
<1> QED BY <1>1, <1>2, <1>3, <1>4, <1>5, <1>6, <1>7, <1>8, <1>9 DEF Next

(* The invariant holds of every reachable state.                           *)
THEOREM Invariance == Spec => []IInv
BY InitIInv, StepKeeps, PTL DEF Spec

-----------------------------------------------------------------------------
(* The types of the GPS thread and the downloads.                          *)
THEOREM TypeCorrect == Spec => []TypeOK
<1>1. IInv => TypeOK
    BY DEF IInv
<1> QED BY <1>1, Invariance, PTL

(* Unless a request for it was replaced in the slot, the HAL's data        *)
(* connection follows the network (updateNetworkState, gpsThreadProc).     *)
THEOREM ConnectionFollows == Spec => []HalConnectionFollows
<1>1. IInv => HalConnectionFollows
    BY DEF IInv, Connection
<1> QED BY <1>1, Invariance, PTL

(* With every report in, the provider knows whether there is a network.    *)
THEOREM NetworkIsKnown == Spec => []AvailabilityFollows
<1>1. IInv => AvailabilityFollows
    BY DEF IInv, Reports
<1> QED BY <1>1, Invariance, PTL

(* What counts as sent has reached the HAL (sendDataNetworkLocked).        *)
THEOREM HalIsTold == Spec => []HalKnowsNetwork
<1>1. IInv => HalKnowsNetwork
    <2> SUFFICES ASSUME IInv, ready, network # Never, "no_ril" \notin may
                 PROVE  halNetwork = network \/ ("ril_fails" \in may /\ sent # network)
        BY DEF HalKnowsNetwork
    <2> QED BY DEF IInv, DataNetwork
<1> QED BY <1>1, Invariance, PTL

(* The XTRA state by itself: whoever sets it fetches, or has left it to    *)
(* the nyx module's client, whose data then waits in the slot.             *)
LEMMA XtraKept ==
    ASSUME IInv, XtraIsNotLatched, [Next]_vars
    PROVE  XtraIsNotLatched'
<1>0. TypeOK /\ DownloadsOK
    BY DEF IInv, TypeOK
<1>1. CASE Requests
    <2>1. PICK p \in Caller : RequestTime(p) \/ RequestXtra(p)
        BY <1>1 DEF Requests, Caller
    <2>2. /\ pc' = [pc EXCEPT ![p] = "time_given"] \/ pc' = [pc EXCEPT ![p] = "xtra_free"]
          /\ pc[p] = "out" /\ UNCHANGED <<may, open, xtra, asked>>
        BY <2>1 DEF RequestTime, RequestXtra, Goes
    <2>3. \A q \in Proc : pc[q] = "xtra_fetches" => pc'[q] = "xtra_fetches"
        BY <1>0, <2>2 DEF DownloadsOK
    <2> QED BY <1>1, <2>2, <2>3 DEF Requests, XtraIsNotLatched, atl
<1>2. CASE Downloading
    <2>1. UNCHANGED <<slot, lost>>
        BY <1>2 DEF Downloading, atl
    <2>2. CASE SetClock
        BY <2>1, <2>2 DEF SetClock, XtraIsNotLatched
    <2>3. CASE \E p \in Proc : CallerStep(p)
        <3>1. PICK p \in Proc : CallerStep(p)
            BY <2>3
        <3>2. CASE AsksNyxForXtra(p)
            BY <2>1, <3>2 DEF AsksNyxForXtra, XtraIsNotLatched
        <3>3. CASE ~ AsksNyxForXtra(p)
            <4>1. UNCHANGED <<may, open, xtra>> /\ asked \subseteq asked'
                BY <3>1, <3>3 DEF CallerStep, LooksAtNtp, NotesNtp, AsksNyxForTime,
                                  StartsClient, CreatesNtpThread, CreatesXtraThread
            <4>2. \A q \in Proc : pc[q] = "xtra_fetches" => pc'[q] = "xtra_fetches"
                <5>1. CASE CreatesNtpThread(p)
                    BY <1>0, <5>1 DEF CreatesNtpThread, DownloadsOK
                <5>2. CASE CreatesXtraThread(p)
                    BY <1>0, <5>2 DEF CreatesXtraThread, DownloadsOK
                <5>3. CASE LooksAtNtp(p) \/ NotesNtp(p) \/ AsksNyxForTime(p)
                               \/ StartsClient(p)
                    BY <1>0, <5>3 DEF LooksAtNtp, NotesNtp, AsksNyxForTime,
                                      StartsClient, Goes, DownloadsOK
                <5> QED BY <3>1, <3>3, <5>1, <5>2, <5>3 DEF CallerStep
            <4> QED BY <2>1, <4>1, <4>2 DEF XtraIsNotLatched
        <3> QED BY <3>2, <3>3
    <2>4. CASE \E p \in Proc : DownloadStep(p)
        <3>1. PICK p \in Proc : DownloadStep(p)
            BY <2>4
        <3>2. CASE XtraBegins(p)
            BY <1>0, <3>2 DEF XtraBegins, Goes, XtraIsNotLatched, DownloadsOK
        <3>3. CASE XtraEnds(p)
            BY <3>3 DEF XtraEnds, XtraIsNotLatched
        <3>4. CASE NtpGivesUp(p) \/ ReportsNoTime(p) \/ NtpAnswers(p) \/ NtpEnds(p)
            <4>1. UNCHANGED <<may, open, xtra, asked>>
                BY <3>4 DEF NtpGivesUp, ReportsNoTime, NtpAnswers, NtpEnds
            <4>2. \A q \in Proc : pc[q] = "xtra_fetches" => pc'[q] = "xtra_fetches"
                BY <1>0, <3>4 DEF NtpGivesUp, ReportsNoTime, NtpAnswers, NtpEnds,
                                  Goes, DownloadsOK
            <4> QED BY <2>1, <4>1, <4>2 DEF XtraIsNotLatched
        <3> QED BY <3>1, <3>2, <3>3, <3>4 DEF DownloadStep
    <2> QED BY <1>2, <2>2, <2>3, <2>4 DEF Downloading
<1>3. CASE XtraData
    BY <1>3 DEF XtraData, XtraIsNotLatched, Post
<1>4. CASE XtraTime
    BY <1>4 DEF XtraTime, XtraIsNotLatched, Post
<1>5. CASE \/ AgpsStatus("OPEN_ATL") \/ AgpsStatus("CLOSE_ATL")
    BY <1>5 DEF AgpsStatus, XtraIsNotLatched, Post, downloads
<1>6. CASE Work
    BY <1>6 DEF Work, OpenConnection, CloseConnection, InjectExtra, XtraIsNotLatched
<1>7. CASE GetContext
    BY <1>7 DEF GetContext, UpdateNetworkState, XtraIsNotLatched, Post, downloads
<1>8. CASE Closing
    <2>1. CASE ShutdownBegins \/ Joined
        BY <2>1 DEF ShutdownBegins, Joined, XtraIsNotLatched, downloads, atl
    <2>2. CASE Deinitialize
        BY <2>2 DEF Deinitialize, XtraIsNotLatched, atl
    <2>3. CASE PostQuit
        BY <2>3 DEF PostQuit, XtraIsNotLatched, Post, downloads
    <2> QED BY <1>8, <2>1, <2>2, <2>3 DEF Closing
<1>9. CASE \/ Quit \/ SuplChanges \/ ServiceStarted \/ ServiceStopped
           \/ (\E n \in Network : UpdateDataNetwork(n)) \/ UNCHANGED vars
    <2>1. UNCHANGED <<downloads, slot, lost>>
        BY <1>9 DEF Quit, SuplChanges, ServiceStarted, ServiceStopped,
                    UpdateDataNetwork, vars, atl
    <2> QED BY <2>1 DEF XtraIsNotLatched, downloads
<1> QED BY <1>1, <1>2, <1>3, <1>4, <1>5, <1>6, <1>7, <1>8, <1>9 DEF Next

(* Neither the NtpClient nor the provider's XTRA state ever says that it   *)
(* downloads with nobody left to end it, however many requests come at     *)
(* once and however the threads fare.                                      *)
THEOREM DownloadsRecover == Spec => []DownloadsAreNotLatched
<1>1. Init => XtraIsNotLatched
    BY DEF Init, DownloadsInit, XtraIsNotLatched
<1>2. IInv /\ XtraIsNotLatched /\ [Next]_vars => XtraIsNotLatched'
    BY XtraKept
<1>3. IInv /\ XtraIsNotLatched => DownloadsAreNotLatched
    BY DEF IInv, DownloadsAreNotLatched
<1> QED BY <1>1, <1>2, <1>3, Invariance, PTL DEF Spec
=============================================================================
