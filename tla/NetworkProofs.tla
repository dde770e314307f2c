--------------------------- MODULE NetworkProofs ----------------------------
(***************************************************************************)
(* Theorems about NetworkProvider, for any clients, access points, cells,  *)
(* positions and faults.  The fields of the provider are read and written  *)
(* together, so what is proved of them (NetFits) is one predicate of the   *)
(* provider's state, kept by each function that makes a new one.           *)
(***************************************************************************)
EXTENDS NetworkProvider, TLAPS

NetFits(n) == n \in NetState /\ Quiet(n) /\ (n.stamped <=> n.pos # Zero)

(* Whatever becomes of the mock provider later, before it was first        *)
(* enabled neither it nor a mock request is there.                         *)
MockUnused == ~mocked => ~MockAnswers(mock) /\ ~net.mocking

NetIInv == /\ TypeOK /\ NetFits(net)
           /\ MockUnused /\ RunsForClients

-----------------------------------------------------------------------------
(* The mock provider.                                                      *)
LEMMA MockFlagsKept ==
    ASSUME NEW flag \in SUBSET MockFlag
    PROVE  /\ \A state \in BOOLEAN : SetMockState(flag, state) \in SUBSET MockFlag
           /\ StartMock(flag) \in SUBSET MockFlag
           /\ StopMock(flag) \in SUBSET MockFlag
           /\ MockAnswers(StartMock(flag)) => MockAnswers(flag)
           /\ MockAnswers(StopMock(flag)) => MockAnswers(flag)
           /\ MockAnswers(SetMockState(flag, FALSE)) => MockAnswers(flag)
<1>1. ASSUME NEW state \in BOOLEAN, state
      PROVE  SetMockState(flag, state) = flag \cup {"ENABLED"}
    BY <1>1, Zenon DEF SetMockState
<1>2. CASE "STARTED" \in flag
    <2>1. SetMockState(flag, FALSE) = flag \cup {"DISABLE_AFTER_STOP"}
        BY <1>2, Zenon DEF SetMockState
    <2> QED BY <1>1, <2>1 DEF StartMock, StopMock, MockAnswers, MockFlag
<1>3. CASE "STARTED" \notin flag
    <2>1. SetMockState(flag, FALSE) = flag \ {"ENABLED"}
        BY <1>3, Zenon DEF SetMockState
    <2> QED BY <1>1, <2>1 DEF StartMock, StopMock, MockAnswers, MockFlag
<1> QED BY <1>2, <1>3

-----------------------------------------------------------------------------
(* The provider.                                                           *)

(* STOP_POSITION_CMD leaves nothing of a request behind, but for the real  *)
(* one behind a mock request.                                              *)
LEMMA StopKeeps ==
    ASSUME NEW n, NetFits(n)
    PROVE  /\ NetFits(StopPosition(n)) /\ ~StopPosition(n).mocking
           /\ ~n.mocking => ~StopPosition(n).running
           /\ StopPosition(n).running => n.running
<1> USE DEF NetFits, NetState, Quiet
<1>1. CASE n.mocking
    BY <1>1 DEF StopPosition, ResetData
<1>2. CASE ~n.mocking /\ ~n.running
    BY <1>2 DEF StopPosition
<1>3. CASE ~n.mocking /\ n.running
    <2> DEFINE m == [n EXCEPT !.running = FALSE, !.firstCell = TRUE,
                              !.wifiSub = FALSE, !.cellSub = FALSE,
                              !.wifiReg = FALSE, !.telReg = FALSE,
                              !.timers = 0]
    <2>1. n \in NetState /\ n.timers - 1 = 0
        BY <1>3
    <2>2. /\ m \in NetState /\ m.timers = 0
          /\ ~m.running /\ ~m.mocking
          /\ ~m.wifiSub /\ ~m.cellSub /\ ~m.wifiReg /\ ~m.telReg
        BY <1>3, <2>1
    <2>3. StopPosition(n) = ResetData(m)
        BY <1>3, <2>1, Zenon DEF StopPosition
    <2> HIDE DEF m
    <2>4. /\ ResetData(m) \in NetState /\ ResetData(m).timers = 0
          /\ ~ResetData(m).running /\ ~ResetData(m).mocking
          /\ ~ResetData(m).wifiSub /\ ~ResetData(m).cellSub
          /\ ~ResetData(m).wifiReg /\ ~ResetData(m).telReg
          /\ ~ResetData(m).stamped /\ ResetData(m).pos = Zero
        BY <2>2 DEF ResetData
    <2> QED BY <2>3, <2>4
<1> QED BY <1>1, <1>2, <1>3

LEMMA StartKeeps ==
    ASSUME NEW n, NetFits(n), ~n.running, NEW t \in BOOLEAN, NEW w \in BOOLEAN
    PROVE  /\ NetFits(StartPosition(n, t, w))
           /\ (StartPosition(n, t, w).mocking <=> n.mocking)
<1> DEFINE m == [n EXCEPT !.running = TRUE, !.telReg = t, !.wifiReg = w,
                          !.timers = 1]
<1>1. n \in NetState /\ n.timers + 1 = 1 /\ ~n.wifiSub /\ ~n.cellSub
    BY DEF NetFits, NetState, Quiet
<1>2. /\ m \in NetState /\ m.timers = 1 /\ m.running
      /\ (m.mocking <=> n.mocking) /\ (m.stamped <=> n.stamped)
      /\ m.pos = n.pos /\ (m.wifiSub <=> n.wifiSub) /\ (m.cellSub <=> n.cellSub)
    BY <1>1 DEF NetState
<1> HIDE DEF m
<1>3. NetFits(m) /\ (m.mocking <=> n.mocking)
    BY <1>1, <1>2 DEF NetFits, Quiet
<1>4. StartPosition(n, t, w) = m
    BY <1>1, Zenon DEF StartPosition, m
<1> QED BY <1>3, <1>4

LEMMA FirstCellKeeps ==
    ASSUME NEW n, NetFits(n)
    PROVE  LET m == [n EXCEPT !.firstCell = FALSE]
           IN  NetFits(m) /\ (m.mocking <=> n.mocking) /\ (m.running <=> n.running)
BY DEF NetFits, NetState, Quiet

(* What a query is posted about is no news any more.                       *)
LEMMA NotedKeeps ==
    ASSUME NEW n, NetFits(n)
    PROVE  /\ NetFits(Noted(n)) /\ (Noted(n).mocking <=> n.mocking)
           /\ (Noted(n).running <=> n.running)
<1>1. /\ Noted(n).lastAps \in ApList \cup {None}
      /\ Noted(n).curCell \in Cell \cup {None}
      /\ Noted(n) = [n EXCEPT !.lastAps = Noted(n).lastAps,
                              !.curCell = Noted(n).curCell]
    BY DEF Noted, NetFits, NetState, WifiNews, CellNews
<1> QED BY <1>1 DEF NetFits, NetState, Quiet

(* A query is taken by one server, or by none.                             *)
LEMMA PostKeeps ==
    ASSUME TypeOK, PostQuery \/ PostFails
    PROVE  /\ queries' \in [Server -> Nat] /\ mock' \subseteq MockFlag
           /\ MockAnswers(mock') => MockAnswers(mock)
<1>1. mock' = StartMock(mock)
    BY DEF PostQuery, PostFails
<1>2. queries' \in [Server -> Nat]
    <2>1. CASE PostQuery
        <3>1. PICK server \in Server : queries' = [queries EXCEPT ![server] = @ + 1]
            BY <2>1 DEF PostQuery, TypeOK, Server
        <3> QED BY <3>1 DEF TypeOK
    <2>2. CASE PostFails
        BY <2>2 DEF PostFails, TypeOK
    <2> QED BY <2>1, <2>2
<1> QED BY <1>1, <1>2, MockFlagsKept DEF TypeOK

LEMMA TriggerKeeps ==
    ASSUME TypeOK, NEW n, NetFits(n), TriggerPostQuery(n)
    PROVE  /\ NetFits(net')
           /\ (net'.mocking <=> n.mocking) /\ (net'.running <=> n.running)
           /\ queries' \in [Server -> Nat] /\ mock' \subseteq MockFlag
           /\ MockAnswers(mock') => MockAnswers(mock)
<1>1. CASE WifiNews(n) \/ CellNews(n)
    BY <1>1, NotedKeeps, PostKeeps DEF TriggerPostQuery
<1>2. CASE ~(WifiNews(n) \/ CellNews(n))
    BY <1>2 DEF TriggerPostQuery, TypeOK
<1> QED BY <1>1, <1>2

(* A reply to the list c of a provider in the state n: who stays listed,   *)
(* and the request that ends with the last of them.                        *)
LEMMA UpdateKeeps ==
    ASSUME TypeOK, NEW n, NetFits(n), NEW c \in SUBSET Client,
           ~mocked => ~n.mocking /\ (n.running => c # {}),
           LocationUpdate(n, c) \/ NetworkError(n, c)
    PROVE  /\ NetFits(net') /\ clients' \subseteq Client /\ waiting' \subseteq Client
           /\ ~mocked => ~net'.mocking /\ (net'.running => clients' # {})
<1>1. CASE LocationUpdate(n, c)
    <2>1. clients' = c \cap Subscriber /\ waiting' = {}
        BY <1>1 DEF LocationUpdate
    <2>2. CASE ~(c \subseteq Subscriber) /\ c \cap Subscriber = {}
        BY <1>1, <2>1, <2>2, StopKeeps DEF LocationUpdate
    <2>3. CASE c \subseteq Subscriber \/ c \cap Subscriber # {}
        <3>1. net' = n
            BY <1>1, <2>3 DEF LocationUpdate
        <3>2. c # {} => c \cap Subscriber # {}
            BY <2>3
        <3> QED BY <2>1, <3>1, <3>2
    <2> QED BY <2>2, <2>3
<1>2. CASE radio.online /\ NetworkError(n, c)
    BY <1>2 DEF NetworkError, TypeOK
<1> QED BY <1>1, <1>2 DEF NetworkError

-----------------------------------------------------------------------------
(* The clients.                                                            *)
LEMMA RequestKeeps ==
    ASSUME NetIInv, NEW c \in Client, Request(c)
    PROVE  NetIInv'
<1> USE DEF NetIInv
<1>0. UNCHANGED <<backend, radio, allowed, source, mocked, may>>
    BY DEF Request
<1>1. CASE MockRequest(c)
    <2>1. /\ queries' \in [Server -> Nat] /\ mock' \subseteq MockFlag
          /\ MockAnswers(mock') => MockAnswers(mock)
        BY <1>1, PostKeeps DEF MockRequest
    <2>2. mocked /\ clients' = clients \cup {c} /\ waiting' \subseteq Client
        BY <1>1 DEF MockRequest, MockUnused, TypeOK
    <2>3. net' = net \/ net' = [net EXCEPT !.mocking = TRUE]
        BY <1>1 DEF MockRequest
    <2>4. NetFits(net')
        BY <2>3 DEF NetFits, NetState, Quiet
    <2> QED BY <1>0, <2>1, <2>2, <2>4
            DEF TypeOK, NetFits, MockUnused, RunsForClients
<1>2. CASE JoinRequest(c)
    <2>1. UNCHANGED <<queries, mock>>
        BY <1>2 DEF JoinRequest
    <2>2. /\ NetFits(net') /\ clients' \subseteq Client /\ waiting' \subseteq Client
          /\ ~mocked => ~net'.mocking /\ (net'.running => clients' # {})
        <3>1. CASE LocationUpdate(net, clients \cup {c})
            BY <3>1, UpdateKeeps DEF TypeOK, MockUnused
        <3>2. CASE /\ clients' = clients \cup {c}
                   /\ waiting' = waiting \cup {c}
                   /\ UNCHANGED net
            BY <3>2 DEF TypeOK, MockUnused
        <3> QED BY <1>2, <3>1, <3>2 DEF JoinRequest
    <2> QED BY <1>0, <2>1, <2>2 DEF TypeOK, NetFits, MockUnused, RunsForClients
<1>3. CASE NoKey(c)
    BY <1>0, <1>3 DEF NoKey, TypeOK, NetFits, MockUnused, RunsForClients
<1>4. CASE FirstRequest(c)
    <2>1. PICK t \in BOOLEAN, w \in BOOLEAN : net' = StartPosition(net, t, w)
        BY <1>4 DEF FirstRequest, CallWorks
    <2>2. NetFits(net') /\ (net'.mocking <=> net.mocking)
        BY <1>4, <2>1, StartKeeps DEF FirstRequest
    <2>3. /\ clients' = clients \cup {c} /\ waiting' = waiting \cup {c}
          /\ UNCHANGED <<queries, mock>>
        BY <1>4 DEF FirstRequest
    <2> QED BY <1>0, <2>2, <2>3 DEF TypeOK, NetFits, MockUnused, RunsForClients
<1> QED BY <1>1, <1>2, <1>3, <1>4 DEF Request

LEMMA CancelKeeps ==
    ASSUME NetIInv, NEW c \in Client, Cancel(c)
    PROVE  NetIInv'
<1> USE DEF NetIInv
<1>1. /\ c \in clients
      /\ clients' = clients \ {c} /\ waiting' = waiting \ {c}
      /\ net' = IF clients = {c} THEN StopPosition(net) ELSE net
      /\ UNCHANGED <<backend, mock, queries, radio, allowed, source, mocked, may>>
    BY DEF Cancel
<1>2. NetFits(net') /\ (net'.mocking => net.mocking)
    BY <1>1, StopKeeps
<1>3. ~mocked => (net'.running => clients' # {})
    BY <1>1, StopKeeps DEF MockUnused
<1> QED BY <1>1, <1>2, <1>3 DEF TypeOK, NetFits, MockUnused, RunsForClients

LEMMA SetStateKeeps ==
    ASSUME NetIInv, SetState
    PROVE  NetIInv'
<1> USE DEF NetIInv
<1>1. /\ allowed' = ~allowed
      /\ UNCHANGED <<backend, mock, queries, radio, source, mocked, may>>
    BY DEF SetState
<1>2. CASE allowed
    <2> DEFINE n == StopPosition(net)
    <2>1. NetFits(n) /\ ~n.mocking /\ (~mocked => ~n.running)
        BY StopKeeps DEF MockUnused
    <2>2. LocationUpdate(n, clients)
        BY <1>2 DEF SetState
    <2> HIDE DEF n
    <2>3. /\ NetFits(net') /\ clients' \subseteq Client /\ waiting' \subseteq Client
          /\ ~mocked => ~net'.mocking /\ (net'.running => clients' # {})
        BY <2>1, <2>2, UpdateKeeps DEF TypeOK
    <2> QED BY <1>1, <2>3 DEF TypeOK, NetFits, MockUnused, RunsForClients
<1>3. CASE ~allowed
    BY <1>1, <1>3 DEF SetState, TypeOK, NetFits, MockUnused, RunsForClients
<1> QED BY <1>2, <1>3

LEMMA SetMockKeeps ==
    ASSUME NetIInv, SetMock
    PROVE  NetIInv'
<1> USE DEF NetIInv
<1>1. PICK state \in BOOLEAN : /\ mock' = SetMockState(mock, state)
                               /\ mocked' = (mocked \/ state)
    BY DEF SetMock
<1>2. UNCHANGED <<net, backend, queries, radio, allowed, clients, waiting, source,
                  may>>
    BY DEF SetMock
<1>3. mock' \subseteq MockFlag /\ (~state => (MockAnswers(mock') => MockAnswers(mock)))
    BY <1>1, MockFlagsKept DEF TypeOK
<1> QED BY <1>1, <1>2, <1>3 DEF TypeOK, NetFits, MockUnused, RunsForClients

-----------------------------------------------------------------------------
(* The services, the timer and the servers.                                *)
LEMMA ServicesKeep ==
    ASSUME NetIInv,
           WifiService \/ TelephonyService \/ WifiScanned \/ CellChanged
    PROVE  NetIInv'
<1> USE DEF NetIInv
<1>1. ServicesOnly
    BY DEF WifiService, TelephonyService, WifiScanned, CellChanged
<1>2. ASSUME NEW n, NetFits(n), (n.mocking <=> net.mocking),
             (n.running <=> net.running), TriggerPostQuery(n)
      PROVE  NetIInv'
    <2>1. /\ NetFits(net')
          /\ (net'.mocking <=> n.mocking) /\ (net'.running <=> n.running)
          /\ queries' \in [Server -> Nat] /\ mock' \subseteq MockFlag
          /\ MockAnswers(mock') => MockAnswers(mock)
        BY <1>2, TriggerKeeps
    <2> QED BY <1>1, <1>2, <2>1
            DEF ServicesOnly, TypeOK, NetFits, MockUnused, RunsForClients
<1>3. ASSUME NetFits(net'), (net'.mocking <=> net.mocking),
             (net'.running <=> net.running), UNCHANGED <<queries, mock>>
      PROVE  NetIInv'
    BY <1>1, <1>3 DEF ServicesOnly, TypeOK, NetFits, MockUnused, RunsForClients
<1>4. CASE WifiService
    <2>1. PICK up \in BOOLEAN : net' = [net EXCEPT !.wifiSub = up]
        BY <1>4 DEF WifiService, CallWorks, NetFits, NetState
    <2>2. net.wifiReg /\ UNCHANGED <<queries, mock>>
        BY <1>4 DEF WifiService
    <2> QED BY <1>3, <2>1, <2>2 DEF NetFits, NetState, Quiet
<1>5. CASE TelephonyService
    <2>1. PICK up \in BOOLEAN : net' = [net EXCEPT !.cellSub = up]
        BY <1>5 DEF TelephonyService, CallWorks, NetFits, NetState
    <2>2. net.telReg /\ UNCHANGED <<queries, mock>>
        BY <1>5 DEF TelephonyService
    <2> QED BY <1>3, <2>1, <2>2 DEF NetFits, NetState, Quiet
<1>6. CASE WifiScanned
    <2>1. PICK list \in ApList : TriggerPostQuery([net EXCEPT !.aps = list])
        BY <1>6 DEF WifiScanned
    <2> DEFINE n == [net EXCEPT !.aps = list]
    <2>2. NetFits(n) /\ (n.mocking <=> net.mocking) /\ (n.running <=> net.running)
        BY DEF NetFits, NetState, Quiet
    <2> QED BY <1>2, <2>1, <2>2
<1>7. CASE CellChanged
    <2>1. PICK id \in Cell :
            LET n == [net EXCEPT !.cell = id]
            IN  \/ TriggerPostQuery([n EXCEPT !.firstCell = FALSE])
                \/ net' = n /\ UNCHANGED <<queries, mock>>
        BY <1>7 DEF CellChanged
    <2> DEFINE n == [net EXCEPT !.cell = id]
               m == [n EXCEPT !.firstCell = FALSE]
    <2>2. /\ NetFits(n) /\ (n.mocking <=> net.mocking)
          /\ (n.running <=> net.running)
        BY DEF NetFits, NetState, Quiet
    <2> HIDE DEF n
    <2>3. NetFits(m) /\ (m.mocking <=> n.mocking) /\ (m.running <=> n.running)
        BY <2>2, FirstCellKeeps
    <2>4. TriggerPostQuery(m) \/ (net' = n /\ UNCHANGED <<queries, mock>>)
        BY <2>1 DEF n
    <2> HIDE DEF m
    <2>5. CASE TriggerPostQuery(m)
        BY <1>2, <2>2, <2>3, <2>5
    <2>6. CASE net' = n /\ UNCHANGED <<queries, mock>>
        BY <1>3, <2>2, <2>6
    <2> QED BY <2>4, <2>5, <2>6
<1> QED BY <1>4, <1>5, <1>6, <1>7

LEMMA TimerKeeps ==
    ASSUME NetIInv, TimerFires
    PROVE  NetIInv'
<1> USE DEF NetIInv
<1>1. UNCHANGED <<backend, radio, allowed, source, mocked, may>>
    BY DEF TimerFires
<1>2. CASE NetworkError(net, clients) /\ UNCHANGED <<queries, mock>>
    <2>1. /\ NetFits(net') /\ clients' \subseteq Client /\ waiting' \subseteq Client
          /\ ~mocked => ~net'.mocking /\ (net'.running => clients' # {})
        BY <1>2, UpdateKeeps DEF TypeOK, MockUnused, RunsForClients
    <2> QED BY <1>1, <1>2, <2>1 DEF TypeOK, NetFits, MockUnused, RunsForClients
<1>3. CASE TriggerPostQuery(net) /\ UNCHANGED <<clients, waiting>>
    <2>1. /\ NetFits(net')
          /\ (net'.mocking <=> net.mocking) /\ (net'.running <=> net.running)
          /\ queries' \in [Server -> Nat] /\ mock' \subseteq MockFlag
          /\ MockAnswers(mock') => MockAnswers(mock)
        BY <1>3, TriggerKeeps
    <2> QED BY <1>1, <1>3, <2>1 DEF TypeOK, NetFits, MockUnused, RunsForClients
<1> QED BY <1>2, <1>3 DEF TimerFires

LEMMA RadioKeeps ==
    ASSUME NetIInv, RadioChanges
    PROVE  NetIInv'
<1> USE DEF NetIInv
<1>1. UNCHANGED <<backend, mock, queries, allowed, clients, waiting, source, mocked, may>>
    BY DEF RadioChanges
<1>2. radio' \in [wifi : BOOLEAN, tel : BOOLEAN, online : BOOLEAN]
    BY DEF RadioChanges, TypeOK
<1>3. net' = net \/ net' = [net EXCEPT !.cell = None, !.curCell = None]
    BY DEF RadioChanges
<1>4. /\ NetFits(net') /\ (net'.mocking <=> net.mocking)
      /\ (net'.running <=> net.running)
    BY <1>3 DEF NetFits, NetState, Quiet
<1> QED BY <1>1, <1>2, <1>4 DEF TypeOK, NetFits, MockUnused, RunsForClients

LEMMA AnswerKeeps ==
    ASSUME NetIInv, NEW s \in Server, PositionAnswer(s) \/ FailedAnswer(s)
    PROVE  NetIInv'
<1> USE DEF NetIInv
<1>1. Answered(s)
    BY DEF PositionAnswer, FailedAnswer
<1>2. UNCHANGED <<backend, radio, allowed, mocked, may>>
    BY <1>1 DEF Answered
<1>3. queries' \in [Server -> Nat]
    BY <1>1 DEF Answered, TypeOK
<1>4. mock' \subseteq MockFlag /\ (MockAnswers(mock') => MockAnswers(mock))
    BY <1>1, MockFlagsKept DEF Answered, TypeOK
<1>5. source' \in Server
    BY DEF PositionAnswer, FailedAnswer, TypeOK
<1>6. /\ NetFits(net') /\ clients' \subseteq Client /\ waiting' \subseteq Client
      /\ ~mocked => ~net'.mocking /\ (net'.running => clients' # {})
    <2>1. CASE PositionAnswer(s)
        <3>1. PICK p \in Pos :
                \/ /\ p = net.pos /\ net' = [net EXCEPT !.stamped = TRUE]
                   /\ UNCHANGED <<clients, waiting>>
                \/ LocationUpdate([net EXCEPT !.pos = p, !.stamped = TRUE,
                                              !.fixBackend = backend], clients)
            BY <2>1 DEF PositionAnswer
        <3>2. CASE /\ p = net.pos /\ net' = [net EXCEPT !.stamped = TRUE]
                   /\ UNCHANGED <<clients, waiting>>
            <4>1. net.pos # Zero
                BY <3>2, NetworkAssumption DEF NetworkAssumption
            <4>2. /\ NetFits(net') /\ (net'.mocking <=> net.mocking)
                  /\ (net'.running <=> net.running)
                BY <3>2, <4>1 DEF NetFits, NetState, Quiet
            <4> QED BY <3>2, <4>2 DEF TypeOK, MockUnused, RunsForClients
        <3>3. CASE LocationUpdate([net EXCEPT !.pos = p, !.stamped = TRUE,
                                              !.fixBackend = backend], clients)
            <4> DEFINE n == [net EXCEPT !.pos = p, !.stamped = TRUE,
                                        !.fixBackend = backend]
            <4>1. p # Zero /\ backend \in Backend
                BY NetworkAssumption DEF NetworkAssumption, TypeOK
            <4>2. /\ NetFits(n) /\ (n.mocking <=> net.mocking)
                  /\ (n.running <=> net.running)
                BY <4>1 DEF NetFits, NetState, Quiet
            <4>3. LocationUpdate(n, clients)
                BY <3>3
            <4> HIDE DEF n
            <4> QED BY <4>2, <4>3, UpdateKeeps
                    DEF TypeOK, MockUnused, RunsForClients
        <3> QED BY <3>1, <3>2, <3>3
    <2>2. CASE UNCHANGED <<net, clients, waiting>>
        BY <2>2 DEF TypeOK, MockUnused, RunsForClients
    <2>3. CASE NetworkError(net, clients)
        BY <2>3, UpdateKeeps DEF TypeOK, MockUnused, RunsForClients
    <2> QED BY <2>1, <2>2, <2>3 DEF FailedAnswer
<1> QED BY <1>2, <1>3, <1>4, <1>5, <1>6
        DEF TypeOK, NetFits, MockUnused, RunsForClients

LEMMA NetStart == ASSUME Init PROVE NetIInv
<1>1. NetFits(net)
    BY DEF Init, NetFits, NetState, Quiet, Backend
<1>2. TypeOK
    BY <1>1 DEF Init, TypeOK, NetFits, Server, Backend
<1>3. MockUnused /\ RunsForClients
    BY DEF Init, MockUnused, RunsForClients, MockAnswers
<1> QED BY <1>1, <1>2, <1>3 DEF NetIInv

LEMMA NetStep == ASSUME NetIInv, [Next]_vars PROVE NetIInv'
<1>1. CASE UNCHANGED vars
    BY <1>1 DEF vars, NetIInv, TypeOK, NetFits, MockUnused, RunsForClients
<1>2. CASE SetNetworkProvider
    BY <1>2 DEF SetNetworkProvider, NetIInv, TypeOK, NetFits, MockUnused,
                RunsForClients
<1> QED BY <1>1, <1>2, RequestKeeps, CancelKeeps, SetStateKeeps, SetMockKeeps,
           ServicesKeep, TimerKeeps, RadioKeeps, AnswerKeeps DEF Next

LEMMA NetAlways == Spec => []NetIInv
<1>1. Init => NetIInv
    BY NetStart
<1>2. NetIInv /\ [Next]_vars => NetIInv'
    BY NetStep
<1> QED BY <1>1, <1>2, PTL DEF Spec

-----------------------------------------------------------------------------
(* The provider's fields, the servers' counters and the lists keep their   *)
(* types; in particular no answer is counted down below zero.              *)
THEOREM NetworkTypeCorrect == Spec => []TypeOK
<1>1. NetIInv => TypeOK
    BY DEF NetIInv
<1> QED BY <1>1, NetAlways, PTL

(* Registrations, subscriptions and the one timer never outlive the        *)
(* request they were made for, however services, mock provider and         *)
(* clients come and go.                                                    *)
THEOREM NetworkIsQuiet == Spec => []QuietWhenStopped
<1>1. NetIInv => QuietWhenStopped
    BY DEF NetIInv, NetFits, QuietWhenStopped
<1> QED BY <1>1, NetAlways, PTL

(* POSITION_CMD never hands the position of a reset fix to a newcomer.     *)
THEOREM FixIsAnAnswer == Spec => []NoFixAtZero
<1>1. NetIInv => NoFixAtZero
    BY DEF NetIInv, NetFits, NoFixAtZero
<1> QED BY <1>1, NetAlways, PTL

(* No network request goes on without a client, unless a mock provider has *)
(* been enabled: replies, cancels, errors and setState all end it with the *)
(* last one.                                                               *)
THEOREM NetworkRunsForClients == Spec => []RunsForClients
<1>1. NetIInv => RunsForClients
    BY DEF NetIInv
<1> QED BY <1>1, NetAlways, PTL
=============================================================================
