-------------------------- MODULE LocationUpdates ---------------------------
(***************************************************************************)
(* getLocationUpdates, getNmeaData and getGpsSatelliteData: calls that are *)
(* listed under a key, answered when a provider reports, and dropped when  *)
(* they are answered, cancelled or out of time.  One GPS session serves    *)
(* the gps and hybrid lists and both data feeds, one network request the   *)
(* nw and hybrid lists.                                                    *)
(*                                                                         *)
(* What the HAL reports on its own thread waits in the queue idle; all     *)
(* else runs on the main loop, to the end, one action at a time.           *)
(***************************************************************************)
EXTENDS UpdateLists, Sequences

CONSTANTS
    Timed,        \* the calls with a responseTimeout
    Keys,         \* the keys clients use
    HalAnswers,   \* the answers a HAL gives that may refuse
    MaxIdle,      \* bound on the reports waiting
    Worlds        \* what may happen to the service, in combinations

ASSUME UpdatesAssumption ==
    /\ Timed \subseteq Call /\ Subscribers \subseteq Call
    /\ Keys \subseteq Key
    /\ HalAnswers \subseteq HalAnswer
    /\ MaxIdle \in Nat
    /\ Worlds \subseteq SUBSET {"off", "refuse", "mock", "sleep", "offline"}

VARIABLES
    s,            \* providers, lists, table and timers (see UpdateLists)
    on,           \* the handlers that setState has on
    online,       \* getConnectionManagerState
    idle,         \* the idle callbacks queued by the HAL's thread
    made,         \* the calls made so far
    cancelled,    \* those the client has cancelled (history)
    dropped,      \* a sleep cost the HAL its session, and its resume has not
                  \* been handled yet (history)
    may           \* what may happen: handlers go off, a provider refuses,
                  \* mock locations, sleep, no connection

vars == <<s, on, online, idle, made, cancelled, dropped, may>>

Handler == {"gps", "network"}

TypeOK ==
    /\ s.gps.flags \subseteq ApiFlag
    /\ s.gps.timer \in {"none", "armed", "fired"}
    /\ s.nw \in {"none", "running", "stopped"}
    /\ s.list \in [Key -> SUBSET made]
    /\ s.table \subseteq made
    /\ s.timers \subseteq s.table \cap Timed
    /\ s.told \in [Call -> SUBSET {"refused", "answer"}]
    /\ on \subseteq Handler
    /\ online \in BOOLEAN
    /\ idle \in Seq({Position} \cup FeedKey) /\ Len(idle) <= MaxIdle
    /\ made \subseteq Call /\ cancelled \subseteq made
    /\ dropped \in BOOLEAN
    /\ may \in Worlds

(* mGpsStatus and mNwStatus are read from the preferences.                 *)
Init == /\ may \in Worlds
        /\ s = [gps    |-> [GpsInit EXCEPT !.enabled = TRUE], nw |-> "none",
                list   |-> [k \in Key |-> {}], table |-> {}, timers |-> {},
                told   |-> [c \in Call |-> {}]]
        /\ on \in SUBSET Handler
        /\ "off" \notin may => on = Handler
        /\ online \in BOOLEAN
        /\ "offline" \notin may => online
        /\ idle = <<>>
        /\ made = {} /\ cancelled = {} /\ dropped = FALSE

(* The HAL's answers during one method; one that is not to refuse does not.*)
Answers == IF "refuse" \in may THEN HalAnswers
           ELSE {[start |-> TRUE, stop |-> TRUE, mode |-> TRUE]}

(* The clock is GpsEngine's business; here every request has time 1.       *)
Now == 1

Only(t) == s' = t /\ UNCHANGED <<on, online, idle, made, cancelled, dropped, may>>

-----------------------------------------------------------------------------
(* The calls.                                                              *)

Make(c, t) == /\ c \notin made
              /\ made' = made \cup {c}
              /\ s' = t
              /\ UNCHANGED <<on, online, idle, cancelled, dropped, may>>

(* enableHandlers: which handlers a call is served by.                     *)
Started(k) == {h \in on : \/ h = "gps" /\ k \in {"gps", "hybrid"}
                          \/ h = "network" /\ k \in {"nw", "hybrid"} /\ online}

(* LOCATION_LOCATION_OFF and LOCATION_DATA_CONNECTION_OFF                  *)
Rejected(k) == on = {} \/ (k # "passive" /\ Started(k) = {})

(* A broken variant: the timer belongs to a handler, and a passive call    *)
(* has none.                                                               *)
Enter_OnlyIfStarted(c, k) ==
    [s EXCEPT !.list[k] = @ \cup {c}, !.table = @ \cup {c},
              !.timers = @ \cup (IF Started(k) # {} THEN {c} \cap Timed ELSE {})]

(* The call is entered before any handler is asked.                        *)
Enter(c, k) == [s EXCEPT !.list[k] = @ \cup {c}, !.table = @ \cup {c},
                         !.timers = @ \cup ({c} \cap Timed)]

(* The GPS part; ERROR_NOT_AVAILABLE, which has the value of the constant  *)
(* it is compared with, is reported to the caller.                         *)
AskGps(t, c, hal) ==
    LET g == StartPosition(t.gps, hal, Now)
    IN  IF Position \in g.flags THEN [t EXCEPT !.gps = g]
        ELSE Tell([t EXCEPT !.gps = g], {c}, "refused")

(* The network part, as the set of its outcomes: a request that runs       *)
(* already may hand out its last fix to everybody at once; one that cannot *)
(* begin is reported to the caller.                                        *)
AskNetwork(t, c, hal) ==
    IF t.nw = "running" THEN {t, ReplyAll(t, "nw", hal)}
    ELSE {[t EXCEPT !.nw = "running"]}
         \cup (IF "refuse" \in may THEN {Tell(t, {c}, "refused")} ELSE {})

(* A refused call stays listed.  A GPS that refuses, and an enabled mock   *)
(* provider, keep a hybrid call from the network.                          *)
GetLocationUpdates(c, k) ==
    \E hal \in Answers :
        LET gps  == "gps" \in Started(k)
            t    == IF gps THEN AskGps(Enter(c, k), c, hal) ELSE Enter(c, k)
            next == /\ "network" \in Started(k)
                    /\ gps => Position \in t.gps.flags /\ ~MockAnswers(t.gps.mock)
        IN  IF Rejected(k) THEN Make(c, Tell(s, {c}, "refused"))
            ELSE \E u \in (IF next THEN AskNetwork(t, c, hal) ELSE {t}) : Make(c, u)

(* getNmeaData and getGpsSatelliteData: they, too, list before they ask.   *)
GetFeed(c, k) ==
    \E hal \in Answers :
        LET g == StartFeed(s.gps, Feed(k), hal)
            t == [s EXCEPT !.gps = g, !.list[k] = @ \cup {c}]
        IN  Make(c, IF "gps" \notin on THEN Tell(s, {c}, "refused")
                    ELSE IF Feed(k) \in g.flags THEN t
                    ELSE Tell(t, {c}, "refused"))

-----------------------------------------------------------------------------
(* Leaving: cancelSubscription, and the responseTimeout.                   *)

Cancel(c, k) ==
    /\ c \in s.list[k]
    /\ cancelled' = cancelled \cup {c}
    /\ \E hal \in Answers :
          s' = IF k \in FeedKey
               THEN LET t == Unlist(s, c) IN StopIfUnused(t, k, {}, hal)
               ELSE Unlist(RemoveRequest(StopForLeaver(s, c, hal), {c}), c)
    /\ UNCHANGED <<on, online, idle, made, dropped, may>>

(* A broken variant: the last client leaves and the request stays.         *)
ResponseTimeout_StopsNothing(c) ==
    /\ c \in s.timers
    /\ Only(RemoveRequest(Unlist(Tell(s, {c}, "answer"), c), {c}))

(* A broken variant: the entry is left in the table.                       *)
ResponseTimeout_KeepsEntry(c) ==
    /\ c \in s.timers
    /\ \E hal \in Answers :
          Only(StopForLeaver([Unlist(Tell(s, {c}, "answer"), c)
                              EXCEPT !.timers = @ \ {c}], c, hal))

(* _TimerCallbackLocationUpdate: a call that is still listed is dropped.   *)
ResponseTimeout(c) ==
    /\ c \in s.timers
    /\ \E hal \in Answers :
          LET t == Tell([s EXCEPT !.timers = @ \ {c}], {c}, "answer")
              u == IF \E k \in LocationKey : c \in s.list[k]
                   THEN RemoveRequest(Unlist(t, c), {c})
                   ELSE t
          IN  Only(StopForLeaver(u, c, hal))

-----------------------------------------------------------------------------
(* The providers report.                                                   *)

Queue(what) == /\ Len(idle) < MaxIdle
               /\ idle' = Append(idle, what)

(* gpsLocationCb, from the HAL or from a mock provider; gpsNmeaCb and      *)
(* gpsSvStatusCb.                                                          *)
GpsReports ==
    /\ Position \in s.gps.flags
    /\ s.gps.radio \/ MockFeeds(s.gps.mock)
    /\ Queue(Position)
    /\ UNCHANGED <<s, on, online, made, cancelled, dropped, may>>

FeedReports(k) ==
    /\ Feed(k) \in s.gps.flags
    /\ s.gps.radio
    /\ Queue(k)
    /\ UNCHANGED <<s, on, online, made, cancelled, dropped, may>>

(* gpsTimeoutCb: ERROR_TIMEOUT goes the way of a position.                 *)
PosTimeout ==
    /\ s.gps.timer = "armed"
    /\ s' = [s EXCEPT !.gps = PosTimerFires(@)]
    /\ IF Position \in s.gps.flags THEN Queue(Position) ELSE UNCHANGED idle
    /\ UNCHANGED <<on, online, made, cancelled, dropped, may>>

(* sendPositionData, sendNmeaData, sendSatelliteData                       *)
RunIdle ==
    /\ idle # <<>>
    /\ idle' = Tail(idle)
    /\ \E hal \in Answers :
          s' = IF Head(idle) = Position THEN ReplyAll(s, "gps", hal)
               ELSE ReplyFeed(s, Head(idle), hal)
    /\ UNCHANGED <<on, online, made, cancelled, dropped, may>>

(* An answer of a server, perhaps after the request it belongs to, or the  *)
(* error that there is no connection: the same replies.                    *)
NetworkReports ==
    /\ s.nw # "none"
    /\ \E hal \in Answers : Only(ReplyAll(s, "nw", hal))

-----------------------------------------------------------------------------
(* The handlers and the world.                                             *)

(* setState.  Clients that subscribe stay listed; nothing is started again *)
(* when the handler comes back.  With both off, also if they were before,  *)
(* the hybrid clients are told.                                            *)
SetState(h, state) ==
    /\ "off" \in may
    /\ on' = IF state THEN on \cup {h} ELSE on \ {h}
    /\ \E h1, h2 \in Answers :
          LET stopped == IF h = "gps" THEN [s EXCEPT !.gps = StopGps(@, h1)]
                         ELSE StopRequest(s, "nw", h1)
              t == IF h \in on /\ ~state THEN ReplyOff(stopped, h, h2) ELSE s
          IN  s' = IF on' = {} THEN ReplyOff(t, "hybrid", h2) ELSE t
    /\ UNCHANGED <<online, idle, made, cancelled, dropped, may>>

(* enableMockLocation and disableMockLocation: whichever provider is meant *)
(* the gps session is ended and begun again, if the gps list is filled.    *)
SetMock(name, state) ==
    /\ "mock" \in may
    /\ \E h1, h2 \in Answers :
          Only([s EXCEPT !.gps = SetMockLocationState(@, name, state,
                                    s.list["gps"] # {}, h1, h2, Now)])

SleepDropsSession ==
    /\ "sleep" \in may
    /\ s.gps.radio
    /\ s' = [s EXCEPT !.gps.radio = FALSE]
    /\ dropped' = TRUE
    /\ UNCHANGED <<on, online, idle, made, cancelled, may>>

(* A broken variant: mGpsStatus is not looked at.                          *)
KernelResume_Unchecked ==
    /\ \E hal \in Answers : s' = ReissueRequests(s, hal, Now)
    /\ dropped' = FALSE
    /\ UNCHANGED <<on, online, idle, made, cancelled, may>>

(* handleKernelResume                                                      *)
KernelResume ==
    /\ \E hal \in Answers :
          s' = IF "gps" \in on THEN ReissueRequests(s, hal, Now) ELSE s
    /\ dropped' = FALSE
    /\ UNCHANGED <<on, online, idle, made, cancelled, may>>

ConnectionChanges ==
    /\ "offline" \in may
    /\ online' = ~online
    /\ UNCHANGED <<s, on, idle, made, cancelled, dropped, may>>

Next ==
    \/ \E c \in Call, k \in Keys \cap LocationKey : GetLocationUpdates(c, k)
    \/ \E c \in Call, k \in Keys \cap FeedKey : GetFeed(c, k)
    \/ \E c \in Call, k \in Keys : Cancel(c, k)
    \/ \E c \in Timed : ResponseTimeout(c)
    \/ GpsReports \/ PosTimeout \/ RunIdle \/ NetworkReports
    \/ \E k \in Keys \cap FeedKey : FeedReports(k)
    \/ \E h \in Handler, state \in BOOLEAN : SetState(h, state)
    \/ \E name \in Handler, state \in BOOLEAN : SetMock(name, state)
    \/ SleepDropsSession \/ KernelResume \/ ConnectionChanges

Spec == Init /\ [][Next]_vars

(* GLib runs a timer that is due; nothing else has to happen.              *)
FairSpec == Spec /\ \A c \in Timed : WF_vars(ResponseTimeout(c))
-----------------------------------------------------------------------------
(* Properties.                                                             *)

(* A call of getLocationUpdates is in the table exactly while it is on one *)
(* of the four lists, and on one only: an entry without a list would never *)
(* be deleted, a listed call without an entry would never get a position   *)
(* (meetsCriteria looks for it there), whichever of reply, time-out,       *)
(* cancel and setState ended the call.                                     *)
TableMatchesLists ==
    /\ s.table = UNION {s.list[k] : k \in LocationKey}
    /\ \A j, k \in Key : j # k => s.list[j] \cap s.list[k] = {}

(* Once a call has had its answer no time-out can follow it, and one that  *)
(* did not subscribe is on no list any more: it is answered once (but for  *)
(* the error of a request that failed, after which it stays listed).       *)
AnsweredCallsAreDone ==
    \A c \in Call : "answer" \in s.told[c] =>
        /\ c \notin s.timers
        /\ c \notin Subscribers => \A k \in Key : c \notin s.list[k]

(* No session outlives its clients: each of the GPS feeds, and the network *)
(* request, runs only while somebody is listed who is served by it.        *)
SessionsHaveClients ==
    /\ Position \in s.gps.flags => ~NoClients(s, {"gps", "hybrid"})
    /\ \A k \in FeedKey : Feed(k) \in s.gps.flags => s.list[k] # {}
    /\ s.nw = "running" => ~NoClients(s, {"nw", "hybrid"})

(* Nobody waits on a session that has ended: while handlers stay on, no    *)
(* mock provider interferes and nothing is refused, whoever is listed has  *)
(* the session that serves the list, in whatever order others came and     *)
(* left.                                                                   *)
ClientsAreServed ==
    may \cap {"off", "mock", "refuse"} = {} =>
        /\ ~NoClients(s, {"gps", "hybrid"}) => Position \in s.gps.flags
        /\ \A k \in FeedKey : s.list[k] # {} => Feed(k) \in s.gps.flags
        /\ s.list["nw"] # {} => s.nw = "running"

(* A handler that is off is not used, though its subscribers stay listed:  *)
(* no request, late report, leaver or resume starts it again.  (Two things *)
(* do: a HAL that refused to stop, and enableMockLocation.)                *)
OffHandlersAreStill ==
    /\ "gps" \notin on /\ may \cap {"mock", "refuse"} = {} => s.gps.flags = {}
    /\ "network" \notin on => s.nw # "running"

(* responseTimeout is a promise: a call that names one is answered, or     *)
(* cancelled by its client, whatever happens to the providers.             *)
TimedCallsEnd ==
    \A c \in Timed : c \in s.table ~> "answer" \in s.told[c] \/ c \in cancelled

(* The service keeps what it owes its clients: a listed call leaves with   *)
(* an answer or a cancel and with nothing else, is never listed again, and *)
(* is not timed out once it has had an answer, whichever of the provider's *)
(* list, the hybrid and the passive one a report, an error or a leaver     *)
(* goes through first.                                                     *)
Calls == INSTANCE ClientCalls
            WITH listed <- UNION {s.list[k] : k \in Key}, told <- s.told

CallsSpec == Calls!Spec

(* The comment at handleKernelResume: re-issuing the active requests       *)
(* "restarts it if the sleep dropped the session".                         *)
ResumeRestartsSession ==
    [][dropped /\ ~dropped' /\ ~NoClients(s, {"gps", "hybrid"}) =>
           s'.gps.radio]_vars
=============================================================================
