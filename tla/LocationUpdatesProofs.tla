----------------------- MODULE LocationUpdatesProofs ------------------------
(***************************************************************************)
(* Theorems about LocationUpdates, for any calls, keys, HAL answers and    *)
(* worlds.                                                                 *)
(*                                                                         *)
(* Handlers call each other as functions of the state s, so the proofs     *)
(* follow the calls: what a request does to the GPS provider, what a       *)
(* function of UpdateLists does to the fields of s, what replies keep      *)
(* (Follows, which is transitive as replies follow each other), and then   *)
(* each action.  The last part shows the service to implement ClientCalls. *)
(***************************************************************************)
EXTENDS LocationUpdates, TLAPS

(* The GPS provider, which this service enables once and for all; a feed   *)
(* that is on keeps the engine started.                                    *)
Provider ==
    [enabled : {TRUE}, started : BOOLEAN, flags : SUBSET ApiFlag,
     timer : {"none", "armed", "fired"},
     ttffState : BOOLEAN, reqTime : Nat, lastFix : Nat, ttff : Nat,
     params : Param, modified : BOOLEAN, halParams : Param,
     radio : BOOLEAN, mock : SUBSET MockFlag]

GpsFits(e) == e \in Provider /\ (e.flags # {} => e.started)

-----------------------------------------------------------------------------
(* The GPS provider.                                                       *)
LEMMA FeedFlags ==
    /\ Feed("nmea") = "NMEA_GET_DATA_ON"
    /\ Feed("satellite") = "SATELLITE_GET_DATA_ON"
<1>1. Feed("nmea") = "NMEA_GET_DATA_ON"
    BY Zenon DEF Feed
<1>2. Feed("satellite") = "SATELLITE_GET_DATA_ON"
    BY Zenon DEF Feed
<1> QED BY <1>1, <1>2

LEMMA FeedIsFlag ==
    /\ Position \in ApiFlag
    /\ \A k \in FeedKey : Feed(k) \in ApiFlag /\ Feed(k) # Position
    /\ \A j, k \in FeedKey : j # k => Feed(j) # Feed(k)
BY FeedFlags DEF FeedKey, ApiFlag, Position

LEMMA MockFlags ==
    ASSUME NEW flag \in SUBSET MockFlag, NEW state \in BOOLEAN
    PROVE  /\ SetMockState(flag, state) \in SUBSET MockFlag
           /\ StartMock(flag) \in SUBSET MockFlag
           /\ StopMock(flag) \in SUBSET MockFlag
<1>1. CASE state
    <2>1. SetMockState(flag, state) = flag \cup {"ENABLED"}
        BY <1>1, Zenon DEF SetMockState
    <2> QED BY <2>1 DEF StartMock, StopMock, MockFlag
<1>2. CASE ~state /\ "STARTED" \in flag
    <2>1. SetMockState(flag, state) = flag \cup {"DISABLE_AFTER_STOP"}
        BY <1>2, Zenon DEF SetMockState
    <2> QED BY <2>1 DEF StartMock, StopMock, MockFlag
<1>3. CASE ~state /\ "STARTED" \notin flag
    <2>1. SetMockState(flag, state) = flag \ {"ENABLED"}
        BY <1>3, Zenon DEF SetMockState
    <2> QED BY <2>1 DEF StartMock, StopMock, MockFlag
<1> QED BY <1>1, <1>2, <1>3

LEMMA PosModeFits ==
    ASSUME NEW e \in Provider, NEW hal \in HalAnswer
    PROVE  LET p == SetPosMode(e, hal)
           IN  p \in Provider /\ p.flags = e.flags /\ (p.started <=> e.started)
BY DEF SetPosMode, Provider, Param

LEMMA GpsEnableFits ==
    ASSUME NEW e \in Provider, NEW hal \in HalAnswer
    PROVE  LET u == GpsEnable(e, hal)
           IN  /\ u \in Provider /\ u.flags = e.flags
               /\ (e.started => u.started) /\ (hal.start => u.started)
<1>1. HalStart(e) \in Provider /\ HalStart(e).flags = e.flags
    BY MockFlags DEF HalStart, Provider
<1>2. GpsEnable(e, hal) \in {e, [HalStart(e) EXCEPT !.started = TRUE]}
    BY DEF GpsEnable
<1>3. (e.started \/ hal.start) =>
         \/ GpsEnable(e, hal) = e /\ e.started
         \/ GpsEnable(e, hal) = [HalStart(e) EXCEPT !.started = TRUE]
    BY DEF GpsEnable, HalStarts
<1> QED BY <1>1, <1>2, <1>3 DEF Provider

LEMMA GpsDisableFits ==
    ASSUME NEW e \in Provider, NEW hal \in HalAnswer
    PROVE  LET d == GpsDisable(e, hal)
           IN  /\ d \in Provider /\ d.flags = e.flags
               /\ hal.stop => ~d.started
               /\ d.started <=> (d.started /\ e.started)
<1> DEFINE c == [e EXCEPT !.params = "default", !.modified = FALSE]
           r == ResetParams(e, hal)
<1>1. c \in Provider /\ c.flags = e.flags /\ (c.started <=> e.started)
    BY DEF Provider, Param
<1>2. r \in Provider /\ r.flags = e.flags /\ (r.started <=> e.started)
    <2>1. CASE e.modified
        <3>1. r = SetPosMode(c, hal)
            BY <2>1 DEF ResetParams
        <3> HIDE DEF c, r
        <3> QED BY <1>1, <3>1, PosModeFits
    <2>2. CASE ~e.modified
        BY <2>2 DEF ResetParams
    <2> QED BY <2>1, <2>2
<1>3. ASSUME NEW x \in Provider
      PROVE  HalStop(x) \in Provider /\ HalStop(x).flags = x.flags
    BY MockFlags DEF HalStop, Provider
<1>4. GpsDisable(e, hal) = IF ~e.started THEN e
                           ELSE IF HalStops(e, hal)
                                THEN [HalStop(r) EXCEPT !.started = FALSE] ELSE r
    BY DEF GpsDisable
<1> HIDE DEF r, c
<1>5. ASSUME NEW x \in Provider
      PROVE  LET y == [x EXCEPT !.started = FALSE]
             IN  y \in Provider /\ y.flags = x.flags /\ ~y.started
    BY DEF Provider
<1>6. CASE ~e.started
    BY <1>4, <1>6
<1>7. CASE e.started /\ HalStops(e, hal)
    BY <1>2, <1>3, <1>4, <1>5, <1>7
<1>8. CASE e.started /\ ~HalStops(e, hal)
    BY <1>2, <1>4, <1>8 DEF HalStops
<1> QED BY <1>6, <1>7, <1>8

(* A request for a feed: granted with the engine up, and refused only by   *)
(* the HAL.                                                                *)
LEMMA StartFeedFits ==
    ASSUME NEW e, GpsFits(e), NEW hal \in HalAnswer, NEW f \in ApiFlag
    PROVE  LET r == StartFeed(e, f, hal)
           IN  /\ GpsFits(r)
               /\ r.flags = e.flags \/ r.flags = e.flags \cup {f}
               /\ hal.start => f \in r.flags
<1> DEFINE up == GpsEnable(SetPosMode(e, hal), hal)
<1>1. /\ up \in Provider /\ up.flags = e.flags
      /\ (e.started => up.started) /\ (hal.start => up.started)
    BY PosModeFits, GpsEnableFits DEF GpsFits
<1>2. StartFeed(e, f, hal) =
        IF ~Accepts(e, f) THEN e
        ELSE IF up.started THEN [up EXCEPT !.flags = @ \cup {f}] ELSE up
    BY DEF StartFeed
<1> HIDE DEF up
<1>3. CASE ~Accepts(e, f)
    BY <1>2, <1>3 DEF Accepts, GpsFits, Provider
<1>4. CASE Accepts(e, f) /\ ~up.started
    BY <1>1, <1>2, <1>4 DEF GpsFits
<1>5. CASE Accepts(e, f) /\ up.started
    <2>1. ASSUME NEW x \in Provider
          PROVE  LET y == [x EXCEPT !.flags = @ \cup {f}]
                 IN  /\ y \in Provider /\ y.flags = x.flags \cup {f}
                     /\ (y.started <=> x.started)
        BY DEF Provider
    <2> QED BY <1>1, <1>2, <1>5, <2>1 DEF GpsFits
<1> QED BY <1>3, <1>4, <1>5

LEMMA StartPositionFits ==
    ASSUME NEW e, GpsFits(e), NEW hal \in HalAnswer, NEW now \in Nat
    PROVE  LET r == StartPosition(e, hal, now)
           IN  /\ GpsFits(r)
               /\ r.flags = e.flags \/ r.flags = e.flags \cup {Position}
               /\ hal.start => Position \in r.flags
<1> DEFINE x == StampRequest(e, now)
           y == StartFeed(x, Position, hal)
<1>1. GpsFits(x) /\ x.flags = e.flags
    BY DEF GpsFits, Provider, StampRequest
<1>2. /\ GpsFits(y) /\ (y.flags = e.flags \/ y.flags = e.flags \cup {Position})
      /\ hal.start => Position \in y.flags
    <2> HIDE DEF x
    <2> QED BY <1>1, StartFeedFits, FeedIsFlag
<1>3. ASSUME NEW z, GpsFits(z) PROVE GpsFits(ArmTimer(z)) /\ ArmTimer(z).flags = z.flags
    BY <1>3 DEF ArmTimer, GpsFits, Provider
<1>4. StartPosition(e, hal, now) =
        IF ~Accepts(e, Position) THEN e
        ELSE IF Position \in y.flags THEN ArmTimer(y) ELSE y
    BY DEF StartPosition, Position
<1> HIDE DEF y
<1> QED BY <1>2, <1>3, <1>4 DEF Accepts, GpsFits, Provider

(* The end of a feed.                                                      *)
LEMMA StopFeedFits ==
    ASSUME NEW e, GpsFits(e), NEW hal \in HalAnswer, NEW f \in ApiFlag
    PROVE  LET r == StopFeed(e, f, hal)
           IN  GpsFits(r) /\ r.flags = e.flags \ {f}
<1> DEFINE d == [e EXCEPT !.flags = @ \ {f}]
<1>1. d \in Provider /\ d.flags = e.flags \ {f} /\ (d.started <=> e.started)
    BY DEF GpsFits, Provider
<1>2. StopFeed(e, f, hal) = IF d.flags = {} THEN GpsDisable(d, hal) ELSE d
    BY DEF StopFeed, GpsFits, Provider
<1> HIDE DEF d
<1>3. CASE d.flags = {}
    BY <1>1, <1>2, <1>3, GpsDisableFits DEF GpsFits
<1>4. CASE d.flags # {}
    BY <1>1, <1>2, <1>4 DEF GpsFits
<1> QED BY <1>3, <1>4

LEMMA StopPositionFits ==
    ASSUME NEW e, GpsFits(e), NEW hal \in HalAnswer
    PROVE  LET r == StopPosition(e, hal)
           IN  GpsFits(r) /\ r.flags = e.flags \ {Position}
<1> DEFINE x == ResetFirstFix([e EXCEPT !.timer = "none"])
<1>1. GpsFits(x) /\ x.flags = e.flags
    <2>1. ASSUME NEW z \in Provider
          PROVE  /\ ResetFirstFix(z) \in Provider
                 /\ ResetFirstFix(z).flags = z.flags
                 /\ (ResetFirstFix(z).started <=> z.started)
        BY DEF ResetFirstFix, Provider
    <2>2. ASSUME NEW z \in Provider
          PROVE  LET y == [z EXCEPT !.timer = "none"]
                 IN  y \in Provider /\ y.flags = z.flags /\ (y.started <=> z.started)
        BY DEF Provider
    <2> QED BY <2>1, <2>2 DEF GpsFits
<1>2. StopPosition(e, hal) = StopFeed(x, Position, hal)
    BY DEF StopPosition, Position, GpsFits, Provider
<1> HIDE DEF x
<1> QED BY <1>1, <1>2, StopFeedFits, FeedIsFlag

(* The end of every feed, if the HAL agrees.                               *)
LEMMA StopGpsFits ==
    ASSUME NEW e, GpsFits(e), NEW hal \in HalAnswer
    PROVE  LET r == StopGps(e, hal)
           IN  /\ GpsFits(r) /\ r.flags \in {{}, e.flags}
               /\ hal.stop => r.flags = {}
<1> DEFINE d == GpsDisable(e, hal)
<1>1. /\ d \in Provider /\ d.flags = e.flags /\ (hal.stop => ~d.started)
    BY GpsDisableFits DEF GpsFits
<1>2. StopGps(e, hal) = IF ~e.started THEN e ELSE IF d.started THEN d
                        ELSE [d EXCEPT !.flags = {}, !.timer = "none"]
    BY DEF StopGps, GpsFits, Provider
<1> HIDE DEF d
<1>3. ASSUME NEW x \in Provider
      PROVE  LET y == [x EXCEPT !.flags = {}, !.timer = "none"]
             IN  y \in Provider /\ y.flags = {}
    BY DEF Provider
<1>4. CASE ~e.started
    BY <1>2, <1>4 DEF GpsFits
<1>5. CASE e.started /\ d.started
    BY <1>1, <1>2, <1>5 DEF GpsFits
<1>6. CASE e.started /\ ~d.started
    BY <1>1, <1>2, <1>3, <1>6 DEF GpsFits
<1> QED BY <1>4, <1>5, <1>6

(* A mock provider that is switched under a session: only the feed of      *)
(* positions may come up, and only for a client that is listed.            *)
LEMMA SetMockFits ==
    ASSUME NEW e, GpsFits(e), NEW name, NEW state \in BOOLEAN, NEW listed \in BOOLEAN,
           NEW h1 \in HalAnswer, NEW h2 \in HalAnswer, NEW now \in Nat
    PROVE  LET r == SetMockLocationState(e, name, state, listed, h1, h2, now)
           IN  /\ GpsFits(r) /\ r.flags \subseteq e.flags \cup {Position}
               /\ ~listed => r.flags = e.flags
<1> DEFINE set(x) == IF name = "gps" THEN [x EXCEPT !.mock = SetMockState(@, state)]
                     ELSE x
<1>1. ASSUME NEW x, GpsFits(x) PROVE GpsFits(set(x)) /\ set(x).flags = x.flags
    BY <1>1, MockFlags DEF GpsFits, Provider
<1>2. SetMockLocationState(e, name, state, listed, h1, h2, now) =
         IF listed THEN StartPosition(set(StopGps(e, h1)), h2, now) ELSE set(e)
    BY DEF SetMockLocationState
<1> HIDE DEF set
<1>3. CASE ~listed
    BY <1>1, <1>2, <1>3
<1>4. CASE listed
    <2>1. GpsFits(StopGps(e, h1)) /\ StopGps(e, h1).flags \subseteq e.flags
        BY StopGpsFits
    <2>2. PICK x : x = set(StopGps(e, h1))
        OBVIOUS
    <2>3. GpsFits(x) /\ x.flags \subseteq e.flags
        BY <1>1, <2>1, <2>2
    <2> QED BY <1>2, <1>4, <2>2, <2>3, StartPositionFits
<1> QED BY <1>3, <1>4

-----------------------------------------------------------------------------
(* The service's state, and what holds of it whatever runs next.           *)
Notice == {"refused", "answer"}

Service ==
    [gps : Provider, nw : {"none", "running", "stopped"},
     list : [Key -> SUBSET Call], table : SUBSET Call, timers : SUBSET Call,
     told : [Call -> SUBSET Notice]]

(* M: the calls made so far.  Nothing is known of any other.               *)
Agree(t, M) ==
    /\ \A j, k \in Key : j # k => t.list[j] \cap t.list[k] = {}
    /\ \A c \in Call : c \in t.table <=> \E k \in LocationKey : c \in t.list[k]
    /\ t.timers \subseteq t.table \cap Timed
    /\ \A c \in Call : "answer" \in t.told[c] =>
          /\ c \notin t.timers
          /\ c \notin Subscribers => \A k \in Key : c \notin t.list[k]
    /\ \A c \in Call : c \notin M =>
          t.told[c] = {} /\ \A k \in Key : c \notin t.list[k]

Fit(t, M) == t \in Service /\ GpsFits(t.gps) /\ Agree(t, M)

(* SessionsHaveClients and the heart of ClientsAreServed, of any state.    *)
Sessions(t) ==
    /\ Position \in t.gps.flags => t.list["gps"] \cup t.list["hybrid"] # {}
    /\ \A k \in FeedKey : Feed(k) \in t.gps.flags => t.list[k] # {}
    /\ t.nw = "running" => t.list["nw"] \cup t.list["hybrid"] # {}

Served(t) ==
    /\ t.list["gps"] \cup t.list["hybrid"] # {} => Position \in t.gps.flags
    /\ \A k \in FeedKey : t.list[k] # {} => Feed(k) \in t.gps.flags
    /\ t.list["nw"] # {} => t.nw = "running"

(* What a reply, and whatever ends with it, keeps: no session begins, and  *)
(* one ends only with its last client.                                     *)
Follows(t, r, M) ==
    /\ Fit(r, M)
    /\ r.gps.flags \subseteq t.gps.flags
    /\ r.nw = "running" => t.nw = "running"
    /\ Sessions(t) => Sessions(r)
    /\ Served(t) => Served(r)

LEMMA FollowsOn ==
    ASSUME NEW t, NEW u, NEW r, NEW M, Follows(t, u, M), Follows(u, r, M)
    PROVE  Follows(t, r, M)
BY DEF Follows

SameProviders(t, r) == r.gps = t.gps /\ r.nw = t.nw

SameLists(t, r) == /\ r.list = t.list /\ r.table = t.table
                   /\ r.timers = t.timers /\ r.told = t.told

Told(t, r, C, what) == /\ \A c \in C : r.told[c] = t.told[c] \cup {what}
                       /\ \A c \in Call \ C : r.told[c] = t.told[c]

-----------------------------------------------------------------------------
(* What the functions of UpdateLists do to the fields.                     *)
LEMMA TellFields ==
    ASSUME NEW t \in Service, NEW C \in SUBSET Call, NEW what \in Notice,
           NEW r, r = Tell(t, C, what)
    PROVE  /\ r \in Service /\ SameProviders(t, r)
           /\ r.list = t.list /\ r.table = t.table /\ r.timers = t.timers
           /\ Told(t, r, C, what)
<1> DEFINE told == [c \in Call |-> IF c \in C THEN t.told[c] \cup {what} ELSE t.told[c]]
<1>1. /\ told \in [Call -> SUBSET Notice]
      /\ \A c \in C : told[c] = t.told[c] \cup {what}
      /\ \A c \in Call \ C : told[c] = t.told[c]
    BY DEF Service
<1>2. r = [t EXCEPT !.told = told]
    BY DEF Tell
<1> HIDE DEF told
<1>3. /\ r \in Service /\ SameProviders(t, r)
      /\ r.list = t.list /\ r.table = t.table /\ r.timers = t.timers
      /\ r.told = told
    BY <1>1, <1>2 DEF Service, SameProviders
<1> QED BY <1>1, <1>2, <1>3 DEF Told

LEMMA GpsFields ==
    ASSUME NEW t \in Service, NEW g \in Provider
    PROVE  LET r == [t EXCEPT !.gps = g]
           IN  r \in Service /\ r.gps = g /\ r.nw = t.nw /\ SameLists(t, r)
BY DEF Service, SameLists

LEMMA NwFields ==
    ASSUME NEW t \in Service, NEW n \in {"none", "running", "stopped"}
    PROVE  LET r == [t EXCEPT !.nw = n]
           IN  r \in Service /\ r.gps = t.gps /\ r.nw = n /\ SameLists(t, r)
BY DEF Service, SameLists

LEMMA ListFields ==
    ASSUME NEW t \in Service, NEW list \in [Key -> SUBSET Call]
    PROVE  LET r == [t EXCEPT !.list = list]
           IN  /\ r \in Service /\ SameProviders(t, r) /\ r.list = list
               /\ r.table = t.table /\ r.timers = t.timers /\ r.told = t.told
BY DEF Service, SameProviders

LEMMA TableFields ==
    ASSUME NEW t \in Service, NEW table \in SUBSET Call, NEW timers \in SUBSET Call
    PROVE  LET r == [t EXCEPT !.table = table, !.timers = timers]
           IN  /\ r \in Service /\ SameProviders(t, r) /\ r.list = t.list
               /\ r.table = table /\ r.timers = timers /\ r.told = t.told
BY DEF Service, SameProviders

LEMMA RemoveFields ==
    ASSUME NEW t \in Service, NEW C \in SUBSET Call
    PROVE  LET r == RemoveRequest(t, C)
           IN  /\ r \in Service /\ SameProviders(t, r) /\ r.list = t.list
               /\ r.table = t.table \ C /\ r.timers = t.timers \ C
               /\ r.told = t.told
BY DEF RemoveRequest, Service, SameProviders

LEMMA UnlistFields ==
    ASSUME NEW t \in Service, NEW c \in Call
    PROVE  LET r == Unlist(t, c)
           IN  /\ r \in Service /\ SameProviders(t, r)
               /\ \A k \in Key : r.list[k] = t.list[k] \ {c}
               /\ r.table = t.table /\ r.timers = t.timers /\ r.told = t.told
<1> DEFINE list == [k \in Key |-> t.list[k] \ {c}]
<1>1. list \in [Key -> SUBSET Call]
    BY DEF Service
<1>2. Unlist(t, c) = [t EXCEPT !.list = list]
    BY DEF Unlist
<1>3. \A k \in Key : list[k] = t.list[k] \ {c}
    OBVIOUS
<1> HIDE DEF list
<1> QED BY <1>1, <1>2, <1>3, ListFields

(* The end of a request: which of the GPS feeds, and whether the network's. *)
Ends(k) == IF k = "gps" THEN {Position} ELSE IF k \in FeedKey THEN {Feed(k)} ELSE {}

LEMMA StopRequestFields ==
    ASSUME NEW t \in Service, GpsFits(t.gps), NEW k \in Key, NEW hal \in HalAnswer
    PROVE  LET r == StopRequest(t, k, hal)
           IN  /\ r \in Service /\ GpsFits(r.gps) /\ SameLists(t, r)
               /\ r.gps.flags = t.gps.flags \ Ends(k)
               /\ k # "nw" => r.nw = t.nw
               /\ k = "nw" => r.nw # "running"
<1>1. CASE k = "gps"
    <2>1. StopRequest(t, k, hal) = [t EXCEPT !.gps = StopPosition(t.gps, hal)]
        BY <1>1, Zenon DEF StopRequest, FeedKey
    <2>2. /\ StopPosition(t.gps, hal) \in Provider
          /\ GpsFits(StopPosition(t.gps, hal))
          /\ StopPosition(t.gps, hal).flags = t.gps.flags \ {Position}
        BY StopPositionFits DEF GpsFits
    <2>3. Ends(k) = {Position} /\ k # "nw"
        BY <1>1 DEF Ends
    <2> QED BY <2>1, <2>2, <2>3, GpsFields
<1>2. CASE k = "nw"
    <2> DEFINE n == IF t.nw = "running" THEN "stopped" ELSE t.nw
    <2>1. StopRequest(t, k, hal) = [t EXCEPT !.nw = n]
        BY <1>2, Zenon DEF StopRequest, FeedKey
    <2>2. n \in {"none", "running", "stopped"}
        BY DEF Service
    <2>3. Ends(k) = {}
        BY <1>2 DEF Ends, FeedKey
    <2> HIDE DEF n
    <2>4. /\ StopRequest(t, k, hal) \in Service
          /\ StopRequest(t, k, hal).gps = t.gps /\ StopRequest(t, k, hal).nw = n
          /\ SameLists(t, StopRequest(t, k, hal))
        BY <2>1, <2>2 DEF Service, SameLists
    <2> QED BY <1>2, <2>3, <2>4 DEF n
<1>3. CASE k \in FeedKey
    <2>1. StopRequest(t, k, hal) = [t EXCEPT !.gps = StopFeed(t.gps, Feed(k), hal)]
        <3>1. CASE k = "nmea"
            BY <3>1, Zenon DEF StopRequest, FeedKey
        <3>2. CASE k = "satellite"
            BY <3>2, Zenon DEF StopRequest, FeedKey
        <3> QED BY <1>3, <3>1, <3>2 DEF FeedKey
    <2>2. /\ StopFeed(t.gps, Feed(k), hal) \in Provider
          /\ GpsFits(StopFeed(t.gps, Feed(k), hal))
          /\ StopFeed(t.gps, Feed(k), hal).flags = t.gps.flags \ {Feed(k)}
        BY <1>3, StopFeedFits, FeedIsFlag DEF GpsFits
    <2>3. Ends(k) = {Feed(k)} /\ k # "nw"
        BY <1>3 DEF Ends, FeedKey
    <2> QED BY <2>1, <2>2, <2>3, GpsFields
<1>4. CASE k \in {"hybrid", "passive"}
    <2>1. StopRequest(t, k, hal) = t
        <3>1. CASE k = "hybrid"
            BY <3>1, Zenon DEF StopRequest, FeedKey
        <3>2. CASE k = "passive"
            BY <3>2, Zenon DEF StopRequest, FeedKey
        <3> QED BY <1>4, <3>1, <3>2
    <2>2. Ends(k) = {} /\ k # "nw"
        BY <1>4 DEF Ends, FeedKey
    <2> QED BY <2>1, <2>2 DEF SameLists
<1> QED BY <1>1, <1>2, <1>3, <1>4 DEF Key, LocationKey

LEMMA AnswerFields ==
    ASSUME NEW t \in Service, NEW k \in Key
    PROVE  LET r == Answer(t, k)
           IN  /\ r \in Service /\ SameProviders(t, r)
               /\ r.list[k] = t.list[k] \cap Subscribers
               /\ \A j \in Key \ {k} : r.list[j] = t.list[j]
               /\ r.table = t.table \ (t.list[k] \ Subscribers)
               /\ r.timers = t.timers \ t.list[k]
               /\ Told(t, r, t.list[k], "answer")
<1> DEFINE once == t.list[k] \ Subscribers
<1>1. PICK x : x = [t EXCEPT !.list[k] = @ \ once, !.timers = @ \ t.list[k]]
    OBVIOUS
<1>2. /\ x \in Service /\ SameProviders(t, x)
      /\ x.list[k] = t.list[k] \cap Subscribers
      /\ \A j \in Key \ {k} : x.list[j] = t.list[j]
      /\ x.table = t.table /\ x.timers = t.timers \ t.list[k] /\ x.told = t.told
    BY <1>1 DEF Service, SameProviders
<1>3. PICK y : y = Tell(x, t.list[k], "answer")
    OBVIOUS
<1>4. /\ t.list[k] \in SUBSET Call /\ once \in SUBSET Call /\ "answer" \in Notice
      /\ once \subseteq t.list[k]
    BY DEF Service, Notice
<1>5. /\ y \in Service /\ SameProviders(x, y)
      /\ y.list = x.list /\ y.table = x.table /\ y.timers = x.timers
      /\ Told(x, y, t.list[k], "answer")
    <2>1. PICK C \in SUBSET Call : C = t.list[k]
        BY <1>4
    <2>2. y = Tell(x, C, "answer") /\ x \in Service
        BY <1>2, <1>3, <2>1
    <2> QED BY <1>4, <2>1, <2>2, TellFields
<1>6. Answer(t, k) = RemoveRequest(y, once)
    BY <1>1, <1>3 DEF Answer
<1>7. /\ Answer(t, k) \in Service /\ SameProviders(y, Answer(t, k))
      /\ Answer(t, k).list = y.list /\ Answer(t, k).told = y.told
      /\ Answer(t, k).table = y.table \ once /\ Answer(t, k).timers = y.timers \ once
    BY <1>4, <1>5, <1>6, RemoveFields
<1>8. y.timers \ once = t.timers \ t.list[k]
    BY <1>2, <1>4, <1>5
<1> QED BY <1>2, <1>5, <1>7, <1>8 DEF SameProviders, Told

(* What becomes of the requests of t in r, where k is free, or is not.     *)
Ended(t, r, k) == /\ r.gps.flags = t.gps.flags \ Ends(k)
                  /\ k # "nw" => r.nw = t.nw
                  /\ k = "nw" => r.nw # "running"

Free(t, keys) == \A j \in keys : t.list[j] = {}

LEMMA StopIfUnusedFields ==
    ASSUME NEW M, NEW t, Fit(t, M), NEW k \in Key, NEW others \in SUBSET Key,
           NEW hal \in HalAnswer, NEW r, r = StopIfUnused(t, k, others, hal)
    PROVE  /\ Fit(r, M) /\ SameLists(t, r)
           /\ Free(t, others \cup {k}) => Ended(t, r, k)
           /\ ~Free(t, others \cup {k}) => r = t
<1>1. CASE Free(t, others \cup {k})
    <2>2. r = StopRequest(t, k, hal)
        BY <1>1 DEF StopIfUnused, NoClients, Free
    <2>3. /\ r \in Service /\ GpsFits(r.gps) /\ SameLists(t, r)
          /\ r.gps.flags = t.gps.flags \ Ends(k)
          /\ k # "nw" => r.nw = t.nw
          /\ k = "nw" => r.nw # "running"
        BY <2>2, StopRequestFields DEF Fit
    <2>4. Agree(r, M)
        BY <2>3 DEF Fit, Agree, SameLists
    <2> QED BY <1>1, <2>3, <2>4 DEF Fit, Ended
<1>2. CASE ~Free(t, others \cup {k})
    BY <1>2 DEF StopIfUnused, NoClients, SameLists, Free
<1> QED BY <1>1, <1>2

-----------------------------------------------------------------------------
(* Replies.                                                                *)
LEMMA AnswerAgrees ==
    ASSUME NEW M, NEW t, Fit(t, M), NEW k \in LocationKey
    PROVE  Fit(Answer(t, k), M)
<1>1. PICK r : r = Answer(t, k)
    OBVIOUS
<1>3. Agree(t, M) /\ t \in Service /\ k \in Key /\ LocationKey \subseteq Key
    BY DEF Fit, Key
<1>2. /\ r \in Service /\ SameProviders(t, r)
      /\ r.list[k] = t.list[k] \cap Subscribers
      /\ \A j \in Key \ {k} : r.list[j] = t.list[j]
      /\ r.table = t.table \ (t.list[k] \ Subscribers)
      /\ r.timers = t.timers \ t.list[k]
      /\ Told(t, r, t.list[k], "answer")
    BY <1>1, <1>3, AnswerFields
<1>4. \A i, j \in Key : i # j => r.list[i] \cap r.list[j] = {}
    BY <1>2, <1>3 DEF Agree
<1>5. \A c \in Call : c \in r.table <=> \E j \in LocationKey : c \in r.list[j]
    <2> TAKE c \in Call
    <2>1. CASE c \in t.list[k]
        <3>1. \A j \in LocationKey : j # k => c \notin t.list[j]
            BY <1>3, <2>1 DEF Agree
        <3>2. c \in t.table
            BY <1>3, <2>1 DEF Agree
        <3>3. c \in r.table <=> c \in Subscribers
            BY <1>2, <2>1, <3>2
        <3>4. \A j \in LocationKey : c \in r.list[j] <=> j = k /\ c \in Subscribers
            BY <1>2, <1>3, <2>1, <3>1
        <3> QED BY <3>3, <3>4
    <2>2. CASE c \notin t.list[k]
        <3>1. c \in r.table <=> c \in t.table
            BY <1>2, <2>2
        <3>2. \A j \in LocationKey : c \in r.list[j] <=> c \in t.list[j]
            BY <1>2, <1>3, <2>2
        <3> QED BY <1>3, <3>1, <3>2 DEF Agree
    <2> QED BY <2>1, <2>2
<1>6. r.timers \subseteq r.table \cap Timed
    BY <1>2, <1>3 DEF Agree
<1>7. \A c \in Call : "answer" \in r.told[c] =>
          /\ c \notin r.timers
          /\ c \notin Subscribers => \A j \in Key : c \notin r.list[j]
    <2> TAKE c \in Call
    <2>1. CASE c \in t.list[k]
        <3>1. \A j \in Key : j # k => c \notin t.list[j]
            BY <1>3, <2>1 DEF Agree
        <3> QED BY <1>2, <2>1, <3>1
    <2>2. CASE c \notin t.list[k]
        BY <1>2, <1>3, <2>2 DEF Agree, Told
    <2> QED BY <2>1, <2>2
<1>8. \A c \in Call : c \notin M => r.told[c] = {} /\ \A j \in Key : c \notin r.list[j]
    BY <1>2, <1>3 DEF Agree, Told
<1> QED BY <1>1, <1>2, <1>4, <1>5, <1>6, <1>7, <1>8 DEF Fit, Agree, SameProviders

(* To the provider's own list: its request ends with the last client.      *)
LEMMA ReplyOwnFollows ==
    ASSUME NEW M, NEW t, Fit(t, M), NEW k \in {"gps", "nw"}, NEW hal \in HalAnswer
    PROVE  Follows(t, Reply(t, k, hal), M)
<1> DEFINE a == Answer(t, k)
<1>1. /\ Fit(a, M) /\ SameProviders(t, a)
      /\ a.list[k] = t.list[k] \cap Subscribers
      /\ \A j \in Key \ {k} : a.list[j] = t.list[j]
    <2>1. t \in Service /\ k \in Key /\ k \in LocationKey
        BY DEF Fit, Key, LocationKey
    <2> QED BY <2>1, AnswerAgrees, AnswerFields
<1>2. Reply(t, k, hal) = IF t.list[k] \subseteq Subscribers THEN a
                         ELSE StopIfUnused(a, k, {"hybrid"}, hal)
    BY DEF Reply
<1> HIDE DEF a
<1>3. CASE t.list[k] \subseteq Subscribers
    <2>1. \A j \in Key : a.list[j] = t.list[j]
        BY <1>1, <1>3
    <2> QED BY <1>1, <1>2, <1>3, <2>1
            DEF Follows, Sessions, Served, SameProviders, Key, LocationKey, FeedKey
<1>4. CASE ~(t.list[k] \subseteq Subscribers)
    <2>0. PICK others \in SUBSET Key : others = {"hybrid"}
        BY DEF Key, LocationKey
    <2>1. PICK r : r = StopIfUnused(a, k, others, hal)
        OBVIOUS
    <2> SUFFICES Follows(t, r, M)
        BY <1>2, <1>4, <2>0, <2>1, Zenon
    <2>2. k \in Key
        BY DEF Key, LocationKey
    <2>3. /\ Fit(r, M) /\ SameLists(a, r)
          /\ (\A j \in {"hybrid"} \cup {k} : a.list[j] = {}) =>
                /\ r.gps.flags = a.gps.flags \ Ends(k)
                /\ k # "nw" => r.nw = a.nw
                /\ k = "nw" => r.nw # "running"
          /\ ~(\A j \in {"hybrid"} \cup {k} : a.list[j] = {}) => r = a
        <3>1. /\ Fit(r, M) /\ SameLists(a, r)
              /\ Free(a, others \cup {k}) => Ended(a, r, k)
              /\ ~Free(a, others \cup {k}) => r = a
            BY <1>1, <2>1, <2>2, StopIfUnusedFields
        <3> QED BY <2>0, <3>1 DEF Free, Ended
    <2>4. a.gps = t.gps /\ a.nw = t.nw /\ r.list = a.list
        BY <1>1, <2>3 DEF SameProviders, SameLists
    <2>5. /\ a.list[k] \subseteq t.list[k]
          /\ \A j \in Key : j # k => a.list[j] = t.list[j]
        BY <1>1, <2>2
    <2>6. \A j \in FeedKey : Feed(j) # Position /\ j # k /\ j \in Key
        BY FeedIsFlag DEF FeedKey, Key
    <2>7. CASE k = "gps"
        <3>1. Ends(k) = {Position} /\ k # "nw"
            BY <2>7 DEF Ends
        <3>2. /\ a.list["gps"] \subseteq t.list["gps"]
              /\ a.list["hybrid"] = t.list["hybrid"] /\ a.list["nw"] = t.list["nw"]
              /\ \A j \in FeedKey : a.list[j] = t.list[j]
            BY <2>5, <2>6, <2>7 DEF Key, LocationKey
        <3>3. CASE a.list["gps"] \cup a.list["hybrid"] = {}
            <4>1. r.gps.flags = t.gps.flags \ {Position} /\ r.nw = t.nw
                BY <2>3, <2>4, <2>7, <3>1, <3>3
            <4> QED BY <2>3, <2>4, <2>6, <3>2, <3>3, <4>1
                    DEF Follows, Sessions, Served
        <3>4. CASE a.list["gps"] \cup a.list["hybrid"] # {}
            <4>1. r = a
                BY <2>3, <2>7, <3>4
            <4> QED BY <2>3, <2>4, <3>2, <3>4, <4>1 DEF Follows, Sessions, Served
        <3> QED BY <3>3, <3>4
    <2>8. CASE k = "nw"
        <3>1. Ends(k) = {}
            BY <2>8 DEF Ends, FeedKey
        <3>2. /\ a.list["nw"] \subseteq t.list["nw"]
              /\ a.list["hybrid"] = t.list["hybrid"] /\ a.list["gps"] = t.list["gps"]
              /\ \A j \in FeedKey : a.list[j] = t.list[j]
            BY <2>5, <2>6, <2>8 DEF Key, LocationKey
        <3>3. CASE a.list["nw"] \cup a.list["hybrid"] = {}
            <4>1. /\ r.gps.flags = t.gps.flags /\ r.nw # "running"
                BY <2>3, <2>4, <2>8, <3>1, <3>3
            <4> QED BY <2>3, <2>4, <3>2, <3>3, <4>1
                    DEF Follows, Sessions, Served
        <3>4. CASE a.list["nw"] \cup a.list["hybrid"] # {}
            <4>1. r = a
                BY <2>3, <2>8, <3>4
            <4> QED BY <2>3, <2>4, <3>2, <3>4, <4>1 DEF Follows, Sessions, Served
        <3> QED BY <3>3, <3>4
    <2> QED BY <2>7, <2>8
<1> QED BY <1>3, <1>4

(* To the list both providers serve: either request may end with it.       *)
LEMMA ReplyHybridFollows ==
    ASSUME NEW M, NEW t, Fit(t, M), NEW hal \in HalAnswer
    PROVE  Follows(t, Reply(t, "hybrid", hal), M)
<1> DEFINE a == Answer(t, "hybrid")
<1>1. /\ Fit(a, M) /\ SameProviders(t, a)
      /\ a.list["hybrid"] = t.list["hybrid"] \cap Subscribers
      /\ \A j \in Key \ {"hybrid"} : a.list[j] = t.list[j]
    <2>1. t \in Service /\ "hybrid" \in Key /\ "hybrid" \in LocationKey
        BY DEF Fit, Key, LocationKey
    <2> QED BY <2>1, AnswerAgrees, AnswerFields
<1>2. Reply(t, "hybrid", hal) =
        IF t.list["hybrid"] \subseteq Subscribers THEN a
        ELSE StopIfUnused(StopIfUnused(a, "gps", {"hybrid"}, hal), "nw",
                          {"hybrid"}, hal)
    BY DEF Reply
<1> HIDE DEF a
<1>3. /\ a.list["hybrid"] \subseteq t.list["hybrid"]
      /\ a.list["gps"] = t.list["gps"] /\ a.list["nw"] = t.list["nw"]
      /\ \A j \in FeedKey : a.list[j] = t.list[j]
      /\ a.gps = t.gps /\ a.nw = t.nw
    BY <1>1 DEF Key, LocationKey, FeedKey, SameProviders
<1>4. CASE t.list["hybrid"] \subseteq Subscribers
    <2>1. a.list["hybrid"] = t.list["hybrid"]
        BY <1>1, <1>4
    <2> QED BY <1>1, <1>2, <1>3, <1>4, <2>1 DEF Follows, Sessions, Served
<1>5. CASE ~(t.list["hybrid"] \subseteq Subscribers)
    <2>1. PICK others \in SUBSET Key : others = {"hybrid"}
        BY DEF Key, LocationKey
    <2>2. PICK b : b = StopIfUnused(a, "gps", others, hal)
        OBVIOUS
    <2>3. PICK r : r = StopIfUnused(b, "nw", others, hal)
        OBVIOUS
    <2> SUFFICES Follows(t, r, M)
        BY <1>2, <1>5, <2>1, <2>2, <2>3, Zenon
    <2>4. "gps" \in Key /\ "nw" \in Key
        BY DEF Key, LocationKey
    <2>5. /\ Fit(b, M) /\ SameLists(a, b)
          /\ Free(a, others \cup {"gps"}) => Ended(a, b, "gps")
          /\ ~Free(a, others \cup {"gps"}) => b = a
        BY <1>1, <2>2, <2>4, StopIfUnusedFields
    <2>6. /\ Fit(r, M) /\ SameLists(b, r)
          /\ Free(b, others \cup {"nw"}) => Ended(b, r, "nw")
          /\ ~Free(b, others \cup {"nw"}) => r = b
        BY <2>3, <2>4, <2>5, StopIfUnusedFields
    <2>7. r.list = a.list /\ b.list = a.list
        BY <2>5, <2>6 DEF SameLists
    <2>8. /\ b.nw = t.nw
          /\ \/ a.list["gps"] \cup a.list["hybrid"] = {}
                /\ b.gps.flags = t.gps.flags \ {Position}
             \/ a.list["gps"] \cup a.list["hybrid"] # {}
                /\ b.gps.flags = t.gps.flags
        BY <1>3, <2>1, <2>5 DEF Free, Ended, Ends
    <2>9. /\ r.gps.flags = b.gps.flags
          /\ \/ a.list["nw"] \cup a.list["hybrid"] = {} /\ r.nw # "running"
             \/ a.list["nw"] \cup a.list["hybrid"] # {} /\ r.nw = b.nw
        BY <2>1, <2>6, <2>7 DEF Free, Ended, Ends, FeedKey
    <2>10. \A j \in FeedKey : Feed(j) \in r.gps.flags <=> Feed(j) \in t.gps.flags
        BY <2>8, <2>9, FeedIsFlag
    <2>11. Sessions(t) => Sessions(r)
        BY <1>3, <2>7, <2>8, <2>9, <2>10 DEF Sessions
    <2>12. Served(t) => Served(r)
        BY <1>3, <2>7, <2>8, <2>9, <2>10 DEF Served
    <2> QED BY <2>6, <2>8, <2>9, <2>11, <2>12 DEF Follows
<1> QED BY <1>4, <1>5

(* To the passive list: no request belongs to it.                          *)
LEMMA ReplyPassiveFollows ==
    ASSUME NEW M, NEW t, Fit(t, M), NEW hal \in HalAnswer
    PROVE  Follows(t, Reply(t, "passive", hal), M)
<1> DEFINE a == Answer(t, "passive")
<1>1. /\ Fit(a, M) /\ SameProviders(t, a)
      /\ \A j \in Key \ {"passive"} : a.list[j] = t.list[j]
    <2>1. t \in Service /\ "passive" \in Key /\ "passive" \in LocationKey
        BY DEF Fit, Key, LocationKey
    <2> QED BY <2>1, AnswerAgrees, AnswerFields
<1>2. Reply(t, "passive", hal) \in {a, StopIfUnused(a, "passive", {"hybrid"}, hal)}
    BY DEF Reply
<1> HIDE DEF a
<1>3. /\ a.list["gps"] = t.list["gps"] /\ a.list["nw"] = t.list["nw"]
      /\ a.list["hybrid"] = t.list["hybrid"]
      /\ \A j \in FeedKey : a.list[j] = t.list[j]
      /\ a.gps = t.gps /\ a.nw = t.nw
    BY <1>1 DEF Key, LocationKey, FeedKey, SameProviders
<1>4. PICK others \in SUBSET Key : others = {"hybrid"}
    BY DEF Key, LocationKey
<1>5. PICK b : b = StopIfUnused(a, "passive", others, hal)
    OBVIOUS
<1>6. /\ Fit(b, M) /\ SameLists(a, b) /\ b.gps.flags = a.gps.flags /\ b.nw = a.nw
    <2>1. "passive" \in Key /\ Ends("passive") = {}
        BY DEF Key, LocationKey, Ends, FeedKey
    <2>2. /\ Fit(b, M) /\ SameLists(a, b)
          /\ Ended(a, b, "passive") \/ b = a
        BY <1>1, <1>5, <2>1, StopIfUnusedFields
    <2> QED BY <2>1, <2>2 DEF Ended
<1>7. Follows(t, a, M)
    BY <1>1, <1>3 DEF Follows, Sessions, Served
<1>8. Follows(a, b, M)
    BY <1>6 DEF Follows, Sessions, Served, SameLists
<1>9. Follows(t, b, M)
    BY <1>7, <1>8, FollowsOn
<1> QED BY <1>2, <1>4, <1>5, <1>7, <1>9

LEMMA ReplyFollows ==
    ASSUME NEW M, NEW t, Fit(t, M), NEW k \in LocationKey, NEW hal \in HalAnswer
    PROVE  Follows(t, Reply(t, k, hal), M)
BY ReplyOwnFollows, ReplyHybridFollows, ReplyPassiveFollows DEF LocationKey

(* To the list of a feed.                                                  *)
LEMMA ReplyFeedFollows ==
    ASSUME NEW M, NEW t, Fit(t, M), NEW k \in FeedKey, NEW hal \in HalAnswer
    PROVE  Follows(t, ReplyFeed(t, k, hal), M)
<1>0. t \in Service /\ Agree(t, M) /\ k \in Key /\ k \notin LocationKey
    BY DEF Fit, Key, FeedKey, LocationKey
<1>1. PICK x : x = [t EXCEPT !.list[k] = @ \cap Subscribers]
    OBVIOUS
<1>2. /\ x \in Service /\ SameProviders(t, x)
      /\ x.list[k] = t.list[k] \cap Subscribers
      /\ \A j \in Key \ {k} : x.list[j] = t.list[j]
      /\ x.table = t.table /\ x.timers = t.timers /\ x.told = t.told
    BY <1>0, <1>1 DEF Service, SameProviders
<1>3. PICK C \in SUBSET Call : C = t.list[k]
    BY <1>0 DEF Service
<1>4. PICK a : a = Tell(x, C, "answer")
    OBVIOUS
<1>5. /\ a \in Service /\ SameProviders(x, a)
      /\ a.list = x.list /\ a.table = x.table /\ a.timers = x.timers
      /\ Told(x, a, C, "answer")
    <2>1. "answer" \in Notice
        BY DEF Notice
    <2> QED BY <1>2, <1>4, <2>1, TellFields
<1>6. /\ a.list[k] = t.list[k] \cap Subscribers
      /\ \A j \in Key \ {k} : a.list[j] = t.list[j]
      /\ a.table = t.table /\ a.timers = t.timers /\ a.gps = t.gps /\ a.nw = t.nw
      /\ Told(t, a, C, "answer")
    BY <1>2, <1>5 DEF SameProviders, Told
<1>7. ASSUME NEW c \in C
      PROVE  c \notin t.table /\ \A j \in Key : j # k => c \notin t.list[j]
    <2>1. \A j \in Key : j # k => c \notin t.list[j]
        BY <1>0, <1>3, <1>7 DEF Agree
    <2>2. c \in Call
        BY <1>3, <1>7
    <2> QED BY <1>0, <2>1, <2>2 DEF Agree, Key
<1>8. Agree(a, M)
    <2>1. \A i, j \in Key : i # j => a.list[i] \cap a.list[j] = {}
        BY <1>0, <1>6 DEF Agree
    <2>2. \A c \in Call : c \in a.table <=> \E j \in LocationKey : c \in a.list[j]
        <3>1. \A j \in LocationKey : a.list[j] = t.list[j]
            BY <1>0, <1>6 DEF Key
        <3> QED BY <1>0, <1>6, <3>1 DEF Agree
    <2>3. a.timers \subseteq a.table \cap Timed
        BY <1>0, <1>6 DEF Agree
    <2>4. \A c \in Call : "answer" \in a.told[c] =>
              /\ c \notin a.timers
              /\ c \notin Subscribers => \A j \in Key : c \notin a.list[j]
        <3> TAKE c \in Call
        <3>1. CASE c \in C
            BY <1>0, <1>3, <1>6, <1>7, <3>1 DEF Agree
        <3>2. CASE c \notin C
            BY <1>0, <1>6, <3>2 DEF Agree, Told
        <3> QED BY <3>1, <3>2
    <2>5. \A c \in Call : c \notin M => a.told[c] = {} /\ \A j \in Key : c \notin a.list[j]
        BY <1>0, <1>3, <1>6 DEF Agree, Told
    <2> QED BY <2>1, <2>2, <2>3, <2>4, <2>5 DEF Agree
<1>9. Fit(a, M)
    BY <1>5, <1>6, <1>8 DEF Fit
<1>10. ReplyFeed(t, k, hal) = IF t.list[k] \subseteq Subscribers THEN a
                              ELSE StopIfUnused(a, k, {}, hal)
    BY <1>1, <1>3, <1>4, Zenon DEF ReplyFeed
<1>11. /\ a.list["gps"] = t.list["gps"] /\ a.list["nw"] = t.list["nw"]
       /\ a.list["hybrid"] = t.list["hybrid"]
       /\ \A j \in FeedKey \ {k} : a.list[j] = t.list[j]
    BY <1>6 DEF Key, LocationKey, FeedKey
<1>12. CASE t.list[k] \subseteq Subscribers
    <2>1. a.list[k] = t.list[k]
        BY <1>6, <1>12
    <2> QED BY <1>6, <1>9, <1>10, <1>11, <1>12, <2>1 DEF Follows, Sessions, Served
<1>13. CASE ~(t.list[k] \subseteq Subscribers)
    <2>1. PICK others \in SUBSET Key : others = {}
        OBVIOUS
    <2>2. PICK r : r = StopIfUnused(a, k, others, hal)
        OBVIOUS
    <2> SUFFICES Follows(t, r, M)
        BY <1>10, <1>13, <2>1, <2>2, Zenon
    <2>3. /\ Fit(r, M) /\ SameLists(a, r)
          /\ Free(a, others \cup {k}) => Ended(a, r, k)
          /\ ~Free(a, others \cup {k}) => r = a
        BY <1>0, <1>9, <2>2, StopIfUnusedFields
    <2>4. r.list = a.list /\ k # "nw" /\ k # "gps" /\ Ends(k) = {Feed(k)}
        BY <2>3 DEF SameLists, FeedKey, Ends
    <2>5. /\ r.nw = t.nw
          /\ \/ a.list[k] = {} /\ r.gps.flags = t.gps.flags \ {Feed(k)}
             \/ a.list[k] # {} /\ r.gps.flags = t.gps.flags
        BY <1>6, <2>1, <2>3, <2>4 DEF Free, Ended
    <2>6. /\ Position \in r.gps.flags <=> Position \in t.gps.flags
          /\ \A j \in FeedKey \ {k} :
                Feed(j) \in r.gps.flags <=> Feed(j) \in t.gps.flags
        BY <2>5, FeedIsFlag
    <2>7. Sessions(t) => Sessions(r)
        BY <1>11, <2>4, <2>5, <2>6 DEF Sessions
    <2>8. Served(t) => Served(r)
        BY <1>6, <1>11, <2>4, <2>5, <2>6 DEF Served
    <2> QED BY <2>3, <2>5, <2>7, <2>8 DEF Follows
<1> QED BY <1>12, <1>13

LEMMA ReplyAllFollows ==
    ASSUME NEW M, NEW t, Fit(t, M), NEW k \in {"gps", "nw"}, NEW hal \in HalAnswer
    PROVE  Follows(t, ReplyAll(t, k, hal), M)
<1>1. PICK u : u = Reply(t, k, hal)
    OBVIOUS
<1>2. PICK v : v = Reply(u, "hybrid", hal)
    OBVIOUS
<1>3. ReplyAll(t, k, hal) = Reply(v, "passive", hal)
    BY <1>1, <1>2 DEF ReplyAll
<1>4. Follows(t, u, M) /\ Fit(u, M)
    BY <1>1, ReplyOwnFollows DEF Follows
<1>5. Follows(u, v, M) /\ Fit(v, M)
    BY <1>2, <1>4, ReplyHybridFollows DEF Follows
<1>6. Follows(v, Reply(v, "passive", hal), M)
    BY <1>5, ReplyPassiveFollows
<1> QED BY <1>3, <1>4, <1>5, <1>6, FollowsOn

(* The clients of a handler that goes off.                                 *)
LEMMA ReplyOffFollows ==
    ASSUME NEW M, NEW t, Fit(t, M), NEW h \in {"gps", "network", "hybrid"},
           NEW hal \in HalAnswer
    PROVE  Follows(t, ReplyOff(t, h, hal), M)
<1>1. CASE h = "gps"
    <2>1. PICK u : u = ReplyFeed(t, "nmea", hal)
        OBVIOUS
    <2>2. PICK v : v = ReplyFeed(u, "satellite", hal)
        OBVIOUS
    <2>3. ReplyOff(t, h, hal) = Reply(v, "gps", hal)
        BY <1>1, <2>1, <2>2, Zenon DEF ReplyOff
    <2>4. "nmea" \in FeedKey /\ "satellite" \in FeedKey /\ "gps" \in LocationKey
        BY DEF FeedKey, LocationKey
    <2>5. Follows(t, u, M) /\ Fit(u, M)
        BY <2>1, <2>4, ReplyFeedFollows DEF Follows
    <2>6. Follows(u, v, M) /\ Fit(v, M)
        BY <2>2, <2>4, <2>5, ReplyFeedFollows DEF Follows
    <2>7. Follows(v, Reply(v, "gps", hal), M)
        BY <2>4, <2>6, ReplyFollows
    <2> QED BY <2>3, <2>5, <2>6, <2>7, FollowsOn
<1>2. CASE h = "network"
    <2>1. ReplyOff(t, h, hal) = Reply(t, "nw", hal)
        BY <1>2, Zenon DEF ReplyOff
    <2> QED BY <2>1, ReplyFollows DEF LocationKey
<1>3. CASE h = "hybrid"
    <2>1. ReplyOff(t, h, hal) = Reply(t, "hybrid", hal)
        BY <1>3, Zenon DEF ReplyOff
    <2> QED BY <2>1, ReplyHybridFollows
<1> QED BY <1>1, <1>2, <1>3

-----------------------------------------------------------------------------
(* A call leaves.                                                          *)

(* What becomes of the requests of t in r when nobody but c is listed for  *)
(* them.                                                                   *)
Abandoned(t, r, c) ==
    /\ IF (t.list["gps"] \cup t.list["hybrid"]) \ {c} = {}
       THEN r.gps.flags = t.gps.flags \ {Position}
       ELSE r.gps.flags = t.gps.flags
    /\ IF (t.list["nw"] \cup t.list["hybrid"]) \ {c} = {}
       THEN r.nw # "running"
       ELSE r.nw = t.nw
    /\ r.nw = "running" => t.nw = "running"

LEMMA StopForLeaverFields ==
    ASSUME NEW t \in Service, GpsFits(t.gps), NEW c \in Call, NEW hal \in HalAnswer,
           NEW r, r = StopForLeaver(t, c, hal)
    PROVE  /\ r \in Service /\ GpsFits(r.gps) /\ SameLists(t, r)
           /\ Abandoned(t, r, c)
<1>1. PICK u : u = IF (t.list["nw"] \ {c}) \cup (t.list["hybrid"] \ {c}) = {}
                   THEN StopRequest(t, "nw", hal) ELSE t
    OBVIOUS
<1>2. r = IF (t.list["gps"] \ {c}) \cup (t.list["hybrid"] \ {c}) = {}
          THEN StopRequest(u, "gps", hal) ELSE u
    BY <1>1, Zenon DEF StopForLeaver
<1>3. "nw" \in Key /\ "gps" \in Key /\ Ends("nw") = {} /\ Ends("gps") = {Position}
    BY DEF Key, LocationKey, Ends, FeedKey
<1>4. /\ u \in Service /\ GpsFits(u.gps) /\ SameLists(t, u)
      /\ u.gps.flags = t.gps.flags
      /\ (t.list["nw"] \cup t.list["hybrid"]) \ {c} = {} => u.nw # "running"
      /\ (t.list["nw"] \cup t.list["hybrid"]) \ {c} # {} => u = t
    <2>1. CASE (t.list["nw"] \cup t.list["hybrid"]) \ {c} = {}
        <3>1. PICK k \in Key : k = "nw"
            BY <1>3
        <3>2. u = StopRequest(t, k, hal)
            BY <1>1, <2>1, <3>1
        <3>3. /\ u \in Service /\ GpsFits(u.gps) /\ SameLists(t, u)
              /\ u.gps.flags = t.gps.flags \ Ends(k)
              /\ k = "nw" => u.nw # "running"
            BY <3>2, StopRequestFields
        <3> QED BY <1>3, <2>1, <3>1, <3>3
    <2>2. CASE (t.list["nw"] \cup t.list["hybrid"]) \ {c} # {}
        <3>1. u = t
            BY <1>1, <2>2
        <3> QED BY <2>2, <3>1 DEF SameLists
    <2> QED BY <2>1, <2>2
<1>5. CASE (t.list["gps"] \cup t.list["hybrid"]) \ {c} = {}
    <2>1. r = StopRequest(u, "gps", hal)
        BY <1>2, <1>5
    <2>2. /\ r \in Service /\ GpsFits(r.gps) /\ SameLists(u, r)
          /\ r.gps.flags = u.gps.flags \ {Position} /\ r.nw = u.nw
        BY <1>3, <1>4, <2>1, StopRequestFields
    <2> QED BY <1>4, <1>5, <2>2 DEF SameLists, Abandoned
<1>6. CASE (t.list["gps"] \cup t.list["hybrid"]) \ {c} # {}
    <2>1. r = u
        BY <1>2, <1>6
    <2> QED BY <1>4, <1>6, <2>1 DEF Abandoned
<1> QED BY <1>5, <1>6

(* A call is off every list, and its requests end if it was the last: the  *)
(* state that cancelSubscription and responseTimeout both come to.         *)
LEMMA LeaverFollows ==
    ASSUME NEW M, NEW t, Fit(t, M), NEW c \in Call,
           \E k \in LocationKey : c \in t.list[k],
           NEW r \in Service, GpsFits(r.gps), Abandoned(t, r, c),
           \A k \in Key : r.list[k] = t.list[k] \ {c},
           r.table = t.table \ {c}, r.timers = t.timers \ {c},
           \A d \in Call : d # c => r.told[d] = t.told[d]
    PROVE  Follows(t, r, M)
<1>1. Agree(t, M) /\ LocationKey \subseteq Key /\ FeedKey \subseteq Key
      /\ FeedKey \cap LocationKey = {}
    BY DEF Fit, Key, FeedKey, LocationKey
<1>2. \A k \in FeedKey : c \notin t.list[k]
    BY <1>1 DEF Agree
<1>3. c \in M
    BY <1>1 DEF Agree
<1>4. Agree(r, M)
    <2>1. \A i, j \in Key : i # j => r.list[i] \cap r.list[j] = {}
        BY <1>1 DEF Agree
    <2>2. \A d \in Call : d \in r.table <=> \E j \in LocationKey : d \in r.list[j]
        BY <1>1 DEF Agree
    <2>3. r.timers \subseteq r.table \cap Timed
        BY <1>1 DEF Agree
    <2>4. \A d \in Call : "answer" \in r.told[d] =>
              /\ d \notin r.timers
              /\ d \notin Subscribers => \A j \in Key : d \notin r.list[j]
        BY <1>1 DEF Agree
    <2>5. \A d \in Call : d \notin M => r.told[d] = {} /\ \A j \in Key : d \notin r.list[j]
        BY <1>1, <1>3 DEF Agree
    <2> QED BY <2>1, <2>2, <2>3, <2>4, <2>5 DEF Agree
<1>5. /\ r.list["gps"] = t.list["gps"] \ {c}
      /\ r.list["nw"] = t.list["nw"] \ {c}
      /\ r.list["hybrid"] = t.list["hybrid"] \ {c}
      /\ \A k \in FeedKey : r.list[k] = t.list[k]
    <2>1. "gps" \in Key /\ "nw" \in Key /\ "hybrid" \in Key
        BY DEF Key, LocationKey
    <2>2. ASSUME NEW k \in FeedKey
          PROVE  r.list[k] = t.list[k]
        <3>1. r.list[k] = t.list[k] \ {c} /\ c \notin t.list[k]
            BY <1>1, <1>2
        <3> QED BY <3>1
    <2> QED BY <2>1, <2>2
<1>6. \A k \in FeedKey : Feed(k) \in r.gps.flags <=> Feed(k) \in t.gps.flags
    BY FeedIsFlag DEF Abandoned
<1>7. Sessions(t) => Sessions(r)
    BY <1>5, <1>6 DEF Sessions, Abandoned
<1>8. Served(t) => Served(r)
    BY <1>5, <1>6 DEF Served, Abandoned
<1> QED BY <1>4, <1>7, <1>8 DEF Follows, Fit, Abandoned

-----------------------------------------------------------------------------
(* A call comes.                                                           *)
LEMMA EntryAgrees ==
    ASSUME NEW M, NEW t, Agree(t, M), NEW c \in Call, c \notin M, NEW k \in Key,
           NEW r,
           r.list[k] = t.list[k] \cup {c},
           \A j \in Key : j # k => r.list[j] = t.list[j],
           k \in LocationKey => /\ r.table = t.table \cup {c}
                                /\ r.timers = t.timers \cup ({c} \cap Timed),
           k \in FeedKey => r.table = t.table /\ r.timers = t.timers,
           r.told[c] \subseteq {"refused"},
           \A d \in Call : d # c => r.told[d] = t.told[d]
    PROVE  Agree(r, M \cup {c})
<1>0. LocationKey \subseteq Key /\ FeedKey \subseteq Key /\ FeedKey \cap LocationKey = {}
      /\ Key = LocationKey \cup FeedKey
    BY DEF Key, FeedKey, LocationKey
<1>1. \A j \in Key : c \notin t.list[j]
    BY DEF Agree
<1>2. c \notin t.table
    BY <1>0, <1>1 DEF Agree
<1>3. \A i, j \in Key : i # j => r.list[i] \cap r.list[j] = {}
    BY <1>1 DEF Agree
<1>4. \A d \in Call : d \in r.table <=> \E j \in LocationKey : d \in r.list[j]
    <2>1. CASE k \in LocationKey
        BY <1>0, <1>1, <2>1 DEF Agree
    <2>2. CASE k \in FeedKey
        BY <1>0, <2>2 DEF Agree
    <2> QED BY <1>0, <2>1, <2>2
<1>5. r.timers \subseteq r.table \cap Timed
    BY <1>0 DEF Agree
<1>6. \A d \in Call : "answer" \in r.told[d] =>
          /\ d \notin r.timers
          /\ d \notin Subscribers => \A j \in Key : d \notin r.list[j]
    BY <1>0 DEF Agree
<1>7. \A d \in Call : d \notin M \cup {c} =>
          r.told[d] = {} /\ \A j \in Key : d \notin r.list[j]
    BY DEF Agree
<1> QED BY <1>3, <1>4, <1>5, <1>6, <1>7 DEF Agree

LEMMA EnterFields ==
    ASSUME s \in Service, NEW c \in Call, NEW k \in Key, NEW r, r = Enter(c, k)
    PROVE  /\ r \in Service /\ SameProviders(s, r)
           /\ r.list[k] = s.list[k] \cup {c}
           /\ \A j \in Key : j # k => r.list[j] = s.list[j]
           /\ r.table = s.table \cup {c}
           /\ r.timers = s.timers \cup ({c} \cap Timed)
           /\ r.told = s.told
BY DEF Enter, Service, SameProviders

(* More clients are no harm to a session.                                  *)
LEMMA EnterKeepsSessions ==
    ASSUME NEW t, Sessions(t), NEW r, r.gps.flags = t.gps.flags, r.nw = t.nw,
           \A j \in Key : t.list[j] \subseteq r.list[j]
    PROVE  Sessions(r)
<1>1. /\ t.list["gps"] \subseteq r.list["gps"] /\ t.list["nw"] \subseteq r.list["nw"]
      /\ t.list["hybrid"] \subseteq r.list["hybrid"]
      /\ \A k \in FeedKey : t.list[k] \subseteq r.list[k]
    BY DEF Key, LocationKey
<1> QED BY <1>1 DEF Sessions

(* An error from the Luna method itself changes nothing else.              *)
LEMMA RefusedFollows ==
    ASSUME NEW M, NEW t, Fit(t, M), NEW c \in Call, c \in M,
           NEW r, r = Tell(t, {c}, "refused")
    PROVE  Follows(t, r, M) /\ r.list = t.list /\ SameProviders(t, r)
<1>1. /\ r \in Service /\ SameProviders(t, r)
      /\ r.list = t.list /\ r.table = t.table /\ r.timers = t.timers
      /\ Told(t, r, {c}, "refused")
    <2>1. PICK C \in SUBSET Call : C = {c}
        OBVIOUS
    <2>2. "refused" \in Notice /\ r = Tell(t, C, "refused")
        BY <2>1 DEF Notice
    <2> QED BY <2>1, <2>2, TellFields DEF Fit
<1>2. \A d \in Call : "answer" \in r.told[d] => "answer" \in t.told[d]
    BY <1>1 DEF Told
<1>3. \A d \in Call : d \notin M => r.told[d] = t.told[d]
    BY <1>1 DEF Told
<1>4. Agree(r, M)
    BY <1>1, <1>2, <1>3 DEF Fit, Agree
<1> QED BY <1>1, <1>4 DEF Follows, Fit, SameProviders, Sessions, Served

LEMMA FitsMore ==
    ASSUME NEW M, NEW t, Fit(t, M), NEW c
    PROVE  Fit(t, M \cup {c})
BY DEF Fit, Agree

(* What those need of the GPS provider who are served by it.               *)
GpsServed(t) ==
    /\ t.list["gps"] \cup t.list["hybrid"] # {} => Position \in t.gps.flags
    /\ \A k \in FeedKey : t.list[k] # {} => Feed(k) \in t.gps.flags

LEMMA AskGpsFits ==
    ASSUME NEW M, NEW t, Fit(t, M), NEW c \in Call, c \in M, NEW hal \in HalAnswer,
           NEW r, r = AskGps(t, c, hal)
    PROVE  /\ Fit(r, M) /\ r.list = t.list /\ r.nw = t.nw
           /\ r.gps.flags = t.gps.flags \/ r.gps.flags = t.gps.flags \cup {Position}
           /\ hal.start => Position \in r.gps.flags
<1>1. PICK g : g = StartPosition(t.gps, hal, Now)
    OBVIOUS
<1>2. /\ GpsFits(g)
      /\ g.flags = t.gps.flags \/ g.flags = t.gps.flags \cup {Position}
      /\ hal.start => Position \in g.flags
    <2>1. Now \in Nat /\ GpsFits(t.gps)
        BY DEF Now, Fit
    <2> QED BY <1>1, <2>1, StartPositionFits
<1>3. PICK x : x = [t EXCEPT !.gps = g]
    OBVIOUS
<1>4. x \in Service /\ x.gps = g /\ x.nw = t.nw /\ SameLists(t, x)
    BY <1>2, <1>3, GpsFields DEF Fit, GpsFits
<1>5. Fit(x, M)
    BY <1>2, <1>4 DEF Fit, Agree, SameLists
<1>6. r = IF Position \in g.flags THEN x ELSE Tell(x, {c}, "refused")
    BY <1>1, <1>3 DEF AskGps
<1>7. CASE Position \in g.flags
    BY <1>2, <1>4, <1>5, <1>6, <1>7 DEF SameLists
<1>8. CASE Position \notin g.flags
    <2>1. r = Tell(x, {c}, "refused")
        BY <1>6, <1>8
    <2>2. Fit(r, M) /\ r.list = x.list /\ SameProviders(x, r)
        BY <1>5, <2>1, RefusedFollows DEF Follows
    <2> QED BY <1>2, <1>4, <2>2 DEF SameLists, SameProviders
<1> QED BY <1>7, <1>8

LEMMA AskNetworkFits ==
    ASSUME NEW M, NEW t, Fit(t, M), Sessions(t), NEW c \in Call, c \in M,
           t.list["nw"] \cup t.list["hybrid"] # {}, NEW hal \in HalAnswer,
           NEW u \in AskNetwork(t, c, hal)
    PROVE  /\ Fit(u, M) /\ Sessions(u) /\ u.gps.flags \subseteq t.gps.flags
           /\ "refuse" \notin may /\ GpsServed(t) => Served(u)
<1>1. CASE t.nw = "running" /\ u = t
    BY <1>1 DEF Served, GpsServed
<1>2. CASE t.nw = "running" /\ u = ReplyAll(t, "nw", hal)
    <2>1. Follows(t, u, M)
        BY <1>2, ReplyAllFollows
    <2>2. GpsServed(t) => Served(t)
        BY <1>2 DEF Served, GpsServed
    <2> QED BY <2>1, <2>2 DEF Follows
<1>3. CASE u = [t EXCEPT !.nw = "running"]
    <2>1. u \in Service /\ u.gps = t.gps /\ u.nw = "running" /\ SameLists(t, u)
        BY <1>3 DEF Fit, Service, SameLists
    <2>2. Fit(u, M)
        BY <2>1 DEF Fit, Agree, SameLists
    <2> QED BY <2>1, <2>2 DEF Sessions, Served, GpsServed, SameLists
<1>4. CASE "refuse" \in may /\ u = Tell(t, {c}, "refused")
    <2>1. Follows(t, u, M) /\ SameProviders(t, u)
        BY <1>4, RefusedFollows
    <2> QED BY <1>4, <2>1 DEF Follows, SameProviders
<1> QED BY <1>1, <1>2, <1>3, <1>4 DEF AskNetwork

-----------------------------------------------------------------------------
(* The inductive invariant.                                                *)
RestFits ==
    /\ on \subseteq Handler
    /\ online \in BOOLEAN
    /\ idle \in Seq({Position} \cup FeedKey) /\ Len(idle) <= MaxIdle
    /\ made \subseteq Call /\ cancelled \subseteq made
    /\ dropped \in BOOLEAN
    /\ may \in Worlds

(* Nothing interferes with the providers.                                  *)
Calm == may \cap {"off", "mock", "refuse"} = {}

UpdatesIInv ==
    /\ Fit(s, made)
    /\ Sessions(s)
    /\ Calm => Served(s)
    /\ "off" \notin may => on = Handler
    /\ OffHandlersAreStill
    /\ RestFits

LEMMA AnswersFit ==
    ASSUME NEW hal \in Answers
    PROVE  hal \in HalAnswer /\ ("refuse" \notin may => hal.start /\ hal.stop)
<1>1. CASE "refuse" \in may
    BY <1>1, UpdatesAssumption DEF Answers
<1>2. CASE "refuse" \notin may
    <2>1. hal = [start |-> TRUE, stop |-> TRUE, mode |-> TRUE]
        BY <1>2 DEF Answers
    <2> QED BY <2>1 DEF HalAnswer
<1> QED BY <1>1, <1>2

LEMMA InitUpdates == Init => UpdatesIInv
<1> SUFFICES ASSUME Init PROVE UpdatesIInv
    OBVIOUS
<1>1. PICK g : g = [GpsInit EXCEPT !.enabled = TRUE]
    OBVIOUS
<1>2. GpsFits(g) /\ g.flags = {}
    BY <1>1 DEF GpsFits, GpsInit, Provider, Param
<1>3. s = [gps |-> g, nw |-> "none", list |-> [k \in Key |-> {}], table |-> {},
           timers |-> {}, told |-> [c \in Call |-> {}]]
    BY <1>1 DEF Init
<1>4. /\ s \in Service /\ s.gps = g /\ s.nw = "none" /\ s.table = {} /\ s.timers = {}
      /\ \A k \in Key : s.list[k] = {}
      /\ \A c \in Call : s.told[c] = {}
    BY <1>2, <1>3 DEF GpsFits, Service
<1>5. Fit(s, made)
    BY <1>2, <1>4 DEF Fit, Agree, Key, LocationKey
<1>6. s.list["gps"] = {} /\ s.list["nw"] = {} /\ s.list["hybrid"] = {}
      /\ \A k \in FeedKey : s.list[k] = {}
    BY <1>4 DEF Key, LocationKey
<1>7. Sessions(s) /\ Served(s) /\ OffHandlersAreStill
    BY <1>2, <1>4, <1>6 DEF Sessions, Served, OffHandlersAreStill
<1>8. RestFits
    <2>1. idle = <<>> /\ MaxIdle \in Nat
        BY UpdatesAssumption DEF Init
    <2>2. idle \in Seq({Position} \cup FeedKey) /\ Len(idle) <= MaxIdle
        BY <2>1
    <2>3. made \subseteq Call /\ cancelled \subseteq made /\ may \in Worlds
        BY DEF Init
    <2>4. on \subseteq Handler /\ online \in BOOLEAN /\ dropped \in BOOLEAN
        BY DEF Init
    <2> QED BY <2>2, <2>3, <2>4 DEF RestFits
<1> QED BY <1>5, <1>7, <1>8 DEF UpdatesIInv, Init

(* What most actions come to.                                              *)
LEMMA FollowsKeeps ==
    ASSUME UpdatesIInv, Follows(s, s', made), RestFits',
           on' = on, may' = may, made' = made
    PROVE  UpdatesIInv'
BY DEF UpdatesIInv, Follows, Calm, OffHandlersAreStill

-----------------------------------------------------------------------------
(* The actions.                                                            *)

(* t is the state when a call has asked the GPS part, u that when it       *)
(* returns.                                                                *)
AsksNetwork(c, k, hal, t, u) ==
    "network" \in Started(k) /\ u \in AskNetwork(t, c, hal)

Asked(c, k, hal, t, u) ==
    /\ "gps" \in Started(k) => t = AskGps(Enter(c, k), c, hal)
    /\ "gps" \notin Started(k) => t = Enter(c, k)
    /\ u = t \/ AsksNetwork(c, k, hal, t, u)
    /\ "network" \in Started(k) /\ "gps" \notin Started(k)
           => AsksNetwork(c, k, hal, t, u)

(* A call that is listed, from Enter to what is left when it returns.      *)
LEMMA ListedCallKeeps ==
    ASSUME UpdatesIInv, NEW c \in Call, c \notin made, NEW k \in LocationKey,
           NEW hal \in Answers, ~Rejected(k),
           NEW t, NEW u, Asked(c, k, hal, t, u)
    PROVE  /\ Fit(u, made \cup {c}) /\ Sessions(u)
           /\ Calm => Served(u)
           /\ "gps" \notin on => u.gps.flags \subseteq s.gps.flags
           /\ "network" \notin on => u.nw = s.nw
<1> DEFINE M == made \cup {c}
<1>0. hal \in HalAnswer /\ ("refuse" \notin may => hal.start)
    BY AnswersFit
<1>1. s \in Service /\ GpsFits(s.gps) /\ Agree(s, made) /\ k \in Key /\ c \in M
    BY DEF UpdatesIInv, Fit, Key
<1>2. PICK e : e = Enter(c, k)
    OBVIOUS
<1>3. /\ e \in Service /\ SameProviders(s, e)
      /\ e.list[k] = s.list[k] \cup {c}
      /\ \A j \in Key : j # k => e.list[j] = s.list[j]
      /\ e.table = s.table \cup {c} /\ e.timers = s.timers \cup ({c} \cap Timed)
      /\ e.told = s.told
    BY <1>1, <1>2, EnterFields
<1>4. Fit(e, M) /\ Sessions(e)
    <2>1. s.told[c] \subseteq {"refused"}
        BY <1>1 DEF Agree
    <2>2. k \notin FeedKey
        BY DEF FeedKey, LocationKey
    <2>3. Agree(e, M)
        BY <1>1, <1>3, <2>1, <2>2, EntryAgrees
    <2>4. \A j \in Key : s.list[j] \subseteq e.list[j]
        BY <1>3
    <2>5. Sessions(e)
        BY <1>3, <2>4, EnterKeepsSessions DEF UpdatesIInv, SameProviders
    <2> QED BY <1>1, <1>3, <2>3, <2>5 DEF Fit, SameProviders
<1>5. /\ Fit(t, M) /\ t.list = e.list /\ t.nw = s.nw
      /\ t.gps.flags = s.gps.flags \/ t.gps.flags = s.gps.flags \cup {Position}
      /\ "gps" \in Started(k) /\ hal.start => Position \in t.gps.flags
      /\ "gps" \notin Started(k) => t.gps.flags = s.gps.flags
    <2>1. CASE "gps" \in Started(k)
        <3>1. t = AskGps(e, c, hal)
            BY <1>2, <2>1 DEF Asked
        <3>2. /\ Fit(t, M) /\ t.list = e.list /\ t.nw = e.nw
              /\ t.gps.flags = e.gps.flags \/ t.gps.flags = e.gps.flags \cup {Position}
              /\ hal.start => Position \in t.gps.flags
            BY <1>0, <1>1, <1>4, <3>1, AskGpsFits
        <3> QED BY <1>3, <2>1, <3>2 DEF SameProviders
    <2>2. CASE "gps" \notin Started(k)
        BY <1>2, <1>3, <1>4, <2>2 DEF SameProviders, Asked
    <2> QED BY <2>1, <2>2
<1>6. /\ "gps" \in Started(k) => "gps" \in on /\ k \in {"gps", "hybrid"}
      /\ "network" \in Started(k) => "network" \in on /\ k \in {"nw", "hybrid"}
    BY DEF Started
<1>7. c \in e.list[k]
    BY <1>3
<1>8. Sessions(t)
    <2>1. "gps" \in Started(k) => t.list["gps"] \cup t.list["hybrid"] # {}
        BY <1>5, <1>6, <1>7
    <2>2. \A j \in FeedKey : Feed(j) \in t.gps.flags => Feed(j) \in s.gps.flags
        BY <1>5, FeedIsFlag
    <2>3. \A j \in FeedKey : Feed(j) \in e.gps.flags <=> Feed(j) \in s.gps.flags
        BY <1>3 DEF SameProviders
    <2>4. t.nw = e.nw /\ e.gps.flags = s.gps.flags
        BY <1>3, <1>5 DEF SameProviders
    <2> QED BY <1>4, <1>5, <2>1, <2>2, <2>3, <2>4 DEF Sessions
<1>9. Calm => GpsServed(t) /\ (~AsksNetwork(c, k, hal, t, u) => Served(t))
    <2> SUFFICES ASSUME Calm
                 PROVE  GpsServed(t) /\ (~AsksNetwork(c, k, hal, t, u) => Served(t))
        OBVIOUS
    <2>1. Served(s) /\ on = Handler /\ "refuse" \notin may
        BY DEF UpdatesIInv, Calm
    <2>2. k \in {"gps", "hybrid"} => "gps" \in Started(k)
        BY <2>1 DEF Started, Handler
    <2>3. k = "nw" => AsksNetwork(c, k, hal, t, u)
        BY <2>1 DEF Started, Rejected, Handler, Asked
    <2>4. /\ "gps" # k => e.list["gps"] = s.list["gps"]
          /\ "nw" # k => e.list["nw"] = s.list["nw"]
          /\ "hybrid" # k => e.list["hybrid"] = s.list["hybrid"]
          /\ \A j \in FeedKey : e.list[j] = s.list[j]
        BY <1>3 DEF Key, LocationKey, FeedKey
    <2>5. t.list["gps"] \cup t.list["hybrid"] # {} => Position \in t.gps.flags
        <3>1. CASE k \in {"gps", "hybrid"}
            BY <1>0, <1>5, <2>1, <2>2, <3>1
        <3>2. CASE k \notin {"gps", "hybrid"}
            BY <1>5, <2>1, <2>4, <3>2 DEF Served
        <3> QED BY <3>1, <3>2
    <2>6. \A j \in FeedKey : t.list[j] # {} => Feed(j) \in t.gps.flags
        BY <1>5, <2>1, <2>4 DEF Served
    <2>7. ~AsksNetwork(c, k, hal, t, u) => (t.list["nw"] # {} => t.nw = "running")
        BY <1>5, <2>1, <2>3, <2>4 DEF Served
    <2> QED BY <2>5, <2>6, <2>7 DEF GpsServed, Served
<1>10. CASE AsksNetwork(c, k, hal, t, u)
    <2>1. u \in AskNetwork(t, c, hal) /\ "network" \in Started(k)
        BY <1>10 DEF AsksNetwork
    <2>2. t.list["nw"] \cup t.list["hybrid"] # {}
        BY <1>5, <1>6, <1>7, <2>1
    <2>3. /\ Fit(u, M) /\ Sessions(u) /\ u.gps.flags \subseteq t.gps.flags
          /\ "refuse" \notin may /\ GpsServed(t) => Served(u)
        BY <1>0, <1>1, <1>5, <1>8, <2>1, <2>2, AskNetworkFits
    <2> QED BY <1>5, <1>6, <1>9, <2>1, <2>3 DEF Calm
<1>11. CASE ~AsksNetwork(c, k, hal, t, u)
    <2>1. u = t
        BY <1>11 DEF Asked
    <2> QED BY <1>5, <1>6, <1>8, <1>9, <1>11, <2>1
<1> QED BY <1>10, <1>11

LEMMA RejectedCallKeeps ==
    ASSUME UpdatesIInv, NEW c \in Call, Make(c, Tell(s, {c}, "refused"))
    PROVE  UpdatesIInv'
<1>1. Fit(s, made \cup {c})
    BY FitsMore DEF UpdatesIInv
<1>2. s' = Tell(s, {c}, "refused") /\ made' = made \cup {c}
    BY DEF Make
<1>3. Follows(s, s', made')
    <2>1. PICK M : M = made \cup {c}
        OBVIOUS
    <2>2. Follows(s, s', M)
        BY <1>1, <1>2, <2>1, RefusedFollows
    <2> QED BY <1>2, <2>1, <2>2
<1>4. UNCHANGED <<on, may>> /\ RestFits'
    BY DEF Make, UpdatesIInv, RestFits
<1> QED BY <1>3, <1>4 DEF UpdatesIInv, Follows, Calm, OffHandlersAreStill

LEMMA GetLocationUpdatesKeeps ==
    ASSUME UpdatesIInv, NEW c \in Call, NEW k \in LocationKey, GetLocationUpdates(c, k)
    PROVE  UpdatesIInv'
<1>1. PICK hal \in Answers :
        LET gps  == "gps" \in Started(k)
            t    == IF gps THEN AskGps(Enter(c, k), c, hal) ELSE Enter(c, k)
            next == /\ "network" \in Started(k)
                    /\ gps => Position \in t.gps.flags /\ ~MockAnswers(t.gps.mock)
        IN  IF Rejected(k) THEN Make(c, Tell(s, {c}, "refused"))
            ELSE \E u \in (IF next THEN AskNetwork(t, c, hal) ELSE {t}) : Make(c, u)
    BY DEF GetLocationUpdates
<1>2. CASE Rejected(k)
    BY <1>1, <1>2, RejectedCallKeeps
<1>3. CASE ~Rejected(k)
    <2>1. PICK t : t = IF "gps" \in Started(k) THEN AskGps(Enter(c, k), c, hal)
                       ELSE Enter(c, k)
        OBVIOUS
    <2>2. PICK next \in BOOLEAN :
            next <=> /\ "network" \in Started(k)
                     /\ "gps" \in Started(k) =>
                           Position \in t.gps.flags /\ ~MockAnswers(t.gps.mock)
        OBVIOUS
    <2>3. PICK u \in (IF next THEN AskNetwork(t, c, hal) ELSE {t}) : Make(c, u)
        BY <1>1, <1>3, <2>1, <2>2, Zenon
    <2>4. c \notin made /\ s' = u /\ made' = made \cup {c}
        BY <2>3 DEF Make
    <2>5. /\ Fit(u, made \cup {c}) /\ Sessions(u)
          /\ Calm => Served(u)
          /\ "gps" \notin on => u.gps.flags \subseteq s.gps.flags
          /\ "network" \notin on => u.nw = s.nw
        <3>1. "gps" \notin Started(k) =>
                  (next <=> "network" \in Started(k))
            BY <2>2
        <3>2. (next => u \in AskNetwork(t, c, hal)) /\ (~next => u = t)
            BY <2>3
        <3>3. Asked(c, k, hal, t, u)
            BY <2>1, <2>2, <3>1, <3>2 DEF Asked, AsksNetwork
        <3> QED BY <1>3, <2>4, <3>3, ListedCallKeeps
    <2>6. UNCHANGED <<on, may>> /\ RestFits'
        BY <2>3 DEF Make, UpdatesIInv, RestFits
    <2> QED BY <2>4, <2>5, <2>6 DEF UpdatesIInv, Calm, OffHandlersAreStill
<1> QED BY <1>2, <1>3

LEMMA GetFeedKeeps ==
    ASSUME UpdatesIInv, NEW c \in Call, NEW k \in FeedKey, GetFeed(c, k)
    PROVE  UpdatesIInv'
<1>1. PICK hal \in Answers :
        LET g == StartFeed(s.gps, Feed(k), hal)
            t == [s EXCEPT !.gps = g, !.list[k] = @ \cup {c}]
        IN  Make(c, IF "gps" \notin on THEN Tell(s, {c}, "refused")
                    ELSE IF Feed(k) \in g.flags THEN t
                    ELSE Tell(t, {c}, "refused"))
    BY DEF GetFeed
<1>2. CASE "gps" \notin on
    BY <1>1, <1>2, RejectedCallKeeps
<1>3. CASE "gps" \in on
    <2> DEFINE M == made \cup {c}
    <2>0. s \in Service /\ GpsFits(s.gps) /\ Agree(s, made) /\ k \in Key /\ k \notin LocationKey
        BY DEF UpdatesIInv, Fit, Key, FeedKey, LocationKey
    <2>1. PICK g : g = StartFeed(s.gps, Feed(k), hal)
        OBVIOUS
    <2>2. PICK t : t = [s EXCEPT !.gps = g, !.list[k] = @ \cup {c}]
        OBVIOUS
    <2>3. Make(c, IF Feed(k) \in g.flags THEN t ELSE Tell(t, {c}, "refused"))
        BY <1>1, <1>3, <2>1, <2>2, Zenon
    <2>4. PICK r : r = IF Feed(k) \in g.flags THEN t ELSE Tell(t, {c}, "refused")
        OBVIOUS
    <2>5. /\ s' = r /\ made' = made \cup {c} /\ c \notin made
          /\ UNCHANGED <<on, may>> /\ RestFits'
        BY <2>3, <2>4 DEF Make, UpdatesIInv, RestFits
    <2>6. /\ GpsFits(g) /\ g \in Provider
          /\ g.flags = s.gps.flags \/ g.flags = s.gps.flags \cup {Feed(k)}
          /\ "refuse" \notin may => Feed(k) \in g.flags
        <3>1. Feed(k) \in ApiFlag
            BY FeedIsFlag
        <3> QED BY <2>0, <2>1, <3>1, AnswersFit, StartFeedFits DEF GpsFits
    <2>7. /\ t \in Service /\ t.gps = g /\ t.nw = s.nw
          /\ t.list[k] = s.list[k] \cup {c}
          /\ \A j \in Key : j # k => t.list[j] = s.list[j]
          /\ t.table = s.table /\ t.timers = s.timers /\ t.told = s.told
        BY <2>0, <2>2, <2>6 DEF Service
    <2>8. Fit(t, M)
        <3>1. t.told[c] \subseteq {"refused"}
            BY <2>0, <2>5, <2>7 DEF Agree
        <3>2. Agree(t, M)
            BY <2>0, <2>5, <2>7, <3>1, EntryAgrees
        <3> QED BY <2>6, <2>7, <3>2 DEF Fit
    <2>9. Fit(r, M) /\ r.list = t.list /\ r.gps = t.gps /\ r.nw = t.nw
        <3>1. CASE Feed(k) \in g.flags
            BY <2>4, <2>8, <3>1
        <3>2. CASE Feed(k) \notin g.flags
            <4>1. r = Tell(t, {c}, "refused") /\ c \in M
                BY <2>4, <3>2
            <4> QED BY <2>8, <4>1, RefusedFollows DEF Follows, SameProviders
        <3> QED BY <3>1, <3>2
    <2>10. /\ r.list["gps"] = s.list["gps"] /\ r.list["hybrid"] = s.list["hybrid"]
           /\ r.list["nw"] = s.list["nw"] /\ r.nw = s.nw
           /\ r.list[k] # {} /\ \A j \in FeedKey : j # k => r.list[j] = s.list[j]
           /\ Position \in r.gps.flags <=> Position \in s.gps.flags
           /\ \A j \in FeedKey : j # k =>
                 (Feed(j) \in r.gps.flags <=> Feed(j) \in s.gps.flags)
        <3>1. "gps" # k /\ "nw" # k /\ "hybrid" # k
            BY DEF FeedKey
        <3>2. "gps" \in Key /\ "nw" \in Key /\ "hybrid" \in Key /\ FeedKey \subseteq Key
            BY DEF Key, LocationKey
        <3>3. /\ Position \in r.gps.flags <=> Position \in s.gps.flags
              /\ \A j \in FeedKey : j # k =>
                    (Feed(j) \in r.gps.flags <=> Feed(j) \in s.gps.flags)
            BY <2>6, <2>7, <2>9, FeedIsFlag
        <3> QED BY <2>7, <2>9, <3>1, <3>2, <3>3
    <2>11. Sessions(r)
        <3>1. Sessions(s)
            BY DEF UpdatesIInv
        <3> QED BY <2>10, <3>1 DEF Sessions
    <2>12. Calm => Served(r)
        <3> SUFFICES ASSUME Calm PROVE Served(r)
            OBVIOUS
        <3>1. Served(s) /\ Feed(k) \in r.gps.flags
            BY <2>6, <2>7, <2>9 DEF UpdatesIInv, Calm
        <3> QED BY <2>10, <3>1 DEF Served
    <2>13. Fit(s', made') /\ Sessions(s') /\ (Calm => Served(s')) /\ s'.nw = s.nw
        BY <2>5, <2>9, <2>10, <2>11, <2>12
    <2> QED BY <1>3, <2>5, <2>13 DEF UpdatesIInv, Calm, OffHandlersAreStill
<1> QED BY <1>2, <1>3

LEMMA CancelLocationKeeps ==
    ASSUME UpdatesIInv, NEW c \in Call, NEW k \in LocationKey, c \in s.list[k],
           NEW hal \in HalAnswer
    PROVE  Follows(s, Unlist(RemoveRequest(StopForLeaver(s, c, hal), {c}), c), made)
<1>0. Fit(s, made) /\ s \in Service /\ GpsFits(s.gps)
    BY DEF UpdatesIInv, Fit
<1>1. PICK u : u = StopForLeaver(s, c, hal)
    OBVIOUS
<1>2. /\ u \in Service /\ GpsFits(u.gps) /\ SameLists(s, u)
      /\ Abandoned(s, u, c)
    BY <1>0, <1>1, StopForLeaverFields
<1>3. PICK C \in SUBSET Call : C = {c}
    OBVIOUS
<1>4. PICK v : v = RemoveRequest(u, C)
    OBVIOUS
<1>5. /\ v \in Service /\ SameProviders(u, v) /\ v.list = u.list
      /\ v.table = u.table \ C /\ v.timers = u.timers \ C /\ v.told = u.told
    BY <1>2, <1>4, RemoveFields
<1>6. PICK r : r = Unlist(v, c)
    OBVIOUS
<1>7. /\ r \in Service /\ SameProviders(v, r)
      /\ \A j \in Key : r.list[j] = v.list[j] \ {c}
      /\ r.table = v.table /\ r.timers = v.timers /\ r.told = v.told
    BY <1>5, <1>6, UnlistFields
<1>8. /\ r.table = s.table \ {c} /\ r.timers = s.timers \ {c} /\ r.told = s.told
      /\ \A j \in Key : r.list[j] = s.list[j] \ {c}
      /\ r.gps = u.gps /\ r.nw = u.nw
    BY <1>2, <1>3, <1>5, <1>7 DEF SameLists, SameProviders
<1>9. Abandoned(s, r, c) /\ GpsFits(r.gps)
    BY <1>2, <1>8 DEF Abandoned
<1>10. Follows(s, r, made)
    BY <1>0, <1>7, <1>8, <1>9, LeaverFollows
<1> QED BY <1>1, <1>3, <1>4, <1>6, <1>10

LEMMA CancelFeedKeeps ==
    ASSUME UpdatesIInv, NEW c \in Call, NEW k \in FeedKey, c \in s.list[k],
           NEW hal \in HalAnswer, NEW t, t = Unlist(s, c)
    PROVE  Follows(s, StopIfUnused(t, k, {}, hal), made)
<1>0. Agree(s, made) /\ s \in Service /\ GpsFits(s.gps) /\ k \in Key
    BY DEF UpdatesIInv, Fit, Key
<1>1. /\ t \in Service /\ SameProviders(s, t)
      /\ \A j \in Key : t.list[j] = s.list[j] \ {c}
      /\ t.table = s.table /\ t.timers = s.timers /\ t.told = s.told
    BY <1>0, UnlistFields
<1>2. ASSUME NEW j \in Key, j # k
      PROVE  t.list[j] = s.list[j]
    <2>1. s.list[k] \cap s.list[j] = {}
        BY <1>0, <1>2 DEF Agree
    <2>2. t.list[j] = s.list[j] \ {c} /\ c \notin s.list[j]
        BY <1>1, <2>1
    <2> QED BY <2>2
<1>3. /\ LocationKey \subseteq Key /\ FeedKey \subseteq Key
      /\ k # "gps" /\ k # "nw" /\ k # "hybrid" /\ k \notin LocationKey
      /\ "gps" \in Key /\ "nw" \in Key /\ "hybrid" \in Key
    BY DEF Key, LocationKey, FeedKey
<1>4. Fit(t, made)
    <2>1. \A d \in Call : d \in t.table <=> \E j \in LocationKey : d \in t.list[j]
        BY <1>0, <1>1, <1>2, <1>3 DEF Agree
    <2>2. \A i, j \in Key : i # j => t.list[i] \cap t.list[j] = {}
        BY <1>0, <1>1 DEF Agree
    <2>3. \A j \in Key : t.list[j] \subseteq s.list[j]
        BY <1>1
    <2>4. \A d \in Call : "answer" \in t.told[d] =>
              /\ d \notin t.timers
              /\ d \notin Subscribers => \A j \in Key : d \notin t.list[j]
        BY <1>0, <1>1, <2>3 DEF Agree
    <2>5. \A d \in Call : d \notin made => t.told[d] = {} /\ \A j \in Key : d \notin t.list[j]
        BY <1>0, <1>1, <2>3 DEF Agree
    <2>6. t.timers \subseteq t.table \cap Timed
        BY <1>0, <1>1 DEF Agree
    <2>7. Agree(t, made)
        BY <2>1, <2>2, <2>4, <2>5, <2>6 DEF Agree
    <2> QED BY <1>0, <1>1, <2>7 DEF Fit, SameProviders
<1>5. PICK others \in SUBSET Key : others = {}
    OBVIOUS
<1>6. PICK r : r = StopIfUnused(t, k, others, hal)
    OBVIOUS
<1> SUFFICES Follows(s, r, made)
    BY <1>5, <1>6, Zenon
<1>7. /\ Fit(r, made) /\ SameLists(t, r)
      /\ Free(t, others \cup {k}) => Ended(t, r, k)
      /\ ~Free(t, others \cup {k}) => r = t
    BY <1>0, <1>4, <1>6, StopIfUnusedFields
<1>8. Ends(k) = {Feed(k)}
    BY <1>3 DEF Ends
<1>9. /\ r.nw = s.nw
      /\ \/ t.list[k] = {} /\ r.gps.flags = s.gps.flags \ {Feed(k)}
         \/ t.list[k] # {} /\ r.gps.flags = s.gps.flags
    BY <1>1, <1>3, <1>5, <1>7, <1>8 DEF Free, Ended, SameProviders
<1>10. /\ r.list["gps"] = s.list["gps"] /\ r.list["nw"] = s.list["nw"]
       /\ r.list["hybrid"] = s.list["hybrid"]
       /\ \A j \in FeedKey : j # k => r.list[j] = s.list[j]
       /\ r.list[k] = t.list[k] /\ t.list[k] \subseteq s.list[k]
    BY <1>1, <1>2, <1>3, <1>7 DEF SameLists
<1>11. /\ Position \in r.gps.flags <=> Position \in s.gps.flags
       /\ \A j \in FeedKey : j # k =>
             (Feed(j) \in r.gps.flags <=> Feed(j) \in s.gps.flags)
    BY <1>9, FeedIsFlag
<1>12. Sessions(s) => Sessions(r)
    BY <1>9, <1>10, <1>11 DEF Sessions
<1>13. Served(s) => Served(r)
    BY <1>9, <1>10, <1>11 DEF Served
<1> QED BY <1>7, <1>9, <1>12, <1>13 DEF Follows

LEMMA CancelKeeps ==
    ASSUME UpdatesIInv, NEW c \in Call, NEW k \in Key, Cancel(c, k)
    PROVE  UpdatesIInv'
<1>1. PICK hal \in Answers :
        s' = IF k \in FeedKey
             THEN LET t == Unlist(s, c) IN StopIfUnused(t, k, {}, hal)
             ELSE Unlist(RemoveRequest(StopForLeaver(s, c, hal), {c}), c)
    BY DEF Cancel
<1>2. c \in s.list[k] /\ hal \in HalAnswer
    BY AnswersFit DEF Cancel
<1>3. Follows(s, s', made)
    <2>1. CASE k \in FeedKey
        <3>1. PICK t : t = Unlist(s, c)
            OBVIOUS
        <3>2. s' = StopIfUnused(t, k, {}, hal)
            BY <1>1, <2>1, <3>1
        <3> QED BY <1>2, <2>1, <3>1, <3>2, CancelFeedKeeps
    <2>2. CASE k \notin FeedKey
        <3>1. k \in LocationKey
            BY <2>2 DEF Key
        <3>2. s' = Unlist(RemoveRequest(StopForLeaver(s, c, hal), {c}), c)
            BY <1>1, <2>2
        <3> QED BY <1>2, <3>1, <3>2, CancelLocationKeeps
    <2> QED BY <2>1, <2>2
<1>4. UNCHANGED <<on, may, made>> /\ RestFits'
    <2>1. c \in made
        BY <1>2 DEF UpdatesIInv, Fit, Agree
    <2> QED BY <2>1 DEF Cancel, UpdatesIInv, RestFits
<1> QED BY <1>3, <1>4, FollowsKeeps

LEMMA ResponseTimeoutKeeps ==
    ASSUME UpdatesIInv, NEW c \in Call, ResponseTimeout(c)
    PROVE  UpdatesIInv'
<1>1. PICK hal \in Answers :
        LET t == Tell([s EXCEPT !.timers = @ \ {c}], {c}, "answer")
            u == IF \E k \in LocationKey : c \in s.list[k]
                 THEN RemoveRequest(Unlist(t, c), {c})
                 ELSE t
        IN  Only(StopForLeaver(u, c, hal))
    BY DEF ResponseTimeout
<1>2. Fit(s, made) /\ s \in Service /\ GpsFits(s.gps) /\ Agree(s, made) /\ hal \in HalAnswer
    BY AnswersFit DEF UpdatesIInv, Fit
<1>3. \E k \in LocationKey : c \in s.list[k]
    BY <1>2 DEF Agree, ResponseTimeout
<1>4. PICK x : x = [s EXCEPT !.timers = @ \ {c}]
    OBVIOUS
<1>5. PICK C \in SUBSET Call : C = {c}
    OBVIOUS
<1>6. PICK t : t = Tell(x, C, "answer")
    OBVIOUS
<1>7. PICK v : v = Unlist(t, c)
    OBVIOUS
<1>8. PICK u : u = RemoveRequest(v, C)
    OBVIOUS
<1>9. PICK r : r = StopForLeaver(u, c, hal)
    OBVIOUS
<1>10. s' = r /\ UNCHANGED <<on, online, idle, made, cancelled, dropped, may>>
    <2>1. Only(r)
        BY <1>1, <1>3, <1>4, <1>5, <1>6, <1>7, <1>8, <1>9, Zenon
    <2> QED BY <2>1 DEF Only
<1>11. /\ x \in Service /\ SameProviders(s, x) /\ x.list = s.list /\ x.table = s.table
       /\ x.timers = s.timers \ {c} /\ x.told = s.told
    BY <1>2, <1>4 DEF Service, SameProviders
<1>12. /\ t \in Service /\ SameProviders(x, t)
       /\ t.list = x.list /\ t.table = x.table /\ t.timers = x.timers
       /\ Told(x, t, C, "answer")
    BY <1>6, <1>11, TellFields DEF Notice
<1>13. /\ v \in Service /\ SameProviders(t, v)
       /\ \A k \in Key : v.list[k] = t.list[k] \ {c}
       /\ v.table = t.table /\ v.timers = t.timers /\ v.told = t.told
    BY <1>7, <1>12, UnlistFields
<1>14. /\ u \in Service /\ SameProviders(v, u) /\ u.list = v.list
       /\ u.table = v.table \ C /\ u.timers = v.timers \ C /\ u.told = v.told
    BY <1>8, <1>13, RemoveFields
<1>15. u.gps = s.gps /\ u.nw = s.nw
    BY <1>11, <1>12, <1>13, <1>14 DEF SameProviders
<1>16. /\ r \in Service /\ GpsFits(r.gps) /\ SameLists(u, r)
       /\ Abandoned(u, r, c)
    BY <1>2, <1>9, <1>14, <1>15, StopForLeaverFields
<1>17. /\ \A k \in Key : r.list[k] = s.list[k] \ {c}
       /\ \A k \in Key : u.list[k] = s.list[k] \ {c}
       /\ r.table = s.table \ {c} /\ r.timers = s.timers \ {c}
       /\ \A d \in Call : d # c => r.told[d] = s.told[d]
    BY <1>5, <1>11, <1>12, <1>13, <1>14, <1>16 DEF SameLists, Told
<1>18. Abandoned(s, r, c)
    <2>1. /\ u.list["gps"] = s.list["gps"] \ {c} /\ u.list["nw"] = s.list["nw"] \ {c}
          /\ u.list["hybrid"] = s.list["hybrid"] \ {c}
        BY <1>17 DEF Key, LocationKey
    <2>2. /\ (u.list["gps"] \cup u.list["hybrid"]) \ {c}
             = (s.list["gps"] \cup s.list["hybrid"]) \ {c}
          /\ (u.list["nw"] \cup u.list["hybrid"]) \ {c}
             = (s.list["nw"] \cup s.list["hybrid"]) \ {c}
        BY <2>1
    <2> QED BY <1>15, <1>16, <2>2 DEF Abandoned
<1>19. Follows(s, r, made)
    BY <1>2, <1>3, <1>16, <1>17, <1>18, LeaverFollows
<1>20. RestFits'
    BY <1>10 DEF UpdatesIInv, RestFits
<1> QED BY <1>10, <1>19, <1>20, FollowsKeeps

LEMMA SameStateFollows ==
    ASSUME UpdatesIInv
    PROVE  Follows(s, s, made)
BY DEF UpdatesIInv, Follows

(* The GPS provider alone changes, and keeps its feeds.                    *)
LEMMA SameFeedsFollow ==
    ASSUME UpdatesIInv, NEW g \in Provider, GpsFits(g), g.flags = s.gps.flags
    PROVE  Follows(s, [s EXCEPT !.gps = g], made)
<1>1. PICK r : r = [s EXCEPT !.gps = g]
    OBVIOUS
<1>2. r \in Service /\ r.gps = g /\ r.nw = s.nw /\ SameLists(s, r)
    BY <1>1, GpsFields DEF UpdatesIInv, Fit
<1>3. Follows(s, r, made)
    BY <1>2 DEF UpdatesIInv, Follows, Fit, Agree, SameLists, Sessions, Served
<1> QED BY <1>1, <1>3

LEMMA QueueKeepsIdle ==
    ASSUME UpdatesIInv, NEW what \in {Position} \cup FeedKey, Queue(what)
    PROVE  idle' \in Seq({Position} \cup FeedKey) /\ Len(idle') <= MaxIdle
<1>1. /\ idle \in Seq({Position} \cup FeedKey) /\ Len(idle) < MaxIdle
      /\ idle' = Append(idle, what) /\ MaxIdle \in Nat
    BY UpdatesAssumption DEF UpdatesIInv, RestFits, Queue
<1> QED BY <1>1

LEMMA ReportKeeps ==
    ASSUME UpdatesIInv, NEW what \in {Position} \cup FeedKey, Queue(what),
           UNCHANGED <<s, on, online, made, cancelled, dropped, may>>
    PROVE  UpdatesIInv'
<1>1. RestFits'
    BY QueueKeepsIdle DEF UpdatesIInv, RestFits
<1> QED BY <1>1, SameStateFollows, FollowsKeeps

LEMMA PosTimeoutKeeps ==
    ASSUME UpdatesIInv, PosTimeout
    PROVE  UpdatesIInv'
<1>1. PICK g : g = PosTimerFires(s.gps)
    OBVIOUS
<1>2. g \in Provider /\ GpsFits(g) /\ g.flags = s.gps.flags
    BY <1>1 DEF UpdatesIInv, Fit, GpsFits, Provider, PosTimerFires
<1>3. s' = [s EXCEPT !.gps = g]
    BY <1>1 DEF PosTimeout
<1>4. Follows(s, s', made)
    BY <1>2, <1>3, SameFeedsFollow
<1>5. RestFits'
    <2>1. idle' \in Seq({Position} \cup FeedKey) /\ Len(idle') <= MaxIdle
        <3>1. CASE Position \in s.gps.flags
            BY <3>1, QueueKeepsIdle DEF PosTimeout
        <3>2. CASE Position \notin s.gps.flags
            BY <3>2 DEF PosTimeout, UpdatesIInv, RestFits
        <3> QED BY <3>1, <3>2
    <2> QED BY <2>1 DEF PosTimeout, UpdatesIInv, RestFits
<1>6. UNCHANGED <<on, may, made>>
    BY DEF PosTimeout
<1> QED BY <1>4, <1>5, <1>6, FollowsKeeps

LEMMA RunIdleKeeps ==
    ASSUME UpdatesIInv, RunIdle
    PROVE  UpdatesIInv'
<1>1. PICK hal \in Answers :
        s' = IF Head(idle) = Position THEN ReplyAll(s, "gps", hal)
             ELSE ReplyFeed(s, Head(idle), hal)
    BY DEF RunIdle
<1>2. hal \in HalAnswer /\ Fit(s, made)
    BY AnswersFit DEF UpdatesIInv
<1>3. /\ Head(idle) \in {Position} \cup FeedKey
      /\ Tail(idle) \in Seq({Position} \cup FeedKey) /\ Len(Tail(idle)) <= MaxIdle
    <2>1. /\ idle \in Seq({Position} \cup FeedKey) /\ idle # <<>>
          /\ Len(idle) <= MaxIdle /\ MaxIdle \in Nat
        BY UpdatesAssumption DEF RunIdle, UpdatesIInv, RestFits
    <2> QED BY <2>1
<1>4. Follows(s, s', made)
    <2>1. CASE Head(idle) = Position
        BY <1>1, <1>2, <2>1, ReplyAllFollows
    <2>2. CASE Head(idle) # Position
        <3>1. PICK k \in FeedKey : k = Head(idle)
            BY <1>3, <2>2
        <3>2. s' = ReplyFeed(s, k, hal)
            BY <1>1, <2>2, <3>1
        <3> QED BY <1>2, <3>2, ReplyFeedFollows
    <2> QED BY <2>1, <2>2
<1>5. UNCHANGED <<on, may, made>> /\ RestFits'
    BY <1>3 DEF RunIdle, UpdatesIInv, RestFits
<1> QED BY <1>4, <1>5, FollowsKeeps

LEMMA NetworkReportsKeeps ==
    ASSUME UpdatesIInv, NetworkReports
    PROVE  UpdatesIInv'
<1>1. PICK hal \in Answers : Only(ReplyAll(s, "nw", hal))
    BY DEF NetworkReports
<1>2. Follows(s, s', made)
    BY <1>1, AnswersFit, ReplyAllFollows DEF Only, UpdatesIInv
<1>3. UNCHANGED <<on, may, made>> /\ RestFits'
    BY <1>1 DEF Only, UpdatesIInv, RestFits
<1> QED BY <1>2, <1>3, FollowsKeeps

(* stopped: the request of a handler that goes off is ended.               *)
LEMMA StoppedFits ==
    ASSUME UpdatesIInv, NEW h \in Handler, NEW hal \in Answers,
           NEW r, r = IF h = "gps" THEN [s EXCEPT !.gps = StopGps(@, hal)]
                      ELSE StopRequest(s, "nw", hal)
    PROVE  /\ Fit(r, made) /\ Sessions(r) /\ r.gps.flags \subseteq s.gps.flags
           /\ r.nw = "running" => s.nw = "running"
           /\ h = "gps" /\ "refuse" \notin may => r.gps.flags = {}
           /\ h = "network" => r.nw # "running"
<1>0. /\ s \in Service /\ GpsFits(s.gps) /\ Agree(s, made) /\ Sessions(s)
      /\ hal \in HalAnswer /\ ("refuse" \notin may => hal.stop)
    BY AnswersFit DEF UpdatesIInv, Fit
<1>1. CASE h = "gps"
    <2>1. PICK g : g = StopGps(s.gps, hal)
        OBVIOUS
    <2>2. /\ GpsFits(g) /\ g \in Provider /\ g.flags \subseteq s.gps.flags
          /\ "refuse" \notin may => g.flags = {}
        BY <1>0, <2>1, StopGpsFits DEF GpsFits
    <2>3. r = [s EXCEPT !.gps = g]
        BY <1>1, <2>1
    <2>4. r \in Service /\ r.gps = g /\ r.nw = s.nw /\ SameLists(s, r)
        BY <1>0, <2>2, <2>3, GpsFields
    <2>5. Fit(r, made)
        BY <1>0, <2>2, <2>4 DEF Fit, Agree, SameLists
    <2>6. Sessions(r)
        BY <1>0, <2>2, <2>4 DEF Sessions, SameLists
    <2> QED BY <1>1, <2>2, <2>4, <2>5, <2>6
<1>2. CASE h # "gps"
    <2>1. PICK k \in Key : k = "nw"
        BY DEF Key, LocationKey
    <2>2. r = StopRequest(s, k, hal)
        BY <1>2, <2>1
    <2>3. /\ r \in Service /\ GpsFits(r.gps) /\ SameLists(s, r)
          /\ r.gps.flags = s.gps.flags \ Ends(k) /\ r.nw # "running"
        <3>1. PICK y : y = StopRequest(s, k, hal)
            OBVIOUS
        <3>2. /\ y \in Service /\ GpsFits(y.gps) /\ SameLists(s, y)
              /\ y.gps.flags = s.gps.flags \ Ends(k)
              /\ k = "nw" => y.nw # "running"
            BY <1>0, <3>1, StopRequestFields
        <3> QED BY <2>1, <2>2, <3>1, <3>2
    <2>4. r.gps.flags = s.gps.flags
        BY <2>1, <2>3 DEF Ends, FeedKey
    <2>5. Fit(r, made)
        BY <1>0, <2>3 DEF Fit, Agree, SameLists
    <2>6. Sessions(r)
        BY <1>0, <2>3, <2>4 DEF Sessions, SameLists
    <2> QED BY <1>2, <2>3, <2>4, <2>5, <2>6
<1> QED BY <1>1, <1>2

LEMMA SetStateKeeps ==
    ASSUME UpdatesIInv, NEW h \in Handler, NEW state \in BOOLEAN, SetState(h, state)
    PROVE  UpdatesIInv'
<1>1. PICK h1 \in Answers, h2 \in Answers :
        LET stopped == IF h = "gps" THEN [s EXCEPT !.gps = StopGps(@, h1)]
                       ELSE StopRequest(s, "nw", h1)
            t == IF h \in on /\ ~state THEN ReplyOff(stopped, h, h2) ELSE s
        IN  s' = IF on' = {} THEN ReplyOff(t, "hybrid", h2) ELSE t
    BY DEF SetState
<1>2. /\ "off" \in may /\ on' = (IF state THEN on \cup {h} ELSE on \ {h})
      /\ UNCHANGED <<online, idle, made, cancelled, dropped, may>>
      /\ h2 \in HalAnswer
    BY AnswersFit DEF SetState
<1>3. PICK x : x = IF h = "gps" THEN [s EXCEPT !.gps = StopGps(@, h1)]
                   ELSE StopRequest(s, "nw", h1)
    OBVIOUS
<1>4. /\ Fit(x, made) /\ Sessions(x) /\ x.gps.flags \subseteq s.gps.flags
      /\ x.nw = "running" => s.nw = "running"
      /\ h = "gps" /\ "refuse" \notin may => x.gps.flags = {}
      /\ h = "network" => x.nw # "running"
    BY <1>3, StoppedFits
<1>5. PICK t : t = IF h \in on /\ ~state THEN ReplyOff(x, h, h2) ELSE s
    OBVIOUS
<1>6. /\ Fit(t, made) /\ Sessions(t) /\ t.gps.flags \subseteq s.gps.flags
      /\ t.nw = "running" => s.nw = "running"
      /\ h \in on \ on' =>
            /\ h = "gps" /\ "refuse" \notin may => t.gps.flags = {}
            /\ h = "network" => t.nw # "running"
    <2>1. CASE h \in on /\ ~state
        <3>1. Follows(x, t, made)
            <4>1. PICK hh \in {"gps", "network", "hybrid"} : hh = h
                BY DEF Handler
            <4>2. t = ReplyOff(x, hh, h2)
                BY <1>5, <2>1, <4>1
            <4> QED BY <1>2, <1>4, <4>2, ReplyOffFollows
        <3> QED BY <1>4, <3>1 DEF Follows
    <2>2. CASE ~(h \in on /\ ~state)
        BY <1>2, <1>5, <2>2 DEF UpdatesIInv
    <2> QED BY <2>1, <2>2
<1>7. Follows(t, s', made)
    <2>1. CASE on' = {}
        <3>1. s' = ReplyOff(t, "hybrid", h2)
            BY <1>1, <1>3, <1>5, <2>1, Zenon
        <3> QED BY <1>2, <1>6, <3>1, ReplyOffFollows
    <2>2. CASE on' # {}
        <3>1. s' = t
            BY <1>1, <1>3, <1>5, <2>2, Zenon
        <3> QED BY <1>6, <3>1 DEF Follows
    <2> QED BY <2>1, <2>2
<1>8. OffHandlersAreStill'
    <2>1. ASSUME "gps" \notin on', may \cap {"mock", "refuse"} = {}
          PROVE  s'.gps.flags = {}
        <3>1. t.gps.flags = {}
            <4>1. CASE "gps" \in on
                BY <1>2, <1>6, <2>1, <4>1 DEF Handler
            <4>2. CASE "gps" \notin on
                BY <1>6, <2>1, <4>2 DEF UpdatesIInv, OffHandlersAreStill
            <4> QED BY <4>1, <4>2
        <3> QED BY <1>7, <3>1 DEF Follows
    <2>2. ASSUME "network" \notin on' PROVE s'.nw # "running"
        <3>1. t.nw # "running"
            <4>1. CASE "network" \in on
                BY <1>2, <1>6, <2>2, <4>1 DEF Handler
            <4>2. CASE "network" \notin on
                BY <1>6, <4>2 DEF UpdatesIInv, OffHandlersAreStill
            <4> QED BY <4>1, <4>2
        <3> QED BY <1>7, <3>1 DEF Follows
    <2> QED BY <1>2, <2>1, <2>2 DEF OffHandlersAreStill
<1>9. RestFits'
    BY <1>2 DEF UpdatesIInv, RestFits, Handler
<1> QED BY <1>2, <1>6, <1>7, <1>8, <1>9 DEF UpdatesIInv, Follows, Calm

LEMMA SetMockKeeps ==
    ASSUME UpdatesIInv, NEW name \in Handler, NEW state \in BOOLEAN, SetMock(name, state)
    PROVE  UpdatesIInv'
<1>1. PICK h1 \in Answers, h2 \in Answers :
        Only([s EXCEPT !.gps = SetMockLocationState(@, name, state,
                                    s.list["gps"] # {}, h1, h2, Now)])
    BY DEF SetMock
<1>2. PICK listed \in BOOLEAN : listed <=> s.list["gps"] # {}
    OBVIOUS
<1>3. PICK g : g = SetMockLocationState(s.gps, name, state, listed, h1, h2, Now)
    OBVIOUS
<1>4. GpsFits(g) /\ g.flags \subseteq s.gps.flags \cup {Position}
      /\ (~listed => g.flags = s.gps.flags)
    <2>1. GpsFits(s.gps) /\ h1 \in HalAnswer /\ h2 \in HalAnswer /\ Now \in Nat
        BY AnswersFit DEF UpdatesIInv, Fit, Now
    <2> QED BY <1>3, <2>1, SetMockFits
<1>5. PICK r : r = [s EXCEPT !.gps = g]
    OBVIOUS
<1>6. Only(r)
    <2>1. listed = (s.list["gps"] # {})
        BY <1>2, Zenon
    <2> QED BY <1>1, <1>3, <1>5, <2>1, Zenon
<1>7. r \in Service /\ r.gps = g /\ r.nw = s.nw /\ SameLists(s, r)
    BY <1>4, <1>5, GpsFields DEF UpdatesIInv, Fit, GpsFits
<1>8. Fit(r, made)
    BY <1>4, <1>7 DEF UpdatesIInv, Fit, Agree, SameLists
<1>9. Sessions(r)
    <2>1. Sessions(s) /\ r.list = s.list
        BY <1>7 DEF UpdatesIInv, SameLists
    <2>2. \A k \in FeedKey : Feed(k) \in r.gps.flags => Feed(k) \in s.gps.flags
        BY <1>4, <1>7, FeedIsFlag
    <2>3. Position \in r.gps.flags => Position \in s.gps.flags \/ s.list["gps"] # {}
        BY <1>2, <1>4, <1>7
    <2> QED BY <1>7, <2>1, <2>2, <2>3 DEF Sessions
<1>10. "mock" \in may /\ s' = r /\ UNCHANGED <<on, may, made>> /\ RestFits'
    BY <1>6 DEF SetMock, Only, UpdatesIInv, RestFits
<1> QED BY <1>7, <1>8, <1>9, <1>10 DEF UpdatesIInv, Calm, OffHandlersAreStill

LEMMA SleepKeeps ==
    ASSUME UpdatesIInv, SleepDropsSession
    PROVE  UpdatesIInv'
<1>1. PICK e \in Provider : e = s.gps
    BY DEF UpdatesIInv, Fit, GpsFits
<1>2. PICK g : g = [e EXCEPT !.radio = FALSE]
    OBVIOUS
<1>3. g \in Provider /\ g.flags = s.gps.flags /\ GpsFits(g)
    BY <1>1, <1>2 DEF UpdatesIInv, Fit, GpsFits, Provider
<1>4. s' = [s EXCEPT !.gps = g]
    BY <1>1, <1>2 DEF SleepDropsSession
<1>5. Follows(s, s', made)
    BY <1>3, <1>4, SameFeedsFollow
<1>6. UNCHANGED <<on, may, made>> /\ RestFits'
    BY DEF SleepDropsSession, UpdatesIInv, RestFits
<1> QED BY <1>5, <1>6, FollowsKeeps

(* A session begins again only for those who are listed.                   *)
LEMMA ReissueFits ==
    ASSUME UpdatesIInv, NEW hal \in HalAnswer, NEW r, r = ReissueRequests(s, hal, Now)
    PROVE  /\ Fit(r, made) /\ Sessions(r) /\ r.nw = s.nw
           /\ Served(s) => Served(r)
<1>0. s \in Service /\ GpsFits(s.gps) /\ Now \in Nat /\ Sessions(s)
    BY DEF UpdatesIInv, Fit, Now
<1>1. PICK a : a = IF s.list["nmea"] # {} THEN StartFeed(s.gps, Feed("nmea"), hal)
                   ELSE s.gps
    OBVIOUS
<1>2. PICK b : b = IF s.list["satellite"] # {} THEN StartFeed(a, Feed("satellite"), hal)
                   ELSE a
    OBVIOUS
<1>3. PICK g : g = IF s.list["gps"] \cup s.list["hybrid"] # {}
                   THEN StartPosition(b, hal, Now) ELSE b
    OBVIOUS
<1>4. r = [s EXCEPT !.gps = g]
    BY <1>1, <1>2, <1>3, Zenon DEF ReissueRequests
<1>5. "nmea" \in FeedKey /\ "satellite" \in FeedKey
      /\ Feed("nmea") \in ApiFlag /\ Feed("satellite") \in ApiFlag
    BY FeedIsFlag DEF FeedKey
<1>6. /\ GpsFits(a)
      /\ a.flags = s.gps.flags
         \/ (s.list["nmea"] # {} /\ a.flags = s.gps.flags \cup {Feed("nmea")})
    BY <1>0, <1>1, <1>5, StartFeedFits
<1>7. /\ GpsFits(b)
      /\ b.flags = a.flags
         \/ (s.list["satellite"] # {} /\ b.flags = a.flags \cup {Feed("satellite")})
    BY <1>2, <1>5, <1>6, StartFeedFits
<1>8. /\ GpsFits(g)
      /\ g.flags = b.flags
         \/ (s.list["gps"] \cup s.list["hybrid"] # {}
             /\ g.flags = b.flags \cup {Position})
    BY <1>0, <1>3, <1>7, StartPositionFits
<1>9. r \in Service /\ r.gps = g /\ r.nw = s.nw /\ SameLists(s, r)
    BY <1>0, <1>4, <1>8, GpsFields DEF GpsFits
<1>10. Fit(r, made)
    BY <1>8, <1>9 DEF UpdatesIInv, Fit, Agree, SameLists
<1>11. /\ s.gps.flags \subseteq r.gps.flags
       /\ Position \in r.gps.flags =>
             Position \in s.gps.flags \/ s.list["gps"] \cup s.list["hybrid"] # {}
       /\ Feed("nmea") \in r.gps.flags => Feed("nmea") \in s.gps.flags \/ s.list["nmea"] # {}
       /\ Feed("satellite") \in r.gps.flags =>
             Feed("satellite") \in s.gps.flags \/ s.list["satellite"] # {}
    BY <1>6, <1>7, <1>8, <1>9, FeedFlags DEF Position
<1>12. Sessions(r)
    BY <1>0, <1>9, <1>11 DEF Sessions, SameLists, FeedKey
<1>13. Served(s) => Served(r)
    BY <1>9, <1>11 DEF Served, SameLists
<1> QED BY <1>9, <1>10, <1>12, <1>13

LEMMA KernelResumeKeeps ==
    ASSUME UpdatesIInv, KernelResume
    PROVE  UpdatesIInv'
<1>1. PICK hal \in Answers :
        s' = IF "gps" \in on THEN ReissueRequests(s, hal, Now) ELSE s
    BY DEF KernelResume
<1>2. UNCHANGED <<on, may, made>> /\ RestFits'
    BY DEF KernelResume, UpdatesIInv, RestFits
<1>3. CASE "gps" \in on
    <2>1. s' = ReissueRequests(s, hal, Now)
        BY <1>1, <1>3
    <2>2. /\ Fit(s', made) /\ Sessions(s') /\ s'.nw = s.nw
          /\ Served(s) => Served(s')
        <3>1. PICK r : r = ReissueRequests(s, hal, Now)
            OBVIOUS
        <3>2. /\ Fit(r, made) /\ Sessions(r) /\ r.nw = s.nw
              /\ Served(s) => Served(r)
            BY <3>1, AnswersFit, ReissueFits
        <3> QED BY <2>1, <3>1, <3>2
    <2> QED BY <1>2, <1>3, <2>2 DEF UpdatesIInv, Calm, OffHandlersAreStill
<1>4. CASE "gps" \notin on
    BY <1>1, <1>2, <1>4, SameStateFollows, FollowsKeeps
<1> QED BY <1>3, <1>4

LEMMA NextUpdates == UpdatesIInv /\ [Next]_vars => UpdatesIInv'
<1> SUFFICES ASSUME UpdatesIInv, [Next]_vars PROVE UpdatesIInv'
    OBVIOUS
<1>0. Keys \subseteq Key /\ Timed \subseteq Call
    BY UpdatesAssumption
<1>1. ASSUME NEW c \in Call, NEW k \in Keys \cap LocationKey, GetLocationUpdates(c, k)
      PROVE  UpdatesIInv'
    BY <1>1, GetLocationUpdatesKeeps
<1>2. ASSUME NEW c \in Call, NEW k \in Keys \cap FeedKey, GetFeed(c, k)
      PROVE  UpdatesIInv'
    BY <1>2, GetFeedKeeps
<1>3. ASSUME NEW c \in Call, NEW k \in Keys, Cancel(c, k)
      PROVE  UpdatesIInv'
    BY <1>0, <1>3, CancelKeeps
<1>4. ASSUME NEW c \in Timed, ResponseTimeout(c)
      PROVE  UpdatesIInv'
    BY <1>0, <1>4, ResponseTimeoutKeeps
<1>5. CASE GpsReports
    BY <1>5, ReportKeeps DEF GpsReports
<1>6. ASSUME NEW k \in Keys \cap FeedKey, FeedReports(k)
      PROVE  UpdatesIInv'
    BY <1>6, ReportKeeps DEF FeedReports
<1>7. ASSUME NEW h \in Handler, NEW state \in BOOLEAN, SetState(h, state)
      PROVE  UpdatesIInv'
    BY <1>7, SetStateKeeps
<1>8. ASSUME NEW name \in Handler, NEW state \in BOOLEAN, SetMock(name, state)
      PROVE  UpdatesIInv'
    BY <1>8, SetMockKeeps
<1>9. CASE ConnectionChanges
    <2>1. UNCHANGED <<s, on, may, made>> /\ RestFits'
        BY <1>9 DEF ConnectionChanges, UpdatesIInv, RestFits
    <2> QED BY <2>1, SameStateFollows, FollowsKeeps
<1>10. CASE UNCHANGED vars
    <2>1. UNCHANGED <<s, on, may, made>> /\ RestFits'
        BY <1>10 DEF vars, UpdatesIInv, RestFits
    <2> QED BY <2>1, SameStateFollows, FollowsKeeps
<1> QED BY <1>1, <1>2, <1>3, <1>4, <1>5, <1>6, <1>7, <1>8, <1>9, <1>10,
           PosTimeoutKeeps, RunIdleKeeps, NetworkReportsKeeps, SleepKeeps,
           KernelResumeKeeps DEF Next

LEMMA UpdatesInvariant == Spec => []UpdatesIInv
BY InitUpdates, NextUpdates, PTL DEF Spec

-----------------------------------------------------------------------------
(* The theorems.                                                           *)

(* Replies, timers, cancels and setState, calling each other, leave every  *)
(* field of the service in its type, and list, time and answer only calls  *)
(* that were made.                                                         *)
THEOREM UpdatesTypeCorrect == Spec => []TypeOK
<1>1. UpdatesIInv => TypeOK
    <2> SUFFICES ASSUME UpdatesIInv PROVE TypeOK
        OBVIOUS
    <2>1. s \in Service /\ s.gps \in Provider /\ Agree(s, made) /\ RestFits
        BY DEF UpdatesIInv, Fit, GpsFits
    <2>2. \A k \in Key : s.list[k] \subseteq made
        BY <2>1 DEF Agree, Service
    <2>3. s.list \in [Key -> SUBSET made]
        BY <2>1, <2>2 DEF Service
    <2>4. s.table \subseteq made
        <3>1. LocationKey \subseteq Key
            BY DEF Key
        <3> QED BY <2>1, <2>2, <3>1 DEF Agree, Service
    <2>5. s.timers \subseteq s.table \cap Timed
        BY <2>1 DEF Agree
    <2>6. /\ s.gps.flags \subseteq ApiFlag /\ s.gps.timer \in {"none", "armed", "fired"}
          /\ s.nw \in {"none", "running", "stopped"}
          /\ s.told \in [Call -> SUBSET {"refused", "answer"}]
        BY <2>1 DEF Service, Provider, Notice
    <2> QED BY <2>1, <2>3, <2>4, <2>5, <2>6 DEF TypeOK, RestFits
<1> QED BY <1>1, UpdatesInvariant, PTL

(* m_locUpdate_req_table and the four subscription lists never disagree,   *)
(* however a call ended: no entry outlives its place on a list, no listed  *)
(* call is without the entry that meetsCriteria looks for, and no call is  *)
(* on two lists.                                                           *)
THEOREM TableAlwaysMatchesLists == Spec => []TableMatchesLists
<1>1. UpdatesIInv => TableMatchesLists
    <2> SUFFICES ASSUME UpdatesIInv PROVE TableMatchesLists
        OBVIOUS
    <2>1. s \in Service /\ Agree(s, made) /\ LocationKey \subseteq Key
        BY DEF UpdatesIInv, Fit, Key
    <2>2. s.table \subseteq UNION {s.list[k] : k \in LocationKey}
        BY <2>1 DEF Agree, Service
    <2>3. UNION {s.list[k] : k \in LocationKey} \subseteq s.table
        BY <2>1 DEF Agree, Service
    <2>4. \A j, k \in Key : j # k => s.list[j] \cap s.list[k] = {}
        BY <2>1 DEF Agree
    <2> QED BY <2>2, <2>3, <2>4 DEF TableMatchesLists
<1> QED BY <1>1, UpdatesInvariant, PTL

(* After its answer a call has no responseTimeout pending, and one without *)
(* subscription is on no list: it is not answered again.                   *)
THEOREM AnsweredCallsStayDone == Spec => []AnsweredCallsAreDone
<1>1. UpdatesIInv => AnsweredCallsAreDone
    BY DEF UpdatesIInv, Fit, Agree, AnsweredCallsAreDone
<1> QED BY <1>1, UpdatesInvariant, PTL

(* A GPS feed or the network request that nobody is listed for has been    *)
(* ended, whichever of reply, time-out, cancel and setState took the last  *)
(* client off.                                                             *)
THEOREM SessionsAlwaysHaveClients == Spec => []SessionsHaveClients
<1>1. UpdatesIInv => SessionsHaveClients
    BY DEF UpdatesIInv, Sessions, SessionsHaveClients, NoClients
<1> QED BY <1>1, UpdatesInvariant, PTL

(* While handlers stay on and nothing interferes or refuses, no leaver     *)
(* ends a session that another listed client needs.                        *)
THEOREM ClientsAreAlwaysServed == Spec => []ClientsAreServed
<1>1. UpdatesIInv => ClientsAreServed
    BY DEF UpdatesIInv, Calm, Served, ClientsAreServed, NoClients
<1> QED BY <1>1, UpdatesInvariant, PTL

(* A handler that setState turned off is used by nothing that runs later:  *)
(* not by a report that was queued, nor a leaver, nor handleKernelResume.  *)
THEOREM OffHandlersStayStill == Spec => []OffHandlersAreStill
<1>1. UpdatesIInv => OffHandlersAreStill
    BY DEF UpdatesIInv
<1> QED BY <1>1, UpdatesInvariant, PTL

-----------------------------------------------------------------------------
(* What clients are owed: LocationUpdates implements ClientCalls.  Every   *)
(* reply is one answer to some of those listed, however many lists it goes *)
(* through, since a call is on one list only.                              *)
Listed(t) == UNION {t.list[k] : k \in Key}

Answered(t, r) ==
    \E C \in SUBSET Listed(t) : /\ Told(t, r, C, "answer")
                                /\ Listed(r) = Listed(t) \ (C \ Subscribers)

(* Of the list of k only the subscribers are left.                         *)
Thinned(t, r, k) == /\ r.list[k] = t.list[k] \cap Subscribers
                    /\ \A j \in Key \ {k} : r.list[j] = t.list[j]

LEMMA ListedAreCalls ==
    ASSUME NEW t \in Service
    PROVE  Listed(t) \subseteq Call
BY DEF Listed, Service

LEMMA SameIsAnswered ==
    ASSUME NEW t, NEW r, SameLists(t, r)
    PROVE  Answered(t, r)
<1>1. Listed(r) = Listed(t) /\ r.told = t.told
    BY DEF Listed, SameLists
<1>2. Told(t, r, {}, "answer")
    BY <1>1 DEF Told
<1> QED BY <1>1, <1>2 DEF Answered

(* Two replies are one to all that either was for.                         *)
LEMMA AnsweredOn ==
    ASSUME NEW t \in Service, NEW u, NEW r, Answered(t, u), Answered(u, r)
    PROVE  Answered(t, r)
<1>1. PICK C \in SUBSET Listed(t) :
          Told(t, u, C, "answer") /\ Listed(u) = Listed(t) \ (C \ Subscribers)
    BY DEF Answered
<1>2. PICK D \in SUBSET Listed(u) :
          Told(u, r, D, "answer") /\ Listed(r) = Listed(u) \ (D \ Subscribers)
    BY DEF Answered
<1>3. C \cup D \in SUBSET Listed(t) /\ C \cup D \subseteq Call
    BY <1>1, <1>2, ListedAreCalls
<1>4. Told(t, r, C \cup D, "answer")
    <2>1. ASSUME NEW c \in C \cup D PROVE r.told[c] = t.told[c] \cup {"answer"}
        <3>1. CASE c \in C /\ c \in D
            <4>1. u.told[c] = t.told[c] \cup {"answer"}
                BY <1>1, <3>1 DEF Told
            <4>2. r.told[c] = u.told[c] \cup {"answer"}
                BY <1>2, <3>1 DEF Told
            <4> QED BY <4>1, <4>2
        <3>2. CASE c \in C /\ c \notin D
            BY <1>1, <1>2, <1>3, <3>2 DEF Told
        <3>3. CASE c \notin C /\ c \in D
            BY <1>1, <1>2, <1>3, <3>3 DEF Told
        <3> QED BY <3>1, <3>2, <3>3
    <2>2. ASSUME NEW c \in Call \ (C \cup D) PROVE r.told[c] = t.told[c]
        BY <1>1, <1>2 DEF Told
    <2> QED BY <2>1, <2>2 DEF Told
<1>5. Listed(r) = Listed(t) \ ((C \cup D) \ Subscribers)
    BY <1>1, <1>2
<1> QED BY <1>3, <1>4, <1>5 DEF Answered

LEMMA ThinnedIsAnswered ==
    ASSUME NEW M, NEW t, Fit(t, M), NEW k \in Key, NEW r,
           Thinned(t, r, k), Told(t, r, t.list[k], "answer")
    PROVE  Answered(t, r)
<1>1. t.list[k] \subseteq Listed(t)
    BY DEF Listed
<1>2. \A j \in Key : j # k => t.list[j] \cap t.list[k] = {}
    BY DEF Fit, Agree
<1>3. ASSUME NEW c
      PROVE  c \in Listed(r) <=> c \in Listed(t) \ (t.list[k] \ Subscribers)
    <2>1. CASE c \in t.list[k]
        <3>1. \A j \in Key : j # k => c \notin r.list[j]
            BY <1>2, <2>1 DEF Thinned
        <3>2. c \in Listed(r) <=> c \in Subscribers
            BY <2>1, <3>1 DEF Listed, Thinned
        <3> QED BY <1>1, <2>1, <3>2
    <2>2. CASE c \notin t.list[k]
        <3>1. \A j \in Key : c \in r.list[j] <=> c \in t.list[j]
            BY <2>2 DEF Thinned
        <3> QED BY <2>2, <3>1 DEF Listed
    <2> QED BY <2>1, <2>2
<1>4. Listed(r) = Listed(t) \ (t.list[k] \ Subscribers)
    BY <1>3
<1> QED BY <1>1, <1>4 DEF Answered

LEMMA AnswerIsAnswered ==
    ASSUME NEW M, NEW t, Fit(t, M), NEW k \in LocationKey
    PROVE  Answered(t, Answer(t, k))
<1>1. t \in Service /\ k \in Key
    BY DEF Fit, Key
<1>2. PICK r : r = Answer(t, k)
    OBVIOUS
<1>3. Thinned(t, r, k) /\ Told(t, r, t.list[k], "answer")
    BY <1>1, <1>2, AnswerFields DEF Thinned
<1> QED BY <1>1, <1>2, <1>3, ThinnedIsAnswered

(* The end of a request tells nobody anything.                             *)
LEMMA ReplyIsAnswered ==
    ASSUME NEW M, NEW t, Fit(t, M), NEW k \in LocationKey, NEW hal \in HalAnswer
    PROVE  Answered(t, Reply(t, k, hal))
<1>1. PICK a : a = Answer(t, k)
    OBVIOUS
<1>2. t \in Service /\ Fit(a, M) /\ Answered(t, a)
    BY <1>1, AnswerAgrees, AnswerIsAnswered DEF Fit
<1>3. PICK others \in SUBSET Key : others = {"hybrid"}
    BY DEF Key, LocationKey
<1>4. "gps" \in Key /\ "nw" \in Key /\ k \in Key
    BY DEF Key, LocationKey
<1>5. PICK b : b = StopIfUnused(a, "gps", others, hal)
    OBVIOUS
<1>6. PICK d : d = StopIfUnused(b, "nw", others, hal)
    OBVIOUS
<1>7. PICK e : e = StopIfUnused(a, k, others, hal)
    OBVIOUS
<1>8. Reply(t, k, hal) \in {a, d, e}
    BY <1>1, <1>3, <1>5, <1>6, <1>7 DEF Reply
<1>9. Fit(b, M) /\ SameLists(a, b)
    BY <1>2, <1>4, <1>5, StopIfUnusedFields
<1>10. SameLists(b, d)
    BY <1>4, <1>6, <1>9, StopIfUnusedFields
<1>11. SameLists(a, e)
    BY <1>2, <1>4, <1>7, StopIfUnusedFields
<1>12. SameLists(a, d)
    BY <1>9, <1>10 DEF SameLists
<1>13. Answered(t, d) /\ Answered(t, e)
    BY <1>2, <1>11, <1>12, SameIsAnswered, AnsweredOn
<1> QED BY <1>2, <1>8, <1>13

LEMMA ReplyFeedIsAnswered ==
    ASSUME NEW M, NEW t, Fit(t, M), NEW k \in FeedKey, NEW hal \in HalAnswer
    PROVE  Answered(t, ReplyFeed(t, k, hal))
<1>1. t \in Service /\ k \in Key
    BY DEF Fit, Key
<1>2. PICK x : x = [t EXCEPT !.list[k] = @ \cap Subscribers]
    OBVIOUS
<1>3. /\ x \in Service /\ x.gps = t.gps /\ x.nw = t.nw
      /\ Thinned(t, x, k) /\ x.told = t.told
    BY <1>1, <1>2 DEF Service, Thinned
<1>4. PICK C \in SUBSET Call : C = t.list[k]
    BY <1>1 DEF Service
<1>5. PICK a : a = Tell(x, C, "answer")
    OBVIOUS
<1>6. /\ a \in Service /\ SameProviders(x, a) /\ a.list = x.list
      /\ Told(x, a, C, "answer")
    BY <1>3, <1>5, TellFields DEF Notice
<1>7. Thinned(t, a, k) /\ Told(t, a, t.list[k], "answer")
    BY <1>3, <1>4, <1>6 DEF Thinned, Told
<1>8. Answered(t, a)
    BY <1>1, <1>7, ThinnedIsAnswered
<1>9. ReplyFeed(t, k, hal) = IF t.list[k] \subseteq Subscribers THEN a
                             ELSE StopIfUnused(a, k, {}, hal)
    BY <1>2, <1>4, <1>5, Zenon DEF ReplyFeed
<1>10. SameLists(a, StopIfUnused(a, k, {}, hal))
    <2>1. GpsFits(a.gps)
        BY <1>3, <1>6 DEF Fit, SameProviders
    <2>2. SameLists(a, StopRequest(a, k, hal))
        BY <1>1, <1>6, <2>1, StopRequestFields
    <2> QED BY <2>2 DEF StopIfUnused, SameLists
<1> QED BY <1>1, <1>8, <1>9, <1>10, SameIsAnswered, AnsweredOn

LEMMA ReplyAllIsAnswered ==
    ASSUME NEW M, NEW t, Fit(t, M), NEW k \in {"gps", "nw"}, NEW hal \in HalAnswer
    PROVE  Answered(t, ReplyAll(t, k, hal))
<1>1. PICK u : u = Reply(t, k, hal)
    OBVIOUS
<1>2. PICK v : v = Reply(u, "hybrid", hal)
    OBVIOUS
<1>3. ReplyAll(t, k, hal) = Reply(v, "passive", hal)
    BY <1>1, <1>2 DEF ReplyAll
<1>4. k \in LocationKey /\ "hybrid" \in LocationKey /\ "passive" \in LocationKey
    BY DEF LocationKey
<1>5. Fit(u, M) /\ Answered(t, u)
    BY <1>1, <1>4, ReplyFollows, ReplyIsAnswered DEF Follows
<1>6. Fit(v, M) /\ Answered(u, v)
    BY <1>2, <1>4, <1>5, ReplyFollows, ReplyIsAnswered DEF Follows
<1>7. Answered(v, Reply(v, "passive", hal))
    BY <1>4, <1>6, ReplyIsAnswered
<1>8. t \in Service
    BY DEF Fit
<1> QED BY <1>3, <1>5, <1>6, <1>7, <1>8, AnsweredOn

LEMMA ReplyOffIsAnswered ==
    ASSUME NEW M, NEW t, Fit(t, M), NEW h \in {"gps", "network", "hybrid"},
           NEW hal \in HalAnswer
    PROVE  Answered(t, ReplyOff(t, h, hal))
<1>1. CASE h = "gps"
    <2>1. PICK u : u = ReplyFeed(t, "nmea", hal)
        OBVIOUS
    <2>2. PICK v : v = ReplyFeed(u, "satellite", hal)
        OBVIOUS
    <2>3. ReplyOff(t, h, hal) = Reply(v, "gps", hal)
        BY <1>1, <2>1, <2>2, Zenon DEF ReplyOff
    <2>4. "nmea" \in FeedKey /\ "satellite" \in FeedKey /\ "gps" \in LocationKey
        BY DEF FeedKey, LocationKey
    <2>5. Fit(u, M) /\ Answered(t, u)
        BY <2>1, <2>4, ReplyFeedFollows, ReplyFeedIsAnswered DEF Follows
    <2>6. Fit(v, M) /\ Answered(u, v)
        BY <2>2, <2>4, <2>5, ReplyFeedFollows, ReplyFeedIsAnswered DEF Follows
    <2>7. Answered(v, Reply(v, "gps", hal))
        BY <2>4, <2>6, ReplyIsAnswered
    <2>8. t \in Service
        BY DEF Fit
    <2> QED BY <2>3, <2>5, <2>6, <2>7, <2>8, AnsweredOn
<1>2. CASE h = "network"
    <2>1. ReplyOff(t, h, hal) = Reply(t, "nw", hal)
        BY <1>2, Zenon DEF ReplyOff
    <2> QED BY <2>1, ReplyIsAnswered DEF LocationKey
<1>3. CASE h = "hybrid"
    <2>1. ReplyOff(t, h, hal) = Reply(t, "hybrid", hal)
        BY <1>3, Zenon DEF ReplyOff
    <2> QED BY <2>1, ReplyIsAnswered DEF LocationKey
<1> QED BY <1>1, <1>2, <1>3

-----------------------------------------------------------------------------
(* The steps of ClientCalls.                                               *)
LEMMA ReportStep ==
    ASSUME UpdatesIInv, UpdatesIInv', Answered(s, s'), UNCHANGED <<made, cancelled>>
    PROVE  Calls!Report
<1>1. PICK C \in SUBSET Listed(s) :
          Told(s, s', C, "answer") /\ Listed(s') = Listed(s) \ (C \ Subscribers)
    BY DEF Answered
<1>2. s'.told = [c \in Call |-> IF c \in C THEN s.told[c] \cup {"answer"} ELSE s.told[c]]
    <2>1. s'.told \in [Call -> SUBSET Notice]
        BY DEF UpdatesIInv, Fit, Service
    <2> QED BY <1>1, <2>1 DEF Told
<1>3. C \in SUBSET (UNION {s.list[k] : k \in Key})
    BY <1>1 DEF Listed
<1>4. Calls!Answer(C, UNION {s.list[k] : k \in Key})
    BY <1>1, <1>2 DEF Calls!Answer, Listed
<1> QED BY <1>3, <1>4 DEF Calls!Report

(* t: the state in which the new call c has been entered.                  *)
Entered(t, c) == Listed(t) = Listed(s) \cup {c} /\ t.told = s.told

LEMMA AcceptStep ==
    ASSUME UpdatesIInv, UpdatesIInv', NEW c \in Call, c \notin made,
           made' = made \cup {c}, cancelled' = cancelled,
           NEW t, Entered(t, c), Answered(t, s')
    PROVE  Calls!Accept(c)
<1>1. PICK C \in SUBSET Listed(t) :
          Told(t, s', C, "answer") /\ Listed(s') = Listed(t) \ (C \ Subscribers)
    BY DEF Answered
<1>2. s'.told = [d \in Call |-> IF d \in C THEN s.told[d] \cup {"answer"} ELSE s.told[d]]
    <2>1. s'.told \in [Call -> SUBSET Notice]
        BY DEF UpdatesIInv, Fit, Service
    <2> QED BY <1>1, <2>1 DEF Told, Entered
<1>3. C \in SUBSET ((UNION {s.list[k] : k \in Key}) \cup {c})
    BY <1>1 DEF Listed, Entered
<1>4. Calls!Answer(C, (UNION {s.list[k] : k \in Key}) \cup {c})
    BY <1>1, <1>2 DEF Calls!Answer, Listed, Entered
<1> QED BY <1>3, <1>4 DEF Calls!Accept, Calls!Begin

LEMMA RefuseStep ==
    ASSUME UpdatesIInv, UpdatesIInv', NEW c \in Call, c \notin made,
           made' = made \cup {c}, cancelled' = cancelled,
           NEW L, L = Listed(s'), L = Listed(s) \/ L = Listed(s) \cup {c},
           Told(s, s', {c}, "refused")
    PROVE  Calls!Refuse(c)
<1>1. s'.told = [s.told EXCEPT ![c] = @ \cup {"refused"}]
    <2>1. s'.told \in [Call -> SUBSET Notice] /\ s.told \in [Call -> SUBSET Notice]
        BY DEF UpdatesIInv, Fit, Service
    <2> QED BY <2>1 DEF Told
<1>2. \/ UNION {s'.list[k] : k \in Key} = UNION {s.list[k] : k \in Key}
      \/ UNION {s'.list[k] : k \in Key} = (UNION {s.list[k] : k \in Key}) \cup {c}
    BY DEF Listed
<1> QED BY <1>1, <1>2 DEF Calls!Refuse, Calls!Begin

(* A call that is turned down is not listed.                               *)
LEMMA RejectedIsRefused ==
    ASSUME UpdatesIInv, UpdatesIInv', NEW c \in Call, Make(c, Tell(s, {c}, "refused"))
    PROVE  Calls!Refuse(c)
<1>1. PICK C \in SUBSET Call : C = {c}
    OBVIOUS
<1>2. /\ s' = Tell(s, C, "refused") /\ c \notin made /\ made' = made \cup {c}
      /\ cancelled' = cancelled
    BY <1>1 DEF Make
<1>3. PICK r : r = Tell(s, C, "refused")
    OBVIOUS
<1>4. r.list = s.list /\ Told(s, r, C, "refused")
    BY <1>3, TellFields DEF Notice, UpdatesIInv, Fit
<1>5. Listed(s') = Listed(s) /\ Told(s, s', {c}, "refused")
    BY <1>1, <1>2, <1>3, <1>4 DEF Listed
<1> QED BY <1>2, <1>5, RefuseStep

(* The GPS part tells the caller of a refusal, and then the call is at its *)
(* end; the network part may tell everybody listed of a position.          *)
LEMMA GetLocationUpdatesStep ==
    ASSUME UpdatesIInv, UpdatesIInv', NEW c \in Call, NEW k \in LocationKey,
           GetLocationUpdates(c, k)
    PROVE  Calls!Accept(c) \/ Calls!Refuse(c)
<1>1. PICK hal \in Answers :
        LET gps  == "gps" \in Started(k)
            t    == IF gps THEN AskGps(Enter(c, k), c, hal) ELSE Enter(c, k)
            next == /\ "network" \in Started(k)
                    /\ gps => Position \in t.gps.flags /\ ~MockAnswers(t.gps.mock)
        IN  IF Rejected(k) THEN Make(c, Tell(s, {c}, "refused"))
            ELSE \E u \in (IF next THEN AskNetwork(t, c, hal) ELSE {t}) : Make(c, u)
    BY DEF GetLocationUpdates
<1>2. CASE Rejected(k)
    BY <1>1, <1>2, RejectedIsRefused
<1>3. CASE ~Rejected(k)
    <2> DEFINE M == made \cup {c}
    <2>0. /\ s \in Service /\ Agree(s, made) /\ GpsFits(s.gps) /\ k \in Key
          /\ c \in M /\ hal \in HalAnswer
        BY AnswersFit DEF UpdatesIInv, Fit, Key
    <2>1. PICK e : e = Enter(c, k)
        OBVIOUS
    <2>2. PICK t : t = IF "gps" \in Started(k) THEN AskGps(e, c, hal) ELSE e
        OBVIOUS
    <2>3. PICK next \in BOOLEAN :
            next <=> /\ "network" \in Started(k)
                     /\ "gps" \in Started(k) =>
                           Position \in t.gps.flags /\ ~MockAnswers(t.gps.mock)
        OBVIOUS
    <2>4. PICK u \in (IF next THEN AskNetwork(t, c, hal) ELSE {t}) : Make(c, u)
        BY <1>1, <1>3, <2>1, <2>2, <2>3, Zenon
    <2>5. /\ c \notin made /\ s' = u /\ made' = made \cup {c}
          /\ cancelled' = cancelled
        BY <2>4 DEF Make
    <2>6. /\ e \in Service /\ SameProviders(s, e)
          /\ e.list[k] = s.list[k] \cup {c}
          /\ \A j \in Key : j # k => e.list[j] = s.list[j]
          /\ e.table = s.table \cup {c} /\ e.timers = s.timers \cup ({c} \cap Timed)
          /\ e.told = s.told
        BY <2>0, <2>1, EnterFields
    <2>7. Fit(e, M)
        <3>1. s.told[c] \subseteq {"refused"} /\ k \notin FeedKey
            BY <2>0, <2>5 DEF Agree, FeedKey, LocationKey
        <3>2. Agree(e, M)
            BY <2>0, <2>5, <2>6, <3>1, EntryAgrees
        <3> QED BY <2>0, <2>6, <3>2 DEF Fit, SameProviders
    <2>8. Entered(e, c)
        <3>1. Listed(e) = Listed(s) \cup {c}
            BY <2>0, <2>6 DEF Listed
        <3> QED BY <2>6, <3>1 DEF Entered
    <2>9. /\ Fit(t, M) /\ Listed(t) = Listed(s) \cup {c}
          /\ \/ t.told = s.told
             \/ Told(s, t, {c}, "refused") /\ ~next
        <3>1. CASE "gps" \notin Started(k)
            BY <2>2, <2>7, <2>8, <3>1 DEF Entered
        <3>2. CASE "gps" \in Started(k)
            <4>1. t = AskGps(e, c, hal)
                BY <2>2, <3>2
            <4>2. Fit(t, M) /\ t.list = e.list
                BY <2>0, <2>7, <4>1, AskGpsFits
            <4>3. PICK g : g = StartPosition(e.gps, hal, Now)
                OBVIOUS
            <4>4. g \in Provider
                BY <2>7, <4>3, <2>0, StartPositionFits DEF Fit, GpsFits, Now
            <4>5. PICK x : x = [e EXCEPT !.gps = g]
                OBVIOUS
            <4>6. x \in Service /\ x.gps = g /\ SameLists(e, x)
                BY <2>6, <4>4, <4>5, GpsFields
            <4>7. PICK C \in SUBSET Call : C = {c}
                OBVIOUS
            <4>8. t = IF Position \in g.flags THEN x ELSE Tell(x, C, "refused")
                BY <4>1, <4>3, <4>5, <4>7 DEF AskGps
            <4>9. CASE Position \in g.flags
                BY <2>8, <4>2, <4>6, <4>8, <4>9 DEF SameLists, Entered, Listed
            <4>10. CASE Position \notin g.flags
                <5>1. t = Tell(x, C, "refused")
                    BY <4>8, <4>10
                <5>2. SameProviders(x, t) /\ Told(x, t, C, "refused")
                    BY <4>6, <5>1, TellFields DEF Notice
                <5>3. ~next
                    BY <2>3, <3>2, <4>6, <4>10, <5>2 DEF SameProviders
                <5>4. Told(s, t, {c}, "refused")
                    BY <2>6, <4>6, <4>7, <5>2 DEF Told, SameLists
                <5> QED BY <2>8, <4>2, <5>3, <5>4 DEF Entered, Listed
            <4> QED BY <4>9, <4>10
        <3> QED BY <3>1, <3>2
    <2>10. CASE u = t
        <3>1. CASE t.told = s.told
            <4>1. Entered(t, c) /\ Answered(t, s')
                BY <2>5, <2>9, <2>10, <3>1, SameIsAnswered DEF Entered, SameLists
            <4> QED BY <2>5, <4>1, AcceptStep
        <3>2. CASE Told(s, t, {c}, "refused")
            BY <2>5, <2>9, <2>10, <3>2, RefuseStep
        <3> QED BY <2>9, <3>1, <3>2
    <2>11. CASE next /\ u \in AskNetwork(t, c, hal) /\ u # t
        <3>1. Entered(t, c)
            BY <2>9, <2>11 DEF Entered
        <3>2. CASE u = ReplyAll(t, "nw", hal)
            <4>1. Answered(t, s')
                BY <2>0, <2>5, <2>9, <3>2, ReplyAllIsAnswered
            <4> QED BY <2>5, <3>1, <4>1, AcceptStep
        <3>3. CASE u = [t EXCEPT !.nw = "running"]
            <4>1. SameLists(t, u)
                BY <2>9, <3>3 DEF Fit, Service, SameLists
            <4>2. Answered(t, s')
                BY <2>5, <4>1, SameIsAnswered
            <4> QED BY <2>5, <3>1, <4>2, AcceptStep
        <3>4. CASE u = Tell(t, {c}, "refused")
            <4>1. PICK C \in SUBSET Call : C = {c}
                OBVIOUS
            <4>2. u.list = t.list /\ Told(t, u, C, "refused")
                BY <2>9, <3>4, <4>1, TellFields DEF Notice, Fit
            <4>3. Listed(s') = Listed(s) \cup {c} /\ Told(s, s', {c}, "refused")
                BY <2>5, <3>1, <4>1, <4>2 DEF Entered, Listed, Told
            <4> QED BY <2>5, <4>3, RefuseStep
        <3> QED BY <2>11, <3>2, <3>3, <3>4 DEF AskNetwork
    <2> QED BY <2>4, <2>10, <2>11
<1> QED BY <1>2, <1>3

LEMMA GetFeedStep ==
    ASSUME UpdatesIInv, UpdatesIInv', NEW c \in Call, NEW k \in FeedKey, GetFeed(c, k)
    PROVE  Calls!Accept(c) \/ Calls!Refuse(c)
<1>1. PICK hal \in Answers :
        LET g == StartFeed(s.gps, Feed(k), hal)
            t == [s EXCEPT !.gps = g, !.list[k] = @ \cup {c}]
        IN  Make(c, IF "gps" \notin on THEN Tell(s, {c}, "refused")
                    ELSE IF Feed(k) \in g.flags THEN t
                    ELSE Tell(t, {c}, "refused"))
    BY DEF GetFeed
<1>2. CASE "gps" \notin on
    BY <1>1, <1>2, RejectedIsRefused
<1>3. CASE "gps" \in on
    <2>0. s \in Service /\ GpsFits(s.gps) /\ k \in Key /\ hal \in HalAnswer
        BY AnswersFit DEF UpdatesIInv, Fit, Key
    <2>1. PICK g : g = StartFeed(s.gps, Feed(k), hal)
        OBVIOUS
    <2>2. PICK t : t = [s EXCEPT !.gps = g, !.list[k] = @ \cup {c}]
        OBVIOUS
    <2>3. PICK C \in SUBSET Call : C = {c}
        OBVIOUS
    <2>4. Make(c, IF Feed(k) \in g.flags THEN t ELSE Tell(t, C, "refused"))
        BY <1>1, <1>3, <2>1, <2>2, <2>3, Zenon
    <2>5. /\ s' = (IF Feed(k) \in g.flags THEN t ELSE Tell(t, C, "refused"))
          /\ c \notin made /\ made' = made \cup {c} /\ cancelled' = cancelled
        BY <2>4 DEF Make
    <2>6. g \in Provider
        BY <2>0, <2>1, FeedIsFlag, StartFeedFits DEF GpsFits
    <2>7. /\ t \in Service /\ t.told = s.told
          /\ t.list[k] = s.list[k] \cup {c}
          /\ \A j \in Key : j # k => t.list[j] = s.list[j]
        BY <2>0, <2>2, <2>6 DEF Service
    <2>8. Entered(t, c)
        <3>1. Listed(t) = Listed(s) \cup {c}
            BY <2>0, <2>7 DEF Listed
        <3> QED BY <2>7, <3>1 DEF Entered
    <2>9. CASE Feed(k) \in g.flags
        <3>1. s' = t /\ SameLists(t, t)
            BY <2>5, <2>9 DEF SameLists
        <3>2. Answered(t, s')
            BY <3>1, SameIsAnswered
        <3> QED BY <2>5, <2>8, <3>2, AcceptStep
    <2>10. CASE Feed(k) \notin g.flags
        <3>1. PICK u : u = Tell(t, C, "refused")
            OBVIOUS
        <3>2. u.list = t.list /\ Told(t, u, C, "refused")
            BY <2>7, <3>1, TellFields DEF Notice
        <3>3. s' = u
            BY <2>5, <2>10, <3>1
        <3>4. Listed(s') = Listed(s) \cup {c} /\ Told(s, s', {c}, "refused")
            BY <2>3, <2>8, <3>2, <3>3 DEF Entered, Listed, Told
        <3> QED BY <2>5, <3>4, RefuseStep
    <2> QED BY <2>9, <2>10
<1> QED BY <1>2, <1>3

(* One call has left, and nobody else.                                     *)
Left(t, r, c) == \A k \in Key : r.list[k] = t.list[k] \ {c}

LEMMA LeftIsUnlisted ==
    ASSUME NEW t, NEW r, NEW c, Left(t, r, c)
    PROVE  Listed(r) = Listed(t) \ {c}
BY DEF Left, Listed

LEMMA CancelStep ==
    ASSUME UpdatesIInv, UpdatesIInv', NEW c \in Call, NEW k \in Key, Cancel(c, k)
    PROVE  Calls!Cancel(c)
<1>1. PICK hal \in Answers :
        s' = IF k \in FeedKey
             THEN LET t == Unlist(s, c) IN StopIfUnused(t, k, {}, hal)
             ELSE Unlist(RemoveRequest(StopForLeaver(s, c, hal), {c}), c)
    BY DEF Cancel
<1>2. /\ c \in s.list[k] /\ cancelled' = cancelled \cup {c} /\ made' = made
      /\ s \in Service /\ GpsFits(s.gps) /\ hal \in HalAnswer
    BY AnswersFit DEF Cancel, UpdatesIInv, Fit
<1>3. Left(s, s', c) /\ s'.told = s.told
    <2>1. CASE k \in FeedKey
        <3>1. PICK t : t = Unlist(s, c)
            OBVIOUS
        <3>2. t \in Service /\ SameProviders(s, t) /\ Left(s, t, c) /\ t.told = s.told
            BY <1>2, <3>1, UnlistFields DEF Left
        <3>3. s' \in {t, StopRequest(t, k, hal)}
            BY <1>1, <2>1, <3>1 DEF StopIfUnused
        <3>4. SameLists(t, StopRequest(t, k, hal))
            BY <1>2, <3>2, StopRequestFields DEF SameProviders
        <3> QED BY <3>2, <3>3, <3>4 DEF SameLists, Left
    <2>2. CASE k \notin FeedKey
        <3>1. PICK u : u = StopForLeaver(s, c, hal)
            OBVIOUS
        <3>2. PICK C \in SUBSET Call : C = {c}
            OBVIOUS
        <3>3. PICK v : v = RemoveRequest(u, C)
            OBVIOUS
        <3>4. s' = Unlist(v, c)
            BY <1>1, <2>2, <3>1, <3>2, <3>3
        <3>5. u \in Service /\ SameLists(s, u)
            BY <1>2, <3>1, StopForLeaverFields
        <3>6. v \in Service /\ v.list = u.list /\ v.told = u.told
            BY <3>3, <3>5, RemoveFields
        <3>7. PICK r : r = Unlist(v, c)
            OBVIOUS
        <3>8. Left(v, r, c) /\ r.told = v.told
            BY <3>6, <3>7, UnlistFields DEF Left
        <3> QED BY <3>4, <3>5, <3>6, <3>7, <3>8 DEF Left, SameLists
    <2> QED BY <2>1, <2>2
<1>4. Listed(s') = Listed(s) \ {c}
    BY <1>3, LeftIsUnlisted
<1>5. c \in Listed(s)
    BY <1>2 DEF Listed
<1> QED BY <1>2, <1>3, <1>4, <1>5 DEF Calls!Cancel, Listed

(* A responseTimeout that fires is that of a listed call without answer.   *)
LEMMA ResponseTimeoutStep ==
    ASSUME UpdatesIInv, UpdatesIInv', NEW c \in Call, ResponseTimeout(c)
    PROVE  Calls!TimeOut(c)
<1>1. PICK hal \in Answers :
        LET t == Tell([s EXCEPT !.timers = @ \ {c}], {c}, "answer")
            u == IF \E k \in LocationKey : c \in s.list[k]
                 THEN RemoveRequest(Unlist(t, c), {c})
                 ELSE t
        IN  Only(StopForLeaver(u, c, hal))
    BY DEF ResponseTimeout
<1>2. Fit(s, made) /\ s \in Service /\ GpsFits(s.gps) /\ Agree(s, made) /\ hal \in HalAnswer
    BY AnswersFit DEF UpdatesIInv, Fit
<1>3. \E k \in LocationKey : c \in s.list[k]
    BY <1>2 DEF Agree, ResponseTimeout
<1>4. PICK x : x = [s EXCEPT !.timers = @ \ {c}]
    OBVIOUS
<1>5. PICK C \in SUBSET Call : C = {c}
    OBVIOUS
<1>6. PICK t : t = Tell(x, C, "answer")
    OBVIOUS
<1>7. PICK v : v = Unlist(t, c)
    OBVIOUS
<1>8. PICK u : u = RemoveRequest(v, C)
    OBVIOUS
<1>9. PICK r : r = StopForLeaver(u, c, hal)
    OBVIOUS
<1>10. s' = r /\ made' = made /\ cancelled' = cancelled
    <2>1. Only(r)
        BY <1>1, <1>3, <1>4, <1>5, <1>6, <1>7, <1>8, <1>9, Zenon
    <2> QED BY <2>1 DEF Only
<1>11. x \in Service /\ x.gps = s.gps /\ x.list = s.list /\ x.told = s.told
    BY <1>2, <1>4 DEF Service
<1>12. /\ t \in Service /\ SameProviders(x, t) /\ t.list = x.list
       /\ Told(x, t, C, "answer")
    BY <1>6, <1>11, TellFields DEF Notice
<1>13. v \in Service /\ SameProviders(t, v) /\ Left(t, v, c) /\ v.told = t.told
    BY <1>7, <1>12, UnlistFields DEF Left
<1>14. u \in Service /\ SameProviders(v, u) /\ u.list = v.list /\ u.told = v.told
    BY <1>8, <1>13, RemoveFields
<1>15. GpsFits(u.gps)
    BY <1>2, <1>11, <1>12, <1>13, <1>14 DEF SameProviders
<1>16. SameLists(u, r)
    BY <1>2, <1>9, <1>14, <1>15, StopForLeaverFields
<1>17. Left(s, r, c) /\ Told(s, r, {c}, "answer")
    BY <1>5, <1>11, <1>12, <1>13, <1>14, <1>16 DEF Left, Told, SameLists
<1>18. Listed(s') = Listed(s) \ {c}
    BY <1>10, <1>17, LeftIsUnlisted
<1>19. s'.told = [s.told EXCEPT ![c] = @ \cup {"answer"}]
    <2>1. s'.told \in [Call -> SUBSET Notice] /\ s.told \in [Call -> SUBSET Notice]
        BY DEF UpdatesIInv, Fit, Service
    <2> QED BY <1>10, <1>17, <2>1 DEF Told
<1>20. c \in Listed(s) /\ "answer" \notin s.told[c]
    BY <1>2, <1>3 DEF Listed, Key, Agree, ResponseTimeout
<1> QED BY <1>10, <1>18, <1>19, <1>20 DEF Calls!TimeOut, Listed

LEMMA RunIdleStep ==
    ASSUME UpdatesIInv, UpdatesIInv', RunIdle
    PROVE  Calls!Report
<1>1. PICK hal \in Answers :
        s' = IF Head(idle) = Position THEN ReplyAll(s, "gps", hal)
             ELSE ReplyFeed(s, Head(idle), hal)
    BY DEF RunIdle
<1>2. hal \in HalAnswer /\ Fit(s, made) /\ UNCHANGED <<made, cancelled>>
    BY AnswersFit DEF UpdatesIInv, RunIdle
<1>3. Head(idle) \in {Position} \cup FeedKey
    <2>1. idle \in Seq({Position} \cup FeedKey) /\ idle # <<>>
        BY DEF RunIdle, UpdatesIInv, RestFits
    <2> QED BY <2>1
<1>4. Answered(s, s')
    <2>1. CASE Head(idle) = Position
        BY <1>1, <1>2, <2>1, ReplyAllIsAnswered
    <2>2. CASE Head(idle) # Position
        <3>1. PICK k \in FeedKey : k = Head(idle)
            BY <1>3, <2>2
        <3>2. s' = ReplyFeed(s, k, hal)
            BY <1>1, <2>2, <3>1
        <3> QED BY <1>2, <3>2, ReplyFeedIsAnswered
    <2> QED BY <2>1, <2>2
<1> QED BY <1>2, <1>4, ReportStep

LEMMA NetworkReportsStep ==
    ASSUME UpdatesIInv, UpdatesIInv', NetworkReports
    PROVE  Calls!Report
<1>1. PICK hal \in Answers : Only(ReplyAll(s, "nw", hal))
    BY DEF NetworkReports
<1>2. Answered(s, s') /\ UNCHANGED <<made, cancelled>>
    BY <1>1, AnswersFit, ReplyAllIsAnswered DEF Only, UpdatesIInv
<1> QED BY <1>2, ReportStep

(* The clients of a handler that goes off have an answer by it, too.       *)
LEMMA SetStateStep ==
    ASSUME UpdatesIInv, UpdatesIInv', NEW h \in Handler, NEW state \in BOOLEAN,
           SetState(h, state)
    PROVE  Calls!Report
<1>1. PICK h1 \in Answers, h2 \in Answers :
        LET stopped == IF h = "gps" THEN [s EXCEPT !.gps = StopGps(@, h1)]
                       ELSE StopRequest(s, "nw", h1)
            t == IF h \in on /\ ~state THEN ReplyOff(stopped, h, h2) ELSE s
        IN  s' = IF on' = {} THEN ReplyOff(t, "hybrid", h2) ELSE t
    BY DEF SetState
<1>2. /\ UNCHANGED <<made, cancelled>> /\ h1 \in HalAnswer /\ h2 \in HalAnswer
      /\ Fit(s, made) /\ s \in Service /\ GpsFits(s.gps)
    BY AnswersFit DEF SetState, UpdatesIInv, Fit
<1>3. PICK x : x = IF h = "gps" THEN [s EXCEPT !.gps = StopGps(@, h1)]
                   ELSE StopRequest(s, "nw", h1)
    OBVIOUS
<1>4. Fit(x, made)
    BY <1>3, StoppedFits
<1>5. SameLists(s, x)
    <2>1. CASE h = "gps"
        <3>1. PICK g : g = StopGps(s.gps, h1)
            OBVIOUS
        <3>2. g \in Provider
            BY <1>2, <3>1, StopGpsFits DEF GpsFits
        <3>3. x = [s EXCEPT !.gps = g]
            BY <1>3, <2>1, <3>1
        <3> QED BY <1>2, <3>2, <3>3, GpsFields
    <2>2. CASE h # "gps"
        <3>1. x = StopRequest(s, "nw", h1) /\ "nw" \in Key
            BY <1>3, <2>2 DEF Key, LocationKey
        <3> QED BY <1>2, <3>1, StopRequestFields
    <2> QED BY <2>1, <2>2
<1>6. PICK t : t = IF h \in on /\ ~state THEN ReplyOff(x, h, h2) ELSE s
    OBVIOUS
<1>7. Fit(t, made) /\ Answered(s, t)
    <2>1. CASE h \in on /\ ~state
        <3>1. h \in {"gps", "network", "hybrid"} /\ t = ReplyOff(x, h, h2)
            BY <1>6, <2>1 DEF Handler
        <3>2. Fit(t, made) /\ Answered(x, t)
            BY <1>2, <1>4, <3>1, ReplyOffFollows, ReplyOffIsAnswered DEF Follows
        <3> QED BY <1>2, <1>5, <3>2, SameIsAnswered, AnsweredOn
    <2>2. CASE ~(h \in on /\ ~state)
        BY <1>2, <1>6, <2>2, SameIsAnswered DEF SameLists
    <2> QED BY <2>1, <2>2
<1>8. Answered(s, s')
    <2>1. CASE on' = {}
        <3>1. s' = ReplyOff(t, "hybrid", h2)
            BY <1>1, <1>3, <1>6, <2>1, Zenon
        <3>2. Answered(t, s')
            BY <1>2, <1>7, <3>1, ReplyOffIsAnswered
        <3> QED BY <1>2, <1>7, <3>2, AnsweredOn
    <2>2. CASE on' # {}
        <3>1. s' = t
            BY <1>1, <1>3, <1>6, <2>2, Zenon
        <3> QED BY <1>7, <3>1
    <2> QED BY <2>1, <2>2
<1> QED BY <1>2, <1>8, ReportStep

(* What the rest does, it does to the providers and the world.             *)
LEMMA OtherSteps ==
    ASSUME UpdatesIInv, UpdatesIInv', SameLists(s, s'), UNCHANGED <<made, cancelled>>
    PROVE  Calls!Report
BY SameIsAnswered, ReportStep

LEMMA OtherStepsTellNobody ==
    ASSUME UpdatesIInv,
           \/ GpsReports \/ PosTimeout \/ SleepDropsSession \/ KernelResume
           \/ ConnectionChanges \/ UNCHANGED vars
           \/ \E k \in Keys \cap FeedKey : FeedReports(k)
           \/ \E name \in Handler, state \in BOOLEAN : SetMock(name, state)
    PROVE  SameLists(s, s') /\ UNCHANGED <<made, cancelled>>
<1>0. s \in Service
    BY DEF UpdatesIInv, Fit
<1>1. ASSUME NEW g, s' = [s EXCEPT !.gps = g] PROVE SameLists(s, s')
    BY <1>0, <1>1 DEF Service, SameLists
<1>2. CASE SleepDropsSession
    <2>1. s' = [s EXCEPT !.gps = [s.gps EXCEPT !.radio = FALSE]]
        BY <1>2 DEF SleepDropsSession
    <2> QED BY <1>1, <1>2, <2>1 DEF SleepDropsSession
<1>3. CASE PosTimeout
    <2>1. s' = [s EXCEPT !.gps = PosTimerFires(s.gps)]
        BY <1>3 DEF PosTimeout
    <2> QED BY <1>1, <1>3, <2>1 DEF PosTimeout
<1>4. CASE KernelResume
    <2>1. SameLists(s, s')
        BY <1>0, <1>4 DEF KernelResume, ReissueRequests, SameLists, Service
    <2> QED BY <1>4, <2>1 DEF KernelResume
<1>5. ASSUME NEW name \in Handler, NEW state \in BOOLEAN, SetMock(name, state)
      PROVE  SameLists(s, s') /\ UNCHANGED <<made, cancelled>>
    BY <1>0, <1>5 DEF SetMock, Only, SameLists, Service
<1>6. CASE \/ GpsReports \/ ConnectionChanges \/ UNCHANGED vars
           \/ \E k \in Keys \cap FeedKey : FeedReports(k)
    BY <1>6 DEF GpsReports, ConnectionChanges, FeedReports, vars, SameLists
<1> QED BY <1>2, <1>3, <1>4, <1>5, <1>6

LEMMA NextCalls ==
    ASSUME UpdatesIInv, UpdatesIInv', [Next]_vars
    PROVE  Calls!Next
<1>0. Keys \subseteq Key /\ Timed \subseteq Call
    BY UpdatesAssumption
<1>1. ASSUME NEW c \in Call, NEW k \in Keys \cap LocationKey, GetLocationUpdates(c, k)
      PROVE  Calls!Next
    BY <1>1, GetLocationUpdatesStep DEF Calls!Next
<1>2. ASSUME NEW c \in Call, NEW k \in Keys \cap FeedKey, GetFeed(c, k)
      PROVE  Calls!Next
    BY <1>2, GetFeedStep DEF Calls!Next
<1>3. ASSUME NEW c \in Call, NEW k \in Keys, Cancel(c, k)
      PROVE  Calls!Next
    BY <1>0, <1>3, CancelStep DEF Calls!Next
<1>4. ASSUME NEW c \in Timed, ResponseTimeout(c)
      PROVE  Calls!Next
    BY <1>0, <1>4, ResponseTimeoutStep DEF Calls!Next
<1>5. ASSUME NEW h \in Handler, NEW state \in BOOLEAN, SetState(h, state)
      PROVE  Calls!Next
    BY <1>5, SetStateStep DEF Calls!Next
<1>6. CASE RunIdle \/ NetworkReports
    BY <1>6, RunIdleStep, NetworkReportsStep DEF Calls!Next
<1>7. CASE \/ GpsReports \/ PosTimeout \/ SleepDropsSession \/ KernelResume
           \/ ConnectionChanges \/ UNCHANGED vars
           \/ \E k \in Keys \cap FeedKey : FeedReports(k)
           \/ \E name \in Handler, state \in BOOLEAN : SetMock(name, state)
    BY <1>7, OtherStepsTellNobody, OtherSteps DEF Calls!Next
<1> QED BY <1>1, <1>2, <1>3, <1>4, <1>5, <1>6, <1>7 DEF Next

(* Whatever the providers, the HAL, the bus and setState do, a client's    *)
(* call is listed once, leaves with an answer or a cancel only, and is     *)
(* timed out only if it has had no answer.                                 *)
THEOREM ClientsGetTheirDue == Spec => CallsSpec
<1>1. Init => Calls!Init
    BY DEF Init, Calls!Init
<1>2. UpdatesIInv /\ UpdatesIInv' /\ [Next]_vars => [Calls!Next]_Calls!vars
    BY NextCalls
<1> QED BY <1>1, <1>2, UpdatesInvariant, PTL DEF Spec, CallsSpec, Calls!Spec
=============================================================================
