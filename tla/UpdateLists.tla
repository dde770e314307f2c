---------------------------- MODULE UpdateLists -----------------------------
(***************************************************************************)
(* Whom LocationService answers when a provider reports, and which         *)
(* requests end with the last client.  Replies, timers and Luna methods    *)
(* run on the main loop and call each other, so each is a function from    *)
(* the state s to the next one.  Its fields:                               *)
(*   gps     the GPS provider (GpsProvider)                                *)
(*   nw      the network provider's request: "none" was ever made, one is  *)
(*           "running", or the last has "stopped" (NetworkProvider has the *)
(*           detail)                                                       *)
(*   list    Luna's subscription lists, by key; a call keeps its place, so *)
(*           that isListFilled, which looks at the first element only to   *)
(*           see whether it is the leaver, finds out whether others remain *)
(*   table   the calls that have an entry in m_locUpdate_req_table         *)
(*   timers  the calls whose responseTimeout source is pending             *)
(*   told    which of "refused" (an error from the Luna method itself) and *)
(*           "answer" (any later reply) a call has been sent (history)     *)
(* meetsCriteria lets the first position through; whether it holds back    *)
(* later ones changes nothing here.                                        *)
(***************************************************************************)
EXTENDS GpsProvider

CONSTANTS
    Call,         \* the calls clients make, each one Luna message
    Subscribers   \* the calls with subscribe: true

LocationKey == {"gps", "nw", "hybrid", "passive"}
FeedKey == {"nmea", "satellite"}
Key == LocationKey \cup FeedKey

Feed(k) == CASE k = "nmea" -> "NMEA_GET_DATA_ON"
             [] k = "satellite" -> "SATELLITE_GET_DATA_ON"

Position == "LOCATION_UPDATES_ON"

NoClients(s, keys) == \A k \in keys : s.list[k] = {}

Tell(s, C, what) ==
    [s EXCEPT !.told = [c \in Call |-> IF c \in C THEN @[c] \cup {what} ELSE @[c]]]

(* stopSubcription and stopNonSubcription: no request belongs to the       *)
(* hybrid or the passive key.                                              *)
StopRequest(s, k, hal) ==
    CASE k = "gps"                -> [s EXCEPT !.gps = StopPosition(@, hal)]
      [] k = "nw"                 -> [s EXCEPT !.nw = IF @ = "running" THEN "stopped" ELSE @]
      [] k \in FeedKey            -> [s EXCEPT !.gps = StopFeed(@, Feed(k), hal)]
      [] k \in {"hybrid", "passive"} -> s

(* A broken variant: the timer is left to fire after its entry is gone.    *)
RemoveRequest_KeepsTimer(s, C) == [s EXCEPT !.table = @ \ C]

(* LSMessageRemoveReqList                                                  *)
RemoveRequest(s, C) == [s EXCEPT !.table = @ \ C, !.timers = @ \ C]

(* A broken variant: a subscriber that has its first position may still be *)
(* told that there was none in time.                                       *)
Answer_KeepsTimers(s, k) ==
    LET once == s.list[k] \ Subscribers
    IN  RemoveRequest(Tell([s EXCEPT !.list[k] = @ \ once], s.list[k], "answer"), once)

(* LSMessageReplyLocUpdateCase for everybody listed: who does not          *)
(* subscribe leaves, for the others the timer is done (removeTimer).       *)
Answer(s, k) ==
    LET once == s.list[k] \ Subscribers
        all  == Tell([s EXCEPT !.list[k] = @ \ once, !.timers = @ \ s.list[k]],
                     s.list[k], "answer")
    IN  RemoveRequest(all, once)

StopIfUnused(s, k, others, hal) ==
    IF NoClients(s, others \cup {k}) THEN StopRequest(s, k, hal) ELSE s

(* LSSubNonSubReplyLocUpdateCase: only if a call without subscription was  *)
(* among those listed may the request have lost its last client.           *)
Reply(s, k, hal) ==
    LET a == Answer(s, k)
    IN  IF s.list[k] \subseteq Subscribers THEN a
        ELSE IF k = "hybrid"
        THEN StopIfUnused(StopIfUnused(a, "gps", {"hybrid"}, hal), "nw", {"hybrid"}, hal)
        ELSE StopIfUnused(a, k, {"hybrid"}, hal)

(* LSSubscriptionNonSubscriptionReply, for NMEA and satellite data         *)
ReplyFeed(s, k, hal) ==
    LET a == Tell([s EXCEPT !.list[k] = @ \cap Subscribers], s.list[k], "answer")
    IN  IF s.list[k] \subseteq Subscribers THEN a ELSE StopIfUnused(a, k, {}, hal)

(* sendPositionData, and getLocationUpdate_reply for the network: the      *)
(* provider's own list, the hybrid and the passive one, in this order.     *)
ReplyAll(s, k, hal) == Reply(Reply(Reply(s, k, hal), "hybrid", hal), "passive", hal)

(* A broken variant: hybrid clients do not count.                          *)
StopForLeaver_OwnListOnly(s, c, hal) ==
    LET Others(k) == s.list[k] \ {c}
        Stop(t, k) == IF Others(k) = {} THEN StopRequest(t, k, hal) ELSE t
    IN  Stop(Stop(s, "nw"), "gps")

(* getLocRequestStopSubscription, with the leaver c still listed or not.   *)
StopForLeaver(s, c, hal) ==
    LET Others(k) == s.list[k] \ {c}
        Stop(t, k) == IF Others(k) \cup Others("hybrid") = {}
                      THEN StopRequest(t, k, hal) ELSE t
    IN  Stop(Stop(s, "nw"), "gps")

(* Luna takes a cancelled call off its list after cancelSubscription.      *)
Unlist(s, c) == [s EXCEPT !.list = [k \in Key |-> @[k] \ {c}]]

(* replyErrorToGpsNwReq                                                    *)
ReplyOff(s, handler, hal) ==
    CASE handler = "gps"     -> Reply(ReplyFeed(ReplyFeed(s, "nmea", hal),
                                                "satellite", hal), "gps", hal)
      [] handler = "network" -> Reply(s, "nw", hal)
      [] handler = "hybrid"  -> Reply(s, "hybrid", hal)

(* resumeGpsEngine: the requests of everybody listed are made again.       *)
ReissueRequests(s, hal, now) ==
    LET Again(g, k) == IF s.list[k] # {} THEN StartFeed(g, Feed(k), hal) ELSE g
        feeds == Again(Again(s.gps, "nmea"), "satellite")
    IN  [s EXCEPT !.gps = IF s.list["gps"] \cup s.list["hybrid"] # {}
                          THEN StartPosition(feeds, hal, now)
                          ELSE feeds]
=============================================================================
