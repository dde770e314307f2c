------------------------------ MODULE Geofence ------------------------------
(***************************************************************************)
(* Geofences: addGeofenceArea, removeGeofenceArea and cancelSubscription   *)
(* of LocationService on the main loop, and the GNSS HAL, which works the  *)
(* requests off in order and reports each through a callback on a thread   *)
(* of its own.  The callback frees the slot of an add that failed there    *)
(* and then, and leaves the answer to the client to an idle callback of    *)
(* the main loop.                                                          *)
(*                                                                         *)
(* A geofence id stands for its slot (geofenceSlot).  A call that is       *)
(* turned away (gps off, unknown id, no free slot, refused by the HAL with *)
(* nothing taken) leaves no trace, and is no step.                         *)
(***************************************************************************)
EXTENDS Sequences, FiniteSets, Integers

CONSTANTS
    Msg,          \* the Luna calls; a token is used again once all forget it
    Subscriber,   \* the calls with "subscribe": true
    Id,           \* the geofence ids, MAX_GEOFENCE_ID of them
    NoId,         \* no entry in htPseudoGeofence
    Worlds,       \* sets of what may go wrong together; subsets of Fault
    MaxPending    \* bound on the requests and reports under way; a breach is
                  \* reported while no other is

(* A client cancels its call or dies, processRequest fails,                *)
(* LSSubscriptionAdd fails, the HAL reports an add or a remove that failed. *)
Fault == {"cancel", "refuse_add", "refuse_remove", "unlisted",
          "add_fails", "remove_fails"}

ASSUME GeofenceAssumption ==
    /\ Subscriber \subseteq Msg
    /\ NoId \notin Id
    /\ Worlds \subseteq SUBSET Fault
    /\ MaxPending \in Nat

VARIABLES
    used,         \* is_geofenceId_used, as the set of the slots that are TRUE
    pseudo,       \* htPseudoGeofence: a call's token to its geofence id
    addList,      \* the subscription lists "<id>addGeofenceArea"
    removeList,   \* the subscription lists "<id>removeGeofenceArea"
    waiting,      \* the listed calls that no answer has been sent to
    requests,     \* what the HAL has accepted and not yet done, in order
    fences,       \* the areas the HAL watches
    idle,         \* the main loop's idle callbacks, in order
    may           \* what may go wrong in this behaviour; one of Worlds

vars == <<used, pseudo, addList, removeList, waiting, requests, fences, idle, may>>

Request == [op : {"add", "remove"}, id : Id]

(* to: who was listed for the id when the HAL made the report (history).   *)
Report == [kind : {"add", "remove", "breach"}, id : Id, ok : BOOLEAN,
           to : SUBSET Msg]

TypeOK == /\ used \subseteq Id
          /\ pseudo \in [Msg -> Id \cup {NoId}]
          /\ addList \in [Id -> SUBSET Msg]
          /\ removeList \in [Id -> SUBSET Msg]
          /\ waiting \subseteq Msg
          /\ requests \in Seq(Request)
          /\ fences \subseteq Id
          /\ idle \in Seq(Report)
          /\ may \in Worlds

Init == /\ used = {}
        /\ pseudo = [m \in Msg |-> NoId]
        /\ addList = [i \in Id |-> {}]
        /\ removeList = [i \in Id |-> {}]
        /\ waiting = {}
        /\ requests = << >>
        /\ fences = {}
        /\ idle = << >>
        /\ may \in Worlds

-----------------------------------------------------------------------------
(* The Luna methods.                                                       *)

Listed(m) == \E i \in Id : m \in addList[i] \cup removeList[i]

(* A token the service has never seen, or has nothing left of.             *)
Fresh(m) == ~Listed(m) /\ pseudo[m] = NoId

(* processRequest(ADD_GEOFENCE_CMD / REMOVE_GEOFENCE_CMD)                   *)
Ask(op, i) == /\ Len(requests) + Len(idle) < MaxPending
              /\ requests' = Append(requests, [op |-> op, id |-> i])

(* A broken variant, once in the code: with every slot taken the loop      *)
(* falls through with an id that is in use.                                *)
Candidates_NoExhaustionTest == IF used = Id THEN Id ELSE Id \ used

(* A broken variant: no slot was free and nobody noticed.                  *)
Candidates_NoIdFound == IF used = Id THEN {NoId} ELSE Id \ used

(* The ids the random draw of addGeofenceArea can end with.                *)
Candidates == Id \ used

(* The slot is taken before the HAL is asked, and kept if it refuses.      *)
AddGeofenceArea(m) ==
    /\ Fresh(m)
    /\ \E i \in Candidates :
        /\ used' = used \cup {i}
        /\ \/ /\ Ask("add", i)
              /\ \/ /\ addList' = [addList EXCEPT ![i] = @ \cup {m}]
                    /\ pseudo' = [pseudo EXCEPT ![m] = i]
                    /\ waiting' = waiting \cup {m}
                 \/ /\ "unlisted" \in may
                    /\ UNCHANGED <<addList, pseudo, waiting>>
           \/ /\ "refuse_add" \in may
              /\ UNCHANGED <<addList, pseudo, waiting, requests>>
    /\ UNCHANGED <<removeList, fences, idle, may>>

(* A broken variant: the slot is given back before the HAL has removed the *)
(* area.                                                                   *)
RemoveGeofenceArea_FreesSlot(m, i) ==
    /\ Fresh(m)
    /\ addList[i] # {}
    /\ Ask("remove", i)
    /\ used' = used \ {i}
    /\ removeList' = [removeList EXCEPT ![i] = @ \cup {m}]
    /\ waiting' = waiting \cup {m}
    /\ UNCHANGED <<pseudo, addList, fences, idle, may>>

(* The slot and the add list keep the area until the HAL reports.          *)
RemoveGeofenceArea(m, i) ==
    /\ Fresh(m)
    /\ addList[i] # {}
    /\ Ask("remove", i)
    /\ \/ /\ removeList' = [removeList EXCEPT ![i] = @ \cup {m}]
          /\ waiting' = waiting \cup {m}
       \/ /\ "unlisted" \in may
          /\ UNCHANGED <<removeList, waiting>>
    /\ UNCHANGED <<used, pseudo, addList, fences, idle, may>>

(* cancelSubscription for a call that is listed, and Luna then drops it    *)
(* from its list.  The slot is free at once, whatever the HAL says to the  *)
(* remove; the token stays in htPseudoGeofence.                            *)
CancelSubscription(m) ==
    /\ "cancel" \in may
    /\ Listed(m)
    /\ IF pseudo[m] # NoId
       THEN /\ used' = used \ {pseudo[m]}
            /\ \/ Ask("remove", pseudo[m])
               \/ "refuse_remove" \in may /\ UNCHANGED requests
       ELSE UNCHANGED <<used, requests>>
    /\ addList' = [i \in Id |-> addList[i] \ {m}]
    /\ removeList' = [i \in Id |-> removeList[i] \ {m}]
    /\ waiting' = waiting \ {m}
    /\ UNCHANGED <<pseudo, fences, idle, may>>

-----------------------------------------------------------------------------
(* The HAL and its callbacks.                                              *)

Queue(kind, i, ok) ==
    idle' = Append(idle, [kind |-> kind, id |-> i, ok |-> ok, to |-> addList[i]])

(* A broken variant: a failed add is not answered.                         *)
HalAdds_Silent ==
    /\ requests # << >> /\ Head(requests).op = "add"
    /\ requests' = Tail(requests)
    /\ LET i == Head(requests).id
       IN  \/ /\ i \notin fences
              /\ fences' = fences \cup {i}
              /\ Queue("add", i, TRUE)
              /\ UNCHANGED used
           \/ /\ i \in fences \/ "add_fails" \in may
              /\ used' = used \ {i}
              /\ UNCHANGED <<fences, idle>>
    /\ UNCHANGED <<pseudo, addList, removeList, waiting, may>>

(* geofence_add_reply; an id the HAL knows already is GEOFENCE_ERROR_ID_   *)
(* EXISTS, and frees the slot like every other failure.                    *)
HalAdds ==
    /\ requests # << >> /\ Head(requests).op = "add"
    /\ requests' = Tail(requests)
    /\ LET i == Head(requests).id
       IN  \/ /\ i \notin fences
              /\ fences' = fences \cup {i}
              /\ Queue("add", i, TRUE)
              /\ UNCHANGED used
           \/ /\ i \in fences \/ "add_fails" \in may
              /\ used' = used \ {i}
              /\ Queue("add", i, FALSE)
              /\ UNCHANGED fences
    /\ UNCHANGED <<pseudo, addList, removeList, waiting, may>>

(* geofence_remove_reply; an id the HAL does not know is GEOFENCE_ERROR_   *)
(* ID_UNKNOWN.                                                             *)
HalRemoves ==
    /\ requests # << >> /\ Head(requests).op = "remove"
    /\ requests' = Tail(requests)
    /\ LET i == Head(requests).id
       IN  \/ /\ i \in fences
              /\ fences' = fences \ {i}
              /\ Queue("remove", i, TRUE)
           \/ /\ i \notin fences \/ "remove_fails" \in may
              /\ Queue("remove", i, FALSE)
              /\ UNCHANGED fences
    /\ UNCHANGED <<used, pseudo, addList, removeList, waiting, may>>

(* geofence_breach_reply                                                   *)
HalReportsBreach ==
    /\ \A k \in DOMAIN idle : idle[k].kind # "breach"
    /\ \E i \in fences : Queue("breach", i, TRUE)
    /\ UNCHANGED <<used, pseudo, addList, removeList, waiting, requests, fences, may>>

-----------------------------------------------------------------------------
(* The idle callbacks.                                                     *)

(* sendGeofenceAddData and sendGeofenceBreachData: LSSubscriptionReply.     *)
SendGeofenceAddData ==
    /\ idle # << >> /\ Head(idle).kind \in {"add", "breach"}
    /\ idle' = Tail(idle)
    /\ waiting' = waiting \ addList[Head(idle).id]
    /\ UNCHANGED <<used, pseudo, addList, removeList, requests, fences, may>>

(* The one entry that is dropped: whichever of the id's the iteration over *)
(* the hash table meets first.                                             *)
ForgetArea(i) ==
    IF \E m \in Msg : pseudo[m] = i
    THEN \E m \in Msg : pseudo[m] = i /\ pseudo' = [pseudo EXCEPT ![m] = NoId]
    ELSE UNCHANGED pseudo

(* A broken variant: the slot is given back whatever the HAL reported.     *)
SendGeofenceRemoveData_AnyStatus ==
    /\ idle # << >> /\ Head(idle).kind = "remove"
    /\ idle' = Tail(idle)
    /\ LET i == Head(idle).id
       IN  /\ removeList' = [removeList EXCEPT ![i] = @ \cap Subscriber]
           /\ addList' = IF Head(idle).ok
                         THEN [addList EXCEPT ![i] = @ \cap Subscriber]
                         ELSE addList
           /\ used' = used \ {i}
           /\ ForgetArea(i)
           /\ waiting' = waiting \ (removeList[i] \cup
                                    IF Head(idle).ok THEN addList[i] ELSE {})
    /\ UNCHANGED <<requests, fences, may>>

(* A broken variant: the token is dropped, the slot stays taken.           *)
SendGeofenceRemoveData_KeepsSlot ==
    /\ idle # << >> /\ Head(idle).kind = "remove"
    /\ idle' = Tail(idle)
    /\ LET i == Head(idle).id
       IN  /\ removeList' = [removeList EXCEPT ![i] = @ \cap Subscriber]
           /\ IF Head(idle).ok
              THEN /\ addList' = [addList EXCEPT ![i] = @ \cap Subscriber]
                   /\ ForgetArea(i)
                   /\ waiting' = waiting \ (removeList[i] \cup addList[i])
              ELSE /\ UNCHANGED <<addList, pseudo>>
                   /\ waiting' = waiting \ removeList[i]
    /\ UNCHANGED <<used, requests, fences, may>>

(* sendGeofenceRemoveData: a reply takes the calls that do not subscribe   *)
(* off the list it goes to; the add list is answered, and the slot given   *)
(* back, when the remove worked.                                           *)
SendGeofenceRemoveData ==
    /\ idle # << >> /\ Head(idle).kind = "remove"
    /\ idle' = Tail(idle)
    /\ LET i == Head(idle).id
       IN  /\ removeList' = [removeList EXCEPT ![i] = @ \cap Subscriber]
           /\ IF Head(idle).ok
              THEN /\ addList' = [addList EXCEPT ![i] = @ \cap Subscriber]
                   /\ used' = used \ {i}
                   /\ ForgetArea(i)
                   /\ waiting' = waiting \ (removeList[i] \cup addList[i])
              ELSE /\ UNCHANGED <<addList, used, pseudo>>
                   /\ waiting' = waiting \ removeList[i]
    /\ UNCHANGED <<requests, fences, may>>

Hal == HalAdds \/ HalRemoves
Idle == SendGeofenceAddData \/ SendGeofenceRemoveData

Next == \/ \E m \in Msg : \/ AddGeofenceArea(m)
                          \/ \E i \in Id : RemoveGeofenceArea(m, i)
                          \/ CancelSubscription(m)
        \/ Hal \/ HalReportsBreach \/ Idle

Spec == Init /\ [][Next]_vars

(* The HAL works off what it has accepted, and the main loop gets round to *)
(* its idle callbacks.                                                     *)
FairSpec == Spec /\ WF_vars(Hal) /\ WF_vars(Idle)
-----------------------------------------------------------------------------
(* Properties.                                                             *)

(* The listed calls that htPseudoGeofence has down for i.                  *)
Owners(i) == {m \in addList[i] : pseudo[m] = i}

(* No slot is lost: as long as the HAL and Luna take every add, a slot     *)
(* that is taken belongs to a listed call whose cancellation gives it      *)
(* back, however cancels, late reports and failed adds of the same id run  *)
(* into each other.                                                        *)
NoSlotLost ==
    may \cap {"refuse_add", "unlisted"} = {} =>
        \A i \in used : Owners(i) # {}

(* Every call that is listed is answered, unless its client cancels it     *)
(* first; an add also when the HAL fails it.                               *)
EveryCallIsAnswered == \A m \in Msg : m \in waiting ~> m \notin waiting

(* addGeofenceArea draws "a random geofence id that is not already in      *)
(* use": no two listed calls own the same id.                              *)
OneOwner == \A i \in Id : Cardinality(Owners(i)) <= 1

(* While nobody cancels and every add succeeds that is taken, this is so   *)
(* for as long as ids are used again.                                      *)
Orderly == may \cap {"cancel", "unlisted", "add_fails"} = {}

OneOwnerAtATime == Orderly => OneOwner

(* An area the HAL watches then belongs to a call that hears of its        *)
(* breaches and can be removed (removeGeofenceArea asks for a non-empty    *)
(* add list).                                                              *)
FenceHasOwner == Orderly => \A i \in fences : Owners(i) # {}

(* An id is used again and again, but a report that is still queued never  *)
(* reaches an owner that took the id after the HAL made it.  (The report   *)
(* of a remove that failed does not go to the add list.)                   *)
NoStaleReports ==
    Orderly =>
        \A k \in DOMAIN idle :
            idle[k].kind # "remove" \/ idle[k].ok
                => Owners(idle[k].id) \subseteq idle[k].to
=============================================================================
