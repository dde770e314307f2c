--------------------------- MODULE GeofenceProofs ---------------------------
(***************************************************************************)
(* Theorems about Geofence, for any set of calls and ids and any faults.   *)
(* NoSlotLost, given the types, is inductive as it stands: whoever takes a *)
(* slot is put down for it in the same step, and whatever takes that note  *)
(* away frees the slot as well.  What holds of owners, areas and reports   *)
(* while nothing is cancelled or fails to be added follows from InOrder.   *)
(***************************************************************************)
EXTENDS Geofence, FiniteSetTheorems, TLAPS

(* A report joins the idle callbacks.                                      *)
LEMMA QueueType ==
    ASSUME TypeOK, NEW kind \in {"add", "remove", "breach"}, NEW i \in Id,
           NEW ok \in BOOLEAN, Queue(kind, i, ok)
    PROVE  idle' \in Seq(Report)
<1>1. [kind |-> kind, id |-> i, ok |-> ok, to |-> addList[i]] \in Report
  BY DEF TypeOK, Report
<1>2. QED BY <1>1 DEF TypeOK, Queue

(* A request joins those of the HAL.                                       *)
LEMMA AskType ==
    ASSUME TypeOK, NEW op \in {"add", "remove"}, NEW i \in Id, Ask(op, i)
    PROVE  requests' \in Seq(Request)
<1>1. [op |-> op, id |-> i] \in Request
  BY DEF Request
<1>2. QED BY <1>1 DEF TypeOK, Ask

(* What is left of a queue, and its head, have the queue's types.          *)
LEMMA HeadTail ==
    ASSUME NEW S, NEW q \in Seq(S), q # << >>
    PROVE  Head(q) \in S /\ Tail(q) \in Seq(S)
OBVIOUS

LEMMA NextRequest ==
    ASSUME TypeOK, requests # << >>
    PROVE  Head(requests).id \in Id /\ Tail(requests) \in Seq(Request)
<1>1. requests \in Seq(Request)
  BY DEF TypeOK
<1>2. Head(requests) \in Request /\ Tail(requests) \in Seq(Request)
  BY <1>1, HeadTail
<1>3. QED BY <1>2 DEF Request

LEMMA NextReport ==
    ASSUME TypeOK, idle # << >>
    PROVE  Head(idle).id \in Id /\ Tail(idle) \in Seq(Report)
<1>1. idle \in Seq(Report)
  BY DEF TypeOK
<1>2. Head(idle) \in Report /\ Tail(idle) \in Seq(Report)
  BY <1>1, HeadTail
<1>3. QED BY <1>2 DEF Report

(* What may go wrong is settled at the start.                              *)
LEMMA MayStays == ASSUME [Next]_vars PROVE may' = may
BY DEF Next, Hal, Idle, AddGeofenceArea, RemoveGeofenceArea, CancelSubscription,
       HalAdds, HalRemoves, HalReportsBreach, SendGeofenceAddData,
       SendGeofenceRemoveData, vars

(* The types, and the slot table, over a step of each kind.                *)
LEMMA TypeStep == ASSUME TypeOK, [Next]_vars PROVE TypeOK'
<1> USE DEF TypeOK
<1>1. ASSUME NEW m \in Msg, AddGeofenceArea(m) PROVE TypeOK'
  <2>1. PICK i \in Candidates :
          /\ used' = used \cup {i}
          /\ \/ /\ Ask("add", i)
                /\ \/ /\ addList' = [addList EXCEPT ![i] = @ \cup {m}]
                      /\ pseudo' = [pseudo EXCEPT ![m] = i]
                      /\ waiting' = waiting \cup {m}
                   \/ UNCHANGED <<addList, pseudo, waiting>>
             \/ UNCHANGED <<addList, pseudo, waiting, requests>>
    BY <1>1 DEF AddGeofenceArea
  <2>2. i \in Id
    BY <2>1 DEF Candidates
  <2>3. requests' \in Seq(Request)
    <3>1. CASE Ask("add", i)
      BY <2>2, <3>1, AskType
    <3>2. CASE UNCHANGED requests
      BY <3>2
    <3>3. QED BY <2>1, <3>1, <3>2
  <2>4. UNCHANGED <<removeList, fences, idle, may>>
    BY <1>1 DEF AddGeofenceArea
  <2>5. /\ used' \subseteq Id
        /\ addList' \in [Id -> SUBSET Msg]
        /\ pseudo' \in [Msg -> Id \cup {NoId}]
        /\ waiting' \subseteq Msg
    BY <2>1, <2>2
  <2>6. QED BY <2>3, <2>4, <2>5
<1>2. ASSUME NEW m \in Msg, NEW i \in Id, RemoveGeofenceArea(m, i) PROVE TypeOK'
  <2>1. requests' \in Seq(Request)
    BY <1>2, AskType DEF RemoveGeofenceArea
  <2>2. QED BY <1>2, <2>1 DEF RemoveGeofenceArea
<1>3. ASSUME NEW m \in Msg, CancelSubscription(m) PROVE TypeOK'
  <2>1. requests' \in Seq(Request)
    <3>1. CASE pseudo[m] # NoId /\ Ask("remove", pseudo[m])
      BY <3>1, AskType
    <3>2. CASE UNCHANGED requests
      BY <3>2
    <3>3. QED BY <1>3, <3>1, <3>2 DEF CancelSubscription
  <2>2. QED BY <1>3, <2>1 DEF CancelSubscription
<1>4. ASSUME HalAdds PROVE TypeOK'
  <2>1. Head(requests).id \in Id /\ requests' \in Seq(Request)
    BY <1>4, NextRequest DEF HalAdds
  <2>2. idle' \in Seq(Report)
    BY <1>4, <2>1, QueueType DEF HalAdds
  <2>3. QED BY <1>4, <2>1, <2>2 DEF HalAdds
<1>5. ASSUME HalRemoves PROVE TypeOK'
  <2>1. Head(requests).id \in Id /\ requests' \in Seq(Request)
    BY <1>5, NextRequest DEF HalRemoves
  <2>2. idle' \in Seq(Report)
    BY <1>5, <2>1, QueueType DEF HalRemoves
  <2>3. QED BY <1>5, <2>1, <2>2 DEF HalRemoves
<1>6. ASSUME HalReportsBreach PROVE TypeOK'
  BY <1>6, QueueType DEF HalReportsBreach
<1>7. ASSUME SendGeofenceAddData PROVE TypeOK'
  BY <1>7, NextReport DEF SendGeofenceAddData
<1>8. ASSUME SendGeofenceRemoveData PROVE TypeOK'
  <2>1. Head(idle).id \in Id /\ idle' \in Seq(Report)
    BY <1>8, NextReport DEF SendGeofenceRemoveData
  <2>2. pseudo' \in [Msg -> Id \cup {NoId}]
    BY <1>8, <2>1 DEF SendGeofenceRemoveData, ForgetArea
  <2>3. QED BY <1>8, <2>1, <2>2 DEF SendGeofenceRemoveData
<1>9. CASE UNCHANGED vars
  BY <1>9 DEF vars
<1>10. QED
  BY <1>1, <1>2, <1>3, <1>4, <1>5, <1>6, <1>7, <1>8, <1>9 DEF Next, Hal, Idle

LEMMA SlotStep == ASSUME TypeOK, NoSlotLost, [Next]_vars PROVE NoSlotLost'
<1> SUFFICES ASSUME may' \cap {"refuse_add", "unlisted"} = {},
                    NEW j \in used'
             PROVE  Owners(j)' # {}
  BY DEF NoSlotLost
<1>e. may \cap {"refuse_add", "unlisted"} = {}
  BY MayStays
<1> DEFINE Owns(m) == m \in addList[j] /\ pseudo[m] = j
<1>a. TypeOK'
  BY TypeStep
<1>b. j \in Id
  BY <1>a DEF TypeOK
<1>c. ASSUME j \in used PROVE \E m \in Msg : Owns(m)
  BY <1>b, <1>c, <1>e DEF NoSlotLost, Owners, TypeOK
<1>d. SUFFICES \E m \in Msg : Owns(m)'
  BY DEF Owners
<1>1. ASSUME NEW m \in Msg, AddGeofenceArea(m) PROVE \E n \in Msg : Owns(n)'
  <2>1. PICK i \in Id :
          /\ used' = used \cup {i}
          /\ addList' = [addList EXCEPT ![i] = @ \cup {m}]
          /\ pseudo' = [pseudo EXCEPT ![m] = i]
    BY <1>1, <1>e DEF AddGeofenceArea, Candidates
  <2>2. CASE j = i
    BY <2>1, <2>2 DEF TypeOK
  <2>3. CASE j # i
    <3>1. PICK n \in Msg : Owns(n)
      BY <1>c, <2>1, <2>3
    <3>2. n # m
      BY <1>1, <1>b, <3>1, GeofenceAssumption DEF AddGeofenceArea, Fresh
    <3>3. QED BY <1>b, <2>1, <2>3, <3>1, <3>2 DEF TypeOK
  <2>4. QED BY <2>2, <2>3
<1>2. ASSUME NEW m \in Msg, CancelSubscription(m) PROVE \E n \in Msg : Owns(n)'
  <2>1. j \in used /\ pseudo[m] # j
    BY <1>2, <1>b, GeofenceAssumption DEF CancelSubscription
  <2>2. PICK n \in Msg : Owns(n)
    BY <1>c, <2>1
  <2>3. QED BY <1>2, <1>b, <2>1, <2>2 DEF CancelSubscription, TypeOK
<1>3. ASSUME SendGeofenceRemoveData PROVE \E n \in Msg : Owns(n)'
  <2> DEFINE i == Head(idle).id
  <2>1. i \in Id
    BY <1>3, NextReport DEF SendGeofenceRemoveData
  <2>2. CASE Head(idle).ok
    <3>1. /\ addList' = [addList EXCEPT ![i] = @ \cap Subscriber]
          /\ used' = used \ {i}
          /\ ForgetArea(i)
      BY <1>3, <2>2 DEF SendGeofenceRemoveData
    <3>2. PICK n \in Msg : Owns(n)
      BY <1>c, <3>1
    <3>3. n \in addList'[j]
      BY <1>b, <3>1, <3>2 DEF TypeOK
    <3>4. pseudo'[n] = j
      BY <3>1, <3>2 DEF ForgetArea, TypeOK
    <3>5. QED BY <3>3, <3>4
  <2>3. CASE ~Head(idle).ok
    BY <1>3, <1>c, <2>3 DEF SendGeofenceRemoveData
  <2>4. QED BY <2>2, <2>3
<1>4. CASE \/ \E m \in Msg, i \in Id : RemoveGeofenceArea(m, i)
           \/ HalAdds \/ HalRemoves \/ HalReportsBreach \/ SendGeofenceAddData
           \/ UNCHANGED vars
  <2>1. used' \subseteq used /\ UNCHANGED <<addList, pseudo>>
    BY <1>4 DEF RemoveGeofenceArea, HalAdds, HalRemoves, HalReportsBreach,
                SendGeofenceAddData, vars
  <2>2. QED BY <1>c, <2>1
<1>5. QED BY <1>1, <1>2, <1>3, <1>4 DEF Next, Hal, Idle

-----------------------------------------------------------------------------
(* Orderly behaviours.  An id that a call is down for is in exactly one of *)
(* three phases: its add is on the way to the HAL, the HAL watches it, or  *)
(* the report that it was removed is on the way back.  As requests and     *)
(* reports keep their order, and the id is not drawn again before that     *)
(* report is handled, nothing queued is older than the id's owner.         *)

Owned(i) == \E m \in Msg : pseudo[m] = i

Adding(i) == \E k \in DOMAIN requests : requests[k].op = "add" /\ requests[k].id = i

(* The report of a removal that worked, and those that reach the owner.    *)
IsRemoval(r) == r.kind = "remove" /\ r.ok
ToOwner(r) == r.kind # "remove" \/ r.ok

Removed(i) == \E k \in DOMAIN idle : IsRemoval(idle[k]) /\ idle[k].id = i

OwnersAreListed ==
    \A m \in Msg : pseudo[m] # NoId => m \in addList[pseudo[m]] /\ pseudo[m] \in used

OwnersDiffer == \A m, n \in Msg : pseudo[m] = pseudo[n] /\ pseudo[m] # NoId => m = n

OnePhase ==
    \A i \in Id :
        /\ Owned(i) <=> Adding(i) \/ i \in fences \/ Removed(i)
        /\ ~(Adding(i) /\ i \in fences)
        /\ ~(Adding(i) /\ Removed(i))
        /\ ~(i \in fences /\ Removed(i))

OneAdd ==
    \A j, k \in DOMAIN requests :
        requests[j].op = "add" /\ requests[k].op = "add" /\ requests[j].id = requests[k].id
            => j = k

RemovalIsLast ==
    \A j, k \in DOMAIN idle :
        j < k /\ IsRemoval(idle[j]) /\ ToOwner(idle[k]) => idle[j].id # idle[k].id

ReportsReachOwners ==
    \A k \in DOMAIN idle :
        ToOwner(idle[k]) =>
            /\ Owned(idle[k].id)
            /\ \A m \in Msg : pseudo[m] = idle[k].id => m \in idle[k].to

InOrder == OwnersAreListed /\ OwnersDiffer /\ OnePhase /\ OneAdd /\ RemovalIsLast
           /\ ReportsReachOwners

OrderlyIInv == TypeOK /\ (Orderly => InOrder)

(* Where the elements of a queue are when one joins or leaves it.          *)
LEMMA Joined ==
    ASSUME NEW S, NEW q \in Seq(S), NEW x \in S, NEW r, r = Append(q, x)
    PROVE  /\ Len(q) \in Nat
           /\ DOMAIN q = 1 .. Len(q) /\ DOMAIN r = 1 .. Len(q) + 1
           /\ \A k \in DOMAIN q : r[k] = q[k]
           /\ r[Len(q) + 1] = x
OBVIOUS

LEMMA Left ==
    ASSUME NEW S, NEW q \in Seq(S), q # << >>, NEW r, r = Tail(q)
    PROVE  /\ Len(q) \in Nat \ {0}
           /\ DOMAIN q = 1 .. Len(q) /\ DOMAIN r = 1 .. Len(q) - 1
           /\ \A k \in DOMAIN r : r[k] = q[k + 1]
           /\ Head(q) = q[1]
OBVIOUS

(* The requests.                                                           *)
LEMMA AskAdds ==
    ASSUME TypeOK, NEW op \in {"add", "remove"}, NEW i \in Id, Ask(op, i)
    PROVE  /\ \A j \in Id : Adding(j)' <=> Adding(j) \/ (op = "add" /\ j = i)
           /\ OneAdd /\ (op = "add" => ~Adding(i)) => OneAdd'
<1> DEFINE x == [op |-> op, id |-> i]
           n == Len(requests)
<1>1. x.op = op /\ x.id = i /\ x \in Request
  BY DEF Request
<1>2. requests \in Seq(Request) /\ requests' = Append(requests, x)
  BY DEF TypeOK, Ask
<1> HIDE DEF x
<1>3. /\ n \in Nat
      /\ DOMAIN requests = 1 .. n /\ DOMAIN requests' = 1 .. n + 1
      /\ \A k \in DOMAIN requests : requests'[k] = requests[k]
      /\ requests'[n + 1] = x
  BY <1>1, <1>2, Joined
<1> HIDE DEF n
<1>4. DOMAIN requests' = DOMAIN requests \cup {n + 1} /\ n + 1 \notin DOMAIN requests
  BY <1>3
<1>5. ASSUME NEW j \in Id
      PROVE  Adding(j)' <=> Adding(j) \/ (op = "add" /\ j = i)
  BY <1>1, <1>3, <1>4 DEF Adding
<1>6. ASSUME OneAdd, op = "add" => ~Adding(i)
      PROVE  OneAdd'
  BY <1>1, <1>3, <1>4, <1>6 DEF OneAdd, Adding
<1>7. QED BY <1>5, <1>6

LEMMA WorkedOff ==
    ASSUME TypeOK, OneAdd, requests # << >>, requests' = Tail(requests)
    PROVE  /\ \A j \in Id : Adding(j)' <=>
                  Adding(j) /\ ~(Head(requests).op = "add" /\ Head(requests).id = j)
           /\ Head(requests).op = "add" => Adding(Head(requests).id)
           /\ OneAdd'
<1> DEFINE n == Len(requests)
<1>1. /\ n \in Nat \ {0}
      /\ DOMAIN requests = 1 .. n /\ DOMAIN requests' = 1 .. n - 1
      /\ \A k \in DOMAIN requests' : requests'[k] = requests[k + 1]
      /\ Head(requests) = requests[1]
  BY Left DEF TypeOK
<1> HIDE DEF n
<1>2. 1 \in DOMAIN requests /\ \A k \in DOMAIN requests' : k + 1 \in DOMAIN requests /\ k + 1 # 1
  BY <1>1
<1>3. \A k \in DOMAIN requests : k = 1 \/ (k - 1 \in DOMAIN requests' /\ (k - 1) + 1 = k)
  BY <1>1
<1>4. ASSUME NEW j \in Id
      PROVE  Adding(j)' <=>
                 Adding(j) /\ ~(Head(requests).op = "add" /\ Head(requests).id = j)
  <2>1. ASSUME Adding(j)'
        PROVE  Adding(j) /\ ~(Head(requests).op = "add" /\ Head(requests).id = j)
    <3>1. PICK k \in DOMAIN requests' : requests'[k].op = "add" /\ requests'[k].id = j
      BY <2>1 DEF Adding
    <3>2. /\ k + 1 \in DOMAIN requests /\ k + 1 # 1
          /\ requests[k + 1].op = "add" /\ requests[k + 1].id = j
      BY <1>1, <1>2, <3>1
    <3>3. QED BY <1>1, <1>2, <3>2 DEF Adding, OneAdd
  <2>2. ASSUME Adding(j), ~(Head(requests).op = "add" /\ Head(requests).id = j)
        PROVE  Adding(j)'
    <3>1. PICK k \in DOMAIN requests : requests[k].op = "add" /\ requests[k].id = j
      BY <2>2 DEF Adding
    <3>2. k - 1 \in DOMAIN requests' /\ requests'[k - 1] = requests[k]
      BY <1>1, <1>3, <2>2, <3>1
    <3>3. QED BY <3>1, <3>2 DEF Adding
  <2>3. QED BY <2>1, <2>2
<1>5. Head(requests).op = "add" => Adding(Head(requests).id)
  BY <1>1, <1>2 DEF Adding
<1>6. OneAdd'
  <2>1. SUFFICES ASSUME NEW j \in DOMAIN requests', NEW k \in DOMAIN requests',
                        requests'[j].op = "add", requests'[k].op = "add",
                        requests'[j].id = requests'[k].id
                 PROVE  j = k
    BY DEF OneAdd
  <2>2. j + 1 = k + 1
    BY <1>1, <1>2, <2>1 DEF OneAdd
  <2>3. QED BY <1>1, <2>2
<1>7. QED BY <1>4, <1>5, <1>6

(* The reports.                                                            *)
LEMMA ReportIds == ASSUME TypeOK, NEW k \in DOMAIN idle PROVE idle[k].id \in Id
<1>1. idle[k] \in Report
  BY DEF TypeOK
<1>2. QED BY <1>1 DEF Report

LEMMA Reported ==
    ASSUME TypeOK, RemovalIsLast, NEW kind \in {"add", "remove", "breach"},
           NEW i \in Id, NEW ok \in BOOLEAN, Queue(kind, i, ok),
           kind # "remove" \/ ok => ~Removed(i)
    PROVE  /\ \A j \in Id : Removed(j)' <=>
                  Removed(j) \/ (kind = "remove" /\ ok /\ j = i)
           /\ RemovalIsLast'
           /\ /\ OwnersAreListed /\ ReportsReachOwners /\ pseudo' = pseudo
              /\ kind # "remove" \/ ok => Owned(i)
              => ReportsReachOwners'
<1> DEFINE x == [kind |-> kind, id |-> i, ok |-> ok, to |-> addList[i]]
           n == Len(idle)
<1>1. /\ x.kind = kind /\ x.id = i /\ (x.ok <=> ok) /\ x.to = addList[i]
      /\ x \in Report
  BY DEF Report, TypeOK
<1>2. idle \in Seq(Report) /\ idle' = Append(idle, x)
  BY DEF TypeOK, Queue
<1>3. (IsRemoval(x) <=> kind = "remove" /\ ok) /\ (ToOwner(x) <=> kind # "remove" \/ ok)
  BY <1>1 DEF IsRemoval, ToOwner
<1> HIDE DEF x
<1>4. /\ n \in Nat
      /\ DOMAIN idle = 1 .. n /\ DOMAIN idle' = 1 .. n + 1
      /\ \A k \in DOMAIN idle : idle'[k] = idle[k]
      /\ idle'[n + 1] = x
  BY <1>1, <1>2, Joined
<1> HIDE DEF n
<1>5. /\ DOMAIN idle' = DOMAIN idle \cup {n + 1} /\ n + 1 \notin DOMAIN idle
      /\ \A k \in DOMAIN idle : k < n + 1 /\ ~(n + 1 < k)
      /\ ~(n + 1 < n + 1)
  BY <1>4
<1>6. ASSUME NEW j \in Id
      PROVE  Removed(j)' <=> Removed(j) \/ (kind = "remove" /\ ok /\ j = i)
  <2>1. ASSUME Removed(j)' PROVE Removed(j) \/ (kind = "remove" /\ ok /\ j = i)
    BY <1>1, <1>3, <1>4, <1>5, <2>1 DEF Removed
  <2>2. ASSUME Removed(j) PROVE Removed(j)'
    BY <1>4, <1>5, <2>2 DEF Removed
  <2>3. ASSUME kind = "remove", ok, j = i PROVE Removed(j)'
    BY <1>1, <1>3, <1>4, <1>5, <2>3 DEF Removed
  <2>4. QED BY <2>1, <2>2, <2>3
<1>7. RemovalIsLast'
  <2>1. SUFFICES ASSUME NEW j \in DOMAIN idle', NEW k \in DOMAIN idle', j < k,
                        IsRemoval(idle'[j]), ToOwner(idle'[k])
                 PROVE  idle'[j].id # idle'[k].id
    BY DEF RemovalIsLast
  <2>2. j \in DOMAIN idle
    BY <1>5, <2>1
  <2>3. CASE k \in DOMAIN idle
    BY <1>4, <2>1, <2>2, <2>3 DEF RemovalIsLast
  <2>4. CASE k = n + 1
    BY <1>1, <1>3, <1>4, <2>1, <2>2, <2>4 DEF Removed
  <2>5. QED BY <1>5, <2>3, <2>4
<1>8. ASSUME OwnersAreListed, ReportsReachOwners, pseudo' = pseudo,
             kind # "remove" \/ ok => Owned(i)
      PROVE  ReportsReachOwners'
  <2>1. SUFFICES ASSUME NEW k \in DOMAIN idle', ToOwner(idle'[k])
                 PROVE  /\ Owned(idle'[k].id)
                        /\ \A m \in Msg : pseudo[m] = idle'[k].id => m \in idle'[k].to
    BY <1>8 DEF ReportsReachOwners, Owned
  <2>2. CASE k \in DOMAIN idle
    BY <1>4, <1>8, <2>1, <2>2 DEF ReportsReachOwners
  <2>3. CASE k = n + 1
    <3>1. Owned(i) /\ idle'[k] = x
      BY <1>3, <1>4, <1>8, <2>1, <2>3
    <3>2. ASSUME NEW m \in Msg, pseudo[m] = i PROVE m \in addList[i]
      BY <1>8, <3>2, GeofenceAssumption DEF OwnersAreListed
    <3>3. QED BY <1>1, <3>1, <3>2
  <2>4. QED BY <1>5, <2>2, <2>3
<1>9. QED BY <1>6, <1>7, <1>8

LEMMA Handled ==
    ASSUME TypeOK, RemovalIsLast, idle # << >>, idle' = Tail(idle)
    PROVE  /\ \A j \in Id : Removed(j)' <=>
                  Removed(j) /\ ~(IsRemoval(Head(idle)) /\ Head(idle).id = j)
           /\ IsRemoval(Head(idle)) => Removed(Head(idle).id)
           /\ RemovalIsLast'
           /\ \A k \in DOMAIN idle' : \E l \in DOMAIN idle :
                  /\ idle'[k] = idle[l]
                  /\ IsRemoval(Head(idle)) /\ ToOwner(idle[l])
                         => idle[l].id # Head(idle).id
<1> DEFINE n == Len(idle)
<1>1. /\ n \in Nat \ {0}
      /\ DOMAIN idle = 1 .. n /\ DOMAIN idle' = 1 .. n - 1
      /\ \A k \in DOMAIN idle' : idle'[k] = idle[k + 1]
      /\ Head(idle) = idle[1]
  BY Left DEF TypeOK
<1> HIDE DEF n
<1>2. /\ 1 \in DOMAIN idle
      /\ \A k \in DOMAIN idle' : k + 1 \in DOMAIN idle /\ 1 < k + 1
      /\ \A j, k \in DOMAIN idle' : j < k => j + 1 < k + 1
  BY <1>1
<1>3. \A k \in DOMAIN idle : k = 1 \/ (k - 1 \in DOMAIN idle' /\ (k - 1) + 1 = k)
  BY <1>1
<1>4. ASSUME NEW k \in DOMAIN idle'
      PROVE  /\ idle'[k] = idle[k + 1] /\ k + 1 \in DOMAIN idle
             /\ IsRemoval(Head(idle)) /\ ToOwner(idle[k + 1])
                    => idle[k + 1].id # Head(idle).id
  BY <1>1, <1>2 DEF RemovalIsLast
<1>5. ASSUME NEW j \in Id
      PROVE  Removed(j)' <=>
                 Removed(j) /\ ~(IsRemoval(Head(idle)) /\ Head(idle).id = j)
  <2>1. ASSUME Removed(j)'
        PROVE  Removed(j) /\ ~(IsRemoval(Head(idle)) /\ Head(idle).id = j)
    <3>1. PICK k \in DOMAIN idle' : IsRemoval(idle'[k]) /\ idle'[k].id = j
      BY <2>1 DEF Removed
    <3>2. ToOwner(idle'[k])
      BY <3>1 DEF IsRemoval, ToOwner
    <3>3. QED BY <1>4, <3>1, <3>2 DEF Removed
  <2>2. ASSUME Removed(j), ~(IsRemoval(Head(idle)) /\ Head(idle).id = j)
        PROVE  Removed(j)'
    <3>1. PICK k \in DOMAIN idle : IsRemoval(idle[k]) /\ idle[k].id = j
      BY <2>2 DEF Removed
    <3>2. k - 1 \in DOMAIN idle' /\ idle'[k - 1] = idle[k]
      BY <1>1, <1>3, <2>2, <3>1
    <3>3. QED BY <3>1, <3>2 DEF Removed
  <2>3. QED BY <2>1, <2>2
<1>6. IsRemoval(Head(idle)) => Removed(Head(idle).id)
  BY <1>1, <1>2 DEF Removed
<1>7. RemovalIsLast'
  <2>1. SUFFICES ASSUME NEW j \in DOMAIN idle', NEW k \in DOMAIN idle', j < k,
                        IsRemoval(idle'[j]), ToOwner(idle'[k])
                 PROVE  idle'[j].id # idle'[k].id
    BY DEF RemovalIsLast
  <2>2. /\ j + 1 \in DOMAIN idle /\ k + 1 \in DOMAIN idle /\ j + 1 < k + 1
        /\ idle'[j] = idle[j + 1] /\ idle'[k] = idle[k + 1]
    BY <1>2, <1>4, <2>1
  <2>3. QED BY <2>1, <2>2 DEF RemovalIsLast
<1>8. QED BY <1>4, <1>5, <1>6, <1>7

(* Nothing but the reports that are queued is new to the owners.           *)
LEMMA SameReports ==
    ASSUME InOrder, UNCHANGED <<idle, pseudo>>
    PROVE  /\ \A j \in Id : Removed(j)' <=> Removed(j)
           /\ \A j \in Id : Owned(j)' <=> Owned(j)
           /\ RemovalIsLast' /\ ReportsReachOwners' /\ OwnersDiffer'
BY DEF InOrder, Removed, Owned, RemovalIsLast, ReportsReachOwners, OwnersDiffer

(* Each action, in an orderly behaviour.                                   *)
LEMMA AddKeepsOrder ==
    ASSUME TypeOK, Orderly, InOrder, NEW m \in Msg, AddGeofenceArea(m)
    PROVE  InOrder'
<1> USE DEF InOrder
<1>1. PICK i \in Id :
        /\ i \notin used
        /\ used' = used \cup {i}
        /\ \/ /\ Ask("add", i)
              /\ addList' = [addList EXCEPT ![i] = @ \cup {m}]
              /\ pseudo' = [pseudo EXCEPT ![m] = i]
           \/ UNCHANGED <<addList, pseudo, requests>>
  BY DEF AddGeofenceArea, Candidates, Orderly
<1>2. UNCHANGED <<fences, idle>> /\ pseudo[m] = NoId
  BY DEF AddGeofenceArea, Fresh
<1>3. CASE UNCHANGED <<addList, pseudo, requests>>
  <2>1. OwnersAreListed'
    BY <1>1, <1>3 DEF OwnersAreListed
  <2>2. OneAdd' /\ \A j \in Id : Adding(j)' <=> Adding(j)
    BY <1>3 DEF OneAdd, Adding
  <2>3. OnePhase'
    BY <1>2, <1>3, <2>2, SameReports DEF OnePhase
  <2>4. QED BY <1>2, <1>3, <2>1, <2>2, <2>3, SameReports
<1>4. CASE /\ Ask("add", i)
           /\ addList' = [addList EXCEPT ![i] = @ \cup {m}]
           /\ pseudo' = [pseudo EXCEPT ![m] = i]
  <2>1. i # NoId /\ pseudo'[m] = i /\ \A n \in Msg : n # m => pseudo'[n] = pseudo[n]
    BY <1>4, GeofenceAssumption DEF TypeOK
  <2>2. ~Owned(i) /\ ~Adding(i) /\ i \notin fences /\ ~Removed(i)
    <3>1. ~Owned(i)
      BY <1>1, <2>1 DEF Owned, OwnersAreListed
    <3>2. QED BY <3>1 DEF OnePhase
  <2>3. (\A j \in Id : Adding(j)' <=> Adding(j) \/ j = i) /\ OneAdd'
    BY <1>4, <2>2, AskAdds
  <2>4. \A j \in Id : Owned(j)' <=> Owned(j) \/ j = i
    BY <1>2, <2>1, GeofenceAssumption DEF Owned
  <2>5. \A j \in Id : Removed(j)' <=> Removed(j)
    BY <1>2 DEF Removed
  <2>6. OnePhase'
    BY <1>2, <2>2, <2>3, <2>4, <2>5 DEF OnePhase
  <2>7. OwnersAreListed'
    <3>1. SUFFICES ASSUME NEW n \in Msg, pseudo'[n] # NoId
                   PROVE  n \in addList'[pseudo'[n]] /\ pseudo'[n] \in used'
      BY DEF OwnersAreListed
    <3>2. CASE n = m
      BY <1>1, <1>4, <2>1, <3>2 DEF TypeOK
    <3>3. CASE n # m
      <4>1. pseudo[n] \in Id /\ n \in addList[pseudo[n]] /\ pseudo[n] \in used
        BY <2>1, <3>1, <3>3 DEF OwnersAreListed, TypeOK
      <4>2. QED BY <1>1, <1>4, <2>1, <3>3, <4>1 DEF TypeOK
    <3>4. QED BY <3>2, <3>3
  <2>8. OwnersDiffer'
    BY <2>1, <2>2 DEF OwnersDiffer, Owned
  <2>9. RemovalIsLast'
    BY <1>2 DEF RemovalIsLast
  <2>10. ReportsReachOwners'
    <3>1. SUFFICES ASSUME NEW k \in DOMAIN idle, ToOwner(idle[k])
                   PROVE  /\ Owned(idle[k].id)'
                          /\ \A n \in Msg : pseudo'[n] = idle[k].id => n \in idle[k].to
      BY <1>2 DEF ReportsReachOwners, Owned
    <3>2. /\ Owned(idle[k].id)
          /\ \A n \in Msg : pseudo[n] = idle[k].id => n \in idle[k].to
      BY <3>1 DEF ReportsReachOwners
    <3>3. idle[k].id # i /\ idle[k].id \in Id
      BY <2>2, <3>2, ReportIds
    <3>4. \A n \in Msg : pseudo'[n] = idle[k].id => pseudo[n] = idle[k].id
      BY <2>1, <3>3
    <3>5. Owned(idle[k].id)'
      <4>1. PICK j \in Id : j = idle[k].id
        BY <3>3
      <4>2. Owned(j)'
        BY <2>4, <3>2, <4>1
      <4>3. QED BY <1>2, <4>1, <4>2
    <3>6. QED BY <3>2, <3>4, <3>5
  <2>11. QED BY <2>3, <2>6, <2>7, <2>8, <2>9, <2>10
<1>5. QED BY <1>1, <1>3, <1>4

LEMMA RemoveKeepsOrder ==
    ASSUME TypeOK, InOrder, NEW m \in Msg, NEW i \in Id, RemoveGeofenceArea(m, i)
    PROVE  InOrder'
<1> USE DEF InOrder
<1>1. Ask("remove", i) /\ UNCHANGED <<used, pseudo, addList, fences, idle>>
  BY DEF RemoveGeofenceArea
<1>2. (\A j \in Id : Adding(j)' <=> Adding(j)) /\ OneAdd'
  BY <1>1, AskAdds
<1>3. OwnersAreListed'
  BY <1>1 DEF OwnersAreListed
<1>4. OnePhase'
  BY <1>1, <1>2, SameReports DEF OnePhase
<1>5. QED BY <1>1, <1>2, <1>3, <1>4, SameReports

LEMMA HalAddsKeepsOrder ==
    ASSUME TypeOK, Orderly, InOrder, HalAdds
    PROVE  InOrder'
<1> USE DEF InOrder
<1>1. PICK i \in Id : i = Head(requests).id
  BY NextRequest DEF HalAdds
<1>2. /\ \A j \in Id : Adding(j)' <=> Adding(j) /\ j # i
      /\ Adding(i) /\ OneAdd'
  BY <1>1, WorkedOff DEF HalAdds
<1>3. i \notin fences /\ ~Removed(i) /\ Owned(i)
  BY <1>2 DEF OnePhase
<1>4. /\ fences' = fences \cup {i} /\ Queue("add", i, TRUE)
      /\ UNCHANGED <<used, pseudo, addList>>
  BY <1>1, <1>3 DEF HalAdds, Orderly
<1>5. /\ \A j \in Id : Removed(j)' <=> Removed(j)
      /\ RemovalIsLast' /\ ReportsReachOwners'
  BY <1>3, <1>4, Reported
<1>6. (\A j \in Id : Owned(j)' <=> Owned(j)) /\ OwnersDiffer' /\ OwnersAreListed'
  BY <1>4 DEF Owned, OwnersDiffer, OwnersAreListed
<1>7. OnePhase'
  BY <1>2, <1>3, <1>4, <1>5, <1>6 DEF OnePhase
<1>8. QED BY <1>2, <1>5, <1>6, <1>7

LEMMA HalRemovesKeepsOrder ==
    ASSUME TypeOK, InOrder, HalRemoves
    PROVE  InOrder'
<1> USE DEF InOrder
<1>1. PICK i \in Id : i = Head(requests).id
  BY NextRequest DEF HalRemoves
<1>2. (\A j \in Id : Adding(j)' <=> Adding(j)) /\ OneAdd'
  BY <1>1, WorkedOff DEF HalRemoves
<1>3. UNCHANGED <<used, pseudo, addList>>
  BY DEF HalRemoves
<1>4. (\A j \in Id : Owned(j)' <=> Owned(j)) /\ OwnersDiffer' /\ OwnersAreListed'
  BY <1>3 DEF Owned, OwnersDiffer, OwnersAreListed
<1>5. CASE i \in fences /\ fences' = fences \ {i} /\ Queue("remove", i, TRUE)
  <2>1. Owned(i) /\ ~Removed(i) /\ ~Adding(i)
    BY <1>5 DEF OnePhase
  <2>2. /\ \A j \in Id : Removed(j)' <=> Removed(j) \/ j = i
        /\ RemovalIsLast' /\ ReportsReachOwners'
    BY <1>3, <1>5, <2>1, Reported
  <2>3. OnePhase'
    BY <1>2, <1>4, <1>5, <2>1, <2>2 DEF OnePhase
  <2>4. QED BY <1>2, <1>4, <2>2, <2>3
<1>6. CASE fences' = fences /\ Queue("remove", i, FALSE)
  <2>1. /\ \A j \in Id : Removed(j)' <=> Removed(j)
        /\ RemovalIsLast' /\ ReportsReachOwners'
    BY <1>3, <1>6, Reported
  <2>2. OnePhase'
    BY <1>2, <1>4, <1>6, <2>1 DEF OnePhase
  <2>3. QED BY <1>2, <1>4, <2>1, <2>2
<1>7. QED BY <1>1, <1>5, <1>6 DEF HalRemoves

LEMMA BreachKeepsOrder ==
    ASSUME TypeOK, InOrder, HalReportsBreach
    PROVE  InOrder'
<1> USE DEF InOrder
<1>1. PICK i \in Id : i \in fences /\ Queue("breach", i, TRUE)
  BY DEF HalReportsBreach, TypeOK
<1>2. UNCHANGED <<used, pseudo, addList, requests, fences>>
  BY DEF HalReportsBreach
<1>3. Owned(i) /\ ~Removed(i)
  BY <1>1 DEF OnePhase
<1>4. /\ \A j \in Id : Removed(j)' <=> Removed(j)
      /\ RemovalIsLast' /\ ReportsReachOwners'
  BY <1>1, <1>2, <1>3, Reported
<1>5. (\A j \in Id : Owned(j)' <=> Owned(j)) /\ OwnersDiffer' /\ OwnersAreListed'
  BY <1>2 DEF Owned, OwnersDiffer, OwnersAreListed
<1>6. (\A j \in Id : Adding(j)' <=> Adding(j)) /\ OneAdd'
  BY <1>2 DEF Adding, OneAdd
<1>7. OnePhase'
  BY <1>2, <1>4, <1>5, <1>6 DEF OnePhase
<1>8. QED BY <1>4, <1>5, <1>6, <1>7

(* A report is handled that leaves slots and owners as they are.           *)
LEMMA ReportKeepsOrder ==
    ASSUME TypeOK, InOrder, idle # << >>, idle' = Tail(idle),
           ~IsRemoval(Head(idle)),
           UNCHANGED <<used, pseudo, addList, requests, fences>>
    PROVE  InOrder'
<1> USE DEF InOrder
<1>1. /\ \A j \in Id : Removed(j)' <=> Removed(j)
      /\ RemovalIsLast'
      /\ \A k \in DOMAIN idle' : \E l \in DOMAIN idle : idle'[k] = idle[l]
  BY Handled
<1>2. (\A j \in Id : Owned(j)' <=> Owned(j)) /\ OwnersDiffer' /\ OwnersAreListed'
  BY DEF Owned, OwnersDiffer, OwnersAreListed
<1>3. (\A j \in Id : Adding(j)' <=> Adding(j)) /\ OneAdd'
  BY DEF Adding, OneAdd
<1>4. OnePhase'
  BY <1>1, <1>2, <1>3 DEF OnePhase
<1>5. ReportsReachOwners'
  BY <1>1 DEF ReportsReachOwners, Owned
<1>6. QED BY <1>1, <1>2, <1>3, <1>4, <1>5

(* The id of an area that was removed loses its owner, the only one.       *)
LEMMA RemovalKeepsOrder ==
    ASSUME TypeOK, InOrder, SendGeofenceRemoveData, Head(idle).ok
    PROVE  InOrder'
<1> USE DEF InOrder
<1>1. PICK i \in Id : i = Head(idle).id
  BY NextReport DEF SendGeofenceRemoveData
<1>2. /\ idle # << >> /\ idle' = Tail(idle) /\ IsRemoval(Head(idle))
      /\ addList' = [addList EXCEPT ![i] = @ \cap Subscriber]
      /\ used' = used \ {i} /\ ForgetArea(i)
      /\ UNCHANGED <<requests, fences>>
  BY <1>1 DEF SendGeofenceRemoveData, IsRemoval
<1>3. /\ \A j \in Id : Removed(j)' <=> Removed(j) /\ j # i
      /\ Removed(i) /\ RemovalIsLast'
      /\ \A k \in DOMAIN idle' : \E l \in DOMAIN idle :
            idle'[k] = idle[l] /\ (ToOwner(idle[l]) => idle[l].id # i)
  BY <1>1, <1>2, Handled
<1>4. Owned(i) /\ ~Adding(i) /\ i \notin fences
  BY <1>3 DEF OnePhase
<1>5. PICK m \in Msg : pseudo[m] = i /\ pseudo' = [pseudo EXCEPT ![m] = NoId]
  BY <1>2, <1>4 DEF ForgetArea, Owned
<1>6. i # NoId /\ pseudo'[m] = NoId /\ \A n \in Msg : n # m => pseudo'[n] = pseudo[n]
  BY <1>5, GeofenceAssumption DEF TypeOK
<1>7. \A n \in Msg : n # m => pseudo[n] # i
  BY <1>5, <1>6 DEF OwnersDiffer
<1>8. \A j \in Id : Owned(j)' <=> Owned(j) /\ j # i
  BY <1>5, <1>6, <1>7, GeofenceAssumption DEF Owned
<1>9. (\A j \in Id : Adding(j)' <=> Adding(j)) /\ OneAdd'
  BY <1>2 DEF Adding, OneAdd
<1>10. OnePhase'
  BY <1>2, <1>3, <1>4, <1>8, <1>9 DEF OnePhase
<1>11. OwnersDiffer'
  BY <1>6 DEF OwnersDiffer
<1>12. OwnersAreListed'
  <2>1. SUFFICES ASSUME NEW n \in Msg, pseudo'[n] # NoId
                 PROVE  n \in addList'[pseudo'[n]] /\ pseudo'[n] \in used'
    BY DEF OwnersAreListed
  <2>2. n # m /\ pseudo'[n] = pseudo[n] /\ pseudo[n] # i
    BY <1>6, <1>7, <2>1
  <2>3. pseudo[n] \in Id /\ n \in addList[pseudo[n]] /\ pseudo[n] \in used
    BY <2>1, <2>2 DEF OwnersAreListed, TypeOK
  <2>4. QED BY <1>2, <2>2, <2>3 DEF TypeOK
<1>13. ReportsReachOwners'
  <2>1. SUFFICES ASSUME NEW k \in DOMAIN idle', ToOwner(idle'[k])
                 PROVE  /\ \E n \in Msg : pseudo'[n] = idle'[k].id
                        /\ \A n \in Msg : pseudo'[n] = idle'[k].id => n \in idle'[k].to
    BY DEF ReportsReachOwners, Owned
  <2>2. PICK l \in DOMAIN idle :
          idle'[k] = idle[l] /\ (ToOwner(idle[l]) => idle[l].id # i)
    BY <1>3, <2>1
  <2>3. idle[l].id # i /\ idle[l].id \in Id
    BY <2>1, <2>2, ReportIds
  <2>4. /\ \E n \in Msg : pseudo[n] = idle[l].id
        /\ \A n \in Msg : pseudo[n] = idle[l].id => n \in idle[l].to
    BY <2>1, <2>2 DEF ReportsReachOwners, Owned
  <2>5. \A n \in Msg : pseudo'[n] = idle[l].id <=> pseudo[n] = idle[l].id
    BY <1>5, <1>6, <2>3, GeofenceAssumption
  <2>6. QED BY <2>2, <2>4, <2>5
<1>14. QED BY <1>3, <1>9, <1>10, <1>11, <1>12, <1>13

LEMMA OrderlyStep == OrderlyIInv /\ [Next]_vars => OrderlyIInv'
<1> SUFFICES ASSUME OrderlyIInv, [Next]_vars PROVE OrderlyIInv'
  OBVIOUS
<1>1. TypeOK /\ TypeOK'
  BY TypeStep DEF OrderlyIInv
<1>2. SUFFICES ASSUME Orderly PROVE InOrder'
  BY <1>1, MayStays DEF OrderlyIInv, Orderly
<1>3. InOrder
  BY <1>2 DEF OrderlyIInv
<1>4. CASE \E m \in Msg : AddGeofenceArea(m)
  BY <1>1, <1>2, <1>3, <1>4, AddKeepsOrder
<1>5. CASE \E m \in Msg, i \in Id : RemoveGeofenceArea(m, i)
  BY <1>1, <1>3, <1>5, RemoveKeepsOrder
<1>6. CASE \E m \in Msg : CancelSubscription(m)
  BY <1>2, <1>6 DEF CancelSubscription, Orderly
<1>7. CASE HalAdds
  BY <1>1, <1>2, <1>3, <1>7, HalAddsKeepsOrder
<1>8. CASE HalRemoves
  BY <1>1, <1>3, <1>8, HalRemovesKeepsOrder
<1>9. CASE HalReportsBreach
  BY <1>1, <1>3, <1>9, BreachKeepsOrder
<1>10. CASE SendGeofenceAddData
  <2>1. ~IsRemoval(Head(idle))
    BY <1>10 DEF SendGeofenceAddData, IsRemoval
  <2>2. QED BY <1>1, <1>3, <1>10, <2>1, ReportKeepsOrder DEF SendGeofenceAddData
<1>11. CASE SendGeofenceRemoveData
  <2>1. CASE Head(idle).ok
    BY <1>1, <1>3, <1>11, <2>1, RemovalKeepsOrder
  <2>2. CASE ~Head(idle).ok
    <3>1. ~IsRemoval(Head(idle))
      BY <2>2 DEF IsRemoval
    <3>2. QED BY <1>1, <1>3, <1>11, <2>2, <3>1, ReportKeepsOrder
              DEF SendGeofenceRemoveData
  <2>3. QED BY <2>1, <2>2
<1>12. CASE UNCHANGED vars
  BY <1>3, <1>12 DEF vars, InOrder, OwnersAreListed, OwnersDiffer, OnePhase, OneAdd,
                     RemovalIsLast, ReportsReachOwners, Owned, Adding, Removed
<1>13. QED
  BY <1>4, <1>5, <1>6, <1>7, <1>8, <1>9, <1>10, <1>11, <1>12 DEF Next, Hal, Idle

LEMMA OrderlyInvariant == Spec => []OrderlyIInv
<1>1. Init => OrderlyIInv
  <2>1. Init => TypeOK
    BY DEF Init, TypeOK
  <2>2. Init => InOrder
    BY GeofenceAssumption DEF Init, InOrder, OwnersAreListed, OwnersDiffer, OnePhase,
       OneAdd, RemovalIsLast, ReportsReachOwners, Owned, Adding, Removed
  <2>3. QED BY <2>1, <2>2 DEF OrderlyIInv
<1>2. QED BY <1>1, OrderlyStep, PTL DEF Spec

-----------------------------------------------------------------------------
(* The tables, the HAL's requests and the queued reports keep their types. *)
THEOREM TypeCorrect == Spec => []TypeOK
<1>1. Init => TypeOK
  BY DEF Init, TypeOK
<1>2. TypeOK /\ [Next]_vars => TypeOK'
  BY TypeStep
<1>3. QED BY <1>1, <1>2, PTL DEF Spec

(* With a HAL and a bus that take every add, no geofence slot is ever lost *)
(* to all of its users.                                                    *)
THEOREM SlotsAreKept == Spec => []NoSlotLost
<1>1. Init => NoSlotLost
  BY DEF Init, NoSlotLost
<1>2. TypeOK /\ NoSlotLost /\ [Next]_vars => NoSlotLost'
  BY SlotStep
<1>3. QED BY <1>1, <1>2, TypeCorrect, PTL DEF Spec

(* addGeofenceArea never draws an id that a listed call is down for, in    *)
(* behaviours without cancels, failed adds and failed lists: an id has one *)
(* owner, however often it is used again.                                  *)
THEOREM OwnersStayAlone == Spec => []OneOwnerAtATime
<1>1. OrderlyIInv => OneOwnerAtATime
  <2>1. SUFFICES ASSUME OrderlyIInv, Orderly, NEW i \in Id
                 PROVE  Cardinality(Owners(i)) <= 1
    BY DEF OneOwnerAtATime, OneOwner
  <2>2. \A m, n \in Owners(i) : m = n
    BY <2>1, GeofenceAssumption
       DEF OrderlyIInv, InOrder, OwnersDiffer, Owners, TypeOK
  <2>3. CASE Owners(i) = {}
    BY <2>3, FS_EmptySet
  <2>4. CASE Owners(i) # {}
    <3>1. PICK m : m \in Owners(i)
      BY <2>4
    <3>2. Owners(i) = {m}
      BY <2>2, <3>1
    <3>3. QED BY <3>2, FS_Singleton
  <2>5. QED BY <2>3, <2>4
<1>2. QED BY <1>1, OrderlyInvariant, PTL

(* An area that the HAL watches then belongs to a call that is listed and  *)
(* so hears of its breaches and can be removed.                            *)
THEOREM FencesHaveOwners == Spec => []FenceHasOwner
<1>1. OrderlyIInv => FenceHasOwner
  <2>1. SUFFICES ASSUME OrderlyIInv, Orderly, NEW i \in fences
                 PROVE  Owners(i) # {}
    BY DEF FenceHasOwner
  <2>2. i \in Id /\ i # NoId
    BY <2>1, GeofenceAssumption DEF OrderlyIInv, TypeOK
  <2>3. PICK m \in Msg : pseudo[m] = i
    BY <2>1, <2>2 DEF OrderlyIInv, InOrder, OnePhase, Owned
  <2>4. m \in Owners(i)
    BY <2>1, <2>2, <2>3 DEF OrderlyIInv, InOrder, OwnersAreListed, Owners, TypeOK
  <2>5. QED BY <2>4
<1>2. QED BY <1>1, OrderlyInvariant, PTL

(* No report of an earlier use of an id reaches its new owner: the idle    *)
(* callbacks and the requests keep their order, and the slot is free only  *)
(* when the last report of the old area has been handled.                  *)
THEOREM ReportsAreNotStale == Spec => []NoStaleReports
<1>1. OrderlyIInv => NoStaleReports
  <2>1. SUFFICES ASSUME OrderlyIInv, Orderly, NEW k \in DOMAIN idle, ToOwner(idle[k]),
                        NEW m \in Owners(idle[k].id)
                 PROVE  m \in idle[k].to
    BY DEF NoStaleReports, ToOwner
  <2>2. TypeOK /\ ReportsReachOwners /\ idle[k].id \in Id
    BY <2>1, ReportIds DEF OrderlyIInv, InOrder
  <2>3. m \in Msg /\ pseudo[m] = idle[k].id
    BY <2>2 DEF Owners, TypeOK
  <2>4. QED BY <2>1, <2>2, <2>3 DEF ReportsReachOwners
<1>2. QED BY <1>1, OrderlyInvariant, PTL
=============================================================================
