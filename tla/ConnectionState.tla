-------------------------- MODULE ConnectionState --------------------------
(***************************************************************************)
(* ConnectionStateObserver: follows the wifi, connection manager and       *)
(* telephony services over the bus and tells its listeners, the location   *)
(* service and the network provider, whether there is a connection; and    *)
(* follows sleepd for the sleeps that really happened.                     *)
(*                                                                         *)
(* The services come and go on their own.  The hub's news of that and the  *)
(* services' replies wait on the main loop in queues of their own; when a  *)
(* service dies its open subscription gets an error as its last reply.     *)
(* All listeners are told the same, one after another, in one callback.    *)
(***************************************************************************)
EXTENDS Integers, Sequences, SequencesExt, World

CONSTANTS
    MaxReplies,   \* bound on what waits in one queue
    MaxSleeps     \* bound on the sleeps of the device

Service == {"wifi", "wan", "telephony"}

(* A world has the services that may run; "power" for a device that sleeps;*)
(* "late": the error of a dead service's subscription may be overtaken by  *)
(* the replies of its successor.  "odd": replies that are no status.       *)
(* "unsent": the getstatus call may fail.                                  *)
Trouble == {"late", "odd", "unsent"}

ASSUME ConnectionAssumption ==
    /\ MaxReplies \in Nat \ {0} /\ MaxSleeps \in Nat

VARIABLES
    up,           \* the services that run (external)
    state,        \* what each has to report (external)
    subscribed,   \* the services with an open getstatus subscription
    hub,          \* server status callbacks waiting, per service
    replies,      \* replies waiting, per service
    told,         \* what the listeners were told last
    attempt,      \* sleepd's suspend attempt (external)
    sleeps,       \* the device's sleeps so far (history)
    resumes       \* Notify_KernelResume so far (history)

connVars == <<up, state, subscribed, hub, replies, told, attempt, sleeps,
              resumes>>

Link == {"wifi", "wired", "cellular"}
Wan == [internet : BOOLEAN, link : Link]

(* What a service has to report: wifi whether it is enabled, telephony     *)
(* whether the modem has power.                                            *)
States(s) == IF s = "wan" THEN Wan ELSE BOOLEAN

(* The status a service in state v reports.                                *)
Reports(s, v) ==
    IF s # "wifi" THEN {v}
    ELSE IF v THEN {"serviceEnabled", "connectionStateChanged"}
              ELSE {"serviceDisabled"}

(* A reply: a status; "down", the hub's error -1; "error", a refusal with  *)
(* a code of its own; "bare", without a returnValue, or "empty", without   *)
(* the value asked for; "junk", which does not parse.                      *)
Status(x) == [kind |-> "status", body |-> x]
Down == [kind |-> "down"]
Odd == {[kind |-> k] : k \in {"error", "bare", "empty", "junk"}}
Message(s) == {Down} \cup Odd
                \cup {Status(x) : x \in UNION {Reports(s, v) : v \in States(s)}}

Network == [connected : BOOLEAN, type : {"WIFI", "MOBILE"}]
NoNetwork == [connected |-> FALSE, type |-> "MOBILE"]

ConnTypeOK ==
    /\ up \subseteq Service
    /\ DOMAIN state = Service /\ DOMAIN hub = Service
    /\ DOMAIN replies = Service
    /\ \A s \in Service : /\ state[s] \in States(s)
                          /\ hub[s] \in Seq(BOOLEAN)
                          /\ Len(hub[s]) <= MaxReplies
                          /\ replies[s] \in Seq(Message(s))
                          /\ Len(replies[s]) <= MaxReplies
    /\ subscribed \subseteq up
    /\ told \in [wifi : BOOLEAN, wifiInternet : BOOLEAN, internet : BOOLEAN,
                 telephony : BOOLEAN, network : Network]
    /\ attempt \in {"none", "slept", "aborted"}
    /\ sleeps \in 0..MaxSleeps /\ resumes \in 0..MaxSleeps

(* The members of LocationService before any notification.                 *)
Untold == [wifi |-> FALSE, wifiInternet |-> FALSE, internet |-> FALSE,
           telephony |-> FALSE, network |-> NoNetwork]
-----------------------------------------------------------------------------
(* LocationService::init: init registers for the status of the three       *)
(* services, which the hub reports at once, and both listeners register    *)
(* before the main loop runs.                                              *)
Registered == /\ told = Untold
              /\ subscribed = {}
              /\ hub = [s \in Service |-> <<s \in up>>]
              /\ replies = [s \in Service |-> <<>>]

ConnInit == /\ up = {}
            /\ state = [s \in Service |-> CHOOSE v \in States(s) : TRUE]
            /\ Registered
            /\ attempt = "none" /\ sleeps = 0 /\ resumes = 0

-----------------------------------------------------------------------------
(* The services and the hub (external).                                    *)

Room(q, s) == Len(q[s]) < MaxReplies

ServiceStarts(s) ==
    /\ s \in may \ up /\ Room(hub, s)
    /\ up' = up \cup {s}
    /\ state' \in {[state EXCEPT ![s] = v] : v \in States(s)}
    /\ hub' = [hub EXCEPT ![s] = Append(@, TRUE)]
    /\ UNCHANGED <<subscribed, replies, told, attempt, sleeps, resumes>>

(* An open subscription ends with the hub's error.                         *)
ServiceStops(s) ==
    /\ s \in up /\ Room(hub, s) /\ Room(replies, s)
    /\ up' = up \ {s}
    /\ hub' = [hub EXCEPT ![s] = Append(@, FALSE)]
    /\ subscribed' = subscribed \ {s}
    /\ replies' = IF s \in subscribed
                  THEN [replies EXCEPT ![s] = Append(@, Down)] ELSE replies
    /\ UNCHANGED <<state, told, attempt, sleeps, resumes>>

ServiceChanges(s) ==
    /\ s \in up /\ Room(replies, s)
    /\ \E v \in States(s) :
           /\ state' = [state EXCEPT ![s] = v]
           /\ IF s \in subscribed
              THEN \E m \in {Status(x) : x \in Reports(s, v)}
                               \cup (IF "odd" \in may THEN Odd ELSE {}) :
                       replies' = [replies EXCEPT ![s] = Append(@, m)]
              ELSE v # state[s] /\ UNCHANGED replies
    /\ UNCHANGED <<up, subscribed, hub, told, attempt, sleeps, resumes>>

(* sleepd tries to suspend: the kernel sleeps, or the attempt is dropped.  *)
SuspendAttempt ==
    /\ "power" \in may /\ attempt = "none"
    /\ \/ /\ sleeps < MaxSleeps
          /\ attempt' = "slept" /\ sleeps' = sleeps + 1
       \/ /\ attempt' = "aborted" /\ UNCHANGED sleeps
    /\ UNCHANGED <<up, state, subscribed, hub, replies, told, resumes>>
-----------------------------------------------------------------------------
(* The callbacks.                                                          *)

(* register_wifi_status and the like: the service is asked for its status, *)
(* and if it does not run by now the hub answers for it.                   *)
RegisterStatus(s) ==
    \/ /\ Room(replies, s)
       /\ subscribed' = subscribed \cup ({s} \cap up)
       /\ \E m \in IF s \in up THEN {Status(x) : x \in Reports(s, state[s])}
                               ELSE {Down} :
              replies' = [replies EXCEPT ![s] = Append(@, m)]
    \/ "unsent" \in may /\ UNCHANGED <<subscribed, replies>>

(* A broken variant: connected and disconnected mixed up.                  *)
ServiceStatusCb_Swapped(s) ==
    /\ hub[s] # <<>>
    /\ hub' = [hub EXCEPT ![s] = Tail(@)]
    /\ \/ ~ Head(hub[s]) /\ RegisterStatus(s)
       \/ Head(hub[s]) /\ UNCHANGED <<subscribed, replies>>
    /\ UNCHANGED <<up, state, told, attempt, sleeps, resumes>>

(* A service's status goes to its callback, which looks for nothing but a  *)
(* service that is there.                                                  *)
ServiceStatusCb(s) ==
    /\ hub[s] # <<>>
    /\ hub' = [hub EXCEPT ![s] = Tail(@)]
    /\ \/ Head(hub[s]) /\ RegisterStatus(s)
       \/ ~ Head(hub[s]) /\ UNCHANGED <<subscribed, replies>>
    /\ UNCHANGED <<up, state, told, attempt, sleeps, resumes>>

(* Replies that leave every listener as it was.                            *)
Ignored(m) == m.kind \in {"error", "junk"}

(* _wifi_status_cb: the -1 of a service that is gone reads as wifi off.    *)
(* What was said of the internet over wifi then stays as it is.            *)
WifiTold(m) ==
    CASE Ignored(m) -> told
      [] m.kind \in {"down", "bare", "empty"} -> [told EXCEPT !.wifi = FALSE]
      [] m = Status("serviceEnabled") -> [told EXCEPT !.wifi = TRUE]
      [] OTHER -> LET on == m = Status("connectionStateChanged")
                  IN  [told EXCEPT !.wifi = on, !.wifiInternet = on]

(* linkIsConnected for wifi or wired.                                      *)
DataType(link) == IF link \in {"wifi", "wired"} THEN "WIFI" ELSE "MOBILE"

(* connmgrParseDataNetwork, and the data network as gone when it fails.    *)
ParseDataNetwork(m) ==
    IF m.kind = "status"
    THEN [connected |-> m.body.internet, type |-> DataType(m.body.link)]
    ELSE NoNetwork

(* A broken variant: only a real status mentions the data network.         *)
WanTold_InternetOnly(m) ==
    CASE Ignored(m) -> told
      [] m.kind \in {"down", "bare", "empty"} -> [told EXCEPT !.internet = FALSE]
      [] m.kind = "status" -> [told EXCEPT !.internet = m.body.internet,
                                           !.network = ParseDataNetwork(m)]

(* A broken variant: the hub's error is taken for a refusal.               *)
WanTold_KeepsOnError(m) ==
    IF m.kind # "status" THEN told
    ELSE [told EXCEPT !.internet = m.body.internet,
                      !.network = ParseDataNetwork(m)]

(* _connectivity_status_cb: notify tells the internet state and the data   *)
(* network together.                                                       *)
WanTold(m) ==
    IF Ignored(m) THEN told
    ELSE LET internet == m.kind = "status" /\ m.body.internet
         IN  [told EXCEPT
                 !.internet = internet,
                 !.network = [connected |-> ParseDataNetwork(m).connected
                                                /\ internet,
                              type      |-> ParseDataNetwork(m).type]]

(* _telephony_status_cb: every returnValue of false is ignored, the hub's  *)
(* -1 with it.                                                             *)
TelephonyTold(m) ==
    IF Ignored(m) \/ m = Down THEN told
    ELSE [told EXCEPT !.telephony = m.kind = "status" /\ m.body]

(* The replies one of which is handled next.                               *)
NextReplies(s) == {i \in DOMAIN replies[s] :
                      /\ "late" \notin may => i = 1
                      /\ \A j \in 1..(i - 1) : replies[s][j] = Down}

StatusCb(s, i) ==
    /\ replies' = [replies EXCEPT ![s] = RemoveAt(@, i)]
    /\ told' = CASE s = "wifi"      -> WifiTold(replies[s][i])
                 [] s = "wan"       -> WanTold(replies[s][i])
                 [] s = "telephony" -> TelephonyTold(replies[s][i])
    /\ UNCHANGED <<up, state, subscribed, hub, attempt, sleeps, resumes>>

(* sleepdParseResumeType on the addmatch reply (attempt "none") and on the *)
(* resume that follows an attempt.                                         *)
ResumeType == CASE attempt = "none"    -> {-1}
                [] attempt = "slept"   -> {0}
                [] attempt = "aborted" -> {1, 2}

IsKernelWake_NotRefused(type) == type \in {0, 1}

(* sleepdResumeIsKernelWake                                                *)
IsKernelWake(type) == type = 0

(* _resume_cb: Notify_KernelResume for a kernel wake.                      *)
ResumeCb ==
    /\ "power" \in may
    /\ \E type \in ResumeType :
           resumes' = IF type >= 0 /\ IsKernelWake(type) THEN resumes + 1
                                                         ELSE resumes
    /\ attempt' = "none"
    /\ UNCHANGED <<up, state, subscribed, hub, replies, told, sleeps>>

(* The service ends and is started again: its subscriptions close.         *)
ConnRestart ==
    /\ told' = Untold
    /\ subscribed' = {}
    /\ hub' = [s \in Service |-> <<s \in up>>]
    /\ replies' = [s \in Service |-> <<>>]
    /\ UNCHANGED <<up, state, attempt, sleeps, resumes>>

ConnNext == \/ \E s \in Service : \/ ServiceStarts(s) \/ ServiceStops(s)
                                  \/ ServiceChanges(s) \/ ServiceStatusCb(s)
                                  \/ \E i \in NextReplies(s) : StatusCb(s, i)
            \/ SuspendAttempt \/ ResumeCb

ConnSpec == /\ ConnInit /\ may \in Worlds
            /\ [][(ConnNext \/ ConnRestart) /\ UNCHANGED may]_<<connVars, may>>
-----------------------------------------------------------------------------
(* Properties.                                                             *)

Quiet(s) == hub[s] = <<>> /\ replies[s] = <<>>

(* "Whenever this callback reports the internet state, it reports the      *)
(* network with it": what the GNSS HAL believes of the data network and    *)
(* what the service believes of the internet never part.                   *)
NetworkGoesWithInternet == told.network.connected <=> told.internet

(* Once everything is handled nobody takes a dead service for a            *)
(* connection, whatever its last replies were and however they overtook    *)
(* each other.                                                             *)
NoConnectionOfTheDead ==
    /\ Quiet("wan") /\ "wan" \notin up => ~ told.internet
    /\ Quiet("wifi") /\ "wifi" \notin up => ~ told.wifi

(* Once everything is handled the listeners know the state of every        *)
(* service that runs, through all its restarts.                            *)
KnownWhenQuiet ==
    may \cap Trouble = {} =>
        \A s \in up : Quiet(s) =>
            CASE s = "wifi" -> (told.wifi <=> state[s])
              [] s = "wan"  ->
                     /\ told.internet = state[s].internet
                     /\ told.network.type = DataType(state[s].link)
              [] s = "telephony" -> (told.telephony <=> state[s])

(* The active requests are issued again once for each sleep of the device, *)
(* never for an attempt that was refused or for the reply to addmatch.     *)
OneResumePerSleep ==
    sleeps = resumes + (IF attempt = "slept" THEN 1 ELSE 0)
=============================================================================
