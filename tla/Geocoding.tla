----------------------------- MODULE Geocoding -----------------------------
(***************************************************************************)
(* getGeoCodeLocation and getReverseLocation: a call is checked against    *)
(* the configuration and the connection, its query is left to              *)
(* NetworkRequestManager, which the network provider's queries go through  *)
(* as well, and the answer, on the main loop, goes to whoever the task     *)
(* belongs to.  Tasks are known by their addresses, which are used again.  *)
(***************************************************************************)
EXTENDS ConnectionState, FiniteSets

CONSTANTS
    GeoCall,      \* the calls, each made once
    NoCall,       \* whom the network provider's queries are for
    Task,         \* the addresses of HTTP tasks
    Files         \* what the configuration file may be

VARIABLES
    wsp,          \* the configuration file (external)
    confFile,     \* what LocationWebServiceProvider has read of it, or Null
    impl,         \* what MapServicesImpl was made with, or Null
    http,         \* what the tasks under way are for (external)
    requestList,  \* httpRequestList
    refs,         \* references kept on a call's message
    said          \* the answers to a call

geoVars == <<wsp, confFile, impl, http, requestList, refs, said>>

Feature == {"geocode", "reverseGeocode"}

(* A configuration that parses has a key; Null is one that does not parse. *)
Null == [ok |-> FALSE, features |-> {}]
Conf == {Null} \cup [ok : {TRUE}, features : SUBSET Feature]

ASSUME GeocodingAssumption ==
    /\ NoCall \notin GeoCall /\ IsFiniteSet(Task)
    /\ Null \in Files /\ Files \subseteq Conf

Client == {"maps", "network"}
Under == [client : {"maps"}, call : GeoCall]
             \cup {[client |-> "network", call |-> NoCall]}
Answer == {"wspConf", "dataConnectionOff", "invalidInput", "unknownError",
           "timeOut", "response"}

GeoTypeOK ==
    /\ {wsp, confFile, impl} \subseteq Files
    /\ DOMAIN http \subseteq Task
    /\ \A t \in DOMAIN http : http[t] \in Under
    /\ DOMAIN requestList \subseteq Task
    /\ \A t \in DOMAIN requestList : requestList[t] \in Client
    /\ refs \in [GeoCall -> Nat]
    /\ said \in [GeoCall -> Seq(Answer)]

Nothing == <<>>

GeoInit == /\ wsp = Null /\ confFile = Null /\ impl = Null
           /\ http = Nothing /\ requestList = Nothing
           /\ refs = [c \in GeoCall |-> 0]
           /\ said = [c \in GeoCall |-> <<>>]

(* The service ends, its calls with it, and is started again.              *)
GeoRestart == /\ confFile' = Null /\ impl' = Null
              /\ http' = Nothing /\ requestList' = Nothing
              /\ refs' = [c \in GeoCall |-> 0]
              /\ said' = [c \in GeoCall |-> <<>>]
              /\ UNCHANGED wsp

(* Someone replaces the file (external).                                   *)
WspChanges == /\ wsp' \in Files \ {wsp}
              /\ UNCHANGED <<confFile, impl, http, requestList, refs, said>>
-----------------------------------------------------------------------------
(* NetworkRequestManager.                                                  *)

Put(f, t, x) == [u \in DOMAIN f \cup {t} |-> IF u = t THEN x ELSE f[u]]
Drop(f, t) == [u \in DOMAIN f \ {t} |-> f[u]]

(* initiateTransaction when the library takes the task.                    *)
InitiateTransaction(client, call) ==
    \E t \in Task \ DOMAIN http :
        /\ http' = Put(http, t, [client |-> client, call |-> call])
        /\ requestList' = Put(requestList, t, client)

ClearTransaction(t) ==
    http' = Drop(http, t) /\ requestList' = Drop(requestList, t)

(* A query of the network provider.                                        *)
NetworkQuery ==
    /\ InitiateTransaction("network", NoCall)
    /\ UNCHANGED <<wsp, confFile, impl, refs, said>>
-----------------------------------------------------------------------------
(* The calls.                                                              *)

Say(c, answer) == said' = [said EXCEPT ![c] = Append(@, answer)]

(* readWSPConfiguration: what has been read once is not read again.        *)
ReadWSPConfiguration == confFile' = IF confFile = Null THEN wsp ELSE confFile

(* The function-static MapServicesImpl of getGeocodeImpl.                  *)
GetGeocodeImpl == impl' = IF impl = Null THEN confFile' ELSE impl

(* A broken variant: the message is kept for a query that is not made.     *)
GeoCode_RefsFirst(c, feature) ==
    /\ GetGeocodeImpl
    /\ refs' = [refs EXCEPT ![c] = @ + 1]
    /\ \/ /\ feature \in impl'.features
          /\ InitiateTransaction("maps", c) /\ UNCHANGED said
       \/ /\ Say(c, "unknownError") /\ UNCHANGED <<http, requestList>>

(* geoCode or reverseGeoCode, which may not be supported or fail to post;  *)
(* the message of a query that is under way is kept.                       *)
GeoCode(c, feature) ==
    /\ GetGeocodeImpl
    /\ \/ /\ feature \in impl'.features
          /\ InitiateTransaction("maps", c)
          /\ refs' = [refs EXCEPT ![c] = @ + 1]
          /\ UNCHANGED said
       \/ /\ Say(c, "unknownError")
          /\ UNCHANGED <<http, requestList, refs>>

Refuse(c, answer) == /\ Say(c, answer)
                     /\ UNCHANGED <<impl, http, requestList, refs>>

(* A new call, and what both methods refuse it for.                        *)
Called(c) == /\ refs[c] = 0 /\ said[c] = <<>>
             /\ ReadWSPConfiguration
             /\ UNCHANGED wsp

NotReady(c) == \/ confFile' = Null /\ Refuse(c, "wspConf")
               \/ /\ confFile' # Null /\ ~ told.internet
                  /\ Refuse(c, "dataConnectionOff")

Ready == confFile' # Null /\ told.internet

GetReverseLocation(c) ==
    /\ Called(c)
    /\ NotReady(c) \/ (Ready /\ GeoCode(c, "reverseGeocode"))

(* A call has an address or components.                                    *)
GetGeoCodeLocation(c) ==
    /\ Called(c)
    /\ \/ NotReady(c)
       \/ Ready /\ Refuse(c, "invalidInput")
       \/ Ready /\ GeoCode(c, "geocode")

(* geocodingReply: an error is told by what the connection is by now, a    *)
(* response that does not parse as unknown.                                *)
GeocodingReply(c, ok) ==
    /\ \E answer \in IF ok THEN {"response", "unknownError"}
                    ELSE IF told.internet THEN {"timeOut"}
                                          ELSE {"dataConnectionOff"} :
           Say(c, answer)
    /\ refs' = [refs EXCEPT ![c] = @ - 1]

(* handleDataCb, and the client's handleResponse: MapServicesImpl's clears *)
(* the task and replies to its message; the network provider's clears it   *)
(* too (its own part is in NetworkProvider), as one without a client is.   *)
HandleDataCb(t, ok) ==
    /\ ClearTransaction(t)
    /\ IF t \in DOMAIN requestList /\ requestList[t] = "maps"
       THEN GeocodingReply(http[t].call, ok)
       ELSE UNCHANGED <<refs, said>>
    /\ UNCHANGED <<wsp, confFile, impl>>

GeoNext ==
    \/ WspChanges \/ NetworkQuery
    \/ \E c \in GeoCall : GetReverseLocation(c) \/ GetGeoCodeLocation(c)
    \/ \E t \in DOMAIN http, ok \in BOOLEAN : HandleDataCb(t, ok)
-----------------------------------------------------------------------------
(* Properties.                                                             *)

(* The request manager knows every task under way by its client and no     *)
(* other, though addresses are used again and two clients share the list.  *)
TasksHaveClients ==
    requestList = [t \in DOMAIN http |-> http[t].client]

(* MapServicesImpl, made once, has the configuration the calls go by.      *)
MapsKnowTheConfiguration == impl # Null => impl = confFile

(* A call is under way in one task and its message kept, or answered, and  *)
(* never both or twice, whichever check, post or answer fails, though two  *)
(* clients share the request list and addresses are used again.            *)
MessagesAreKept ==
    /\ TasksHaveClients
    /\ \A c \in GeoCall :
           LET tasks == {t \in DOMAIN http : http[t].call = c}
           IN  /\ refs[c] = Cardinality(tasks)
               /\ Cardinality(tasks) + Len(said[c]) <= 1
=============================================================================
