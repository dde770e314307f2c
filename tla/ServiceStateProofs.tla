------------------------- MODULE ServiceStateProofs -------------------------
(***************************************************************************)
(* What holds of the service's state in every world and for every bound:   *)
(* the settings, the engine's status and the messages of the geocoding     *)
(* calls here, the other parts from their own modules, and the theorems    *)
(* about the service as a whole.                                           *)
(***************************************************************************)
EXTENDS ServiceState, ConnectionStateProofs, StoredPositionsProofs,
        FiniteSetTheorems

-----------------------------------------------------------------------------
(* The messages of the geocoding calls.                                    *)

TasksOf(c) == {t \in DOMAIN http : http[t].call = c}

(* A call has its message kept as often as it has tasks, and with its      *)
(* answers that is at most once.                                           *)
Kept(c) == /\ refs[c] = Cardinality(TasksOf(c))
           /\ refs[c] + Len(said[c]) <= 1

GeoIInv == GeoTypeOK /\ TasksHaveClients /\ \A c \in GeoCall : Kept(c)

LEMMA GeoTypes ==
    ASSUME GeoTypeOK
    PROVE  /\ \A c \in GeoCall : /\ refs[c] \in Nat /\ said[c] \in Seq(Answer)
                                 /\ Len(said[c]) \in Nat
                                 /\ TasksOf(c) \subseteq DOMAIN http
                                 /\ IsFiniteSet(TasksOf(c))
           /\ refs \in [GeoCall -> Nat] /\ said \in [GeoCall -> Seq(Answer)]
           /\ NoCall \notin GeoCall
<1>1. \A c \in GeoCall : TasksOf(c) \subseteq Task
    BY DEF GeoTypeOK, TasksOf
<1>2. \A c \in GeoCall : IsFiniteSet(TasksOf(c))
    BY <1>1, FS_Subset, GeocodingAssumption DEF GeocodingAssumption
<1>3. \A c \in GeoCall : TasksOf(c) \subseteq DOMAIN http
    BY DEF TasksOf
<1> QED BY <1>2, <1>3, GeocodingAssumption DEF GeoTypeOK, GeocodingAssumption

LEMMA MessagesKept ==
    ASSUME GeoIInv PROVE MessagesAreKept
<1>1. \A c \in GeoCall : /\ refs[c] = Cardinality(TasksOf(c))
                         /\ Cardinality(TasksOf(c)) + Len(said[c]) <= 1
    BY DEF GeoIInv, Kept
<1> QED BY <1>1 DEF GeoIInv, MessagesAreKept, TasksOf

LEMMA NoTasks ==
    /\ (GeoInit => GeoIInv)
    /\ (GeoIInv /\ GeoRestart => GeoIInv')
<1>1. DOMAIN Nothing = {} /\ Len(<<>>) = 0 /\ <<>> \in Seq(Answer)
    BY DEF Nothing
<1>2. Null \in Files
    BY GeocodingAssumption DEF GeocodingAssumption
<1>3. Cardinality({}) = 0
    BY FS_EmptySet
<1>4. ASSUME GeoInit PROVE GeoIInv
    <2>1. /\ refs \in [GeoCall -> Nat] /\ said \in [GeoCall -> Seq(Answer)]
          /\ \A c \in GeoCall : refs[c] = 0 /\ Len(said[c]) = 0
          /\ DOMAIN http = {} /\ DOMAIN requestList = {} /\ http = requestList
          /\ {wsp, confFile, impl} \subseteq Files
        BY <1>1, <1>2, <1>4 DEF GeoInit
    <2>2. GeoTypeOK
        BY <2>1 DEF GeoTypeOK
    <2>3. TasksHaveClients
        BY <1>1, <1>4 DEF TasksHaveClients, GeoInit, Nothing
    <2>4. \A c \in GeoCall : TasksOf(c) = {}
        BY <2>1 DEF TasksOf
    <2>5. \A c \in GeoCall : Kept(c)
        <3>1. \A c \in GeoCall : Cardinality(TasksOf(c)) = 0
            BY <1>3, <2>4
        <3> QED BY <2>1, <3>1 DEF Kept
    <2> QED BY <2>2, <2>3, <2>5 DEF GeoIInv
<1>5. ASSUME GeoIInv, GeoRestart PROVE GeoIInv'
    <2>1. /\ refs' \in [GeoCall -> Nat] /\ said' \in [GeoCall -> Seq(Answer)]
          /\ \A c \in GeoCall : refs'[c] = 0 /\ Len(said'[c]) = 0
          /\ DOMAIN http' = {} /\ DOMAIN requestList' = {}
          /\ {wsp', confFile', impl'} \subseteq Files
        BY <1>1, <1>2, <1>5 DEF GeoRestart, GeoIInv, GeoTypeOK
    <2>2. GeoTypeOK'
        BY <2>1 DEF GeoTypeOK
    <2>3. TasksHaveClients'
        BY <1>1, <1>5 DEF TasksHaveClients, GeoRestart, Nothing
    <2>4. \A c \in GeoCall : TasksOf(c)' = {}
        BY <2>1 DEF TasksOf
    <2>5. \A c \in GeoCall : Kept(c)'
        <3>1. \A c \in GeoCall : Cardinality(TasksOf(c)') = 0
            BY <1>3, <2>4
        <3> QED BY <2>1, <3>1 DEF Kept
    <2> QED BY <2>2, <2>3, <2>5 DEF GeoIInv
<1> QED BY <1>4, <1>5

(* A task begins, for a call or the network provider.                      *)
LEMMA TaskBegins ==
    ASSUME GeoIInv, NEW client, NEW call,
           [client |-> client, call |-> call] \in Under,
           InitiateTransaction(client, call)
    PROVE  /\ DOMAIN http' \subseteq Task /\ \A u \in DOMAIN http' : http'[u] \in Under
           /\ DOMAIN requestList' \subseteq Task
           /\ \A u \in DOMAIN requestList' : requestList'[u] \in Client
           /\ TasksHaveClients'
           /\ \A c \in GeoCall \ {call} : TasksOf(c)' = TasksOf(c)
           /\ call \in GeoCall =>
                 Cardinality(TasksOf(call)') = Cardinality(TasksOf(call)) + 1
<1> DEFINE x == [client |-> client, call |-> call]
<1>0. client \in Client /\ x.client = client /\ x.call = call
    BY DEF Under, Client
<1>1. PICK t \in Task \ DOMAIN http : /\ http' = Put(http, t, x)
                                      /\ requestList' = Put(requestList, t, client)
    BY DEF InitiateTransaction
<1> HIDE DEF x
<1>2. /\ DOMAIN http' = DOMAIN http \cup {t} /\ http'[t] = x
      /\ \A u \in DOMAIN http : http'[u] = http[u]
    BY <1>1 DEF Put
<1>3. /\ DOMAIN requestList = DOMAIN http
      /\ \A u \in DOMAIN http : requestList[u] = http[u].client
    BY DEF GeoIInv, TasksHaveClients
<1>4. /\ DOMAIN requestList' = DOMAIN http \cup {t} /\ requestList'[t] = client
      /\ \A u \in DOMAIN http : requestList'[u] = http[u].client
      /\ requestList' = [u \in DOMAIN http \cup {t} |->
                            IF u = t THEN client ELSE requestList[u]]
    BY <1>1, <1>3 DEF Put
<1>5. TasksHaveClients'
    BY <1>0, <1>2, <1>3, <1>4 DEF TasksHaveClients
<1>6. /\ DOMAIN http' \subseteq Task /\ \A u \in DOMAIN http' : http'[u] \in Under
      /\ DOMAIN requestList' \subseteq Task
      /\ \A u \in DOMAIN requestList' : requestList'[u] \in Client
    <2>1. /\ DOMAIN http \subseteq Task /\ \A u \in DOMAIN http : http[u] \in Under
          /\ \A u \in DOMAIN http : http[u].client \in Client
        BY DEF GeoIInv, GeoTypeOK, Under, Client
    <2>2. x \in Under
        BY DEF x
    <2> QED BY <1>0, <1>2, <1>4, <2>1, <2>2
<1>7. \A c \in GeoCall \ {call} : TasksOf(c)' = TasksOf(c)
    BY <1>0, <1>2 DEF TasksOf
<1>8. ASSUME call \in GeoCall
      PROVE  Cardinality(TasksOf(call)') = Cardinality(TasksOf(call)) + 1
    <2>1. TasksOf(call)' = TasksOf(call) \cup {t} /\ t \notin TasksOf(call)
        BY <1>0, <1>1, <1>2 DEF TasksOf
    <2>2. IsFiniteSet(TasksOf(call))
        BY <1>8, GeoTypes DEF GeoIInv
    <2> QED BY <2>1, <2>2, FS_AddElement
<1> QED BY <1>5, <1>6, <1>7, <1>8

(* A task ends.                                                            *)
LEMMA TaskEnds ==
    ASSUME GeoIInv, NEW t \in DOMAIN http, ClearTransaction(t),
           NEW c, c = http[t].call
    PROVE  /\ DOMAIN http' \subseteq Task /\ \A u \in DOMAIN http' : http'[u] \in Under
           /\ DOMAIN requestList' \subseteq Task
           /\ \A u \in DOMAIN requestList' : requestList'[u] \in Client
           /\ TasksHaveClients'
           /\ \A d \in GeoCall \ {c} : TasksOf(d)' = TasksOf(d)
           /\ c \in GeoCall =>
                 Cardinality(TasksOf(c)') = Cardinality(TasksOf(c)) - 1
<1>1. /\ DOMAIN http' = DOMAIN http \ {t}
      /\ \A u \in DOMAIN http' : http'[u] = http[u]
    BY DEF ClearTransaction, Drop
<1>2. /\ DOMAIN requestList = DOMAIN http
      /\ \A u \in DOMAIN http : requestList[u] = http[u].client
    BY DEF GeoIInv, TasksHaveClients
<1>3. requestList' = [u \in DOMAIN http \ {t} |-> requestList[u]]
    BY <1>2 DEF ClearTransaction, Drop
<1>4. TasksHaveClients'
    BY <1>1, <1>2, <1>3 DEF TasksHaveClients
<1>5. /\ DOMAIN http' \subseteq Task /\ \A u \in DOMAIN http' : http'[u] \in Under
      /\ DOMAIN requestList' \subseteq Task
      /\ \A u \in DOMAIN requestList' : requestList'[u] \in Client
    BY <1>1, <1>2, <1>3 DEF GeoIInv, GeoTypeOK
<1>6. \A d \in GeoCall \ {c} : TasksOf(d)' = TasksOf(d)
    BY <1>1 DEF TasksOf
<1>7. ASSUME c \in GeoCall
      PROVE  Cardinality(TasksOf(c)') = Cardinality(TasksOf(c)) - 1
    <2>1. /\ TasksOf(c)' = TasksOf(c) \ {t}
          /\ t \in TasksOf(c)
        BY <1>1 DEF TasksOf
    <2>2. IsFiniteSet(TasksOf(c))
        BY <1>7, GeoTypes DEF GeoIInv
    <2> QED BY <2>1, <2>2, FS_RemoveElement
<1> QED BY <1>4, <1>5, <1>6, <1>7

LEMMA FreshCall ==
    ASSUME GeoIInv, NEW c \in GeoCall, Called(c),
           {impl'} \subseteq Files,
           \/ /\ InitiateTransaction("maps", c)
              /\ refs' = [refs EXCEPT ![c] = @ + 1] /\ UNCHANGED said
           \/ /\ \E text \in Answer : Say(c, text)
              /\ UNCHANGED <<http, requestList, refs>>
    PROVE  GeoIInv'
<1>1. /\ refs[c] = 0 /\ said[c] = <<>> /\ {wsp', confFile'} \subseteq Files
    BY DEF Called, ReadWSPConfiguration, GeoIInv, GeoTypeOK
<1>2. /\ refs \in [GeoCall -> Nat] /\ said \in [GeoCall -> Seq(Answer)]
      /\ \A d \in GeoCall : Kept(d)
      /\ Len(<<>>) = 0 /\ Cardinality(TasksOf(c)) = 0
    BY <1>1, GeoTypes DEF GeoIInv, Kept
<1>3. CASE /\ InitiateTransaction("maps", c)
           /\ refs' = [refs EXCEPT ![c] = @ + 1] /\ UNCHANGED said
    <2>1. [client |-> "maps", call |-> c] \in Under
        BY DEF Under
    <2>2. /\ refs' \in [GeoCall -> Nat] /\ refs'[c] = 1
          /\ \A d \in GeoCall \ {c} : refs'[d] = refs[d]
        BY <1>1, <1>2, <1>3
    <2>3. /\ DOMAIN http' \subseteq Task /\ \A u \in DOMAIN http' : http'[u] \in Under
          /\ DOMAIN requestList' \subseteq Task
          /\ \A u \in DOMAIN requestList' : requestList'[u] \in Client
          /\ TasksHaveClients'
          /\ \A d \in GeoCall \ {c} : TasksOf(d)' = TasksOf(d)
          /\ Cardinality(TasksOf(c)') = Cardinality(TasksOf(c)) + 1
        BY <1>3, <2>1, TaskBegins
    <2>4. GeoTypeOK'
        BY <1>1, <1>2, <1>3, <2>2, <2>3 DEF GeoTypeOK
    <2>5. Kept(c)'
        BY <1>1, <1>2, <1>3, <2>2, <2>3 DEF Kept
    <2>6. \A d \in GeoCall \ {c} : Kept(d)'
        BY <1>2, <1>3, <2>2, <2>3 DEF Kept
    <2> QED BY <2>3, <2>4, <2>5, <2>6 DEF GeoIInv
<1>4. CASE /\ \E text \in Answer : Say(c, text)
           /\ UNCHANGED <<http, requestList, refs>>
    <2>1. PICK text \in Answer : said' = [said EXCEPT ![c] = Append(@, text)]
        BY <1>4 DEF Say
    <2>2. Append(<<>>, text) \in Seq(Answer) /\ Len(Append(<<>>, text)) = 1
        BY <1>2
    <2>3. /\ said' \in [GeoCall -> Seq(Answer)] /\ Len(said'[c]) = 1
          /\ \A d \in GeoCall \ {c} : said'[d] = said[d]
        BY <1>1, <1>2, <2>1, <2>2
    <2>4. GeoTypeOK'
        BY <1>1, <1>4, <2>3 DEF GeoIInv, GeoTypeOK
    <2>5. \A d \in GeoCall : TasksOf(d)' = TasksOf(d)
        BY <1>4 DEF TasksOf
    <2>6. Kept(c)'
        BY <1>1, <1>2, <1>4, <2>3, <2>5 DEF Kept
    <2>7. \A d \in GeoCall \ {c} : Kept(d)'
        BY <1>2, <1>4, <2>3, <2>5 DEF Kept
    <2>8. TasksHaveClients'
        BY <1>4 DEF GeoIInv, TasksHaveClients
    <2> QED BY <2>4, <2>6, <2>7, <2>8 DEF GeoIInv
<1> QED BY <1>3, <1>4

LEMMA CallsKeep ==
    ASSUME GeoIInv, NEW c \in GeoCall, GetReverseLocation(c) \/ GetGeoCodeLocation(c)
    PROVE  GeoIInv'
<1>1. Called(c)
    BY DEF GetReverseLocation, GetGeoCodeLocation
<1>2. {impl, confFile'} \subseteq Files
    BY <1>1 DEF Called, ReadWSPConfiguration, GeoIInv, GeoTypeOK
<1>3. ASSUME NEW text \in Answer, Refuse(c, text) PROVE GeoIInv'
    <2>1. /\ Say(c, text) /\ impl' = impl /\ UNCHANGED <<http, requestList, refs>>
        BY <1>3 DEF Refuse
    <2> QED BY <1>1, <1>2, <2>1, FreshCall
<1>4. ASSUME NEW feature, GeoCode(c, feature) PROVE GeoIInv'
    <2>1. {impl'} \subseteq Files
        BY <1>2, <1>4 DEF GeoCode, GetGeocodeImpl
    <2>2. "unknownError" \in Answer
        BY DEF Answer
    <2>3. \/ /\ InitiateTransaction("maps", c)
             /\ refs' = [refs EXCEPT ![c] = @ + 1] /\ UNCHANGED said
          \/ /\ \E text \in Answer : Say(c, text)
             /\ UNCHANGED <<http, requestList, refs>>
        BY <1>4, <2>2 DEF GeoCode
    <2> QED BY <1>1, <2>1, <2>3, FreshCall
<1>5. \/ \E text \in Answer : Refuse(c, text)
      \/ \E feature \in Feature : GeoCode(c, feature)
    <2>1. {"wspConf", "dataConnectionOff", "invalidInput"} \subseteq Answer
          /\ {"geocode", "reverseGeocode"} \subseteq Feature
        BY DEF Answer, Feature
    <2> QED BY <2>1 DEF GetReverseLocation, GetGeoCodeLocation, NotReady
<1> QED BY <1>3, <1>4, <1>5

LEMMA AnswerKeeps ==
    ASSUME GeoIInv, NEW t \in DOMAIN http, NEW ok \in BOOLEAN, HandleDataCb(t, ok)
    PROVE  GeoIInv'
<1>0. PICK c : c = http[t].call
    OBVIOUS
<1>1. /\ ClearTransaction(t) /\ UNCHANGED <<wsp, confFile, impl>>
    BY DEF HandleDataCb
<1>2. /\ DOMAIN http' \subseteq Task /\ \A u \in DOMAIN http' : http'[u] \in Under
      /\ DOMAIN requestList' \subseteq Task
      /\ \A u \in DOMAIN requestList' : requestList'[u] \in Client
      /\ TasksHaveClients'
      /\ \A d \in GeoCall \ {c} : TasksOf(d)' = TasksOf(d)
      /\ c \in GeoCall => Cardinality(TasksOf(c)') = Cardinality(TasksOf(c)) - 1
    BY <1>0, <1>1, TaskEnds
<1>3. t \in DOMAIN requestList /\ requestList[t] = http[t].client /\ http[t] \in Under
    BY DEF GeoIInv, TasksHaveClients, GeoTypeOK
<1>4. /\ refs \in [GeoCall -> Nat] /\ said \in [GeoCall -> Seq(Answer)]
      /\ \A d \in GeoCall : Kept(d) /\ IsFiniteSet(TasksOf(d))
      /\ NoCall \notin GeoCall
    BY GeoTypes DEF GeoIInv
<1>5. CASE http[t].client = "maps"
    <2>1. c \in GeoCall /\ t \in TasksOf(c)
        BY <1>0, <1>3, <1>5 DEF Under, TasksOf
    <2>2. Cardinality(TasksOf(c)) \in Nat /\ Cardinality(TasksOf(c)) # 0
        BY <1>4, <2>1, FS_EmptySet, FS_CardinalityType
    <2>3. refs[c] = Cardinality(TasksOf(c)) /\ refs[c] + Len(said[c]) <= 1
        BY <1>4, <2>1 DEF Kept
    <2>4. /\ said[c] \in Seq(Answer) /\ Len(said[c]) \in Nat
          /\ refs[c] = 1 /\ Len(said[c]) = 0
        BY <1>4, <2>1, <2>2, <2>3
    <2>5. GeocodingReply(c, ok)
        BY <1>0, <1>3, <1>5 DEF HandleDataCb
    <2>6. PICK text \in Answer : said' = [said EXCEPT ![c] = Append(@, text)]
        BY <2>5 DEF GeocodingReply, Say, Answer
    <2>7. Append(said[c], text) \in Seq(Answer) /\ Len(Append(said[c], text)) = 1
        BY <2>4
    <2>8. /\ said' \in [GeoCall -> Seq(Answer)] /\ Len(said'[c]) = 1
          /\ \A d \in GeoCall \ {c} : said'[d] = said[d]
        BY <1>4, <2>1, <2>6, <2>7
    <2>9. /\ refs' \in [GeoCall -> Nat] /\ refs'[c] = 0
          /\ \A d \in GeoCall \ {c} : refs'[d] = refs[d]
        <3>1. refs' = [refs EXCEPT ![c] = @ - 1]
            BY <2>5 DEF GeocodingReply
        <3> QED BY <1>4, <2>1, <2>4, <3>1
    <2>10. GeoTypeOK'
        BY <1>1, <1>2, <2>8, <2>9 DEF GeoIInv, GeoTypeOK
    <2>11. Kept(c)'
        BY <1>2, <2>1, <2>3, <2>4, <2>8, <2>9 DEF Kept
    <2>12. \A d \in GeoCall \ {c} : Kept(d)'
        BY <1>2, <1>4, <2>8, <2>9 DEF Kept
    <2> QED BY <1>2, <2>10, <2>11, <2>12 DEF GeoIInv
<1>6. CASE http[t].client # "maps"
    <2>1. c \notin GeoCall
        BY <1>0, <1>3, <1>4, <1>6 DEF Under
    <2>2. UNCHANGED <<refs, said>>
        BY <1>3, <1>6 DEF HandleDataCb
    <2>3. GeoTypeOK'
        BY <1>1, <1>2, <2>2 DEF GeoIInv, GeoTypeOK
    <2>4. \A d \in GeoCall : Kept(d)'
        BY <1>2, <1>4, <2>1, <2>2 DEF Kept
    <2> QED BY <1>2, <2>3, <2>4 DEF GeoIInv
<1> QED BY <1>5, <1>6

LEMMA GeoKeep ==
    ASSUME GeoIInv, GeoNext \/ GeoRestart \/ UNCHANGED geoVars
    PROVE  GeoIInv'
<1>1. CASE UNCHANGED geoVars
    BY <1>1 DEF geoVars, GeoIInv, GeoTypeOK, TasksHaveClients, Kept, TasksOf
<1>2. CASE WspChanges
    BY <1>2 DEF WspChanges, GeoIInv, GeoTypeOK, TasksHaveClients, Kept, TasksOf
<1>3. CASE NetworkQuery
    <2>1. /\ InitiateTransaction("network", NoCall)
          /\ UNCHANGED <<wsp, confFile, impl, refs, said>>
          /\ [client |-> "network", call |-> NoCall] \in Under
        BY <1>3 DEF NetworkQuery, Under
    <2>2. /\ DOMAIN http' \subseteq Task /\ \A u \in DOMAIN http' : http'[u] \in Under
          /\ DOMAIN requestList' \subseteq Task
          /\ \A u \in DOMAIN requestList' : requestList'[u] \in Client
          /\ TasksHaveClients'
          /\ \A c \in GeoCall : TasksOf(c)' = TasksOf(c)
        BY <2>1, TaskBegins, GeocodingAssumption DEF GeocodingAssumption
    <2>3. GeoTypeOK'
        BY <2>1, <2>2 DEF GeoIInv, GeoTypeOK
    <2>4. \A c \in GeoCall : Kept(c)'
        BY <2>1, <2>2 DEF GeoIInv, Kept
    <2> QED BY <2>2, <2>3, <2>4 DEF GeoIInv
<1>4. CASE GeoRestart
    BY <1>4, NoTasks
<1> QED BY <1>1, <1>2, <1>3, <1>4, CallsKeep, AnswerKeeps DEF GeoNext

-----------------------------------------------------------------------------
(* The settings.                                                           *)

SettingsIInv == SettingsTypeOK /\ SettingsAgree

LEMMA SettingsStart ==
    ASSUME SettingsInit PROVE SettingsIInv
<1>1. SettingsTypeOK
    BY DEF SettingsInit, SettingsTypeOK, Backend
<1>2. SettingsStored
    BY SettingsAssumption
       DEF SettingsInit, SettingsStored, Remembered, SettingsAssumption
<1>3. SubscribersKnow
    BY SettingsAssumption
       DEF SettingsInit, SubscribersKnow, Remembered, SettingsAssumption
<1> QED BY <1>1, <1>2, <1>3 DEF SettingsIInv, SettingsAgree

LEMMA SettingsRestartKeeps ==
    ASSUME SettingsIInv, SettingsRestart, may' = may PROVE SettingsIInv'
<1>1. /\ pref' = pref /\ backend' = "unread"
      /\ status' \in [Remembered -> BOOLEAN]
      /\ \A h \in Remembered : status'[h] \in Loaded(pref.state[h], FALSE)
      /\ heard' = [state |-> [h \in Setting |-> {}], handlers |-> {}, backend |-> {}]
    BY DEF SettingsRestart
<1>2. SettingsTypeOK'
    BY <1>1 DEF SettingsIInv, SettingsTypeOK
<1>3. SettingsStored'
    BY <1>1 DEF SettingsStored, Loaded
<1>4. SubscribersKnow'
    BY <1>1, SettingsAssumption DEF SubscribersKnow, SettingsAssumption
<1> QED BY <1>2, <1>3, <1>4 DEF SettingsIInv, SettingsAgree

LEMMA SettingsFacts ==
    ASSUME SettingsTypeOK
    PROVE  /\ DOMAIN heard = {"state", "handlers", "backend"}
           /\ heard.state \in [Setting -> SUBSET BOOLEAN]
           /\ heard.handlers \subseteq [Remembered -> BOOLEAN]
           /\ heard.backend \subseteq Backend
           /\ DOMAIN pref = {"state", "backend"}
           /\ pref.state \in [Setting -> BOOLEAN] /\ pref.backend \in Backend
           /\ Remembered \subseteq Setting
           /\ status \in [Remembered -> BOOLEAN] /\ backend \in Backend \cup {"unread"}
BY SettingsAssumption DEF SettingsTypeOK, SettingsAssumption

(* getState subscribes to what is stored, which is what is in memory.      *)
LEMMA GetStateKeeps ==
    ASSUME SettingsIInv, NEW h \in Setting, GetState(h), may' = may
    PROVE  SettingsIInv'
<1>1. PICK v \in Loaded(pref.state[h], FALSE) :
          heard' = [heard EXCEPT !.state[h] = @ \cup {v}]
    BY DEF GetState
<1>2. pref' = pref /\ status' = status /\ backend' = backend
    BY DEF GetState
<1>3. v \in BOOLEAN /\ ("read_fails" \notin may => v = pref.state[h])
    BY <1>1, SettingsFacts DEF Loaded, SettingsIInv
<1>4. /\ heard' \in [state    : [Setting -> SUBSET BOOLEAN],
                     handlers : SUBSET [Remembered -> BOOLEAN],
                     backend  : SUBSET Backend]
      /\ heard'.handlers = heard.handlers /\ heard'.backend = heard.backend
      /\ heard'.state = [heard.state EXCEPT ![h] = @ \cup {v}]
    BY <1>1, <1>3 DEF SettingsIInv, SettingsTypeOK
<1>5. SettingsTypeOK'
    BY <1>2, <1>4 DEF SettingsIInv, SettingsTypeOK
<1>6. SettingsStored'
    BY <1>2 DEF SettingsIInv, SettingsAgree, SettingsStored
<1>7. ASSUME may \cap {"write_fails", "read_fails"} = {}, NEW g \in Remembered
      PROVE  heard'.state[g] \subseteq {status[g]}
    <2>1. /\ "read_fails" \notin may /\ "write_fails" \notin may
          /\ heard.state[g] \subseteq {status[g]} /\ status[g] = pref.state[g]
        BY <1>7 DEF SettingsIInv, SettingsAgree, SettingsStored, SubscribersKnow
    <2>2. g \in Setting /\ heard.state \in [Setting -> SUBSET BOOLEAN]
        BY SettingsFacts DEF SettingsIInv
    <2>3. CASE g = h
        <3>1. heard'.state[g] = heard.state[g] \cup {v}
            BY <1>4, <2>2, <2>3
        <3> QED BY <1>3, <2>1, <2>3, <3>1
    <2>4. CASE g # h
        <3>1. heard'.state[g] = heard.state[g]
            BY <1>4, <2>2, <2>4
        <3> QED BY <2>1, <3>1
    <2> QED BY <2>3, <2>4
<1>8. SubscribersKnow'
    BY <1>2, <1>4, <1>7 DEF SettingsIInv, SettingsAgree, SubscribersKnow
<1> QED BY <1>5, <1>6, <1>8 DEF SettingsIInv, SettingsAgree

LEMMA SetStateKeeps ==
    ASSUME SettingsIInv, NEW h \in Setting, NEW on \in BOOLEAN, SetState(h, on),
           may' = may
    PROVE  SettingsIInv'
<1>0. backend' = backend /\ Announce(h, on)
    BY DEF SetState
<1>1. /\ pref' \in [state : [Setting -> BOOLEAN], backend : Backend]
      /\ pref'.backend = pref.backend
      /\ "write_fails" \notin may => /\ pref'.state[h] = on
                                     /\ \A g \in Setting \ {h} : pref'.state[g] = pref.state[g]
    <2>1. DOMAIN pref.state = Setting
        BY SettingsFacts DEF SettingsIInv
    <2>2. CASE pref' = pref /\ "write_fails" \in may
        BY <2>2 DEF SettingsIInv, SettingsTypeOK
    <2>3. CASE pref' = [pref EXCEPT !.state[h] = on]
        <3>1. /\ pref' \in [state : [Setting -> BOOLEAN], backend : Backend]
              /\ pref'.backend = pref.backend
              /\ pref'.state = [pref.state EXCEPT ![h] = on]
            BY <2>3 DEF SettingsIInv, SettingsTypeOK
        <3> QED BY <2>1, <3>1
    <2> QED BY <2>2, <2>3 DEF SetState, Stored
<1>2. CASE (h \notin Remembered \/ status[h] = on) /\ UNCHANGED <<status, heard>>
    <2>1. SettingsTypeOK'
        BY <1>0, <1>1, <1>2 DEF SettingsIInv, SettingsTypeOK
    <2>2. SettingsStored'
        <3>1. "read_fails" \notin may => backend' \in {"unread", pref'.backend}
            BY <1>0, <1>1 DEF SettingsIInv, SettingsAgree, SettingsStored
        <3>2. ASSUME "read_fails" \notin may, "write_fails" \notin may,
                     NEW g \in Remembered
              PROVE  status'[g] = pref'.state[g]
            BY <1>1, <1>2, <3>2, SettingsFacts
               DEF SettingsIInv, SettingsAgree, SettingsStored
        <3> QED BY <3>1, <3>2 DEF SettingsStored
    <2>3. SubscribersKnow'
        BY <1>0, <1>2 DEF SettingsIInv, SettingsAgree, SubscribersKnow
    <2> QED BY <2>1, <2>2, <2>3 DEF SettingsIInv, SettingsAgree
<1>3. CASE /\ h \in Remembered /\ status[h] # on
           /\ status' = [status EXCEPT ![h] = on]
           /\ heard' = [heard EXCEPT !.state[h] = Tell(@, on),
                                     !.handlers = Tell(@, status')]
    <2>1. /\ status' \in [Remembered -> BOOLEAN] /\ status'[h] = on
          /\ \A g \in Remembered \ {h} : status'[g] = status[g]
        BY <1>3, SettingsFacts DEF SettingsIInv
    <2>2. /\ heard' = [state |-> [heard.state EXCEPT ![h] = Tell(@, on)],
                       handlers |-> Tell(heard.handlers, status'),
                       backend |-> heard.backend]
        BY <1>3 DEF SettingsIInv, SettingsTypeOK
    <2>3. /\ Tell(heard.handlers, status') \subseteq {status'}
          /\ \A L : Tell(L, on) \subseteq {on}
        BY DEF Tell
    <2>4. SettingsTypeOK'
        <3>1. [heard.state EXCEPT ![h] = Tell(@, on)] \in [Setting -> SUBSET BOOLEAN]
            BY <2>3, SettingsFacts DEF SettingsIInv
        <3>2. Tell(heard.handlers, status') \subseteq [Remembered -> BOOLEAN]
            BY <2>1, <2>3
        <3>3. heard.backend \subseteq Backend
            BY SettingsFacts DEF SettingsIInv
        <3>4. heard' \in [state    : [Setting -> SUBSET BOOLEAN],
                          handlers : SUBSET [Remembered -> BOOLEAN],
                          backend  : SUBSET Backend]
            BY <2>2, <3>1, <3>2, <3>3
        <3> QED BY <1>0, <1>1, <2>1, <3>4 DEF SettingsIInv, SettingsTypeOK
    <2>5. SettingsStored'
        <3>1. "read_fails" \notin may => backend' \in {"unread", pref'.backend}
            BY <1>0, <1>1 DEF SettingsIInv, SettingsAgree, SettingsStored
        <3>2. ASSUME "read_fails" \notin may, "write_fails" \notin may,
                     NEW g \in Remembered
              PROVE  status'[g] = pref'.state[g]
            <4>1. g \in Setting
                BY SettingsFacts DEF SettingsIInv
            <4>2. status[g] = pref.state[g]
                BY <3>2 DEF SettingsIInv, SettingsAgree, SettingsStored
            <4> QED BY <1>1, <2>1, <3>2, <4>1, <4>2
        <3> QED BY <3>1, <3>2 DEF SettingsStored
    <2>6. SubscribersKnow'
        <3>1. heard'.handlers \subseteq {status'} /\ heard'.backend = heard.backend
            BY <2>2, <2>3
        <3>2. ASSUME may \cap {"write_fails", "read_fails"} = {}, NEW g \in Remembered
              PROVE  heard'.state[g] \subseteq {status'[g]}
            <4>1. heard.state[g] \subseteq {status[g]}
                BY <3>2 DEF SettingsIInv, SettingsAgree, SubscribersKnow
            <4>2. g \in Setting /\ DOMAIN heard.state = Setting
                BY SettingsFacts DEF SettingsIInv
            <4>3. /\ heard'.state = [heard.state EXCEPT ![h] = Tell(@, on)]
                BY <2>2
            <4> HIDE DEF Tell
            <4>4. CASE g = h
                BY <2>1, <2>3, <4>2, <4>3, <4>4
            <4>5. CASE g # h
                BY <2>1, <4>1, <4>2, <4>3, <4>5
            <4> QED BY <4>4, <4>5
        <3>3. heard.backend \subseteq {backend}
            BY DEF SettingsIInv, SettingsAgree, SubscribersKnow
        <3> QED BY <1>0, <3>1, <3>2, <3>3 DEF SubscribersKnow
    <2> QED BY <2>4, <2>5, <2>6 DEF SettingsIInv, SettingsAgree
<1> QED BY <1>0, <1>2, <1>3 DEF Announce

(* The calls that are about the network provider, and the subscription to  *)
(* both handlers.                                                          *)
LEMMA ProviderKeeps ==
    ASSUME SettingsIInv, may' = may,
           \/ GetAllLocationHandlers \/ CurrentBackend \/ GetNetworkProvider
           \/ \E b \in Backend : SetNetworkProvider(b)
    PROVE  SettingsIInv'
<1>1. /\ UNCHANGED status /\ pref' \in [state : [Setting -> BOOLEAN], backend : Backend]
      /\ pref'.state = pref.state
      /\ DOMAIN heard' = {"state", "handlers", "backend"}
      /\ heard'.state = heard.state
      /\ heard'.handlers \subseteq heard.handlers \cup {status}
      /\ backend' \in Backend \cup {"unread"}
      /\ heard'.backend \subseteq {backend'} /\ heard'.backend \subseteq Backend
      /\ "read_fails" \notin may => backend' \in {"unread", pref'.backend}
      /\ heard' = [state |-> heard'.state, handlers |-> heard'.handlers,
                   backend |-> heard'.backend]
    <2>0. /\ heard = [state |-> heard.state, handlers |-> heard.handlers,
                      backend |-> heard.backend]
          /\ pref \in [state : [Setting -> BOOLEAN], backend : Backend]
          /\ backend \in Backend \cup {"unread"} /\ pref.backend \in Backend
          /\ heard.backend \subseteq Backend /\ heard.backend \subseteq {backend}
          /\ "unread" \notin Backend /\ "beacondb" \in Backend
          /\ "read_fails" \notin may => backend \in {"unread", pref.backend}
        BY SettingsFacts DEF SettingsIInv, SettingsTypeOK, SettingsAgree,
           SettingsStored, SubscribersKnow, Backend
    <2>1. CASE GetAllLocationHandlers
        <3>1. heard' = [state |-> heard.state, handlers |-> heard.handlers \cup {status},
                        backend |-> heard.backend]
            BY <2>0, <2>1 DEF GetAllLocationHandlers
        <3> QED BY <2>0, <2>1, <3>1 DEF GetAllLocationHandlers
    <2>2. CASE CurrentBackend
        BY <2>0, <2>2 DEF CurrentBackend, Loaded
    <2>3. CASE GetNetworkProvider
        <3>1. /\ heard' = [state |-> heard.state, handlers |-> heard.handlers,
                           backend |-> heard.backend \cup {backend'}]
              /\ UNCHANGED <<pref, status>>
            BY <2>0, <2>3 DEF GetNetworkProvider
        <3>2. /\ backend' \in Backend
              /\ backend # "unread" => backend' = backend
              /\ "read_fails" \notin may => backend' = pref.backend
            BY <2>0, <2>3 DEF GetNetworkProvider, Loaded
        <3>3. heard.backend \subseteq {backend'}
            BY <2>0, <3>2
        <3> QED BY <2>0, <3>1, <3>2, <3>3
    <2>4. CASE \E b \in Backend : SetNetworkProvider(b)
        <3> PICK b \in Backend : SetNetworkProvider(b)
            BY <2>4
        <3>1. CASE UNCHANGED <<pref, backend, heard, status>>
            BY <2>0, <3>1
        <3>2. CASE /\ pref' = [pref EXCEPT !.backend = b] /\ backend' = b
                   /\ heard' = [heard EXCEPT !.backend = Tell(@, b)]
                   /\ UNCHANGED status
            <4>1. heard' = [state |-> heard.state, handlers |-> heard.handlers,
                            backend |-> Tell(heard.backend, b)]
                BY <2>0, <3>2
            <4>2. Tell(heard.backend, b) \subseteq {b}
                BY DEF Tell
            <4>3. /\ pref' \in [state : [Setting -> BOOLEAN], backend : Backend]
                  /\ pref'.state = pref.state /\ pref'.backend = b
                BY <2>0, <3>2
            <4> HIDE DEF Tell
            <4> QED BY <3>2, <4>1, <4>2, <4>3
        <3> QED BY <3>1, <3>2 DEF SetNetworkProvider
    <2> QED BY <2>1, <2>2, <2>3, <2>4
<1>2. /\ heard.state \in [Setting -> SUBSET BOOLEAN]
      /\ heard.handlers \subseteq [Remembered -> BOOLEAN]
      /\ status \in [Remembered -> BOOLEAN]
    BY SettingsFacts DEF SettingsIInv
<1>3. SettingsTypeOK'
    <2>1. heard' \in [state    : [Setting -> SUBSET BOOLEAN],
                      handlers : SUBSET [Remembered -> BOOLEAN],
                      backend  : SUBSET Backend]
        BY <1>1, <1>2
    <2> QED BY <1>1, <1>2, <2>1 DEF SettingsTypeOK
<1>4. SettingsStored'
    BY <1>1 DEF SettingsIInv, SettingsAgree, SettingsStored
<1>5. SubscribersKnow'
    BY <1>1 DEF SettingsIInv, SettingsAgree, SubscribersKnow
<1> QED BY <1>3, <1>4, <1>5 DEF SettingsIInv, SettingsAgree

LEMMA SettingsKeep ==
    ASSUME SettingsIInv, SettingsNext \/ SettingsRestart \/ UNCHANGED settingsVars,
           may' = may
    PROVE  SettingsIInv'
<1>1. CASE UNCHANGED settingsVars
    BY <1>1 DEF SettingsIInv, SettingsTypeOK, SettingsAgree, SettingsStored,
                SubscribersKnow, settingsVars
<1>2. ASSUME NEW h \in Setting, GetState(h) PROVE SettingsIInv'
    BY <1>2, GetStateKeeps
<1>3. ASSUME NEW h \in Setting, NEW on \in BOOLEAN, SetState(h, on)
      PROVE  SettingsIInv'
    BY <1>3, SetStateKeeps
<1> QED BY <1>1, <1>2, <1>3, ProviderKeeps, SettingsRestartKeeps DEF SettingsNext

-----------------------------------------------------------------------------
(* The engine's status.                                                    *)

(* Once the HAL's thread is done, the last report on the way is the        *)
(* engine's status; with none on the way whoever subscribed knows it, and  *)
(* a call that is under way has read it and has it in the cache.           *)
StatusIInv ==
    /\ StatusTypeOK
    /\ reporting = "idle" /\ reports # <<>> => (Last1(reports) <=> engine)
    /\ reporting = "idle" /\ reports = <<>> =>
           /\ informed \subseteq {engine}
           /\ ~ Idle => (asking.saw <=> engine)
           /\ asking.at = "cached" => (cached <=> engine)

LEMMA StatusStarts ==
    (StatusInit => StatusIInv) /\ (StatusRestart => StatusIInv')
<1>1. <<>> \in Seq(BOOLEAN) /\ Len(<<>>) <= MaxStatus
    BY ShortQueues, StatusAssumption DEF StatusAssumption
<1>2. ASSUME StatusInit PROVE StatusIInv
    <2>1. /\ engine = FALSE /\ cached = FALSE /\ reporting = "idle"
          /\ asking = NotAsking /\ reports = <<>> /\ informed = {}
        BY <1>2 DEF StatusInit
    <2>2. NotAsking.at = "idle" /\ NotAsking \in [at : {"idle", "read", "cached"}, saw : BOOLEAN]
        BY DEF NotAsking
    <2>3. StatusTypeOK
        BY <1>1, <2>1, <2>2 DEF StatusTypeOK
    <2> QED BY <2>1, <2>2, <2>3 DEF StatusIInv, Idle
<1>3. ASSUME StatusRestart PROVE StatusIInv'
    <2>1. /\ engine' = FALSE /\ cached' = FALSE /\ reporting' = "idle"
          /\ asking' = NotAsking /\ reports' = <<>> /\ informed' = {}
        BY <1>3 DEF StatusRestart
    <2>2. NotAsking.at = "idle" /\ NotAsking \in [at : {"idle", "read", "cached"}, saw : BOOLEAN]
        BY DEF NotAsking
    <2>3. StatusTypeOK'
        BY <1>1, <2>1, <2>2 DEF StatusTypeOK
    <2> QED BY <2>1, <2>2, <2>3 DEF StatusIInv, Idle
<1> QED BY <1>2, <1>3

LEMMA StatusKeep ==
    ASSUME StatusIInv, StatusNext \/ StatusRestart \/ UNCHANGED statusVars
    PROVE  StatusIInv'
<1> USE DEF Idle
<1>0. /\ engine \in BOOLEAN /\ cached \in BOOLEAN
      /\ reporting \in {"idle", "set", "cached"}
      /\ asking \in [at : {"idle", "read", "cached"}, saw : BOOLEAN]
      /\ reports \in Seq(BOOLEAN) /\ Len(reports) <= MaxStatus
      /\ Len(reports) \in Nat /\ MaxStatus \in Nat
      /\ informed \in SUBSET BOOLEAN
    BY StatusAssumption DEF StatusIInv, StatusTypeOK, StatusAssumption
<1>1. CASE UNCHANGED statusVars
    BY <1>1 DEF StatusIInv, StatusTypeOK, statusVars
<1>2. CASE HalStatus
    BY <1>0, <1>2 DEF HalStatus, StatusIInv, StatusTypeOK
<1>3. CASE HalCaches
    BY <1>0, <1>3 DEF HalCaches, StatusIInv, StatusTypeOK
<1>4. CASE HalReports
    <2>1. /\ reports' = Append(reports, engine) /\ Len(reports) < MaxStatus
          /\ UNCHANGED <<informed, engine, cached, asking>> /\ reporting' = "idle"
        BY <1>4 DEF HalReports
    <2>2. /\ reports' \in Seq(BOOLEAN) /\ reports' # <<>>
          /\ Last1(reports') = engine /\ Len(reports') = Len(reports) + 1
        BY <1>0, <2>1, AppendLast
    <2>3. Len(reports') <= MaxStatus
        BY <1>0, <2>1, <2>2
    <2> QED BY <1>0, <2>1, <2>2, <2>3 DEF StatusIInv, StatusTypeOK
<1>5. CASE SendGPSStatus
    <2>1. /\ asking.at = "idle" /\ reports # <<>> /\ reports' = Tail(reports)
          /\ informed' \subseteq {Head(reports)}
          /\ UNCHANGED <<engine, cached, reporting, asking>>
        BY <1>5 DEF SendGPSStatus
    <2>2. /\ Head(reports) \in BOOLEAN /\ reports' \in Seq(BOOLEAN)
          /\ Len(reports') <= Len(reports)
          /\ reports' = <<>> => Head(reports) = Last1(reports)
          /\ reports' # <<>> => Last1(reports') = Last1(reports)
        BY <1>0, <2>1, TailLast
    <2>3. /\ StatusTypeOK'
        <3>1. /\ Len(reports') \in Nat /\ Len(reports') <= MaxStatus
            BY <1>0, <2>2
        <3> QED BY <1>0, <2>1, <2>2, <3>1 DEF StatusTypeOK
    <2>4. reporting' = "idle" => (Last1(reports) <=> engine)
        BY <2>1 DEF StatusIInv
    <2>5. reporting' = "idle" /\ reports' = <<>> => informed' \subseteq {engine'}
        BY <1>0, <2>1, <2>2, <2>4
    <2> QED BY <2>1, <2>2, <2>3, <2>4, <2>5 DEF StatusIInv
<1>6. CASE GetGpsStatus
    BY <1>0, <1>6 DEF GetGpsStatus, StatusIInv, StatusTypeOK
<1>7. CASE GetGpsStatusCaches
    BY <1>0, <1>7 DEF GetGpsStatusCaches, StatusIInv, StatusTypeOK
<1>8. ASSUME NEW subscribe \in BOOLEAN, GetGpsStatusReplies(subscribe)
      PROVE  StatusIInv'
    <2>1. /\ asking.at = "cached" /\ asking' = NotAsking
          /\ informed' \subseteq informed \cup {cached}
          /\ UNCHANGED <<engine, cached, reporting, reports>>
        BY <1>8 DEF GetGpsStatusReplies
    <2>2. asking'.at = "idle" /\ asking' \in [at : {"idle", "read", "cached"}, saw : BOOLEAN]
        BY <2>1 DEF NotAsking
    <2>3. StatusTypeOK'
        BY <1>0, <2>1, <2>2 DEF StatusTypeOK
    <2>4. reporting' = "idle" /\ reports' = <<>> => informed' \subseteq {engine'}
        BY <1>0, <2>1 DEF StatusIInv
    <2> QED BY <2>1, <2>2, <2>3, <2>4 DEF StatusIInv
<1>9. CASE StatusRestart
    BY <1>9, StatusStarts
<1> QED BY <1>1, <1>2, <1>3, <1>4, <1>5, <1>6, <1>7, <1>8, <1>9 DEF StatusNext

-----------------------------------------------------------------------------
(* The service as a whole: each part keeps its own invariant, and a step   *)
(* of one leaves what the others' invariants are about as it was.          *)

ServiceIInv == /\ ConnIInv /\ GeoIInv /\ SettingsIInv /\ StatusIInv
               /\ StoredIInv

LEMMA ServiceBegins ==
    ServiceInit => ServiceIInv
BY ConnectionAssumption, ConnStarts, NoTasks, SettingsStart, StatusStarts,
   StoredStarts DEF ServiceInit, ServiceIInv

(* What a step of the service is for each of its parts.                    *)
LEMMA PartSteps ==
    ASSUME [ServiceNext]_serviceVars
    PROVE  /\ may' = may
           /\ ConnNext \/ ConnRestart \/ UNCHANGED connVars
           /\ GeoNext \/ GeoRestart \/ UNCHANGED geoVars
           /\ SettingsNext \/ SettingsRestart \/ UNCHANGED settingsVars
           /\ StatusNext \/ StatusRestart \/ UNCHANGED statusVars
           /\ StoredNext \/ StoredRestart \/ UNCHANGED storedVars
<1>1. CASE Connection
    BY <1>1 DEF Connection
<1>2. CASE Geocodes
    BY <1>2 DEF Geocodes
<1>3. CASE Settings
    BY <1>3 DEF Settings
<1>4. CASE GpsStatus
    BY <1>4 DEF GpsStatus
<1>5. CASE Positions
    BY <1>5 DEF Positions
<1>6. CASE Restart
    BY <1>6 DEF Restart
<1>7. CASE UNCHANGED serviceVars
    BY <1>7 DEF serviceVars
<1> QED BY <1>1, <1>2, <1>3, <1>4, <1>5, <1>6, <1>7 DEF ServiceNext

LEMMA ServiceKeeps ==
    ASSUME ServiceIInv, [ServiceNext]_serviceVars PROVE ServiceIInv'
<1>1. ConnIInv'
    BY PartSteps, ConnKeeps DEF ServiceIInv
<1>2. GeoIInv'
    BY PartSteps, GeoKeep DEF ServiceIInv
<1>3. SettingsIInv'
    BY PartSteps, SettingsKeep DEF ServiceIInv
<1>4. StatusIInv'
    BY PartSteps, StatusKeep DEF ServiceIInv
<1>5. StoredIInv'
    BY PartSteps, StoredKeep DEF ServiceIInv
<1> QED BY <1>1, <1>2, <1>3, <1>4, <1>5 DEF ServiceIInv

THEOREM ServiceInvariant == ServiceSpec => []ServiceIInv
<1>1. ServiceInit => ServiceIInv
    BY ServiceBegins
<1>2. ServiceIInv /\ [ServiceNext]_serviceVars => ServiceIInv'
    BY ServiceKeeps
<1> QED BY <1>1, <1>2, PTL DEF ServiceSpec

(* Every part's state is what its code may make it (init, and all its      *)
(* handlers).                                                              *)
THEOREM ServiceTypes == ServiceSpec => []ServiceTypeOK
<1>1. ServiceIInv => ServiceTypeOK
    BY DEF ServiceIInv, ServiceTypeOK, ConnIInv, GeoIInv, SettingsIInv, StatusIInv,
           StoredIInv
<1> QED BY <1>1, ServiceInvariant, PTL

(* _connectivity_status_cb and connmgrParseDataNetwork never let the       *)
(* internet and the data network part, whatever the reply.                 *)
THEOREM InternetAndNetwork == ServiceSpec => []NetworkGoesWithInternet
<1>1. ServiceIInv => NetworkGoesWithInternet
    BY DEF ServiceIInv, ConnIInv
<1> QED BY <1>1, ServiceInvariant, PTL

(* A dead service leaves no connection behind, however its last replies    *)
(* and its successor's overtake each other and whatever they carry.        *)
THEOREM DeadAreForgotten == ServiceSpec => []NoConnectionOfTheDead
<1>1. ServiceIInv => NoConnectionOfTheDead
    BY ConnKnown DEF ServiceIInv
<1> QED BY <1>1, ServiceInvariant, PTL

(* Through every restart of the services and of this one, a service that   *)
(* runs is subscribed to again and its state known.                        *)
THEOREM RunningAreKnown == ServiceSpec => []KnownWhenQuiet
<1>1. ServiceIInv => KnownWhenQuiet
    BY ConnKnown DEF ServiceIInv
<1> QED BY <1>1, ServiceInvariant, PTL

(* _resume_cb resumes the engine once for each sleep of the kernel.        *)
THEOREM ResumesFollowSleeps == ServiceSpec => []OneResumePerSleep
<1>1. ServiceIInv => OneResumePerSleep
    BY DEF ServiceIInv, ConnIInv
<1> QED BY <1>1, ServiceInvariant, PTL

(* A geocoding call's message is kept for its one task or answered once.   *)
THEOREM CallsAreAnsweredOnce == ServiceSpec => []MessagesAreKept
<1>1. ServiceIInv => MessagesAreKept
    BY MessagesKept DEF ServiceIInv
<1> QED BY <1>1, ServiceInvariant, PTL

(* Store, memory and subscribers agree on the settings as far as           *)
(* luna-prefs works and setState and setNetworkProvider look.              *)
THEOREM SettingsStayTogether == ServiceSpec => []SettingsAgree
<1>1. ServiceIInv => SettingsAgree
    BY DEF ServiceIInv, SettingsIInv
<1> QED BY <1>1, ServiceInvariant, PTL

(* gpsStatusCb and getGpsStatus race for the cache; when both are done     *)
(* every subscriber knows the engine's status.                             *)
THEOREM EngineStatusArrives == ServiceSpec => []EngineKnown
<1>1. ServiceIInv => EngineKnown
    BY DEF ServiceIInv, StatusIInv, EngineKnown
<1> QED BY <1>1, ServiceInvariant, PTL

(* The files of set_store_position hold what was reported last, except     *)
(* where a write is known to have come to nothing.                         *)
THEOREM PositionsAreKept == ServiceSpec => []FilesAreKept
<1>1. ServiceIInv => FilesAreKept
    BY KeptFiles DEF ServiceIInv
<1> QED BY <1>1, ServiceInvariant, PTL

(* getCachedPosition's answers to "hybrid" go forward in time.             *)
THEOREM AnswersGoForward == ServiceSpec => NeverBackInTime
<1>1. ServiceIInv /\ [ServiceNext]_serviceVars => [Forward]_storedVars
    <2> SUFFICES ASSUME ServiceIInv, [ServiceNext]_serviceVars,
                        answer.to = "hybrid", answer'.to = "hybrid",
                        answer.fix # NoFix, answer'.fix # NoFix,
                        Writing("gps") = {}, lost = {}, "mock" \notin may
                 PROVE  answer'.fix.at >= answer.fix.at
        BY DEF Forward
    <2>1. StoredIInv /\ (StoredNext \/ StoredRestart \/ UNCHANGED storedVars)
        BY PartSteps DEF ServiceIInv
    <2> QED BY <2>1, StoredForward
<1> QED BY <1>1, ServiceInvariant, PTL DEF ServiceSpec, NeverBackInTime
=============================================================================
