----------------------- MODULE ConnectionStateProofs -----------------------
(***************************************************************************)
(* What holds of the connection state for every bound on the queues and    *)
(* the sleeps: what a callback tells, the queues, and the steps.  The      *)
(* theorems are those of the service as a whole, in ServiceStateProofs.    *)
(***************************************************************************)
EXTENDS ConnectionState, TLAPS

(* What the listeners believe of a service, given what they were told.     *)
Forgotten(s, t) == (s = "wan" => ~ t.internet) /\ (s = "wifi" => ~ t.wifi)

Knows(s, t, v) == /\ s = "wifi" => (t.wifi <=> v)
                  /\ s = "wan"  => /\ t.internet <=> v.internet
                                   /\ t.network.type = DataType(v.link)
                  /\ s = "telephony" => (t.telephony <=> v)

Tellable == [wifi : BOOLEAN, wifiInternet : BOOLEAN, internet : BOOLEAN,
             telephony : BOOLEAN, network : Network]

Last1(q) == q[Len(q)]

(* Nobody is left who could bring a dead service's connection back: an     *)
(* open queue of a service without a subscription ends with the error.     *)
Dead(s) == s \notin subscribed =>
               /\ replies[s] # <<>> => Last1(replies[s]) = Down
               /\ replies[s] = <<>> => Forgotten(s, told)

(* Without trouble a service that runs is subscribed to, or its news is    *)
(* the last on the way; and the last reply on the way is its state.        *)
Live(s) ==
    may \cap Trouble = {} =>
        /\ s \in up /\ s \notin subscribed => hub[s] # <<>> /\ Last1(hub[s])
        /\ s \in subscribed /\ replies[s] # <<>> =>
               \E x \in Reports(s, state[s]) : Last1(replies[s]) = Status(x)
        /\ s \in subscribed /\ replies[s] = <<>> => Knows(s, told, state[s])

ConnIInv == /\ ConnTypeOK /\ OneResumePerSleep /\ NetworkGoesWithInternet
            /\ \A s \in Service : Dead(s) /\ Live(s)

-----------------------------------------------------------------------------
(* Queues.                                                                 *)

LEMMA AppendLast ==
    ASSUME NEW S, NEW q \in Seq(S), NEW x \in S
    PROVE  /\ Append(q, x) \in Seq(S) /\ Append(q, x) # <<>>
           /\ Last1(Append(q, x)) = x
           /\ Len(Append(q, x)) = Len(q) + 1
BY DEF Last1

LEMMA TailLast ==
    ASSUME NEW S, NEW q \in Seq(S), q # <<>>
    PROVE  /\ Head(q) \in S /\ Tail(q) \in Seq(S)
           /\ Len(Tail(q)) <= Len(q)
           /\ Tail(q) = <<>> => Head(q) = Last1(q)
           /\ Tail(q) # <<>> => Last1(Tail(q)) = Last1(q)
<1>1. Len(q) \in Nat /\ Len(q) # 0 /\ Len(Tail(q)) = Len(q) - 1
    OBVIOUS
<1>2. Head(q) \in S /\ Tail(q) \in Seq(S) /\ Head(q) = q[1]
    OBVIOUS
<1>3. Tail(q) = <<>> => Head(q) = Last1(q)
    <2>1. Tail(q) = << >> => Len(Tail(q)) = 0
        <3>1. Len(<< >>) = 0
            OBVIOUS
        <3> QED BY <3>1
    <2>2. Tail(q) = << >> => Len(q) = 1
        BY <1>1, <2>1
    <2> QED BY <1>2, <2>2 DEF Last1
<1>4. Tail(q) # <<>> => Last1(Tail(q)) = Last1(q)
    <2> SUFFICES ASSUME Tail(q) # <<>> PROVE Last1(Tail(q)) = Last1(q)
        OBVIOUS
    <2>1. Len(Tail(q)) \in 1 .. Len(q) - 1
        BY <1>1, <1>2
    <2>2. \A i \in 1 .. Len(q) - 1 : Tail(q)[i] = q[i + 1]
        OBVIOUS
    <2>3. Tail(q)[Len(Tail(q))] = q[Len(q)]
        BY <1>1, <2>1, <2>2
    <2> QED BY <2>3 DEF Last1
<1> QED BY <1>1, <1>2, <1>3, <1>4

(* What is left when a reply is taken from the front, or from behind       *)
(* errors, ends as before.                                                 *)
LEMMA RemoveLast ==
    ASSUME NEW S, NEW q \in Seq(S), NEW i \in DOMAIN q, NEW d,
           \A j \in 1 .. (i - 1) : q[j] = d
    PROVE  /\ RemoveAt(q, i) \in Seq(S) /\ Len(RemoveAt(q, i)) = Len(q) - 1
           /\ RemoveAt(q, i) = <<>> => i = 1 /\ q[i] = Last1(q)
           /\ RemoveAt(q, i) # <<>> /\ Last1(q) = d => Last1(RemoveAt(q, i)) = d
           /\ RemoveAt(q, i) # <<>> /\ i = 1 => Last1(RemoveAt(q, i)) = Last1(q)
<1> DEFINE a == SubSeq(q, 1, i - 1)
           b == SubSeq(q, i + 1, Len(q))
           r == RemoveAt(q, i)
<1>1. Len(q) \in Nat /\ i \in 1 .. Len(q)
    OBVIOUS
<1>2. /\ a \in Seq(S) /\ Len(a) = i - 1
      /\ \A j \in 1 .. (i - 1) : a[j] = q[j]
    BY <1>1
<1>3. /\ b \in Seq(S) /\ Len(b) = Len(q) - i
      /\ \A j \in 1 .. (Len(q) - i) : b[j] = q[j + i]
    BY <1>1
<1>4. r = a \o b
    BY DEF RemoveAt
<1> HIDE DEF a, b
<1>5. /\ r \in Seq(S) /\ Len(r) = Len(q) - 1
      /\ \A j \in 1 .. Len(q) - 1 : r[j] = IF j <= i - 1 THEN a[j] ELSE b[j - (i - 1)]
    BY <1>1, <1>2, <1>3, <1>4
<1> HIDE DEF r
<1>6. r = <<>> => Len(q) = 1
    <2>1. Len(<< >>) = 0
        OBVIOUS
    <2>2. r = <<>> => Len(r) = 0
        BY <2>1
    <2> QED BY <1>1, <1>5, <2>2
<1>7. r # <<>> => Len(q) > 1
    BY <1>1, <1>5
<1>8. ASSUME r # <<>> PROVE r[Len(r)] = q[Len(q)] \/ (r[Len(r)] = d /\ i # 1)
    <2>1. Len(r) \in 1 .. Len(q) - 1 /\ Len(r) = Len(q) - 1
        BY <1>1, <1>5, <1>7, <1>8
    <2>2. CASE i = Len(q)
        <3>1. Len(r) \in 1 .. (i - 1)
            BY <1>1, <2>1, <2>2
        <3>2. r[Len(r)] = a[Len(r)]
            BY <1>5, <2>1, <3>1
        <3>3. r[Len(r)] = d
            BY <1>2, <3>1, <3>2
        <3> QED BY <1>1, <1>7, <1>8, <2>2, <3>3
    <2>3. CASE i # Len(q)
        <3>1. Len(q) - i \in 1 .. (Len(q) - i) /\ ~ (Len(r) <= i - 1)
            BY <1>1, <2>1, <2>3
        <3>2. Len(r) - (i - 1) = Len(q) - i /\ (Len(q) - i) + i = Len(q)
            BY <1>1, <2>1
        <3>3. r[Len(r)] = b[Len(r) - (i - 1)]
            BY <1>5, <2>1, <3>1
        <3>4. b[Len(q) - i] = q[(Len(q) - i) + i]
            BY <1>3, <3>1
        <3> QED BY <3>2, <3>3, <3>4
    <2> QED BY <2>2, <2>3
<1> QED BY <1>1, <1>5, <1>6, <1>8 DEF Last1, r

-----------------------------------------------------------------------------
(* What a callback tells.                                                  *)

LEMMA MessageKinds ==
    ASSUME NEW s \in Service, NEW m \in Message(s)
    PROVE  \/ m = Down /\ m.kind = "down"
           \/ m.kind \in {"error", "bare", "empty", "junk"} /\ m # Down
           \/ /\ m.kind = "status" /\ m # Down
              /\ \E v \in States(s) : \E x \in Reports(s, v) :
                     m = Status(x) /\ m.body = x
<1>1. CASE m = Down
    BY <1>1 DEF Down
<1>2. CASE m \in Odd
    <2> PICK k \in {"error", "bare", "empty", "junk"} : m = [kind |-> k]
        BY <1>2 DEF Odd
    <2>1. m.kind = k
        OBVIOUS
    <2> QED BY <2>1 DEF Down
<1>3. CASE \E v \in States(s) : \E x \in Reports(s, v) : m = Status(x)
    <2> PICK v \in States(s) : \E x \in Reports(s, v) : m = Status(x)
        BY <1>3
    <2> PICK x \in Reports(s, v) : m = Status(x)
        OBVIOUS
    <2>1. m.kind = "status" /\ m.body = x
        BY DEF Status
    <2> QED BY <2>1 DEF Down
<1> QED BY <1>1, <1>2, <1>3 DEF Message

LEMMA TellableFields ==
    ASSUME told \in Tellable
    PROVE  /\ DOMAIN told = {"wifi", "wifiInternet", "internet", "telephony",
                             "network"}
           /\ told.wifi \in BOOLEAN /\ told.wifiInternet \in BOOLEAN
           /\ told.internet \in BOOLEAN /\ told.telephony \in BOOLEAN
           /\ told.network \in Network
           /\ \A b \in BOOLEAN : /\ [told EXCEPT !.wifi = b] \in Tellable
                                 /\ [told EXCEPT !.telephony = b] \in Tellable
           /\ \A b, c \in BOOLEAN :
                  [told EXCEPT !.wifi = b, !.wifiInternet = c] \in Tellable
           /\ \A b \in BOOLEAN, n \in Network :
                  [told EXCEPT !.internet = b, !.network = n] \in Tellable
BY DEF Tellable

LEMMA WifiFacts ==
    ASSUME told \in Tellable, NEW m \in Message("wifi")
    PROVE  /\ WifiTold(m) \in Tellable
           /\ WifiTold(m).internet = told.internet
           /\ WifiTold(m).network = told.network
           /\ WifiTold(m).telephony = told.telephony
           /\ m = Down => ~ WifiTold(m).wifi
           /\ \A v \in BOOLEAN : \A x \in Reports("wifi", v) :
                  m = Status(x) => (WifiTold(m).wifi <=> v)
<1> DEFINE t == WifiTold(m)
<1>1. CASE Ignored(m)
    <2>0. m.kind \in {"error", "junk"}
        BY <1>1 DEF Ignored
    <2>1. t = told /\ m # Down /\ m.kind # "status"
        BY <1>1, <2>0 DEF WifiTold, Down, Status
    <2>2. \A x : m # Status(x)
        BY <2>1 DEF Status
    <2> QED BY <2>1, <2>2
<1>2. CASE ~ Ignored(m) /\ m.kind # "status"
    <2>0. m.kind \in {"down", "bare", "empty"}
        BY <1>2, MessageKinds DEF Ignored, Service
    <2>1. t = [told EXCEPT !.wifi = FALSE]
        BY <1>2, <2>0 DEF WifiTold, Status
    <2>2. \A x : m # Status(x)
        BY <1>2 DEF Status
    <2> QED BY <2>1, <2>2, TellableFields
<1>3. CASE ~ Ignored(m) /\ m.kind = "status"
    <2>1. m # Down
        BY <1>3 DEF Down
    <2>0. PICK v0 \in BOOLEAN : \E x \in Reports("wifi", v0) : m = Status(x)
        <3>1. "wifi" \in Service /\ States("wifi") = BOOLEAN
            BY DEF Service, States
        <3> QED BY <1>3, <2>1, <3>1, MessageKinds
    <2>2. PICK x0 \in Reports("wifi", v0) : m = Status(x0)
        BY <2>0
    <2>3. \A x : m = Status(x) => x = x0
        BY <2>2 DEF Status
    <2>4. /\ v0 => x0 \in {"serviceEnabled", "connectionStateChanged"}
          /\ ~ v0 => x0 = "serviceDisabled"
        BY <2>2 DEF Reports
    <2>5. \A v \in BOOLEAN : x0 \in Reports("wifi", v) => (v <=> v0)
        BY <2>4 DEF Reports
    <2>6. /\ t \in Tellable /\ t.internet = told.internet
          /\ t.network = told.network /\ t.telephony = told.telephony
          /\ t.wifi <=> v0
        <3>1. CASE x0 = "serviceEnabled"
            <4>0. m = Status("serviceEnabled")
                BY <2>2, <3>1
            <4>1. t = [told EXCEPT !.wifi = TRUE] /\ v0
                BY <1>3, <2>4, <3>1, <4>0 DEF WifiTold
            <4> QED BY <4>1, TellableFields
        <3>2. CASE x0 # "serviceEnabled"
            <4> DEFINE on == m = Status("connectionStateChanged")
            <4>0. m # Status("serviceEnabled")
                BY <2>3, <3>2
            <4>1. t = [told EXCEPT !.wifi = on, !.wifiInternet = on]
                BY <1>3, <4>0 DEF WifiTold
            <4>2. on <=> v0
                BY <2>2, <2>3, <2>4, <3>2
            <4>3. on \in BOOLEAN
                OBVIOUS
            <4> HIDE DEF on
            <4> QED BY <4>1, <4>2, <4>3, TellableFields
        <3> QED BY <3>1, <3>2
    <2> HIDE DEF t
    <2> QED BY <2>1, <2>3, <2>5, <2>6 DEF t
<1> QED BY <1>1, <1>2, <1>3

LEMMA WanFacts ==
    ASSUME told \in Tellable, NEW m \in Message("wan")
    PROVE  /\ WanTold(m) \in Tellable
           /\ WanTold(m).wifi = told.wifi
           /\ WanTold(m).telephony = told.telephony
           /\ (told.network.connected <=> told.internet) =>
                 (WanTold(m).network.connected <=> WanTold(m).internet)
           /\ m = Down => ~ WanTold(m).internet
           /\ \A v \in Wan :
                  m = Status(v) => /\ WanTold(m).internet <=> v.internet
                                   /\ WanTold(m).network.type = DataType(v.link)
<1> DEFINE t == WanTold(m)
<1>1. CASE Ignored(m)
    <2>1. t = told /\ m # Down /\ m.kind # "status"
        BY <1>1 DEF WanTold, Ignored, Down
    <2>2. \A x : m # Status(x)
        BY <2>1 DEF Status
    <2> QED BY <2>1, <2>2
<1>2. CASE ~ Ignored(m) /\ m.kind # "status"
    <2> DEFINE n == [connected |-> FALSE, type |-> "MOBILE"]
    <2>1. t = [told EXCEPT !.internet = FALSE, !.network = n]
        BY <1>2 DEF WanTold, ParseDataNetwork, NoNetwork
    <2>2. \A x : m # Status(x)
        BY <1>2 DEF Status
    <2>3. n \in Network /\ ~ n.connected
        BY DEF Network
    <2> HIDE DEF n
    <2> QED BY <2>1, <2>2, <2>3, TellableFields
<1>3. CASE ~ Ignored(m) /\ m.kind = "status"
    <2>1. m # Down
        BY <1>3 DEF Down
    <2>2. PICK w \in Wan : m = Status(w) /\ m.body = w
        <3>1. "wan" \in Service /\ Down.kind = "down"
            BY DEF Service, Down
        <3>2. PICK v \in States("wan") : \E x \in Reports("wan", v) :
                  m = Status(x) /\ m.body = x
            BY <1>3, <2>1, <3>1, MessageKinds
        <3> QED BY <3>2 DEF States, Reports
    <2>3. \A x : m = Status(x) => x = w
        BY <2>2 DEF Status
    <2>4. w.internet \in BOOLEAN /\ DataType(w.link) \in {"WIFI", "MOBILE"}
        BY <2>2 DEF Wan, DataType
    <2> DEFINE n == [connected |-> w.internet /\ w.internet,
                     type |-> DataType(w.link)]
    <2>5. t = [told EXCEPT !.internet = w.internet, !.network = n]
        BY <1>3, <2>2, <2>4 DEF WanTold, ParseDataNetwork
    <2>6. n \in Network /\ (n.connected <=> w.internet) /\ n.type = DataType(w.link)
        BY <2>4 DEF Network
    <2> HIDE DEF n
    <2> QED BY <2>1, <2>3, <2>4, <2>5, <2>6, TellableFields
<1> QED BY <1>1, <1>2, <1>3

LEMMA TelephonyFacts ==
    ASSUME told \in Tellable, NEW m \in Message("telephony")
    PROVE  /\ TelephonyTold(m) \in Tellable
           /\ TelephonyTold(m).wifi = told.wifi
           /\ TelephonyTold(m).internet = told.internet
           /\ TelephonyTold(m).network = told.network
           /\ \A v \in BOOLEAN :
                  m = Status(v) => (TelephonyTold(m).telephony <=> v)
<1> DEFINE t == TelephonyTold(m)
<1>1. CASE Ignored(m) \/ m = Down
    <2>1. t = told /\ m.kind # "status"
        BY <1>1 DEF TelephonyTold, Ignored, Down
    <2>2. \A x : m # Status(x)
        BY <2>1 DEF Status
    <2> QED BY <2>1, <2>2
<1>2. CASE ~ (Ignored(m) \/ m = Down) /\ m.kind # "status"
    <2>1. t = [told EXCEPT !.telephony = FALSE]
        BY <1>2 DEF TelephonyTold
    <2>2. \A x : m # Status(x)
        BY <1>2 DEF Status
    <2> QED BY <2>1, <2>2, TellableFields
<1>3. CASE ~ (Ignored(m) \/ m = Down) /\ m.kind = "status"
    <2>1. PICK v0 \in BOOLEAN : m = Status(v0) /\ m.body = v0
        <3>1. "telephony" \in Service /\ Down.kind = "down"
            BY DEF Service, Down
        <3>2. PICK v \in States("telephony") : \E x \in Reports("telephony", v) :
                  m = Status(x) /\ m.body = x
            BY <1>3, <3>1, MessageKinds
        <3> QED BY <3>2 DEF States, Reports
    <2>2. \A x : m = Status(x) => x = v0
        BY <2>1 DEF Status
    <2>3. t = [told EXCEPT !.telephony = v0]
        BY <1>3, <2>1 DEF TelephonyTold
    <2> QED BY <2>1, <2>2, <2>3, TellableFields
<1> QED BY <1>1, <1>2, <1>3

(* What any callback tells, by the service whose reply it is.              *)
Told(s, i) == /\ s = "wifi"      => told' = WifiTold(replies[s][i])
              /\ s = "wan"       => told' = WanTold(replies[s][i])
              /\ s = "telephony" => told' = TelephonyTold(replies[s][i])

LEMMA ToldFacts ==
    ASSUME told \in Tellable, NetworkGoesWithInternet,
           NEW s \in Service, NEW i, replies[s][i] \in Message(s), Told(s, i)
    PROVE  /\ told' \in Tellable /\ NetworkGoesWithInternet'
           /\ replies[s][i] = Down => Forgotten(s, told')
           /\ \A v \in States(s) : \A x \in Reports(s, v) :
                  replies[s][i] = Status(x) => Knows(s, told', v)
           /\ \A u \in Service \ {s} :
                  /\ Forgotten(u, told) => Forgotten(u, told')
                  /\ \A v : Knows(u, told, v) => Knows(u, told', v)
<1> DEFINE m == replies[s][i]
<1>1. CASE s = "wifi"
    <2>1. told' = WifiTold(m) /\ m \in Message("wifi")
        BY <1>1 DEF Told
    <2> HIDE DEF m
    <2>2. /\ told' \in Tellable
          /\ told'.internet = told.internet /\ told'.network = told.network
          /\ told'.telephony = told.telephony
          /\ m = Down => ~ told'.wifi
          /\ \A v \in BOOLEAN : \A x \in Reports("wifi", v) :
                 m = Status(x) => (told'.wifi <=> v)
        BY <2>1, WifiFacts
    <2>3. NetworkGoesWithInternet'
        BY <2>2 DEF NetworkGoesWithInternet
    <2>4. m = Down => Forgotten(s, told')
        BY <1>1, <2>2 DEF Forgotten
    <2>5. \A v \in States(s) : \A x \in Reports(s, v) :
              m = Status(x) => Knows(s, told', v)
        BY <1>1, <2>2 DEF Knows, States
    <2>6. \A u \in Service \ {s} :
              /\ Forgotten(u, told) => Forgotten(u, told')
              /\ \A v : Knows(u, told, v) => Knows(u, told', v)
        BY <1>1, <2>2 DEF Forgotten, Knows
    <2> QED BY <2>2, <2>3, <2>4, <2>5, <2>6 DEF m
<1>2. CASE s = "wan"
    <2>1. told' = WanTold(m) /\ m \in Message("wan")
        BY <1>2 DEF Told
    <2> HIDE DEF m
    <2>2. /\ told' \in Tellable
          /\ told'.wifi = told.wifi /\ told'.telephony = told.telephony
          /\ told'.network.connected <=> told'.internet
          /\ m = Down => ~ told'.internet
          /\ \A v \in Wan :
                 m = Status(v) => /\ told'.internet <=> v.internet
                                  /\ told'.network.type = DataType(v.link)
        BY <2>1, WanFacts DEF NetworkGoesWithInternet
    <2>3. NetworkGoesWithInternet'
        BY <2>2 DEF NetworkGoesWithInternet
    <2>4. m = Down => Forgotten(s, told')
        BY <1>2, <2>2 DEF Forgotten
    <2>5. \A v \in States(s) : \A x \in Reports(s, v) :
              m = Status(x) => Knows(s, told', v)
        BY <1>2, <2>2 DEF Knows, States, Reports
    <2>6. \A u \in Service \ {s} :
              /\ Forgotten(u, told) => Forgotten(u, told')
              /\ \A v : Knows(u, told, v) => Knows(u, told', v)
        BY <1>2, <2>2 DEF Forgotten, Knows
    <2> QED BY <2>2, <2>3, <2>4, <2>5, <2>6 DEF m
<1>3. CASE s = "telephony"
    <2>1. told' = TelephonyTold(m) /\ m \in Message("telephony")
        BY <1>3 DEF Told
    <2> HIDE DEF m
    <2>2. /\ told' \in Tellable
          /\ told'.wifi = told.wifi /\ told'.internet = told.internet
          /\ told'.network = told.network
          /\ \A v \in BOOLEAN : m = Status(v) => (told'.telephony <=> v)
        BY <2>1, TelephonyFacts
    <2>3. NetworkGoesWithInternet'
        BY <2>2 DEF NetworkGoesWithInternet
    <2>4. m = Down => Forgotten(s, told')
        BY <1>3 DEF Forgotten
    <2>5. \A v \in States(s) : \A x \in Reports(s, v) :
              m = Status(x) => Knows(s, told', v)
        BY <1>3, <2>2 DEF Knows, States, Reports
    <2>6. \A u \in Service \ {s} :
              /\ Forgotten(u, told) => Forgotten(u, told')
              /\ \A v : Knows(u, told, v) => Knows(u, told', v)
        BY <1>3, <2>2 DEF Forgotten, Knows
    <2> QED BY <2>2, <2>3, <2>4, <2>5, <2>6 DEF m
<1> QED BY <1>1, <1>2, <1>3 DEF Service

-----------------------------------------------------------------------------
(* The steps.                                                              *)

LEMMA Statuses ==
    ASSUME NEW s \in Service, NEW v \in States(s)
    PROVE  /\ Down \in Message(s) /\ Odd \subseteq Message(s)
           /\ \A x \in Reports(s, v) : Status(x) \in Message(s)
           /\ Reports(s, v) # {}
BY DEF Message, Reports

LEMMA ShortQueues ==
    /\ \A S : <<>> \in Seq(S)
    /\ Len(<<>>) = 0
    /\ \A x : Last1(<<x>>) = x /\ <<x>> # <<>>
<1>1. Len(<<>>) = 0 /\ \A S : <<>> \in Seq(S)
    OBVIOUS
<1>2. ASSUME NEW x PROVE Last1(<<x>>) = x /\ <<x>> # <<>>
    BY DEF Last1
<1> QED BY <1>1, <1>2

LEMMA ConnStarts ==
    ASSUME ConnectionAssumption, ConnInit PROVE ConnIInv
<1>1. \A s \in Service : state[s] \in States(s)
    <2>1. \A s \in Service : States(s) # {}
        <3>1. [internet |-> TRUE, link |-> "wifi"] \in Wan
            BY DEF Wan, Link
        <3> QED BY <3>1 DEF States
    <2>2. \A s \in Service : state[s] = CHOOSE v \in States(s) : TRUE
        BY DEF ConnInit
    <2> QED BY <2>1, <2>2
<1>2. /\ \A s \in Service : /\ hub[s] \in Seq(BOOLEAN) /\ Len(hub[s]) = 1
                            /\ replies[s] = <<>>
      /\ DOMAIN hub = Service /\ DOMAIN replies = Service
      /\ DOMAIN state = Service
    BY DEF ConnInit, Registered
<1>3. \A s \in Service : replies[s] \in Seq(Message(s)) /\ Len(replies[s]) = 0
    BY <1>2, ShortQueues
<1>4. told \in Tellable /\ NetworkGoesWithInternet
      /\ \A s \in Service : Forgotten(s, told)
    BY DEF ConnInit, Registered, Untold, NoNetwork, Network, Tellable, Forgotten,
           NetworkGoesWithInternet
<1>5. ConnTypeOK
    <2>1. 0 <= MaxReplies /\ 1 <= MaxReplies /\ 0 \in 0 .. MaxSleeps
        BY DEF ConnectionAssumption
    <2>2. \A s \in Service : Len(hub[s]) <= MaxReplies /\ Len(replies[s]) <= MaxReplies
        BY <1>2, <1>3, <2>1
    <2> QED BY <1>1, <1>2, <1>3, <1>4, <2>1, <2>2
            DEF ConnTypeOK, ConnInit, Registered, Tellable
<1>6. \A s \in Service : Dead(s) /\ Live(s)
    BY <1>2, <1>4 DEF Dead, Live, ConnInit, Registered
<1>7. OneResumePerSleep
    BY DEF OneResumePerSleep, ConnInit
<1> QED BY <1>4, <1>5, <1>6, <1>7 DEF ConnIInv

LEMMA RestartKeeps ==
    ASSUME ConnectionAssumption, ConnIInv, ConnRestart, may' = may
    PROVE  ConnIInv'
<1>1. /\ \A s \in Service : /\ hub'[s] = <<s \in up>> /\ hub'[s] \in Seq(BOOLEAN)
                            /\ Len(hub'[s]) = 1
                            /\ replies'[s] = <<>>
      /\ DOMAIN hub' = Service /\ DOMAIN replies' = Service
    BY DEF ConnRestart
<1>2. \A s \in Service : replies'[s] \in Seq(Message(s)) /\ Len(replies'[s]) = 0
    BY <1>1, ShortQueues
<1>3. told' \in Tellable /\ NetworkGoesWithInternet'
      /\ \A s \in Service : Forgotten(s, told')
    BY DEF ConnRestart, Untold, NoNetwork, Network, Tellable, Forgotten,
           NetworkGoesWithInternet
<1>4. ConnTypeOK'
    <2>1. 0 <= MaxReplies /\ 1 <= MaxReplies
        BY DEF ConnectionAssumption
    <2>2. \A s \in Service : Len(hub'[s]) <= MaxReplies /\ Len(replies'[s]) <= MaxReplies
        BY <1>1, <1>2, <2>1
    <2> QED BY <1>1, <1>2, <1>3, <2>2
            DEF ConnTypeOK, ConnIInv, ConnRestart, Tellable
<1>5. \A s \in Service : Dead(s)' /\ Live(s)'
    <2> TAKE s \in Service
    <2>1. Dead(s)'
        BY <1>1, <1>3 DEF Dead
    <2>2. s \in up => hub'[s] # <<>> /\ Last1(hub'[s])
        BY <1>1, ShortQueues
    <2>3. Live(s)'
        BY <2>2 DEF Live, ConnRestart
    <2> QED BY <2>1, <2>3
<1>6. OneResumePerSleep'
    BY DEF OneResumePerSleep, ConnRestart, ConnIInv
<1> QED BY <1>3, <1>4, <1>5, <1>6 DEF ConnIInv

LEMMA StutterKeeps ==
    ASSUME ConnIInv, UNCHANGED connVars, may' = may PROVE ConnIInv'
<1>1. ConnTypeOK'
    BY DEF ConnIInv, ConnTypeOK, connVars
<1>2. \A s \in Service : Dead(s)' /\ Live(s)'
    BY DEF ConnIInv, Dead, Live, connVars
<1> QED BY <1>1, <1>2 DEF ConnIInv, OneResumePerSleep, NetworkGoesWithInternet,
                          connVars

LEMMA SleepKeeps ==
    ASSUME ConnIInv, SuspendAttempt \/ ResumeCb, may' = may,
           ConnectionAssumption
    PROVE  ConnIInv'
<1>1. UNCHANGED <<up, state, subscribed, hub, replies, told>>
    BY DEF SuspendAttempt, ResumeCb
<1>2. /\ attempt \in {"none", "slept", "aborted"} /\ OneResumePerSleep
      /\ sleeps \in 0 .. MaxSleeps /\ resumes \in 0 .. MaxSleeps /\ MaxSleeps \in Nat
    BY DEF ConnIInv, ConnTypeOK, ConnectionAssumption
<1>4. /\ attempt' \in {"none", "slept", "aborted"} /\ OneResumePerSleep'
      /\ sleeps' \in 0 .. MaxSleeps /\ resumes' \in 0 .. MaxSleeps
    <2>1. CASE SuspendAttempt
        BY <1>2, <2>1 DEF SuspendAttempt, OneResumePerSleep
    <2>2. CASE ResumeCb
        <3>1. attempt' = "none" /\ sleeps' = sleeps
            BY <2>2 DEF ResumeCb
        <3>2. attempt = "slept" => resumes' = resumes + 1
            BY <1>2, <2>2 DEF ResumeCb, ResumeType, IsKernelWake
        <3>3. attempt # "slept" => resumes' = resumes
            BY <1>2, <2>2 DEF ResumeCb, ResumeType, IsKernelWake
        <3> QED BY <1>2, <3>1, <3>2, <3>3 DEF OneResumePerSleep
    <2> QED BY <2>1, <2>2
<1>5. ConnTypeOK'
    BY <1>1, <1>4 DEF ConnIInv, ConnTypeOK
<1>6. \A s \in Service : Dead(s)' /\ Live(s)'
    BY <1>1 DEF ConnIInv, Dead, Live
<1> QED BY <1>1, <1>4, <1>5, <1>6 DEF ConnIInv, NetworkGoesWithInternet

LEMMA ServiceStartsKeeps ==
    ASSUME ConnIInv, NEW s \in Service, ServiceStarts(s), may' = may
    PROVE  ConnIInv'
<1>1. /\ UNCHANGED <<subscribed, replies, told, attempt, sleeps, resumes, may>>
      /\ s \notin up /\ up' = up \cup {s}
    BY DEF ServiceStarts
<1>2. /\ hub[s] \in Seq(BOOLEAN) /\ Len(hub[s]) < MaxReplies
      /\ DOMAIN hub = Service /\ DOMAIN state = Service
    BY DEF ConnIInv, ConnTypeOK, ServiceStarts, Room
<1>3. /\ DOMAIN hub' = Service /\ hub'[s] = Append(hub[s], TRUE)
      /\ \A u \in Service \ {s} : hub'[u] = hub[u]
    BY <1>2 DEF ServiceStarts
<1>4. PICK v \in States(s) : state' = [state EXCEPT ![s] = v]
    BY DEF ServiceStarts
<1>5. /\ DOMAIN state' = Service /\ state'[s] = v
      /\ \A u \in Service \ {s} : state'[u] = state[u]
    BY <1>2, <1>4
<1>6. /\ hub'[s] \in Seq(BOOLEAN) /\ hub'[s] # <<>> /\ Last1(hub'[s])
      /\ Len(hub'[s]) = Len(hub[s]) + 1
    <2>1. /\ hub'[s] \in Seq(BOOLEAN) /\ hub'[s] # <<>>
          /\ Last1(hub'[s]) = TRUE /\ Len(hub'[s]) = Len(hub[s]) + 1
        <3> DEFINE q == hub[s]
        <3>1. q \in Seq(BOOLEAN) /\ TRUE \in BOOLEAN
            BY <1>2
        <3> HIDE DEF q
        <3>2. /\ Append(q, TRUE) \in Seq(BOOLEAN) /\ Append(q, TRUE) # <<>>
              /\ Last1(Append(q, TRUE)) = TRUE
              /\ Len(Append(q, TRUE)) = Len(q) + 1
            BY <3>1, AppendLast
        <3> QED BY <1>3, <3>2 DEF q
    <2>2. Last1(hub'[s])
        BY <2>1
    <2> QED BY <2>1, <2>2
<1>7. MaxReplies \in Nat /\ Len(hub[s]) \in Nat /\ Len(hub'[s]) <= MaxReplies
    BY <1>2, <1>6, ConnectionAssumption DEF ConnectionAssumption
<1>8. ConnTypeOK'
    <2>1. \A u \in Service : /\ state'[u] \in States(u)
                             /\ hub'[u] \in Seq(BOOLEAN) /\ Len(hub'[u]) <= MaxReplies
        BY <1>3, <1>5, <1>6, <1>7 DEF ConnIInv, ConnTypeOK
    <2> QED BY <1>1, <1>3, <1>5, <2>1 DEF ConnIInv, ConnTypeOK
<1>9. \A u \in Service : Dead(u)' /\ Live(u)'
    <2> TAKE u \in Service
    <2>1. Dead(u)'
        BY <1>1 DEF Dead, ConnIInv
    <2>2. s \notin subscribed
        BY <1>1 DEF ConnIInv, ConnTypeOK
    <2>3. CASE u = s
        BY <1>1, <1>6, <2>1, <2>2, <2>3 DEF Live
    <2>4. CASE u # s
        <3>1. Live(u) /\ hub'[u] = hub[u] /\ state'[u] = state[u]
              /\ (u \in up' <=> u \in up)
            BY <1>1, <1>3, <1>5, <2>4 DEF ConnIInv
        <3>2. Live(u)'
            BY <1>1, <3>1 DEF Live
        <3> QED BY <2>1, <3>2
    <2> QED BY <2>3, <2>4
<1> QED BY <1>1, <1>8, <1>9 DEF ConnIInv, OneResumePerSleep, NetworkGoesWithInternet

LEMMA ServiceStopsKeeps ==
    ASSUME ConnIInv, NEW s \in Service, ServiceStops(s), may' = may
    PROVE  ConnIInv'
<1>1. /\ UNCHANGED <<state, told, attempt, sleeps, resumes, may>>
      /\ up' = up \ {s} /\ subscribed' = subscribed \ {s}
    BY DEF ServiceStops
<1>2. /\ hub[s] \in Seq(BOOLEAN) /\ Len(hub[s]) < MaxReplies
      /\ replies[s] \in Seq(Message(s)) /\ Len(replies[s]) < MaxReplies
      /\ DOMAIN hub = Service /\ DOMAIN replies = Service
      /\ MaxReplies \in Nat /\ Len(hub[s]) \in Nat /\ Len(replies[s]) \in Nat
      /\ Down \in Message(s)
    <2>1. Down \in Message(s)
        BY DEF Message
    <2> QED BY <2>1, ConnectionAssumption
            DEF ConnIInv, ConnTypeOK, ServiceStops, Room, ConnectionAssumption
<1>3. /\ DOMAIN hub' = Service /\ hub'[s] = Append(hub[s], FALSE)
      /\ DOMAIN replies' = Service
      /\ \A u \in Service \ {s} : hub'[u] = hub[u] /\ replies'[u] = replies[u]
      /\ s \in subscribed => replies'[s] = Append(replies[s], Down)
      /\ s \notin subscribed => replies' = replies
    BY <1>2 DEF ServiceStops
<1>4. /\ hub'[s] \in Seq(BOOLEAN) /\ Len(hub'[s]) <= MaxReplies
    BY <1>2, <1>3, AppendLast
<1>5. /\ replies'[s] \in Seq(Message(s)) /\ Len(replies'[s]) <= MaxReplies
      /\ s \in subscribed => replies'[s] # <<>> /\ Last1(replies'[s]) = Down
    <2>1. CASE s \notin subscribed
        BY <1>2, <1>3, <2>1
    <2>2. CASE s \in subscribed
        <3>1. /\ replies'[s] \in Seq(Message(s)) /\ replies'[s] # <<>>
              /\ Last1(replies'[s]) = Down
              /\ Len(replies'[s]) = Len(replies[s]) + 1
            <4> DEFINE q == replies[s]
                       S == Message(s)
            <4>1. q \in Seq(S) /\ Down \in S
                BY <1>2
            <4> HIDE DEF q, S
            <4>2. /\ Append(q, Down) \in Seq(S) /\ Append(q, Down) # <<>>
                  /\ Last1(Append(q, Down)) = Down
                  /\ Len(Append(q, Down)) = Len(q) + 1
                BY <4>1, AppendLast
            <4> QED BY <1>3, <2>2, <4>2 DEF q, S
        <3> QED BY <1>2, <3>1
    <2> QED BY <2>1, <2>2
<1>6. ConnTypeOK'
    <2>1. \A u \in Service : /\ hub'[u] \in Seq(BOOLEAN)
                             /\ Len(hub'[u]) <= MaxReplies
                             /\ replies'[u] \in Seq(Message(u))
                             /\ Len(replies'[u]) <= MaxReplies
        BY <1>3, <1>4, <1>5 DEF ConnIInv, ConnTypeOK
    <2> QED BY <1>1, <1>3, <2>1 DEF ConnIInv, ConnTypeOK
<1>7. \A u \in Service : Dead(u)' /\ Live(u)'
    <2> TAKE u \in Service
    <2>1. CASE u = s
        <3>1. Live(u)'
            BY <1>1, <2>1 DEF Live
        <3>2. Dead(u)'
            BY <1>1, <1>3, <1>5, <2>1 DEF Dead, ConnIInv
        <3> QED BY <3>1, <3>2
    <2>2. CASE u # s
        <3>1. /\ Live(u) /\ Dead(u) /\ hub'[u] = hub[u] /\ replies'[u] = replies[u]
              /\ (u \in up' <=> u \in up) /\ (u \in subscribed' <=> u \in subscribed)
            BY <1>1, <1>3, <2>2 DEF ConnIInv
        <3>2. Live(u)'
            BY <1>1, <3>1 DEF Live
        <3>3. Dead(u)'
            BY <1>1, <3>1 DEF Dead
        <3> QED BY <3>2, <3>3
    <2> QED BY <2>1, <2>2
<1> QED BY <1>1, <1>6, <1>7 DEF ConnIInv, OneResumePerSleep, NetworkGoesWithInternet

LEMMA ServiceChangesKeeps ==
    ASSUME ConnIInv, NEW s \in Service, ServiceChanges(s), may' = may
    PROVE  ConnIInv'
<1>1. UNCHANGED <<up, subscribed, hub, told, attempt, sleeps, resumes, may>>
    BY DEF ServiceChanges
<1>2. /\ replies[s] \in Seq(Message(s)) /\ Len(replies[s]) < MaxReplies
      /\ DOMAIN state = Service /\ DOMAIN replies = Service
      /\ MaxReplies \in Nat /\ Len(replies[s]) \in Nat
    BY ConnectionAssumption DEF ConnIInv, ConnTypeOK, ServiceChanges, Room,
       ConnectionAssumption
<1>3. PICK v \in States(s) :
          /\ state' = [state EXCEPT ![s] = v]
          /\ IF s \in subscribed
             THEN \E m \in {Status(x) : x \in Reports(s, v)}
                              \cup (IF "odd" \in may THEN Odd ELSE {}) :
                      replies' = [replies EXCEPT ![s] = Append(@, m)]
             ELSE v # state[s] /\ UNCHANGED replies
    BY DEF ServiceChanges
<1>4. /\ DOMAIN state' = Service /\ state'[s] = v
      /\ \A u \in Service \ {s} : state'[u] = state[u]
    BY <1>2, <1>3
<1>5. /\ DOMAIN replies' = Service
      /\ \A u \in Service \ {s} : replies'[u] = replies[u]
      /\ replies'[s] \in Seq(Message(s)) /\ Len(replies'[s]) <= MaxReplies
      /\ s \notin subscribed => replies' = replies
      /\ s \in subscribed /\ may \cap Trouble = {} =>
             /\ replies'[s] # <<>>
             /\ \E x \in Reports(s, v) : Last1(replies'[s]) = Status(x)
    <2>1. CASE s \notin subscribed
        BY <1>2, <1>3, <2>1
    <2>2. CASE s \in subscribed
        <3>1. PICK m \in {Status(x) : x \in Reports(s, v)}
                            \cup (IF "odd" \in may THEN Odd ELSE {}) :
                  replies' = [replies EXCEPT ![s] = Append(@, m)]
            BY <1>3, <2>2
        <3>2. m \in Message(s)
            BY <1>3, <3>1, Statuses
        <3>3. may \cap Trouble = {} => \E x \in Reports(s, v) : m = Status(x)
            BY <3>1 DEF Trouble
        <3>4. replies'[s] = Append(replies[s], m) /\ DOMAIN replies' = Service
              /\ \A u \in Service \ {s} : replies'[u] = replies[u]
            BY <1>2, <3>1
        <3>5. /\ replies'[s] \in Seq(Message(s)) /\ Last1(replies'[s]) = m
              /\ replies'[s] # <<>> /\ Len(replies'[s]) = Len(replies[s]) + 1
            BY <1>2, <3>2, <3>4, AppendLast
        <3> QED BY <1>2, <2>2, <3>3, <3>4, <3>5
    <2> QED BY <2>1, <2>2
<1>6. ConnTypeOK'
    <2>1. \A u \in Service : /\ state'[u] \in States(u)
                             /\ replies'[u] \in Seq(Message(u))
                             /\ Len(replies'[u]) <= MaxReplies
        BY <1>4, <1>5 DEF ConnIInv, ConnTypeOK
    <2> QED BY <1>1, <1>4, <1>5, <2>1 DEF ConnIInv, ConnTypeOK
<1>7. \A u \in Service : Dead(u)' /\ Live(u)'
    <2> TAKE u \in Service
    <2>0. Dead(u) /\ Live(u)
        BY DEF ConnIInv
    <2>1. CASE u = s
        <3>1. Dead(u)'
            BY <1>1, <1>5, <2>0, <2>1 DEF Dead
        <3>2. CASE s \in subscribed
            <4>1. Live(u)'
                BY <1>1, <1>4, <1>5, <2>1, <3>2 DEF Live
            <4> QED BY <3>1, <4>1
        <3>3. CASE s \notin subscribed
            <4>1. Live(u)'
                BY <1>1, <2>0, <2>1, <3>3 DEF Live
            <4> QED BY <3>1, <4>1
        <3> QED BY <3>2, <3>3
    <2>2. CASE u # s
        <3>1. replies'[u] = replies[u] /\ state'[u] = state[u]
            BY <1>4, <1>5, <2>2
        <3>2. Live(u)' /\ Dead(u)'
            BY <1>1, <2>0, <3>1 DEF Live, Dead
        <3> QED BY <3>2
    <2> QED BY <2>1, <2>2
<1> QED BY <1>1, <1>6, <1>7 DEF ConnIInv, OneResumePerSleep, NetworkGoesWithInternet

(* What is left of the hub's news still ends with what it ended with.      *)
LEMMA HubKeeps ==
    ASSUME ConnIInv, NEW s \in Service, ServiceStatusCb(s)
    PROVE  /\ DOMAIN hub' = Service
           /\ \A u \in Service \ {s} : hub'[u] = hub[u]
           /\ hub'[s] \in Seq(BOOLEAN) /\ Len(hub'[s]) <= MaxReplies
           /\ ~ Head(hub[s]) /\ Last1(hub[s]) =>
                 hub'[s] # <<>> /\ Last1(hub'[s])
<1> DEFINE q == hub[s]
<1>1. /\ q \in Seq(BOOLEAN) /\ Len(q) <= MaxReplies /\ q # <<>>
      /\ DOMAIN hub = Service /\ MaxReplies \in Nat
    BY ConnectionAssumption DEF ConnIInv, ConnTypeOK, ServiceStatusCb,
       ConnectionAssumption
<1>2. /\ DOMAIN hub' = Service /\ hub'[s] = Tail(q)
      /\ \A u \in Service \ {s} : hub'[u] = hub[u]
    BY <1>1 DEF ServiceStatusCb
<1> HIDE DEF q
<1>3. /\ Head(q) \in BOOLEAN /\ Tail(q) \in Seq(BOOLEAN) /\ Len(Tail(q)) <= Len(q)
      /\ Tail(q) = <<>> => Head(q) = Last1(q)
      /\ Tail(q) # <<>> => Last1(Tail(q)) = Last1(q)
    BY <1>1, TailLast
<1>4. Len(Tail(q)) <= MaxReplies
    BY <1>1, <1>3
<1>5. ~ Head(q) /\ Last1(q) => Tail(q) # <<>> /\ Last1(Tail(q))
    BY <1>3
<1> QED BY <1>2, <1>3, <1>4, <1>5 DEF q

(* A service that was asked is subscribed to and has its state on the way, *)
(* or is gone and has the error on the way.                                *)
LEMMA Asked ==
    ASSUME ConnIInv, NEW s \in Service, RegisterStatus(s)
    PROVE  /\ DOMAIN replies' = Service
           /\ \A u \in Service \ {s} : /\ replies'[u] = replies[u]
                                       /\ u \in subscribed' <=> u \in subscribed
           /\ subscribed' \subseteq up
           /\ replies'[s] \in Seq(Message(s)) /\ Len(replies'[s]) <= MaxReplies
           /\ \/ UNCHANGED <<subscribed, replies>> /\ "unsent" \in may
              \/ /\ s \in up /\ s \in subscribed' /\ replies'[s] # <<>>
                 /\ \E x \in Reports(s, state[s]) : Last1(replies'[s]) = Status(x)
              \/ /\ s \notin up /\ s \notin subscribed' /\ replies'[s] # <<>>
                 /\ Last1(replies'[s]) = Down
<1>1. /\ replies[s] \in Seq(Message(s)) /\ Len(replies[s]) \in Nat
      /\ Len(replies[s]) <= MaxReplies /\ DOMAIN replies = Service
      /\ MaxReplies \in Nat /\ state[s] \in States(s) /\ subscribed \subseteq up
    BY ConnectionAssumption DEF ConnIInv, ConnTypeOK, ConnectionAssumption
<1>2. CASE "unsent" \in may /\ UNCHANGED <<subscribed, replies>>
    BY <1>1, <1>2
<1>3. CASE /\ Room(replies, s)
           /\ subscribed' = subscribed \cup ({s} \cap up)
           /\ \E m \in IF s \in up THEN {Status(x) : x \in Reports(s, state[s])}
                                   ELSE {Down} :
                  replies' = [replies EXCEPT ![s] = Append(@, m)]
    <2>1. PICK m \in IF s \in up THEN {Status(x) : x \in Reports(s, state[s])}
                                 ELSE {Down} :
              replies' = [replies EXCEPT ![s] = Append(@, m)]
        BY <1>3
    <2>2. /\ m \in Message(s)
          /\ s \in up => \E x \in Reports(s, state[s]) : m = Status(x)
          /\ s \notin up => m = Down
        BY <1>1, <2>1, Statuses
    <2>3. /\ replies'[s] = Append(replies[s], m) /\ DOMAIN replies' = Service
          /\ \A u \in Service \ {s} : replies'[u] = replies[u]
        BY <1>1, <2>1
    <2>4. /\ replies'[s] \in Seq(Message(s)) /\ Last1(replies'[s]) = m
          /\ replies'[s] # <<>> /\ Len(replies'[s]) = Len(replies[s]) + 1
        BY <1>1, <2>2, <2>3, AppendLast
    <2>5. Len(replies'[s]) <= MaxReplies
        BY <1>1, <1>3, <2>4 DEF Room
    <2>6. /\ subscribed' \subseteq up
          /\ s \in up => s \in subscribed'
          /\ s \notin up => s \notin subscribed'
          /\ \A u \in Service \ {s} : u \in subscribed' <=> u \in subscribed
        BY <1>1, <1>3
    <2> QED BY <2>2, <2>3, <2>4, <2>5, <2>6
<1> QED BY <1>2, <1>3 DEF RegisterStatus

LEMMA ServiceStatusKeeps ==
    ASSUME ConnIInv, NEW s \in Service, ServiceStatusCb(s), may' = may
    PROVE  ConnIInv'
<1>1. UNCHANGED <<up, state, told, attempt, sleeps, resumes, may>>
    BY DEF ServiceStatusCb
<1>2. /\ DOMAIN replies' = Service
      /\ \A u \in Service \ {s} : /\ replies'[u] = replies[u]
                                  /\ u \in subscribed' <=> u \in subscribed
      /\ subscribed' \subseteq up
      /\ replies'[s] \in Seq(Message(s)) /\ Len(replies'[s]) <= MaxReplies
      /\ \/ /\ UNCHANGED <<subscribed, replies>>
            /\ ~ Head(hub[s]) \/ "unsent" \in may
         \/ /\ s \in up /\ s \in subscribed' /\ replies'[s] # <<>>
            /\ \E x \in Reports(s, state[s]) : Last1(replies'[s]) = Status(x)
         \/ /\ s \notin up /\ s \notin subscribed' /\ replies'[s] # <<>>
            /\ Last1(replies'[s]) = Down
    <2>1. CASE Head(hub[s]) /\ RegisterStatus(s)
        BY <2>1, Asked
    <2>2. CASE ~ Head(hub[s]) /\ UNCHANGED <<subscribed, replies>>
        BY <2>2 DEF ConnIInv, ConnTypeOK
    <2> QED BY <2>1, <2>2 DEF ServiceStatusCb
<1>3. ConnTypeOK'
    <2>1. \A u \in Service : /\ hub'[u] \in Seq(BOOLEAN) /\ Len(hub'[u]) <= MaxReplies
                             /\ replies'[u] \in Seq(Message(u))
                             /\ Len(replies'[u]) <= MaxReplies
        BY <1>2, HubKeeps DEF ConnIInv, ConnTypeOK
    <2> QED BY <1>1, <1>2, <2>1, HubKeeps DEF ConnIInv, ConnTypeOK
<1>4. \A u \in Service : Dead(u)' /\ Live(u)'
    <2> TAKE u \in Service
    <2>0. Dead(u) /\ Live(u)
        BY DEF ConnIInv
    <2>1. CASE u # s
        <3>1. /\ hub'[u] = hub[u] /\ replies'[u] = replies[u]
              /\ u \in subscribed' <=> u \in subscribed
            BY <1>2, <2>1, HubKeeps
        <3>2. Dead(u)'
            BY <1>1, <2>0, <3>1 DEF Dead
        <3>3. Live(u)'
            BY <1>1, <2>0, <3>1 DEF Live
        <3> QED BY <3>2, <3>3
    <2>2. CASE u = s /\ UNCHANGED <<subscribed, replies>>
                    /\ (~ Head(hub[s]) \/ "unsent" \in may)
        <3>1. Dead(u)'
            BY <1>1, <2>0, <2>2 DEF Dead
        <3>2. CASE "unsent" \in may
            <4>1. may' \cap Trouble # {}
                BY <1>1, <3>2 DEF Trouble
            <4> QED BY <3>1, <4>1 DEF Live
        <3>3. CASE ~ Head(hub[s])
            <4>1. Last1(hub[s]) => hub'[s] # <<>> /\ Last1(hub'[s])
                BY <3>3, HubKeeps
            <4>2. Live(u)'
                BY <1>1, <2>0, <2>2, <4>1 DEF Live
            <4> QED BY <3>1, <4>2
        <3> QED BY <2>2, <3>2, <3>3
    <2>3. CASE /\ u = s /\ s \in subscribed' /\ replies'[s] # <<>>
               /\ \E x \in Reports(s, state[s]) : Last1(replies'[s]) = Status(x)
        BY <1>1, <2>3 DEF Dead, Live
    <2>4. CASE /\ u = s /\ s \notin up /\ s \notin subscribed' /\ replies'[s] # <<>>
               /\ Last1(replies'[s]) = Down
        BY <1>1, <2>4 DEF Dead, Live
    <2> QED BY <1>2, <2>1, <2>2, <2>3, <2>4
<1> QED BY <1>1, <1>3, <1>4 DEF ConnIInv, OneResumePerSleep, NetworkGoesWithInternet

(* What was taken from the queue of s, and what is left.                   *)
LEMMA Taken ==
    ASSUME ConnIInv, NEW s \in Service, NEW i \in NextReplies(s), StatusCb(s, i)
    PROVE  /\ DOMAIN replies' = Service
           /\ \A u \in Service \ {s} : replies'[u] = replies[u]
           /\ replies'[s] \in Seq(Message(s)) /\ Len(replies'[s]) <= MaxReplies
           /\ replies[s] # <<>> /\ replies[s][i] \in Message(s)
           /\ replies'[s] = <<>> => replies[s][i] = Last1(replies[s])
           /\ replies'[s] # <<>> /\ Last1(replies[s]) = Down =>
                 Last1(replies'[s]) = Down
           /\ replies'[s] # <<>> /\ may \cap Trouble = {} =>
                 Last1(replies'[s]) = Last1(replies[s])
<1> DEFINE q == replies[s]
           S == Message(s)
<1>1. /\ q \in Seq(S) /\ Len(q) \in Nat /\ Len(q) <= MaxReplies
      /\ DOMAIN replies = Service /\ MaxReplies \in Nat
    BY ConnectionAssumption DEF ConnIInv, ConnTypeOK, ConnectionAssumption
<1>2. /\ i \in DOMAIN q /\ \A j \in 1 .. (i - 1) : q[j] = Down
      /\ may \cap Trouble = {} => i = 1
    BY DEF NextReplies, Trouble
<1>3. /\ DOMAIN replies' = Service /\ replies'[s] = RemoveAt(q, i)
      /\ \A u \in Service \ {s} : replies'[u] = replies[u]
    BY <1>1 DEF StatusCb
<1> HIDE DEF q, S
<1>4. /\ RemoveAt(q, i) \in Seq(S) /\ Len(RemoveAt(q, i)) = Len(q) - 1
      /\ RemoveAt(q, i) = <<>> => i = 1 /\ q[i] = Last1(q)
      /\ RemoveAt(q, i) # <<>> /\ Last1(q) = Down => Last1(RemoveAt(q, i)) = Down
      /\ RemoveAt(q, i) # <<>> /\ i = 1 => Last1(RemoveAt(q, i)) = Last1(q)
    BY <1>1, <1>2, RemoveLast
<1>5. Len(RemoveAt(q, i)) <= MaxReplies
    BY <1>1, <1>4
<1>6. q # <<>> /\ q[i] \in S
    BY <1>1, <1>2
<1> QED BY <1>2, <1>3, <1>4, <1>5, <1>6 DEF q, S

LEMMA StatusKeeps ==
    ASSUME ConnIInv, NEW s \in Service, NEW i \in NextReplies(s), StatusCb(s, i),
           may' = may
    PROVE  ConnIInv'
<1>1. UNCHANGED <<up, state, subscribed, hub, attempt, sleeps, resumes, may>>
    BY DEF StatusCb
<1>2. Told(s, i)
    <2>1. told' = CASE s = "wifi"      -> WifiTold(replies[s][i])
                    [] s = "wan"       -> WanTold(replies[s][i])
                    [] s = "telephony" -> TelephonyTold(replies[s][i])
        BY DEF StatusCb
    <2>2. "wifi" # "wan" /\ "wifi" # "telephony" /\ "wan" # "telephony"
        OBVIOUS
    <2>3. s = "wifi" => told' = WifiTold(replies[s][i])
        BY <2>1, <2>2, Zenon
    <2>4. s = "wan" => told' = WanTold(replies[s][i])
        BY <2>1, <2>2, Zenon
    <2>5. s = "telephony" => told' = TelephonyTold(replies[s][i])
        BY <2>1, <2>2, Zenon
    <2> QED BY <2>3, <2>4, <2>5 DEF Told
<1>3. told \in Tellable /\ NetworkGoesWithInternet
    BY DEF ConnIInv, ConnTypeOK, Tellable
<1>4. /\ told' \in Tellable /\ NetworkGoesWithInternet'
      /\ replies[s][i] = Down => Forgotten(s, told')
      /\ \A v \in States(s) : \A x \in Reports(s, v) :
             replies[s][i] = Status(x) => Knows(s, told', v)
      /\ \A u \in Service \ {s} :
             /\ Forgotten(u, told) => Forgotten(u, told')
             /\ \A v : Knows(u, told, v) => Knows(u, told', v)
    BY <1>2, <1>3, Taken, ToldFacts
<1>5. ConnTypeOK'
    <2>1. \A u \in Service : /\ replies'[u] \in Seq(Message(u))
                             /\ Len(replies'[u]) <= MaxReplies
        BY Taken DEF ConnIInv, ConnTypeOK
    <2> QED BY <1>1, <1>4, <2>1, Taken DEF ConnIInv, ConnTypeOK, Tellable
<1>6. \A u \in Service : Dead(u)' /\ Live(u)'
    <2> TAKE u \in Service
    <2>0. Dead(u) /\ Live(u) /\ state[u] \in States(u)
        BY DEF ConnIInv, ConnTypeOK
    <2>1. CASE u # s
        <3>1. replies'[u] = replies[u]
            BY <2>1, Taken
        <3>2. Dead(u)'
            BY <1>1, <1>4, <2>0, <2>1, <3>1 DEF Dead
        <3>3. Live(u)'
            BY <1>1, <1>4, <2>0, <2>1, <3>1 DEF Live
        <3> QED BY <3>2, <3>3
    <2>2. CASE u = s
        <3>1. /\ replies[s] # <<>>
              /\ replies'[s] = <<>> => replies[s][i] = Last1(replies[s])
              /\ replies'[s] # <<>> /\ Last1(replies[s]) = Down =>
                    Last1(replies'[s]) = Down
              /\ replies'[s] # <<>> /\ may \cap Trouble = {} =>
                    Last1(replies'[s]) = Last1(replies[s])
            BY Taken
        <3>2. Dead(u)'
            BY <1>1, <1>4, <2>0, <2>2, <3>1 DEF Dead
        <3>3. Live(u)'
            BY <1>1, <1>4, <2>0, <2>2, <3>1 DEF Live
        <3> QED BY <3>2, <3>3
    <2> QED BY <2>1, <2>2
<1> QED BY <1>1, <1>4, <1>5, <1>6 DEF ConnIInv, OneResumePerSleep

-----------------------------------------------------------------------------
LEMMA ConnKeeps ==
    ASSUME ConnIInv, ConnNext \/ ConnRestart \/ UNCHANGED connVars, may' = may
    PROVE  ConnIInv'
<1>1. CASE ConnRestart
    BY <1>1, RestartKeeps, ConnectionAssumption
<1>2. CASE UNCHANGED connVars
    BY <1>2, StutterKeeps
<1>3. CASE SuspendAttempt \/ ResumeCb
    BY <1>3, SleepKeeps, ConnectionAssumption
<1>4. ASSUME NEW s \in Service, ServiceStarts(s) PROVE ConnIInv'
    BY <1>4, ServiceStartsKeeps
<1>5. ASSUME NEW s \in Service, ServiceStops(s) PROVE ConnIInv'
    BY <1>5, ServiceStopsKeeps
<1>6. ASSUME NEW s \in Service, ServiceChanges(s) PROVE ConnIInv'
    BY <1>6, ServiceChangesKeeps
<1>7. ASSUME NEW s \in Service, ServiceStatusCb(s) PROVE ConnIInv'
    BY <1>7, ServiceStatusKeeps
<1>8. ASSUME NEW s \in Service, NEW i \in NextReplies(s), StatusCb(s, i)
      PROVE  ConnIInv'
    BY <1>8, StatusKeeps
<1> QED BY <1>1, <1>2, <1>3, <1>4, <1>5, <1>6, <1>7, <1>8 DEF ConnNext

(* A quiet service: the invariant leaves only what is known or forgotten.  *)
LEMMA ConnKnown ==
    ASSUME ConnIInv PROVE NoConnectionOfTheDead /\ KnownWhenQuiet
<1>1. subscribed \subseteq up
    BY DEF ConnIInv, ConnTypeOK
<1>2. \A s \in Service : Dead(s) /\ Live(s)
    BY DEF ConnIInv
<1>3. NoConnectionOfTheDead
    <2>1. \A s \in Service \ up : replies[s] = <<>> => Forgotten(s, told)
        BY <1>1, <1>2 DEF Dead
    <2>2. "wan" \in Service /\ "wifi" \in Service
        BY DEF Service
    <2> QED BY <2>1, <2>2 DEF NoConnectionOfTheDead, Quiet, Forgotten
<1>4. KnownWhenQuiet
    <2> SUFFICES ASSUME may \cap Trouble = {}, NEW s \in up, Quiet(s)
                 PROVE  CASE s = "wifi" -> (told.wifi <=> state[s])
                          [] s = "wan"  ->
                                 /\ told.internet = state[s].internet
                                 /\ told.network.type = DataType(state[s].link)
                          [] s = "telephony" -> (told.telephony <=> state[s])
        BY DEF KnownWhenQuiet
    <2>1. s \in Service
        BY DEF ConnIInv, ConnTypeOK
    <2>2. s \in subscribed
        BY <1>2, <2>1 DEF Live, Quiet
    <2>3. Knows(s, told, state[s])
        BY <1>2, <2>1, <2>2 DEF Live, Quiet
    <2>4. /\ s \in {"wifi", "wan", "telephony"} /\ state[s] \in States(s)
          /\ told \in Tellable
        BY <2>1 DEF ConnIInv, ConnTypeOK, Tellable, Service
    <2>5. s = "wifi" => (told.wifi <=> state[s])
        BY <2>3 DEF Knows
    <2>6. s = "wan" => /\ told.internet = state[s].internet
                       /\ told.network.type = DataType(state[s].link)
        <3>1. s = "wan" => state[s].internet \in BOOLEAN
            BY <2>4 DEF States, Wan
        <3> QED BY <2>3, <2>4, <3>1, TellableFields DEF Knows
    <2>7. s = "telephony" => (told.telephony <=> state[s])
        BY <2>3 DEF Knows
    <2>8. CASE s = "wifi"
        BY <2>5, <2>8, Zenon
    <2>9. CASE s = "wan"
        BY <2>6, <2>9, Zenon
    <2>10. CASE s = "telephony"
        BY <2>7, <2>10, Zenon
    <2> QED BY <2>4, <2>8, <2>9, <2>10
<1> QED BY <1>3, <1>4
=============================================================================
