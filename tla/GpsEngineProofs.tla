-------------------------- MODULE GpsEngineProofs ---------------------------
(***************************************************************************)
(* What holds of the GPS engine for every clock bound, every set of HAL    *)
(* answers and every set of mock providers in use.                         *)
(*                                                                         *)
(* The handlers are functions of the provider's state, so the proofs are   *)
(* about those functions first: each keeps the state well typed and keeps  *)
(* EngineInv, and each is a step of EngineDemand.  The theorems about Spec *)
(* then go through Next one action at a time.  The last part is about the  *)
(* time to the first fix, which callbacks measure in steps of their own.   *)
(***************************************************************************)
EXTENDS GpsEngine, TLAPS

(* The inductive invariant: the three properties hold each other up, since *)
(* a flag, the timer and the engine change in the same handlers.           *)
EngineInv(e) == /\ e.flags # {} => e.started
                /\ e.timer # "none" <=> Position \in e.flags
                /\ ~e.modified => e.params = "default"

(* A step of the abstract engine, on the two fields it speaks of.          *)
DemandStep(e, d) ==
    \/ d.flags = e.flags /\ (d.started <=> e.started)
    \/ \E f \in ApiFlag : d.flags = e.flags \cup {f} /\ d.started
    \/ \E f \in ApiFlag : /\ d.flags = e.flags \ {f}
                          /\ (d.started <=> e.started) \/ (d.flags = {} /\ ~d.started)
    \/ \E f \in ApiFlag : d.flags = {f} /\ d.started
    \/ d.flags = {} /\ ~d.started

-----------------------------------------------------------------------------
(* The mock provider's flags stay flags.                                   *)
LEMMA MockFlags ==
    ASSUME NEW flag \in SUBSET MockFlag, NEW state \in BOOLEAN
    PROVE  /\ SetMockState(flag, state) \in SUBSET MockFlag
           /\ StartMock(flag) \in SUBSET MockFlag
           /\ StopMock(flag) \in SUBSET MockFlag
<1>1. SetMockState(flag, state) \in SUBSET MockFlag
  <2>1. CASE state
    BY <2>1 DEF SetMockState, MockFlag
  <2>2. CASE ~state /\ "STARTED" \in flag
    BY <2>2 DEF SetMockState, MockFlag
  <2>3. CASE ~state /\ "STARTED" \notin flag
    BY <2>3 DEF SetMockState, MockFlag
  <2>4. QED BY <2>1, <2>2, <2>3
<1>2. StartMock(flag) \in SUBSET MockFlag
  BY DEF StartMock, MockFlag
<1>3. StopMock(flag) \in SUBSET MockFlag
  BY DEF StopMock
<1>4. QED BY <1>1, <1>2, <1>3

(* Giving the HAL a mode touches nothing else.                             *)
LEMMA SetPosModeKeeps ==
    ASSUME NEW e \in GpsState, NEW hal \in HalAnswer
    PROVE  /\ SetPosMode(e, hal) \in GpsState
           /\ SetPosMode(e, hal) =
                [e EXCEPT !.halParams = SetPosMode(e, hal).halParams]
BY DEF SetPosMode, GpsState, HalAnswer

(* Starting: the engine can only come up; feeds, timer and parameters stay. *)
LEMMA GpsEnableKeeps ==
    ASSUME NEW e \in GpsState, NEW hal \in HalAnswer
    PROVE  LET u == GpsEnable(e, hal)
           IN  /\ u \in GpsState
               /\ e.started => u.started
               /\ u.flags = e.flags /\ u.timer = e.timer
               /\ u.params = e.params /\ (u.modified <=> e.modified)
<1>1. HalStart(e) \in GpsState /\ HalStart(e).flags = e.flags
        /\ HalStart(e).timer = e.timer /\ HalStart(e).params = e.params
        /\ (HalStart(e).modified <=> e.modified)
  BY MockFlags DEF HalStart, GpsState
<1>2. QED
  BY <1>1 DEF GpsEnable, GpsState

(* Stopping: the engine can only go down; feeds and timer stay, and the    *)
(* parameters stay marked.                                                 *)
LEMMA GpsDisableKeeps ==
    ASSUME NEW e \in GpsState, NEW hal \in HalAnswer,
           ~e.modified => e.params = "default"
    PROVE  LET d == GpsDisable(e, hal)
           IN  /\ d \in GpsState
               /\ d.started => e.started
               /\ d.flags = e.flags /\ d.timer = e.timer
               /\ d.enabled = e.enabled
               /\ ~d.modified => d.params = "default"
<1> DEFINE r == ResetParams(e, hal)
<1>1. /\ r \in GpsState /\ r.flags = e.flags /\ r.timer = e.timer
      /\ r.enabled = e.enabled
      /\ (r.started <=> e.started) /\ (~r.modified => r.params = "default")
  <2>1. CASE e.modified
    <3> DEFINE c == [e EXCEPT !.params = "default", !.modified = FALSE]
    <3>1. c \in GpsState
      BY DEF GpsState, Param
    <3>2. r = SetPosMode(c, hal)
      BY <2>1 DEF ResetParams
    <3>3. r \in GpsState /\ r = [c EXCEPT !.halParams = r.halParams]
      BY <3>1, <3>2, SetPosModeKeeps
    <3>4. QED BY <3>1, <3>3 DEF GpsState
  <2>2. CASE ~e.modified
    BY <2>2 DEF ResetParams
  <2>3. QED BY <2>1, <2>2
<1>2. /\ HalStop(r) \in GpsState /\ HalStop(r).flags = r.flags
      /\ HalStop(r).timer = r.timer /\ HalStop(r).enabled = r.enabled
      /\ (HalStop(r).modified <=> r.modified) /\ HalStop(r).params = r.params
  <2> HIDE DEF r
  <2>1. r.mock \in SUBSET MockFlag
    BY <1>1 DEF GpsState
  <2>2. StopMock(r.mock) \in SUBSET MockFlag
    BY <2>1, MockFlags
  <2>3. QED BY <1>1, <2>2 DEF HalStop, GpsState
<1>3. QED
  <2> HIDE DEF r
  <2>1. GpsDisable(e, hal) \in {e, r, [HalStop(r) EXCEPT !.started = FALSE]}
    BY DEF GpsDisable, r
  <2>2. QED BY <1>1, <1>2, <2>1 DEF GpsState

-----------------------------------------------------------------------------
(* The handlers.                                                           *)

(* A feed is granted with the engine up, or nothing of it has changed.     *)
LEMMA StartFeedKeeps ==
    ASSUME NEW e \in GpsState, NEW hal \in HalAnswer, NEW f \in ApiFlag
    PROVE  LET s == StartFeed(e, f, hal)
           IN  /\ s \in GpsState
               /\ \/ s.flags = e.flags \cup {f} /\ s.started
                  \/ s.flags = e.flags /\ (s.started <=> e.started)
               /\ s.timer = e.timer
               /\ s.params = e.params /\ (s.modified <=> e.modified)
<1> DEFINE m == SetPosMode(e, hal)
           up == GpsEnable(m, hal)
<1>1. /\ m \in GpsState /\ (m.started <=> e.started) /\ m.flags = e.flags
      /\ m.timer = e.timer /\ m.params = e.params /\ (m.modified <=> e.modified)
  <2>1. m \in GpsState /\ m = [e EXCEPT !.halParams = m.halParams]
    BY SetPosModeKeeps
  <2>2. QED BY <2>1 DEF GpsState
<1>2. /\ up \in GpsState /\ (m.started => up.started) /\ up.flags = m.flags
      /\ up.timer = m.timer /\ up.params = m.params
      /\ (up.modified <=> m.modified)
  <2> HIDE DEF m
  <2>1. QED BY <1>1, GpsEnableKeeps
<1>3. StartFeed(e, f, hal) =
        IF ~Accepts(e, f) THEN e
        ELSE IF up.started THEN [up EXCEPT !.flags = @ \cup {f}] ELSE up
  BY DEF StartFeed
<1>4. QED
  <2> HIDE DEF m, up
  <2>1. CASE ~Accepts(e, f)
    BY <1>3, <2>1
  <2>2. CASE Accepts(e, f) /\ up.started
    <3>1. StartFeed(e, f, hal) = [up EXCEPT !.flags = up.flags \cup {f}]
      BY <1>3, <2>2
    <3>2. QED BY <1>1, <1>2, <2>2, <3>1 DEF GpsState
  <2>3. CASE Accepts(e, f) /\ ~up.started
    <3>1. StartFeed(e, f, hal) = up
      BY <1>3, <2>3
    <3>2. ~e.started /\ ~up.started
      BY <1>1, <1>2, <2>3 DEF GpsState
    <3>3. QED BY <1>1, <1>2, <3>1, <3>2
  <2>4. QED BY <2>1, <2>2, <2>3

(* NMEA_CMD and SATELITTE_CMD.                                             *)
LEMMA RequestFeedStep ==
    ASSUME NEW e \in GpsState, EngineInv(e), NEW hal \in HalAnswer,
           NEW f \in ApiFlag \ {Position}
    PROVE  /\ StartFeed(e, f, hal) \in GpsState
           /\ EngineInv(StartFeed(e, f, hal))
           /\ DemandStep(e, StartFeed(e, f, hal))
<1> DEFINE s == StartFeed(e, f, hal)
<1>1. /\ s \in GpsState
      /\ \/ s.flags = e.flags \cup {f} /\ s.started
         \/ s.flags = e.flags /\ (s.started <=> e.started)
      /\ s.timer = e.timer /\ s.params = e.params /\ (s.modified <=> e.modified)
  BY StartFeedKeeps
<1>2. QED
  <2> HIDE DEF s
  <2>1. EngineInv(s)
    BY <1>1 DEF EngineInv
  <2>2. DemandStep(e, s)
    BY <1>1 DEF DemandStep
  <2>3. QED BY <1>1, <2>1, <2>2 DEF s

(* POSITION_CMD.                                                           *)
LEMMA RequestPositionStep ==
    ASSUME NEW e \in GpsState, EngineInv(e), NEW hal \in HalAnswer, NEW t \in Nat
    PROVE  LET s == StartPosition(e, hal, t)
           IN  /\ s \in GpsState
               /\ EngineInv(s)
               /\ \/ s.flags = e.flags \cup {Position} /\ s.started
                  \/ s.flags = e.flags /\ (s.started <=> e.started)
<1> DEFINE r == StampRequest(e, t)
           s == StartFeed(r, Position, hal)
           p == StartPosition(e, hal, t)
<1>1. /\ r \in GpsState /\ (r.started <=> e.started) /\ r.flags = e.flags
      /\ r.timer = e.timer /\ r.params = e.params /\ (r.modified <=> e.modified)
  BY DEF StampRequest, GpsState
<1>2. /\ s \in GpsState
      /\ \/ s.flags = r.flags \cup {Position} /\ s.started
         \/ s.flags = r.flags /\ (s.started <=> r.started)
      /\ s.timer = r.timer /\ s.params = r.params /\ (s.modified <=> r.modified)
  <2> HIDE DEF r
  <2>1. QED BY <1>1, StartFeedKeeps DEF Position, ApiFlag
<1>3. p = IF ~Accepts(e, Position) THEN e
          ELSE IF Position \in s.flags THEN ArmTimer(s) ELSE s
  BY DEF StartPosition, Position
<1>4. /\ ArmTimer(s) \in GpsState /\ ArmTimer(s).timer # "none"
      /\ ArmTimer(s).flags = s.flags /\ (ArmTimer(s).started <=> s.started)
      /\ ArmTimer(s).params = s.params /\ (ArmTimer(s).modified <=> s.modified)
  <2> HIDE DEF s
  <2>1. QED BY <1>2 DEF ArmTimer, GpsState
<1>5. QED
  <2> HIDE DEF r, s, p
  <2>1. CASE ~Accepts(e, Position)
    BY <1>3, <2>1 DEF p
  <2>2. CASE Accepts(e, Position) /\ Position \in s.flags
    <3>1. p = ArmTimer(s)
      BY <1>3, <2>2
    <3>2. s.started
      BY <1>1, <1>2, <2>2 DEF Accepts
    <3>3. EngineInv(p)
      BY <1>1, <1>2, <1>4, <2>2, <3>1, <3>2 DEF EngineInv
    <3>4. QED BY <1>1, <1>2, <1>4, <3>1, <3>3 DEF p
  <2>3. CASE Accepts(e, Position) /\ Position \notin s.flags
    <3>1. p = s /\ s.flags = e.flags /\ (s.started <=> e.started)
      BY <1>1, <1>2, <1>3, <2>3
    <3>2. EngineInv(p)
      BY <1>1, <1>2, <3>1 DEF EngineInv
    <3>3. QED BY <1>2, <3>1, <3>2 DEF p
  <2>4. QED BY <2>1, <2>2, <2>3

(* STOP_NMEA_CMD and STOP_SATELITTE_CMD; also the second half of           *)
(* STOP_POSITION_CMD, whose timer is gone by then.                         *)
LEMMA StopFeedKeeps ==
    ASSUME NEW e \in GpsState, NEW hal \in HalAnswer, NEW f \in ApiFlag,
           e.flags # {} => e.started,
           ~e.modified => e.params = "default"
    PROVE  LET d == StopFeed(e, f, hal)
           IN  /\ d \in GpsState
               /\ d.timer = e.timer
               /\ d.flags # {} => d.started
               /\ ~d.modified => d.params = "default"
               /\ \/ d.flags = e.flags \ {f}
                  \/ d = e /\ ~e.enabled
               /\ (d.started <=> e.started) \/ (d.flags = {} /\ ~d.started)
<1> DEFINE c == [e EXCEPT !.flags = @ \ {f}]
           g == GpsDisable(c, hal)
           d == StopFeed(e, f, hal)
<1>1. /\ c \in GpsState /\ c.flags = e.flags \ {f} /\ (c.started <=> e.started)
      /\ c.timer = e.timer /\ (~c.modified => c.params = "default")
  BY DEF GpsState
<1>2. /\ g \in GpsState /\ (g.started => c.started) /\ g.flags = c.flags
      /\ g.timer = c.timer /\ (~g.modified => g.params = "default")
  <2> HIDE DEF c
  <2>1. QED BY <1>1, GpsDisableKeeps
<1>3. d = IF ~e.enabled THEN e ELSE IF c.flags = {} THEN g ELSE c
  BY DEF StopFeed
<1>4. QED
  <2> HIDE DEF c, g, d
  <2>1. CASE ~e.enabled
    <3>1. d = e
      BY <1>3, <2>1
    <3>2. QED BY <2>1, <3>1 DEF d
  <2>2. CASE e.enabled /\ c.flags = {}
    <3>1. d = g
      BY <1>3, <2>2
    <3>2. QED BY <1>1, <1>2, <2>2, <3>1 DEF d
  <2>3. CASE e.enabled /\ c.flags # {}
    <3>1. d = c
      BY <1>3, <2>3
    <3>2. QED BY <1>1, <2>3, <3>1 DEF d
  <2>4. QED BY <2>1, <2>2, <2>3

LEMMA CancelFeedStep ==
    ASSUME NEW e \in GpsState, EngineInv(e), NEW hal \in HalAnswer,
           NEW f \in ApiFlag \ {Position}
    PROVE  /\ StopFeed(e, f, hal) \in GpsState
           /\ EngineInv(StopFeed(e, f, hal))
           /\ DemandStep(e, StopFeed(e, f, hal))
<1> DEFINE d == StopFeed(e, f, hal)
<1>1. /\ d \in GpsState /\ d.timer = e.timer
      /\ d.flags # {} => d.started
      /\ ~d.modified => d.params = "default"
      /\ \/ d.flags = e.flags \ {f}
         \/ d = e
      /\ (d.started <=> e.started) \/ (d.flags = {} /\ ~d.started)
  BY StopFeedKeeps DEF EngineInv
<1>2. QED
  <2> HIDE DEF d
  <2>1. EngineInv(d)
    BY <1>1 DEF EngineInv
  <2>2. DemandStep(e, d)
    BY <1>1 DEF DemandStep
  <2>3. QED BY <1>1, <2>1, <2>2 DEF d

(* STOP_POSITION_CMD.                                                      *)
LEMMA CancelPositionStep ==
    ASSUME NEW e \in GpsState, EngineInv(e), NEW hal \in HalAnswer
    PROVE  /\ StopPosition(e, hal) \in GpsState
           /\ EngineInv(StopPosition(e, hal))
           /\ DemandStep(e, StopPosition(e, hal))
<1> DEFINE r == ResetFirstFix([e EXCEPT !.timer = "none"])
           d == StopFeed(r, Position, hal)
<1>1. /\ r \in GpsState /\ r.timer = "none" /\ r.flags = e.flags
      /\ (r.started <=> e.started) /\ (r.enabled <=> e.enabled)
      /\ (~r.modified => r.params = "default")
  BY DEF ResetFirstFix, GpsState, EngineInv
<1>2. StopPosition(e, hal) = IF ~e.enabled THEN e ELSE d
  BY DEF StopPosition, Position
<1>3. r.flags # {} => r.started
  BY <1>1 DEF EngineInv
<1>4. /\ d \in GpsState /\ d.timer = "none"
      /\ d.flags # {} => d.started
      /\ ~d.modified => d.params = "default"
      /\ \/ d.flags = r.flags \ {Position}
         \/ d = r /\ ~r.enabled
      /\ (d.started <=> r.started) \/ (d.flags = {} /\ ~d.started)
  <2> HIDE DEF r
  <2>1. Position \in ApiFlag
    BY DEF Position, ApiFlag
  <2>2. QED BY <1>1, <1>3, <2>1, StopFeedKeeps
<1>5. QED
  <2> HIDE DEF r, d
  <2>1. CASE ~e.enabled
    <3>1. StopPosition(e, hal) = e
      BY <1>2, <2>1
    <3>2. QED BY <3>1 DEF DemandStep
  <2>2. CASE e.enabled
    <3>1. StopPosition(e, hal) = d /\ d.flags = e.flags \ {Position}
      BY <1>1, <1>2, <1>4, <2>2
    <3>2. EngineInv(d)
      BY <1>4, <3>1 DEF EngineInv
    <3>3. DemandStep(e, d)
      BY <1>1, <1>4, <3>1 DEF DemandStep, Position, ApiFlag
    <3>4. QED BY <1>4, <3>1, <3>2, <3>3
  <2>3. QED BY <2>1, <2>2

(* STOP_GPS_CMD.                                                           *)
LEMMA ForceStopStep ==
    ASSUME NEW e \in GpsState, EngineInv(e), NEW hal \in HalAnswer
    PROVE  LET d == StopGps(e, hal)
           IN  /\ d \in GpsState
               /\ EngineInv(d)
               /\ \/ d.flags = e.flags /\ (d.started <=> e.started)
                  \/ d.flags = {} /\ ~d.started
<1> DEFINE g == GpsDisable(e, hal)
           c == [g EXCEPT !.flags = {}, !.timer = "none"]
           d == StopGps(e, hal)
<1>1. /\ g \in GpsState /\ (g.started => e.started) /\ g.flags = e.flags
      /\ g.timer = e.timer /\ (~g.modified => g.params = "default")
  BY GpsDisableKeeps DEF EngineInv
<1>2. d = IF ~e.enabled \/ ~e.started THEN e ELSE IF g.started THEN g ELSE c
  BY DEF StopGps
<1>3. /\ c \in GpsState /\ c.flags = {} /\ c.timer = "none"
      /\ (c.started <=> g.started) /\ (~c.modified => c.params = "default")
  <2> HIDE DEF g
  <2>1. QED BY <1>1 DEF GpsState
<1>4. QED
  <2> HIDE DEF g, c, d
  <2>1. CASE ~e.enabled \/ ~e.started
    <3>1. d = e
      BY <1>2, <2>1
    <3>2. QED BY <3>1 DEF d
  <2>2. CASE e.enabled /\ e.started /\ g.started
    <3>1. d = g
      BY <1>2, <2>2
    <3>2. EngineInv(g)
      BY <1>1, <2>2 DEF EngineInv
    <3>3. QED BY <1>1, <2>2, <3>1, <3>2 DEF d
  <2>3. CASE e.enabled /\ e.started /\ ~g.started
    <3>1. d = c
      BY <1>2, <2>3
    <3>2. EngineInv(c)
      BY <1>3, <2>3 DEF EngineInv
    <3>3. QED BY <1>3, <2>3, <3>1, <3>2 DEF d
  <2>4. QED BY <2>1, <2>2, <2>3

(* enableMockLocation and disableMockLocation.                             *)
LEMMA SetMockStep ==
    ASSUME NEW e \in GpsState, EngineInv(e), NEW name, NEW state \in BOOLEAN,
           NEW listed \in BOOLEAN, NEW h1 \in HalAnswer, NEW h2 \in HalAnswer,
           NEW t \in Nat
    PROVE  LET d == SetMockLocationState(e, name, state, listed, h1, h2, t)
           IN  d \in GpsState /\ EngineInv(d) /\ DemandStep(e, d)
<1> DEFINE set(x) == IF name = "gps"
                     THEN [x EXCEPT !.mock = SetMockState(@, state)]
                     ELSE x
           g == StopGps(e, h1)
           m == set(g)
           p == StartPosition(m, h2, t)
<1>1. ASSUME NEW x \in GpsState, EngineInv(x)
      PROVE  /\ set(x) \in GpsState /\ EngineInv(set(x))
             /\ set(x).flags = x.flags /\ (set(x).started <=> x.started)
  <2>1. SetMockState(x.mock, state) \in SUBSET MockFlag
    BY MockFlags DEF GpsState
  <2>2. QED BY <1>1, <2>1 DEF GpsState, EngineInv
<1>2. /\ g \in GpsState /\ EngineInv(g)
      /\ \/ g.flags = e.flags /\ (g.started <=> e.started)
         \/ g.flags = {} /\ ~g.started
  BY ForceStopStep
<1>3. SetMockLocationState(e, name, state, listed, h1, h2, t)
        = IF listed THEN p ELSE set(e)
  BY DEF SetMockLocationState
<1> HIDE DEF set
<1>4. /\ m \in GpsState /\ EngineInv(m)
      /\ m.flags = g.flags /\ (m.started <=> g.started)
  <2> HIDE DEF g
  <2>1. QED BY <1>1, <1>2
<1>5. /\ p \in GpsState /\ EngineInv(p)
      /\ \/ p.flags = m.flags \cup {Position} /\ p.started
         \/ p.flags = m.flags /\ (p.started <=> m.started)
  <2> HIDE DEF m
  <2>1. QED BY <1>4, RequestPositionStep
<1>6. DemandStep(e, p)
  <2> HIDE DEF g, m, p
  <2>1. Position \in ApiFlag
    BY DEF Position, ApiFlag
  <2>2. QED BY <1>2, <1>4, <1>5, <2>1 DEF DemandStep
<1>7. set(e) \in GpsState /\ EngineInv(set(e)) /\ DemandStep(e, set(e))
  <2>1. /\ set(e) \in GpsState /\ EngineInv(set(e))
        /\ set(e).flags = e.flags /\ (set(e).started <=> e.started)
    BY <1>1
  <2>2. QED BY <2>1 DEF DemandStep
<1>8. QED
  <2> HIDE DEF p
  <2>1. CASE listed
    BY <1>3, <1>5, <1>6, <2>1
  <2>2. CASE ~listed
    BY <1>3, <1>7, <2>2
  <2>3. QED BY <2>1, <2>2

LEMMA SetParametersStep ==
    ASSUME NEW e \in GpsState, EngineInv(e), NEW hal \in HalAnswer, NEW p \in Param
    PROVE  LET d == SetGpsParameters(e, p, hal)
           IN  d \in GpsState /\ EngineInv(d) /\ DemandStep(e, d)
<1> DEFINE c == [e EXCEPT !.params = p, !.modified = TRUE]
           m == SetPosMode(c, hal)
<1>1. /\ c \in GpsState /\ c.modified /\ c.flags = e.flags
      /\ (c.started <=> e.started) /\ c.timer = e.timer
  BY DEF GpsState
<1>2. m \in GpsState /\ m = [c EXCEPT !.halParams = m.halParams]
  <2> HIDE DEF c
  <2>1. QED BY <1>1, SetPosModeKeeps
<1>3. /\ m.modified /\ m.flags = e.flags
      /\ (m.started <=> e.started) /\ m.timer = e.timer
  <2> HIDE DEF c, m
  <2>1. QED BY <1>1, <1>2 DEF GpsState
<1>4. EngineInv(m) /\ DemandStep(e, m)
  <2> HIDE DEF c, m
  <2>1. QED BY <1>3 DEF EngineInv, DemandStep
<1>5. SetGpsParameters(e, p, hal) = IF ~e.enabled THEN e ELSE m
  BY DEF SetGpsParameters
<1>6. DemandStep(e, e)
  BY DEF DemandStep
<1>7. QED
  <2> HIDE DEF m
  <2>1. QED BY <1>2, <1>4, <1>5, <1>6

(* What the remaining steps write is neither a flag, nor the engine, nor   *)
(* whether there is a timer.                                               *)
LEMMA OtherFieldsStep ==
    ASSUME NEW e \in GpsState, EngineInv(e), NEW d \in GpsState,
           d.flags = e.flags, d.started <=> e.started,
           d.timer = "none" <=> e.timer = "none",
           d.params = e.params, d.modified <=> e.modified
    PROVE  EngineInv(d) /\ DemandStep(e, d)
BY DEF EngineInv, DemandStep

-----------------------------------------------------------------------------
(* The specification.                                                      *)

IInv == TypeOK /\ EngineInv(eng)

LEMMA InitIInv == Init => IInv
<1> SUFFICES ASSUME Init PROVE IInv
  OBVIOUS
<1>1. eng \in GpsState
  BY DEF Init, GpsInit, GpsState, Param
<1>2. EngineInv(eng)
  BY DEF Init, GpsInit, EngineInv
<1>3. QED
  BY <1>1, <1>2 DEF Init, IInv, TypeOK, FixStep

(* Every step keeps the invariant and is a step of the abstract engine.    *)
LEMMA NextIInv ==
    ASSUME IInv, [Next]_vars
    PROVE  IInv' /\ DemandStep(eng, eng')
<1> SUFFICES /\ eng' \in GpsState /\ fix' \in FixStep /\ now' \in Nat
             /\ mocked' \in BOOLEAN
             /\ EngineInv(eng') /\ DemandStep(eng, eng')
  BY DEF IInv, TypeOK, EngineInv
<1>0. /\ eng \in GpsState /\ fix \in FixStep /\ now \in Nat
      /\ mocked \in BOOLEAN /\ EngineInv(eng)
      /\ \A hal \in HalAnswers : hal \in HalAnswer
  BY EngineAssumption DEF IInv, TypeOK
<1>1. CASE Enable
  <2>1. eng' \in GpsState /\ eng' = [eng EXCEPT !.enabled = TRUE]
    BY <1>0, <1>1 DEF Enable, GpsState
  <2>2. QED BY <1>0, <1>1, <2>1, OtherFieldsStep DEF Enable, GpsState
<1>2. CASE RequestPosition
  <2>1. PICK hal \in HalAnswers : MainLoop(StartPosition(eng, hal, now))
    BY <1>2 DEF RequestPosition
  <2>2. /\ eng' \in GpsState /\ EngineInv(eng')
        /\ \/ eng'.flags = eng.flags \cup {Position} /\ eng'.started
           \/ eng'.flags = eng.flags /\ (eng'.started <=> eng.started)
    BY <1>0, <2>1, RequestPositionStep DEF MainLoop
  <2>3. DemandStep(eng, eng')
    BY <2>2 DEF DemandStep, Position, ApiFlag
  <2>4. QED BY <1>0, <2>1, <2>2, <2>3 DEF MainLoop
<1>3. CASE RequestFeed
  BY <1>0, <1>3, RequestFeedStep DEF RequestFeed, MainLoop, Position
<1>4. CASE CancelPosition
  BY <1>0, <1>4, CancelPositionStep DEF CancelPosition, MainLoop
<1>5. CASE CancelFeed
  BY <1>0, <1>5, CancelFeedStep DEF CancelFeed, MainLoop, Position
<1>6. CASE ForceStop
  <2>1. PICK hal \in HalAnswers : MainLoop(StopGps(eng, hal))
    BY <1>6 DEF ForceStop
  <2>2. /\ eng' \in GpsState /\ EngineInv(eng')
        /\ \/ eng'.flags = eng.flags /\ (eng'.started <=> eng.started)
           \/ eng'.flags = {} /\ ~eng'.started
    BY <1>0, <2>1, ForceStopStep DEF MainLoop
  <2>3. DemandStep(eng, eng')
    BY <2>2 DEF DemandStep
  <2>4. QED BY <1>0, <2>1, <2>2, <2>3 DEF MainLoop
<1>7. CASE SetParameters
  BY <1>0, <1>7, SetParametersStep DEF SetParameters, MainLoop
<1>8. CASE PosTimeout
  <2>1. eng' \in GpsState /\ eng' = [eng EXCEPT !.timer = "fired"]
    BY <1>0, <1>8 DEF PosTimeout, MainLoop, PosTimerFires, GpsState
  <2>2. QED BY <1>0, <1>8, <2>1, OtherFieldsStep DEF PosTimeout, MainLoop, GpsState
<1>9. CASE SetMock
  BY <1>0, <1>9, SetMockStep DEF SetMock
<1>10. CASE GetTimeToFirstFix
  <2>1. eng' \in GpsState /\ eng' = [eng EXCEPT !.ttff = eng'.ttff]
    BY <1>0, <1>10 DEF GetTimeToFirstFix, MainLoop, ReadTimeToFirstFix, GpsState
  <2>2. QED BY <1>0, <1>10, <2>1, OtherFieldsStep DEF GetTimeToFirstFix, MainLoop, GpsState
<1>11. CASE MockFix
  <2>1. /\ eng' \in GpsState
        /\ eng' = [eng EXCEPT !.lastFix = eng'.lastFix, !.ttffState = eng'.ttffState]
    BY <1>0, <1>11 DEF MockFix, MainLoop, GpsState
  <2>2. QED BY <1>0, <1>11, <2>1, OtherFieldsStep DEF MockFix, MainLoop, GpsState
<1>12. CASE FixArrives
  BY <1>0, <1>12 DEF FixArrives, FixStep, DemandStep
<1>13. CASE FixStamp
  <2>1. eng' \in GpsState /\ eng' = [eng EXCEPT !.lastFix = now]
    BY <1>0, <1>13 DEF FixStamp, GpsState
  <2>2. QED BY <1>0, <1>13, <2>1, OtherFieldsStep DEF FixStamp, FixStep, GpsState
<1>14. CASE FixLatch
  <2>1. eng' \in GpsState /\ eng' = [eng EXCEPT !.ttffState = TRUE]
    BY <1>0, <1>14 DEF FixLatch, GpsState
  <2>2. QED BY <1>0, <1>14, <2>1, OtherFieldsStep DEF FixLatch, FixStep, GpsState
<1>15. CASE FixDone
  BY <1>0, <1>15 DEF FixDone, FixStep, DemandStep
<1>16. CASE Tick
  BY <1>0, <1>16 DEF Tick, DemandStep
<1>17. CASE SleepDropsSession
  <2>1. eng' \in GpsState /\ eng' = [eng EXCEPT !.radio = FALSE]
    BY <1>0, <1>17 DEF SleepDropsSession, GpsState
  <2>2. QED BY <1>0, <1>17, <2>1, OtherFieldsStep DEF SleepDropsSession, GpsState
<1>18. CASE UNCHANGED vars
  BY <1>0, <1>18 DEF vars, DemandStep
<1>19. QED
  BY <1>1, <1>2, <1>3, <1>4, <1>5, <1>6, <1>7, <1>8, <1>9, <1>10, <1>11, <1>12,
     <1>13, <1>14, <1>15, <1>16, <1>17, <1>18 DEF Next

(* The inductive invariant holds throughout.                               *)
LEMMA Invariance == Spec => []IInv
<1>1. Init => IInv
  BY InitIInv
<1>2. IInv /\ [Next]_vars => IInv'
  BY NextIInv
<1>3. QED BY <1>1, <1>2, PTL DEF Spec

(* The provider's fields, the callback's progress and the clock stay in    *)
(* their types whatever the HAL answers.                                   *)
THEOREM TypeCorrect == Spec => []TypeOK
<1>1. IInv => TypeOK
  BY DEF IInv
<1>2. QED BY <1>1, Invariance, PTL

(* mAPIProgressFlag never promises a feed that mEngineStarted denies.      *)
THEOREM NoFeedWithoutEngine == Spec => []FeedsHaveEngine
<1>1. IInv => FeedsHaveEngine
  BY DEF IInv, EngineInv, FeedsHaveEngine
<1>2. QED BY <1>1, Invariance, PTL

(* mPosTimer is set exactly during a position session.                     *)
THEOREM TimerFollowsSession == Spec => []TimerIffPosition
<1>1. IInv => TimerIffPosition
  BY DEF IInv, EngineInv, TimerIffPosition
<1>2. QED BY <1>1, Invariance, PTL

(* Without a mock provider the receiver follows mEngineStarted.            *)
Owned(e) == e.mock = {} /\ (e.radio => e.started)

LEMMA SetPosModeOwned ==
    ASSUME NEW e \in GpsState, Owned(e), NEW hal \in HalAnswer
    PROVE  Owned(SetPosMode(e, hal))
BY DEF SetPosMode, Owned, GpsState

LEMMA GpsEnableOwned ==
    ASSUME NEW e \in GpsState, Owned(e), NEW hal \in HalAnswer
    PROVE  Owned(GpsEnable(e, hal))
BY DEF GpsEnable, HalStart, HalStarts, MockAnswers, Owned, GpsState

(* The HAL is told to stop before mEngineStarted goes down.                *)
LEMMA GpsDisableOwned ==
    ASSUME NEW e \in GpsState, Owned(e), NEW hal \in HalAnswer
    PROVE  Owned(GpsDisable(e, hal))
<1> DEFINE c == [e EXCEPT !.params = "default", !.modified = FALSE]
           r == ResetParams(e, hal)
<1>1. c \in GpsState /\ Owned(c)
  BY DEF Owned, GpsState, Param
<1>2. r \in GpsState /\ Owned(r)
  <2> HIDE DEF c
  <2>1. r = e \/ r = SetPosMode(c, hal)
    BY DEF ResetParams, c
  <2>2. QED BY <1>1, <2>1, SetPosModeKeeps, SetPosModeOwned
<1>3. GpsDisable(e, hal) \in {e, r, [HalStop(r) EXCEPT !.started = FALSE]}
  BY DEF GpsDisable
<1>4. QED
  <2> HIDE DEF r
  <2>1. Owned([HalStop(r) EXCEPT !.started = FALSE])
    BY <1>2 DEF HalStop, MockAnswers, Owned, GpsState
  <2>2. QED BY <1>2, <1>3, <2>1

LEMMA StartFeedOwned ==
    ASSUME NEW e \in GpsState, Owned(e), NEW hal \in HalAnswer, NEW f \in ApiFlag
    PROVE  Owned(StartFeed(e, f, hal))
<1> DEFINE m == SetPosMode(e, hal)
           up == GpsEnable(m, hal)
<1>1. m \in GpsState /\ Owned(m)
  BY SetPosModeKeeps, SetPosModeOwned
<1>2. up \in GpsState /\ Owned(up)
  <2> HIDE DEF m
  <2>1. QED BY <1>1, GpsEnableKeeps, GpsEnableOwned
<1>3. StartFeed(e, f, hal) \in {e, up, [up EXCEPT !.flags = @ \cup {f}]}
  BY DEF StartFeed
<1>4. QED
  <2> HIDE DEF up
  <2>1. QED BY <1>2, <1>3 DEF Owned, GpsState

LEMMA StartPositionOwned ==
    ASSUME NEW e \in GpsState, Owned(e), NEW hal \in HalAnswer, NEW t \in Nat
    PROVE  Owned(StartPosition(e, hal, t))
<1> DEFINE r == StampRequest(e, t)
           s == StartFeed(r, Position, hal)
<1>1. r \in GpsState /\ Owned(r)
  BY DEF StampRequest, Owned, GpsState
<1>2. s \in GpsState /\ Owned(s)
  <2> HIDE DEF r
  <2>1. QED BY <1>1, StartFeedKeeps, StartFeedOwned DEF Position, ApiFlag
<1>3. StartPosition(e, hal, t) \in {e, s, ArmTimer(s)}
  BY DEF StartPosition, Position
<1>4. QED
  <2> HIDE DEF s
  <2>1. QED BY <1>2, <1>3 DEF ArmTimer, Owned, GpsState

LEMMA StopFeedOwned ==
    ASSUME NEW e \in GpsState, Owned(e), NEW hal \in HalAnswer, NEW f \in ApiFlag
    PROVE  Owned(StopFeed(e, f, hal))
<1> DEFINE c == [e EXCEPT !.flags = @ \ {f}]
<1>1. c \in GpsState /\ Owned(c)
  BY DEF Owned, GpsState
<1>2. StopFeed(e, f, hal) \in {e, c, GpsDisable(c, hal)}
  BY DEF StopFeed
<1>3. QED
  <2> HIDE DEF c
  <2>1. QED BY <1>1, <1>2, GpsDisableOwned

LEMMA StopPositionOwned ==
    ASSUME NEW e \in GpsState, Owned(e), NEW hal \in HalAnswer
    PROVE  Owned(StopPosition(e, hal))
<1> DEFINE r == ResetFirstFix([e EXCEPT !.timer = "none"])
<1>1. r \in GpsState /\ Owned(r)
  BY DEF ResetFirstFix, Owned, GpsState
<1>2. StopPosition(e, hal) \in {e, StopFeed(r, Position, hal)}
  BY DEF StopPosition, Position
<1>3. QED
  <2> HIDE DEF r
  <2>1. QED BY <1>1, <1>2, StopFeedOwned DEF Position, ApiFlag

LEMMA StopGpsOwned ==
    ASSUME NEW e \in GpsState, EngineInv(e), Owned(e), NEW hal \in HalAnswer
    PROVE  Owned(StopGps(e, hal))
<1> DEFINE g == GpsDisable(e, hal)
<1>1. g \in GpsState /\ Owned(g)
  BY GpsDisableKeeps, GpsDisableOwned DEF EngineInv
<1>2. StopGps(e, hal) \in {e, g, [g EXCEPT !.flags = {}, !.timer = "none"]}
  BY DEF StopGps
<1>3. QED
  <2> HIDE DEF g
  <2>1. QED BY <1>1, <1>2 DEF Owned, GpsState

(* A mock provider that is disabled stays without flags; one of another    *)
(* name is not this engine's.                                              *)
LEMMA SetMockOwned ==
    ASSUME NEW e \in GpsState, EngineInv(e), Owned(e), NEW name, NEW state \in BOOLEAN,
           ~(name = "gps" /\ state),
           NEW listed \in BOOLEAN, NEW h1 \in HalAnswer, NEW h2 \in HalAnswer,
           NEW t \in Nat
    PROVE  Owned(SetMockLocationState(e, name, state, listed, h1, h2, t))
<1> DEFINE set(x) == IF name = "gps"
                     THEN [x EXCEPT !.mock = SetMockState(@, state)]
                     ELSE x
           g == StopGps(e, h1)
<1>1. ASSUME NEW x \in GpsState, Owned(x) PROVE set(x) \in GpsState /\ Owned(set(x))
  <2>1. SetMockState(x.mock, state) \in SUBSET MockFlag
    BY MockFlags DEF GpsState
  <2>2. name = "gps" => SetMockState(x.mock, state) = {}
    BY <1>1 DEF SetMockState, Owned
  <2>3. QED BY <1>1, <2>1, <2>2 DEF Owned, GpsState
<1>2. g \in GpsState /\ Owned(g)
  BY ForceStopStep, StopGpsOwned
<1>3. SetMockLocationState(e, name, state, listed, h1, h2, t)
        = IF listed THEN StartPosition(set(g), h2, t) ELSE set(e)
  BY DEF SetMockLocationState
<1> HIDE DEF set, g
<1>4. QED BY <1>1, <1>2, <1>3, StartPositionOwned

LEMMA SetParametersOwned ==
    ASSUME NEW e \in GpsState, Owned(e), NEW hal \in HalAnswer, NEW p \in Param
    PROVE  Owned(SetGpsParameters(e, p, hal))
<1> DEFINE c == [e EXCEPT !.params = p, !.modified = TRUE]
<1>1. c \in GpsState /\ Owned(c)
  BY DEF Owned, GpsState
<1>2. SetGpsParameters(e, p, hal) \in {e, SetPosMode(c, hal)}
  BY DEF SetGpsParameters
<1>3. QED
  <2> HIDE DEF c
  <2>1. QED BY <1>1, <1>2, SetPosModeOwned

LEMMA NextOwned ==
    ASSUME IInv, ~mocked => Owned(eng), [Next]_vars
    PROVE  ~mocked' => Owned(eng')
<1>0. /\ eng \in GpsState /\ now \in Nat /\ EngineInv(eng)
      /\ \A hal \in HalAnswers : hal \in HalAnswer
  BY EngineAssumption DEF IInv, TypeOK
<1>1. CASE RequestPosition
  BY <1>0, <1>1, StartPositionOwned DEF RequestPosition, MainLoop
<1>2. CASE RequestFeed
  BY <1>0, <1>2, StartFeedOwned DEF RequestFeed, MainLoop
<1>3. CASE CancelPosition
  BY <1>0, <1>3, StopPositionOwned DEF CancelPosition, MainLoop
<1>4. CASE CancelFeed
  BY <1>0, <1>4, StopFeedOwned DEF CancelFeed, MainLoop
<1>5. CASE ForceStop
  BY <1>0, <1>5, StopGpsOwned DEF ForceStop, MainLoop
<1>6. CASE SetParameters
  BY <1>0, <1>6, SetParametersOwned DEF SetParameters, MainLoop
<1>7. CASE SetMock
  BY <1>0, <1>7, SetMockOwned DEF SetMock
<1>8. CASE MockFix
  BY <1>0, <1>8 DEF MockFix, MockFeeds, MainLoop, Owned, GpsState
<1>9. CASE \/ Enable \/ PosTimeout \/ GetTimeToFirstFix
           \/ FixArrives \/ FixStamp \/ FixLatch \/ FixDone
           \/ Tick \/ SleepDropsSession \/ UNCHANGED vars
  <2>1. /\ UNCHANGED mocked
        /\ eng'.mock = eng.mock /\ (eng'.started <=> eng.started)
        /\ eng'.radio => eng.radio
    BY <1>0, <1>9
       DEF Enable, PosTimeout, PosTimerFires, GetTimeToFirstFix,
           ReadTimeToFirstFix, MainLoop, FixArrives, FixStamp, FixLatch,
           FixDone, Tick, SleepDropsSession, vars, GpsState
  <2>2. QED BY <2>1 DEF Owned
<1>10. QED
  BY <1>1, <1>2, <1>3, <1>4, <1>5, <1>6, <1>7, <1>8, <1>9 DEF Next

(* Without a gps mock provider, a HAL session belongs to a started engine, *)
(* whatever start or stop the HAL refuses.                                 *)
THEOREM ReceiverHasOwner == Spec => []RadioHasOwner
<1>1. Init => (~mocked => Owned(eng))
  BY DEF Init, GpsInit, Owned
<1>2. IInv /\ (~mocked => Owned(eng)) /\ [Next]_vars => (~mocked => Owned(eng))'
  BY NextOwned
<1>3. (~mocked => Owned(eng)) => RadioHasOwner
  BY DEF Owned, RadioHasOwner
<1>4. QED BY <1>1, <1>2, <1>3, Invariance, PTL DEF Spec

(* With a HAL that accepts every mode, what the provider holds for the     *)
(* parameters is what the HAL runs with.                                   *)
Agreed(e) == e.halParams = e.params

Accepting(hal) == hal \in HalAnswer /\ hal.mode

(* A mode that is given makes it so, whatever was before.                  *)
LEMMA SetPosModeAgrees ==
    ASSUME NEW e \in GpsState, NEW hal, Accepting(hal)
    PROVE  Agreed(SetPosMode(e, hal))
BY DEF SetPosMode, Agreed, Accepting, GpsState

LEMMA GpsEnableAgrees ==
    ASSUME NEW e \in GpsState, Agreed(e), NEW hal, Accepting(hal)
    PROVE  Agreed(GpsEnable(e, hal))
BY DEF GpsEnable, HalStart, Agreed, GpsState

(* The defaults are given to the HAL before it is asked to stop.           *)
LEMMA GpsDisableAgrees ==
    ASSUME NEW e \in GpsState, Agreed(e), NEW hal, Accepting(hal)
    PROVE  Agreed(GpsDisable(e, hal))
<1> DEFINE c == [e EXCEPT !.params = "default", !.modified = FALSE]
           r == ResetParams(e, hal)
<1>1. c \in GpsState
  BY DEF GpsState, Param
<1>2. r \in GpsState /\ Agreed(r)
  <2> HIDE DEF c
  <2>1. r = e \/ r = SetPosMode(c, hal)
    BY DEF ResetParams, c
  <2>2. QED BY <1>1, <2>1, SetPosModeKeeps, SetPosModeAgrees DEF Accepting
<1>3. GpsDisable(e, hal) \in {e, r, [HalStop(r) EXCEPT !.started = FALSE]}
  BY DEF GpsDisable
<1>4. QED
  <2> HIDE DEF r
  <2>1. Agreed([HalStop(r) EXCEPT !.started = FALSE])
    BY <1>2 DEF HalStop, Agreed, GpsState
  <2>2. QED BY <1>2, <1>3, <2>1

LEMMA StartFeedAgrees ==
    ASSUME NEW e \in GpsState, Agreed(e), NEW hal, Accepting(hal), NEW f \in ApiFlag
    PROVE  Agreed(StartFeed(e, f, hal))
<1> DEFINE m == SetPosMode(e, hal)
           up == GpsEnable(m, hal)
<1>1. m \in GpsState /\ Agreed(m)
  BY SetPosModeKeeps, SetPosModeAgrees DEF Accepting
<1>2. up \in GpsState /\ Agreed(up)
  <2> HIDE DEF m
  <2>1. QED BY <1>1, GpsEnableKeeps, GpsEnableAgrees DEF Accepting
<1>3. StartFeed(e, f, hal) \in {e, up, [up EXCEPT !.flags = @ \cup {f}]}
  BY DEF StartFeed
<1>4. QED
  <2> HIDE DEF up
  <2>1. QED BY <1>2, <1>3 DEF Agreed, GpsState

LEMMA StartPositionAgrees ==
    ASSUME NEW e \in GpsState, Agreed(e), NEW hal, Accepting(hal), NEW t \in Nat
    PROVE  Agreed(StartPosition(e, hal, t))
<1> DEFINE r == StampRequest(e, t)
           s == StartFeed(r, Position, hal)
<1>1. r \in GpsState /\ Agreed(r)
  BY DEF StampRequest, Agreed, GpsState
<1>2. s \in GpsState /\ Agreed(s)
  <2> HIDE DEF r
  <2>1. QED BY <1>1, StartFeedKeeps, StartFeedAgrees DEF Position, ApiFlag, Accepting
<1>3. StartPosition(e, hal, t) \in {e, s, ArmTimer(s)}
  BY DEF StartPosition, Position
<1>4. QED
  <2> HIDE DEF s
  <2>1. QED BY <1>2, <1>3 DEF ArmTimer, Agreed, GpsState

LEMMA StopFeedAgrees ==
    ASSUME NEW e \in GpsState, Agreed(e), NEW hal, Accepting(hal), NEW f \in ApiFlag
    PROVE  Agreed(StopFeed(e, f, hal))
<1> DEFINE c == [e EXCEPT !.flags = @ \ {f}]
<1>1. c \in GpsState /\ Agreed(c)
  BY DEF Agreed, GpsState
<1>2. StopFeed(e, f, hal) \in {e, c, GpsDisable(c, hal)}
  BY DEF StopFeed
<1>3. QED
  <2> HIDE DEF c
  <2>1. QED BY <1>1, <1>2, GpsDisableAgrees

LEMMA StopPositionAgrees ==
    ASSUME NEW e \in GpsState, Agreed(e), NEW hal, Accepting(hal)
    PROVE  Agreed(StopPosition(e, hal))
<1> DEFINE r == ResetFirstFix([e EXCEPT !.timer = "none"])
<1>1. r \in GpsState /\ Agreed(r)
  BY DEF ResetFirstFix, Agreed, GpsState
<1>2. StopPosition(e, hal) \in {e, StopFeed(r, Position, hal)}
  BY DEF StopPosition, Position
<1>3. QED
  <2> HIDE DEF r
  <2>1. QED BY <1>1, <1>2, StopFeedAgrees DEF Position, ApiFlag

LEMMA StopGpsAgrees ==
    ASSUME NEW e \in GpsState, EngineInv(e), Agreed(e), NEW hal, Accepting(hal)
    PROVE  Agreed(StopGps(e, hal))
<1> DEFINE g == GpsDisable(e, hal)
<1>1. g \in GpsState /\ Agreed(g)
  BY GpsDisableKeeps, GpsDisableAgrees DEF EngineInv, Accepting
<1>2. StopGps(e, hal) \in {e, g, [g EXCEPT !.flags = {}, !.timer = "none"]}
  BY DEF StopGps
<1>3. QED
  <2> HIDE DEF g
  <2>1. QED BY <1>1, <1>2 DEF Agreed, GpsState

LEMMA SetMockAgrees ==
    ASSUME NEW e \in GpsState, EngineInv(e), Agreed(e), NEW name, NEW state \in BOOLEAN,
           NEW listed \in BOOLEAN, NEW h1, Accepting(h1), NEW h2, Accepting(h2),
           NEW t \in Nat
    PROVE  Agreed(SetMockLocationState(e, name, state, listed, h1, h2, t))
<1> DEFINE set(x) == IF name = "gps"
                     THEN [x EXCEPT !.mock = SetMockState(@, state)]
                     ELSE x
           g == StopGps(e, h1)
<1>1. ASSUME NEW x \in GpsState, Agreed(x) PROVE set(x) \in GpsState /\ Agreed(set(x))
  <2>1. SetMockState(x.mock, state) \in SUBSET MockFlag
    BY MockFlags DEF GpsState
  <2>2. QED BY <1>1, <2>1 DEF Agreed, GpsState
<1>2. g \in GpsState /\ Agreed(g)
  BY ForceStopStep, StopGpsAgrees DEF Accepting
<1>3. SetMockLocationState(e, name, state, listed, h1, h2, t)
        = IF listed THEN StartPosition(set(g), h2, t) ELSE set(e)
  BY DEF SetMockLocationState
<1> HIDE DEF set, g
<1>4. QED BY <1>1, <1>2, <1>3, StartPositionAgrees

LEMMA SetParametersAgrees ==
    ASSUME NEW e \in GpsState, Agreed(e), NEW hal, Accepting(hal), NEW p \in Param
    PROVE  Agreed(SetGpsParameters(e, p, hal))
<1> DEFINE c == [e EXCEPT !.params = p, !.modified = TRUE]
<1>1. c \in GpsState
  BY DEF GpsState
<1>2. SetGpsParameters(e, p, hal) \in {e, SetPosMode(c, hal)}
  BY DEF SetGpsParameters
<1>3. QED
  <2> HIDE DEF c
  <2>1. QED BY <1>1, <1>2, SetPosModeAgrees

Accommodating == \A hal \in HalAnswers : hal.mode

LEMMA NextAgrees ==
    ASSUME IInv, Accommodating, Agreed(eng), [Next]_vars
    PROVE  Agreed(eng')
<1>0. /\ eng \in GpsState /\ now \in Nat /\ EngineInv(eng)
      /\ \A hal \in HalAnswers : Accepting(hal)
  BY EngineAssumption DEF IInv, TypeOK, Accommodating, Accepting
<1>1. CASE RequestPosition
  BY <1>0, <1>1, StartPositionAgrees DEF RequestPosition, MainLoop
<1>2. CASE RequestFeed
  BY <1>0, <1>2, StartFeedAgrees DEF RequestFeed, MainLoop
<1>3. CASE CancelPosition
  BY <1>0, <1>3, StopPositionAgrees DEF CancelPosition, MainLoop
<1>4. CASE CancelFeed
  BY <1>0, <1>4, StopFeedAgrees DEF CancelFeed, MainLoop
<1>5. CASE ForceStop
  BY <1>0, <1>5, StopGpsAgrees DEF ForceStop, MainLoop
<1>6. CASE SetParameters
  BY <1>0, <1>6, SetParametersAgrees DEF SetParameters, MainLoop
<1>7. CASE SetMock
  BY <1>0, <1>7, SetMockAgrees DEF SetMock
<1>8. CASE MockFix
  BY <1>0, <1>8 DEF MockFix, MainLoop, Agreed, GpsState
<1>9. CASE \/ Enable \/ PosTimeout \/ GetTimeToFirstFix
           \/ FixArrives \/ FixStamp \/ FixLatch \/ FixDone
           \/ Tick \/ SleepDropsSession \/ UNCHANGED vars
  <2>1. eng'.params = eng.params /\ eng'.halParams = eng.halParams
    BY <1>0, <1>9
       DEF Enable, PosTimeout, PosTimerFires, GetTimeToFirstFix,
           ReadTimeToFirstFix, MainLoop, FixArrives, FixStamp, FixLatch,
           FixDone, Tick, SleepDropsSession, vars, GpsState
  <2>2. QED BY <2>1 DEF Agreed
<1>10. QED
  BY <1>1, <1>2, <1>3, <1>4, <1>5, <1>6, <1>7, <1>8, <1>9 DEF Next

(* Parameters of a client's own are in force, in a HAL that accepts every  *)
(* mode, only while they are marked to be reset at the end of the session  *)
(* (handleSetGpsParameterCommand, handleGpsDisable).                       *)
THEOREM ParamsEndWithSession == Spec => []HalParamsAreMarked
<1>1. Init => (Accommodating => Agreed(eng))
  BY DEF Init, GpsInit, Agreed
<1>2. IInv /\ (Accommodating => Agreed(eng)) /\ [Next]_vars
        => (Accommodating => Agreed(eng))'
  BY NextAgrees DEF Accommodating
<1>3. IInv /\ (Accommodating => Agreed(eng)) => HalParamsAreMarked
  BY DEF IInv, EngineInv, Agreed, HalParamsAreMarked, Accommodating
<1>4. QED BY <1>1, <1>2, <1>3, Invariance, PTL DEF Spec

(* The provider implements the engine on demand: it starts idle, and every *)
(* handler, timer and callback is a step of EngineDemand or none at all.   *)
THEOREM ImplementsDemand == Spec => DemandSpec
<1>1. Init => Demand!Init
  BY DEF Init, GpsInit, Demand!Init
<1>2. IInv /\ [Next]_vars => [Demand!Next]_Demand!vars
  <2>1. SUFFICES ASSUME IInv, [Next]_vars
                 PROVE  [Demand!Next]_Demand!vars
    OBVIOUS
  <2>2. DemandStep(eng, eng') /\ IInv'
    BY <2>1, NextIInv
  <2>3. (eng'.started <=> eng.started) => (eng'.started = eng.started)
    BY <2>1, <2>2 DEF IInv, TypeOK, GpsState
  <2>4. (eng'.started <=> TRUE) => (eng'.started = TRUE)
    BY <2>2 DEF IInv, TypeOK, GpsState
  <2>5. (eng'.started <=> FALSE) => (eng'.started = FALSE)
    BY <2>2 DEF IInv, TypeOK, GpsState
  <2>6. QED
    BY <2>2, <2>3, <2>4, <2>5
       DEF DemandStep, Demand!Next, Demand!vars, Demand!Grant, Demand!GiveUp,
           Demand!GiveUpAll, Demand!Restart
<1>3. QED
  BY <1>1, <1>2, Invariance, PTL DEF Spec, DemandSpec, Demand!Spec

-----------------------------------------------------------------------------
(* The time to first fix.  Only three things write the fields it is read   *)
(* from: the callback, once in a session, POSITION_CMD, which may stamp    *)
(* the request anew, and STOP_POSITION_CMD, which clears them all.         *)

(* The measurement of d is that of e; a request at time t may have been    *)
(* stamped in between.                                                     *)
MeasureKept(e, d, t) ==
    /\ d.ttffState <=> e.ttffState
    /\ d.lastFix = e.lastFix
    /\ d.ttff = e.ttff
    /\ d.reqTime = e.reqTime \/ d.reqTime = t

(* As long as there is no mock: a callback that is about to write          *)
(* mLastFixTime is the first of the session, and a reported time is the    *)
(* one between mFixRequestTime and mLastFixTime, or a request has been     *)
(* stamped since and nothing more can be read until there is another fix.  *)
Measured(e, step, t) ==
    /\ e.lastFix <= t
    /\ step = "enter" => ~e.ttffState
    /\ e.lastFix # 0 => e.ttffState \/ step = "stamp"
    /\ e.ttff # 0 => e.lastFix # 0
    /\ e.ttff # 0 /\ e.lastFix > e.reqTime => e.ttff = e.lastFix - e.reqTime

LEMMA KeptIsMeasured ==
    ASSUME NEW e \in GpsState, NEW d \in GpsState, NEW t \in Nat, NEW step,
           Measured(e, step, t), MeasureKept(e, d, t)
    PROVE  Measured(d, step, t)
BY DEF Measured, MeasureKept, GpsState

LEMMA KeptIsTransitive ==
    ASSUME NEW e \in GpsState, NEW c \in GpsState, NEW d \in GpsState, NEW t \in Nat,
           MeasureKept(e, c, t), MeasureKept(c, d, t)
    PROVE  MeasureKept(e, d, t)
BY DEF MeasureKept

LEMMA SetPosModeMeasure ==
    ASSUME NEW e \in GpsState, NEW hal \in HalAnswer, NEW t \in Nat
    PROVE  MeasureKept(e, SetPosMode(e, hal), t)
BY DEF SetPosMode, MeasureKept, GpsState

LEMMA GpsEnableMeasure ==
    ASSUME NEW e \in GpsState, NEW hal \in HalAnswer, NEW t \in Nat
    PROVE  MeasureKept(e, GpsEnable(e, hal), t)
BY DEF GpsEnable, HalStart, MeasureKept, GpsState

LEMMA GpsDisableMeasure ==
    ASSUME NEW e \in GpsState, NEW hal \in HalAnswer, NEW t \in Nat
    PROVE  MeasureKept(e, GpsDisable(e, hal), t)
<1> DEFINE c == [e EXCEPT !.params = "default", !.modified = FALSE]
           r == ResetParams(e, hal)
<1>1. c \in GpsState /\ MeasureKept(e, c, t)
  BY DEF MeasureKept, GpsState, Param
<1>2. r \in GpsState /\ MeasureKept(e, r, t)
  <2> HIDE DEF c
  <2>1. r = e \/ r = SetPosMode(c, hal)
    BY DEF ResetParams, c
  <2>2. MeasureKept(e, e, t)
    BY DEF MeasureKept
  <2>3. SetPosMode(c, hal) \in GpsState /\ MeasureKept(e, SetPosMode(c, hal), t)
    BY <1>1, SetPosModeKeeps, SetPosModeMeasure, KeptIsTransitive
  <2>4. QED BY <2>1, <2>2, <2>3
<1>3. GpsDisable(e, hal) \in {e, r, [HalStop(r) EXCEPT !.started = FALSE]}
  BY DEF GpsDisable
<1>4. QED
  <2> HIDE DEF r
  <2>1. MeasureKept(e, [HalStop(r) EXCEPT !.started = FALSE], t)
    BY <1>2 DEF HalStop, MeasureKept, GpsState
  <2>2. MeasureKept(e, e, t)
    BY DEF MeasureKept
  <2>3. QED BY <1>2, <1>3, <2>1, <2>2

LEMMA StartFeedMeasure ==
    ASSUME NEW e \in GpsState, NEW hal \in HalAnswer, NEW f \in ApiFlag, NEW t \in Nat
    PROVE  MeasureKept(e, StartFeed(e, f, hal), t)
<1> DEFINE m == SetPosMode(e, hal)
           up == GpsEnable(m, hal)
<1>1. m \in GpsState /\ MeasureKept(e, m, t)
  BY SetPosModeKeeps, SetPosModeMeasure
<1>2. up \in GpsState /\ MeasureKept(e, up, t)
  <2> HIDE DEF m
  <2>1. up \in GpsState /\ MeasureKept(m, up, t)
    BY <1>1, GpsEnableKeeps, GpsEnableMeasure
  <2>2. QED BY <1>1, <2>1, KeptIsTransitive
<1>3. StartFeed(e, f, hal) \in {e, up, [up EXCEPT !.flags = @ \cup {f}]}
  BY DEF StartFeed
<1>4. QED
  <2> HIDE DEF up
  <2>1. QED BY <1>2, <1>3 DEF MeasureKept, GpsState

(* A request is stamped with the time of the request or not at all.        *)
LEMMA StartPositionMeasure ==
    ASSUME NEW e \in GpsState, NEW hal \in HalAnswer, NEW t \in Nat
    PROVE  MeasureKept(e, StartPosition(e, hal, t), t)
<1> DEFINE r == StampRequest(e, t)
           s == StartFeed(r, Position, hal)
<1>1. r \in GpsState /\ MeasureKept(e, r, t)
  BY DEF StampRequest, MeasureKept, GpsState
<1>2. s \in GpsState /\ MeasureKept(e, s, t)
  <2> HIDE DEF r
  <2>1. s \in GpsState /\ MeasureKept(r, s, t)
    BY <1>1, StartFeedKeeps, StartFeedMeasure DEF Position, ApiFlag
  <2>2. QED BY <1>1, <2>1, KeptIsTransitive
<1>3. StartPosition(e, hal, t) \in {e, s, ArmTimer(s)}
  BY DEF StartPosition, Position
<1>4. QED
  <2> HIDE DEF s
  <2>1. QED BY <1>2, <1>3 DEF ArmTimer, MeasureKept, GpsState

LEMMA StopFeedMeasure ==
    ASSUME NEW e \in GpsState, NEW hal \in HalAnswer, NEW f \in ApiFlag, NEW t \in Nat
    PROVE  MeasureKept(e, StopFeed(e, f, hal), t)
<1> DEFINE c == [e EXCEPT !.flags = @ \ {f}]
<1>1. c \in GpsState /\ MeasureKept(e, c, t)
  BY DEF MeasureKept, GpsState
<1>2. StopFeed(e, f, hal) \in {e, c, GpsDisable(c, hal)}
  BY DEF StopFeed
<1>3. QED
  <2> HIDE DEF c
  <2>1. MeasureKept(c, GpsDisable(c, hal), t)
    BY <1>1, GpsDisableMeasure
  <2>2. MeasureKept(e, GpsDisable(c, hal), t)
    BY <1>1, <2>1 DEF MeasureKept
  <2>3. MeasureKept(e, e, t)
    BY DEF MeasureKept
  <2>4. QED BY <1>1, <1>2, <2>2, <2>3

(* STOP_GPS_CMD ends the session but not its measurement.                  *)
LEMMA StopGpsMeasure ==
    ASSUME NEW e \in GpsState, EngineInv(e), NEW hal \in HalAnswer, NEW t \in Nat
    PROVE  MeasureKept(e, StopGps(e, hal), t)
<1> DEFINE g == GpsDisable(e, hal)
<1>1. g \in GpsState /\ MeasureKept(e, g, t)
  BY GpsDisableKeeps, GpsDisableMeasure DEF EngineInv
<1>2. StopGps(e, hal) \in {e, g, [g EXCEPT !.flags = {}, !.timer = "none"]}
  BY DEF StopGps
<1>3. QED
  <2> HIDE DEF g
  <2>1. QED BY <1>1, <1>2 DEF MeasureKept, GpsState

LEMMA SetMockMeasure ==
    ASSUME NEW e \in GpsState, EngineInv(e), NEW name, NEW state \in BOOLEAN,
           NEW listed \in BOOLEAN, NEW h1 \in HalAnswer, NEW h2 \in HalAnswer,
           NEW t \in Nat
    PROVE  MeasureKept(e, SetMockLocationState(e, name, state, listed, h1, h2, t), t)
<1> DEFINE set(x) == IF name = "gps"
                     THEN [x EXCEPT !.mock = SetMockState(@, state)]
                     ELSE x
           g == StopGps(e, h1)
           m == set(g)
           p == StartPosition(m, h2, t)
<1>1. ASSUME NEW x \in GpsState PROVE set(x) \in GpsState /\ MeasureKept(x, set(x), t)
  <2>1. SetMockState(x.mock, state) \in SUBSET MockFlag
    BY MockFlags DEF GpsState
  <2>2. QED BY <1>1, <2>1 DEF MeasureKept, GpsState
<1>2. g \in GpsState /\ MeasureKept(e, g, t)
  BY ForceStopStep, StopGpsMeasure
<1>3. SetMockLocationState(e, name, state, listed, h1, h2, t)
        = IF listed THEN p ELSE set(e)
  BY DEF SetMockLocationState
<1> HIDE DEF set, g
<1>4. m \in GpsState /\ MeasureKept(g, m, t)
  BY <1>1, <1>2
<1>5. MeasureKept(m, p, t)
  <2> HIDE DEF m
  <2>1. QED BY <1>4, StartPositionMeasure
<1>6. MeasureKept(e, p, t)
  <2> HIDE DEF m, p
  <2>1. QED BY <1>2, <1>4, <1>5 DEF MeasureKept
<1>7. QED BY <1>1, <1>3, <1>6

LEMMA SetParametersMeasure ==
    ASSUME NEW e \in GpsState, NEW hal \in HalAnswer, NEW p \in Param, NEW t \in Nat
    PROVE  MeasureKept(e, SetGpsParameters(e, p, hal), t)
<1> DEFINE c == [e EXCEPT !.params = p, !.modified = TRUE]
<1>1. c \in GpsState /\ MeasureKept(e, c, t)
  BY DEF MeasureKept, GpsState
<1>2. SetGpsParameters(e, p, hal) \in {e, SetPosMode(c, hal)}
  BY DEF SetGpsParameters
<1>3. QED
  <2> HIDE DEF c
  <2>1. MeasureKept(c, SetPosMode(c, hal), t)
    BY <1>1, SetPosModeMeasure
  <2>2. MeasureKept(e, e, t)
    BY DEF MeasureKept
  <2>3. QED BY <1>1, <1>2, <2>1, <2>2 DEF MeasureKept

(* The measurement is cleared, and the session is over with it.            *)
MeasureCleared(d) ==
    /\ ~d.ttffState /\ d.reqTime = 0 /\ d.lastFix = 0 /\ d.ttff = 0
    /\ Position \notin d.flags

LEMMA StopPositionMeasure ==
    ASSUME NEW e \in GpsState, EngineInv(e), NEW hal \in HalAnswer
    PROVE  StopPosition(e, hal) = e \/ MeasureCleared(StopPosition(e, hal))
<1> DEFINE r == ResetFirstFix([e EXCEPT !.timer = "none"])
           d == StopFeed(r, Position, hal)
<1>1. /\ r \in GpsState /\ r.flags = e.flags /\ (r.started <=> e.started)
      /\ (r.enabled <=> e.enabled) /\ (~r.modified => r.params = "default")
      /\ ~r.ttffState /\ r.reqTime = 0 /\ r.lastFix = 0 /\ r.ttff = 0
  BY DEF ResetFirstFix, GpsState, EngineInv
<1>2. StopPosition(e, hal) = IF ~e.enabled THEN e ELSE d
  BY DEF StopPosition, Position
<1>3. r.flags # {} => r.started
  BY <1>1 DEF EngineInv
<1>4. /\ MeasureKept(r, d, 0)
      /\ d.flags = r.flags \ {Position} \/ (d = r /\ ~r.enabled)
  <2> HIDE DEF r
  <2>1. Position \in ApiFlag
    BY DEF Position, ApiFlag
  <2>2. QED BY <1>1, <1>3, <2>1, StopFeedKeeps, StopFeedMeasure
<1>5. CASE e.enabled
  <2> HIDE DEF r, d
  <2>1. MeasureCleared(d)
    BY <1>1, <1>4, <1>5 DEF MeasureCleared, MeasureKept
  <2>2. QED BY <1>2, <1>5, <2>1
<1>6. CASE ~e.enabled
  BY <1>2, <1>6
<1>7. QED BY <1>5, <1>6

(* Without a mock every step keeps the measurement sound, and one that has *)
(* been reported stays or ends with its session.                           *)
LEMMA NextMeasured ==
    ASSUME IInv, Owned(eng), Measured(eng, fix, now), [Next]_vars, ~mocked'
    PROVE  /\ Measured(eng', fix', now')
           /\ eng.ttff # 0 => eng'.ttff = eng.ttff \/ Position \notin eng'.flags
<1>0. /\ eng \in GpsState /\ now \in Nat /\ EngineInv(eng)
      /\ \A hal \in HalAnswers : hal \in HalAnswer
  BY EngineAssumption DEF IInv, TypeOK
<1>1. eng' \in GpsState
  BY NextIInv DEF IInv, TypeOK
<1>2. ASSUME MeasureKept(eng, eng', now), UNCHANGED <<fix, now>>
      PROVE  /\ Measured(eng', fix', now')
             /\ eng'.ttff = eng.ttff
  BY <1>0, <1>1, <1>2, KeptIsMeasured DEF MeasureKept
<1>3. CASE RequestPosition
  BY <1>0, <1>2, <1>3, StartPositionMeasure DEF RequestPosition, MainLoop
<1>4. CASE RequestFeed
  BY <1>0, <1>2, <1>4, StartFeedMeasure DEF RequestFeed, MainLoop
<1>5. CASE CancelPosition
  <2>1. PICK hal \in HalAnswers : MainLoop(StopPosition(eng, hal))
    BY <1>5 DEF CancelPosition
  <2>2. eng' = eng \/ MeasureCleared(eng')
    BY <1>0, <2>1, StopPositionMeasure DEF MainLoop
  <2>3. QED BY <1>0, <2>1, <2>2 DEF MainLoop, MeasureCleared, Measured
<1>6. CASE CancelFeed
  BY <1>0, <1>2, <1>6, StopFeedMeasure DEF CancelFeed, MainLoop
<1>7. CASE ForceStop
  BY <1>0, <1>2, <1>7, StopGpsMeasure DEF ForceStop, MainLoop
<1>8. CASE SetParameters
  BY <1>0, <1>2, <1>8, SetParametersMeasure DEF SetParameters, MainLoop
<1>9. CASE SetMock
  BY <1>0, <1>2, <1>9, SetMockMeasure DEF SetMock
<1>10. CASE MockFix
  BY <1>10 DEF MockFix, MockFeeds, Owned
<1>11. CASE GetTimeToFirstFix
  BY <1>0, <1>11 DEF GetTimeToFirstFix, ReadTimeToFirstFix, MainLoop, Measured, GpsState
<1>12. CASE FixArrives
  BY <1>0, <1>12 DEF FixArrives, Measured, GpsState
<1>13. CASE FixStamp
  BY <1>0, <1>13 DEF FixStamp, Measured, GpsState
<1>14. CASE FixLatch
  BY <1>0, <1>14 DEF FixLatch, Measured, GpsState
<1>15. CASE FixDone
  BY <1>0, <1>15 DEF FixDone, Measured, GpsState
<1>16. CASE Tick
  BY <1>0, <1>16 DEF Tick, Measured, GpsState
<1>17. CASE \/ Enable \/ PosTimeout \/ SleepDropsSession \/ UNCHANGED vars
  <2>1. MeasureKept(eng, eng', now) /\ UNCHANGED <<fix, now>>
    BY <1>0, <1>17
       DEF Enable, PosTimeout, PosTimerFires, MainLoop, SleepDropsSession, vars,
           MeasureKept, GpsState
  <2>2. QED BY <1>2, <2>1
<1>18. QED
  BY <1>3, <1>4, <1>5, <1>6, <1>7, <1>8, <1>9, <1>10, <1>11, <1>12, <1>13,
     <1>14, <1>15, <1>16, <1>17 DEF Next

(* No mock provider is undone, so what is true without one was so before.  *)
LEMMA MockedStays ==
    ASSUME [Next]_vars, ~mocked'
    PROVE  ~mocked
BY DEF Next, Enable, MainLoop, RequestPosition, RequestFeed, CancelPosition,
       CancelFeed, ForceStop, SetParameters, PosTimeout, SetMock,
       GetTimeToFirstFix, MockFix, FixArrives, FixStamp, FixLatch, FixDone,
       Tick, SleepDropsSession, vars

MeasureInv == ~mocked => Owned(eng) /\ Measured(eng, fix, now)

(* Without a gps mock provider the time to first fix that a position       *)
(* session has reported does not change before the session ends: no        *)
(* callback that has outlived an earlier session and no later request      *)
(* makes getTimeToFirstFixValue give another one.                          *)
THEOREM FirstFixStaysFinal == Spec => FirstFixIsFinal
<1>1. Init => MeasureInv
  <2>1. Init => Owned(eng) /\ Measured(eng, fix, now)
    BY DEF Init, GpsInit, Owned, Measured
  <2>2. QED BY <2>1 DEF MeasureInv
<1>2. IInv /\ MeasureInv /\ [Next]_vars => MeasureInv'
  BY NextOwned, NextMeasured, MockedStays DEF MeasureInv
<1>3. IInv /\ MeasureInv /\ [Next]_vars
        => [/\ Position \in eng.flags /\ Position \in eng'.flags
            /\ eng.ttff # 0 /\ ~mocked'
            => eng'.ttff = eng.ttff]_vars
  BY NextMeasured, MockedStays DEF MeasureInv
<1>4. QED BY <1>1, <1>2, <1>3, Invariance, PTL DEF Spec, FirstFixIsFinal
=============================================================================
