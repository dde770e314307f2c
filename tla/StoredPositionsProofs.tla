----------------------- MODULE StoredPositionsProofs -----------------------
(***************************************************************************)
(* What holds of the stored positions for every set of reports, ages and   *)
(* bound on the clock, with any of the troubles a world may have.          *)
(***************************************************************************)
EXTENDS StoredPositions, TLAPS

(* Who writes where, and that what is written is the latest fix, or not    *)
(* newer where two threads write; the network provider knows what it has   *)
(* begun to write.                                                         *)
WriterOK(t) ==
    writer[t] # NotWriting =>
        LET h == writer[t].to
            fix == writer[t].fix
        IN  /\ t = "hal" => h = "gps"
            /\ t = "main" /\ "mock" \notin may => h = "network"
            /\ latest[h] # NoFix /\ fix.at <= latest[h].at
            /\ h = "network" \/ "mock" \notin may => fix = latest[h]
            /\ h = "network" => known.place = fix.place /\ known.acc = fix.acc

Settled(h) == (\A t \in Thread : writer[t].to # h) /\ h \notin lost

FileOK(h) ==
    /\ latest[h] # NoFix => latest[h].at <= now
    /\ file[h] # NoFix => latest[h] # NoFix /\ file[h].at <= latest[h].at
    /\ Settled(h) => /\ latest[h] # NoFix => file[h] # NoFix
                     /\ "mock" \notin may => file[h] = latest[h]
                     /\ h = "network" /\ known # NoFix =>
                            /\ file[h] # NoFix
                            /\ known.place = file[h].place
                            /\ known.acc = file[h].acc

AnswerOK == answer.fix # NoFix =>
                \E h \in Handler : latest[h] # NoFix /\ answer.fix.at <= latest[h].at

StoredIInv == /\ StoredTypeOK /\ AnswerOK
              /\ \A t \in Thread : WriterOK(t)
              /\ \A h \in Handler : FileOK(h)

LEMMA StoredTypes ==
    ASSUME StoredTypeOK
    PROVE  /\ now \in Nat /\ now >= 1
           /\ DOMAIN writer = Thread /\ DOMAIN file = Handler
           /\ DOMAIN latest = Handler
           /\ \A h \in Handler : /\ file[h] \in Fix \cup {NoFix}
                                 /\ latest[h] \in Fix \cup {NoFix}
           /\ NoFix \notin Fix
           /\ \A p \in Fix : p.at \in Nat /\ p.at >= 1 /\ p.acc \in Nat
           /\ \A t \in Thread : writer[t].to \in Handler =>
                  writer[t] # NotWriting /\ writer[t].fix \in Fix
           /\ \A t \in Thread : writer[t] # NotWriting =>
                  writer[t].to \in Handler /\ writer[t].fix \in Fix
<1>1. now \in Nat /\ now >= 1 /\ MaxTime \in Nat
    BY StoredAssumption DEF StoredTypeOK, Time, StoredAssumption
<1>2. \A p \in Fix : p.at \in Nat /\ p.at >= 1 /\ p.acc \in Nat
    <2> TAKE p \in Fix
    <2>1. p.at \in 1 .. MaxTime /\ p.acc \in {r.acc : r \in Report}
        BY DEF Fix, Time
    <2>2. PICK r \in Report : p.acc = r.acc
        BY <2>1
    <2> QED BY <1>1, <2>1, <2>2, StoredAssumption DEF StoredAssumption
<1>3. "none" \notin Handler /\ NotWriting.to = "none"
    BY DEF Handler, NotWriting
<1> QED BY <1>1, <1>2, <1>3, StoredAssumption DEF StoredTypeOK, StoredAssumption

LEMMA KeptFiles ==
    ASSUME StoredIInv PROVE FilesAreKept
<1>1. \A h \in Handler : Writing(h) = {} /\ h \notin lost => Settled(h)
    BY DEF Writing, Settled
<1>2. LatestIsStored
    BY <1>1 DEF LatestIsStored, StoredIInv, FileOK
<1>3. ConfirmedIsStored
    <2> SUFFICES ASSUME known # NoFix, Writing("network") = {}, "network" \notin lost
                 PROVE  /\ file["network"] # NoFix
                        /\ known = [place |-> file["network"].place,
                                    acc |-> file["network"].acc]
        BY DEF ConfirmedIsStored
    <2>1. "network" \in Handler
        BY DEF Handler
    <2>2. /\ file["network"] # NoFix
          /\ known.place = file["network"].place /\ known.acc = file["network"].acc
        BY <1>1, <2>1 DEF StoredIInv, FileOK
    <2>3. known = [place |-> known.place, acc |-> known.acc]
        BY StoredAssumption DEF StoredIInv, StoredTypeOK, StoredAssumption
    <2> QED BY <2>2, <2>3
<1> QED BY <1>2, <1>3 DEF FilesAreKept

LEMMA StoredStarts ==
    ASSUME StoredInit PROVE StoredIInv
<1>1. StoredTypeOK
    BY StoredAssumption DEF StoredInit, StoredTypeOK, Time, StoredAssumption, Handler
<1>2. \A t \in Thread : WriterOK(t)
    BY DEF StoredInit, WriterOK
<1>3. \A h \in Handler : FileOK(h)
    BY DEF StoredInit, FileOK
<1>4. AnswerOK
    BY DEF StoredInit, AnswerOK
<1> QED BY <1>1, <1>2, <1>3, <1>4 DEF StoredIInv

LEMMA FixOf ==
    ASSUME StoredTypeOK, NEW r \in Report
    PROVE  /\ FixNow(r) \in Fix /\ FixNow(r) # NoFix /\ FixNow(r).at = now
           /\ FixNow(r).place = r.place /\ FixNow(r).acc = r.acc
<1>1. now \in Time
    BY DEF StoredTypeOK
<1>2. FixNow(r) \in Fix
    BY <1>1 DEF FixNow, Fix
<1> QED BY <1>2, StoredTypes DEF FixNow

(* A fix that is to be stored, by the thread that may write the file.      *)
LEMMA StoreKeeps ==
    ASSUME StoredIInv, may' = may, now' = now, answer' = answer,
           NEW t \in Thread, NEW h \in Handler, NEW r \in Report,
           Store(t, h, r), writer[t] = NotWriting,
           t = "hal" => h = "gps",
           t = "main" /\ "mock" \notin may => h = "network",
           IF h = "network" THEN known' = r ELSE known' = known
    PROVE  StoredIInv'
<1> DEFINE fix == FixNow(r)
<1>0. StoredTypeOK /\ (\A u \in Thread : WriterOK(u)) /\ (\A g \in Handler : FileOK(g))
      /\ AnswerOK
    BY DEF StoredIInv
<1>1. /\ fix \in Fix /\ fix # NoFix /\ fix.at = now
      /\ fix.place = r.place /\ fix.acc = r.acc
    BY <1>0, FixOf
<1>2. /\ latest'[h] = fix /\ DOMAIN latest' = Handler
      /\ \A g \in Handler \ {h} : latest'[g] = latest[g]
    BY <1>0, StoredTypes DEF Store
<1>3. \/ /\ writer' = [writer EXCEPT ![t] = [to |-> h, fix |-> fix]]
         /\ file' = [file EXCEPT ![h] = NoFix] /\ lost' = lost
      \/ lost' = lost \cup {h} /\ UNCHANGED <<writer, file>>
    BY DEF Store
<1> HIDE DEF fix
<1>4. /\ DOMAIN writer' = Thread /\ DOMAIN file' = Handler
      /\ \A g \in Handler \ {h} : file'[g] = file[g]
      /\ file'[h] \in {file[h], NoFix}
      /\ \A u \in Thread \ {t} : writer'[u] = writer[u]
      /\ \/ writer'[t] = writer[t]
         \/ writer'[t] = [to |-> h, fix |-> fix]
      /\ writer'[t].to = h \/ h \in lost'
      /\ lost' \subseteq lost \cup {h} /\ lost \subseteq lost'
    BY <1>0, <1>3, StoredTypes
<1>5. StoredTypeOK'
    <2>1. \A g \in Handler : latest'[g] \in Fix \cup {NoFix} /\ file'[g] \in Fix \cup {NoFix}
        BY <1>0, <1>1, <1>2, <1>4, StoredTypes
    <2>2. latest' \in [Handler -> Fix \cup {NoFix}]
          /\ file' \in [Handler -> Fix \cup {NoFix}]
        <3>1. latest' = [latest EXCEPT ![h] = fix]
            BY DEF Store, fix
        <3>2. latest \in [Handler -> Fix \cup {NoFix}] /\ file \in [Handler -> Fix \cup {NoFix}]
            BY <1>0 DEF StoredTypeOK
        <3> QED BY <1>1, <1>3, <3>1, <3>2
    <2>3. \A u \in Thread : \/ writer'[u] = NotWriting
                            \/ writer'[u].to \in Handler /\ writer'[u].fix \in Fix
        BY <1>0, <1>1, <1>4 DEF StoredTypeOK
    <2> QED BY <1>0, <1>4, <2>2, <2>3 DEF StoredTypeOK
<1>6. \A u \in Thread : WriterOK(u)'
    <2> TAKE u \in Thread
    <2>1. CASE u = t /\ writer'[t] = writer[t]
        BY <2>1 DEF WriterOK
    <2>2. CASE u = t /\ writer'[t] = [to |-> h, fix |-> fix]
        <3>1. now <= now
            BY <1>0, StoredTypes
        <3> QED BY <1>1, <1>2, <2>2, <3>1 DEF WriterOK
    <2>3. CASE u # t
        <3> SUFFICES ASSUME writer[u] # NotWriting PROVE WriterOK(u)'
            BY <1>4, <2>3 DEF WriterOK
        <3> DEFINE g == writer[u].to
        <3>1. writer'[u] = writer[u] /\ g \in Handler /\ writer[u].fix \in Fix
            BY <1>0, <1>4, <2>3, StoredTypes
        <3>2. /\ u = "hal" => g = "gps"
              /\ u = "main" /\ "mock" \notin may => g = "network"
              /\ latest[g] # NoFix /\ writer[u].fix.at <= latest[g].at
              /\ g = "network" \/ "mock" \notin may => writer[u].fix = latest[g]
              /\ g = "network" => /\ known.place = writer[u].fix.place
                                  /\ known.acc = writer[u].fix.acc
            BY <1>0 DEF WriterOK
        <3>3. g = h => ~ (g = "network" \/ "mock" \notin may)
            BY <2>3, <3>2 DEF Thread
        <3>4. latest[g].at <= now /\ latest[g].at \in Nat /\ writer[u].fix.at \in Nat
              /\ now \in Nat
            BY <1>0, <3>1, <3>2, StoredTypes DEF FileOK
        <3>5. latest'[g] # NoFix /\ writer[u].fix.at <= latest'[g].at
            BY <1>1, <1>2, <3>1, <3>2, <3>4
        <3>6. g # h => latest'[g] = latest[g]
            BY <1>2, <3>1
        <3>7. g = "network" => known' = known
            BY <3>3
        <3> HIDE DEF g
        <3> QED BY <3>1, <3>2, <3>3, <3>5, <3>6, <3>7 DEF WriterOK, g
    <2> QED BY <1>4, <2>1, <2>2, <2>3
<1>7. \A g \in Handler : FileOK(g)'
    <2> TAKE g \in Handler
    <2>1. CASE g = h
        <3>1. ~ Settled(g)'
            BY <1>4, <2>1 DEF Settled
        <3>2. latest'[g].at = now /\ now \in Nat /\ latest'[g] # NoFix
            BY <1>0, <1>1, <1>2, <2>1, StoredTypes
        <3>3. file'[g] # NoFix => file'[g].at <= now
            <4>1. file[g] # NoFix => /\ file[g].at \in Nat /\ latest[g].at \in Nat
                                     /\ file[g].at <= latest[g].at /\ latest[g].at <= now
                BY <1>0, StoredTypes DEF FileOK
            <4> QED BY <1>4, <2>1, <3>2, <4>1
        <3> QED BY <3>1, <3>2, <3>3 DEF FileOK
    <2>2. CASE g # h
        <3>1. latest'[g] = latest[g] /\ file'[g] = file[g] /\ (g \in lost' <=> g \in lost)
            BY <1>2, <1>4, <2>2
        <3>2. Settled(g)' => Settled(g)
            <4>1. writer[t].to # g
                BY <2>2 DEF NotWriting, Handler
            <4> QED BY <1>4, <3>1, <4>1 DEF Settled
        <3>3. g = "network" => known' = known
            BY <2>2
        <3> QED BY <1>0, <3>1, <3>2, <3>3 DEF FileOK
    <2> QED BY <2>1, <2>2
<1>8. AnswerOK'
    <2> SUFFICES ASSUME answer.fix # NoFix PROVE AnswerOK'
        BY DEF AnswerOK
    <2>1. PICK g \in Handler : latest[g] # NoFix /\ answer.fix.at <= latest[g].at
        BY <1>0 DEF AnswerOK
    <2>2. latest'[g] # NoFix /\ answer.fix.at <= latest'[g].at
        <3>1. /\ latest[g].at \in Nat /\ latest[g].at <= now /\ now \in Nat
              /\ answer.fix.at \in Nat
            BY <1>0, <2>1, StoredTypes DEF FileOK, StoredTypeOK
        <3> QED BY <1>1, <1>2, <2>1, <3>1
    <2> QED BY <2>2 DEF AnswerOK
<1> QED BY <1>5, <1>6, <1>7, <1>8 DEF StoredIInv

LEMMA FixesKeep ==
    ASSUME StoredIInv, may' = may,
           \/ \E r \in Report : NetworkFix(r)
           \/ \E r \in Report, t \in Thread : GpsFix(t, r)
    PROVE  StoredIInv'
<1>0. "main" \in Thread /\ "gps" \in Handler /\ "network" \in Handler
      /\ "gps" # "network" /\ "main" # "hal"
    BY DEF Thread, Handler
<1>1. ASSUME NEW r \in Report, NetworkFix(r) PROVE StoredIInv'
    <2>1. CASE r = known
        <3>1. UNCHANGED storedVars
            BY <1>1, <2>1 DEF NetworkFix, storedVars
        <3> QED BY <3>1 DEF storedVars, StoredIInv, StoredTypeOK, AnswerOK, WriterOK,
                            FileOK, Settled
    <2>2. CASE r # known
        <3>1. Store("main", "network", r) /\ writer["main"] = NotWriting
              /\ known' = r /\ now' = now /\ answer' = answer
            BY <1>1, <2>2 DEF NetworkFix, MainIdle
        <3> QED BY <1>0, <3>1, StoreKeeps
    <2> QED BY <2>1, <2>2
<1>2. ASSUME NEW r \in Report, NEW t \in Thread, GpsFix(t, r) PROVE StoredIInv'
    <2>1. /\ Store(t, "gps", r) /\ writer[t] = NotWriting
          /\ known' = known /\ now' = now /\ answer' = answer
          /\ t = "main" => "mock" \in may
        BY <1>2 DEF GpsFix
    <2> QED BY <1>0, <2>1, StoreKeeps
<1> QED BY <1>1, <1>2

LEMMA TickKeeps ==
    ASSUME StoredIInv, may' = may, Tick PROVE StoredIInv'
<1>0. StoredTypeOK /\ (\A u \in Thread : WriterOK(u)) /\ (\A g \in Handler : FileOK(g))
      /\ AnswerOK
    BY DEF StoredIInv
<1>1. /\ now' = now + 1 /\ now < MaxTime
      /\ UNCHANGED <<file, writer, known, answer, latest, lost>>
    BY DEF Tick
<1>2. now' \in Time /\ now \in Nat
    BY <1>0, <1>1, StoredAssumption, StoredTypes DEF StoredTypeOK, Time, StoredAssumption
<1>3. StoredTypeOK'
    BY <1>0, <1>1, <1>2 DEF StoredTypeOK
<1>4. \A h \in Handler : latest[h] # NoFix => latest[h].at <= now'
    <2> TAKE h \in Handler
    <2>1. latest[h] # NoFix => latest[h].at \in Nat /\ latest[h].at <= now
        BY <1>0, StoredTypes DEF FileOK
    <2> QED BY <1>1, <1>2, <2>1
<1>5. \A h \in Handler : FileOK(h)'
    BY <1>0, <1>1, <1>4 DEF FileOK, Settled
<1>6. \A t \in Thread : WriterOK(t)'
    BY <1>0, <1>1 DEF WriterOK
<1> QED BY <1>0, <1>1, <1>3, <1>5, <1>6 DEF StoredIInv, AnswerOK

LEMMA CommitKeeps ==
    ASSUME StoredIInv, may' = may, NEW t \in Thread, Commit(t) PROVE StoredIInv'
<1> DEFINE h == writer[t].to
           fix == writer[t].fix
<1>0. StoredTypeOK /\ (\A u \in Thread : WriterOK(u)) /\ (\A g \in Handler : FileOK(g))
      /\ AnswerOK
    BY DEF StoredIInv
<1>1. /\ writer[t] # NotWriting /\ writer' = [writer EXCEPT ![t] = NotWriting]
      /\ UNCHANGED <<now, known, answer, latest>>
      /\ \/ file' = [file EXCEPT ![h] = fix] /\ lost' = lost \ {h}
         \/ file' = [file EXCEPT ![h] = NoFix] /\ lost' = lost \cup {h}
         \/ file' = file /\ lost' = lost \cup {h}
    BY DEF Commit
<1>2. /\ h \in Handler /\ fix \in Fix /\ fix # NoFix
      /\ latest[h] # NoFix /\ fix.at <= latest[h].at
      /\ h = "network" \/ "mock" \notin may => fix = latest[h]
      /\ h = "network" => known.place = fix.place /\ known.acc = fix.acc
    BY <1>0, <1>1, StoredTypes DEF WriterOK
<1>3. /\ DOMAIN writer' = Thread /\ DOMAIN file' = Handler
      /\ writer'[t] = NotWriting /\ writer[t].to = h
      /\ \A u \in Thread \ {t} : writer'[u] = writer[u]
      /\ \A g \in Handler \ {h} : file'[g] = file[g] /\ (g \in lost' <=> g \in lost)
      /\ \/ file'[h] = fix
         \/ file'[h] \in {NoFix, file[h]} /\ h \in lost'
      /\ file' \in [Handler -> Fix \cup {NoFix}] /\ lost' \subseteq Handler
    <2>1. file \in [Handler -> Fix \cup {NoFix}] /\ lost \subseteq Handler
          /\ DOMAIN writer = Thread
        BY <1>0 DEF StoredTypeOK
    <2> HIDE DEF fix
    <2>2. writer'[t] = NotWriting /\ DOMAIN writer' = Thread
          /\ \A u \in Thread \ {t} : writer'[u] = writer[u]
        BY <1>1, <2>1
    <2>3. h \in Handler
        BY <1>2
    <2>4. writer[t].to = h
        OBVIOUS
    <2> HIDE DEF h
    <2> QED BY <1>1, <1>2, <2>1, <2>2, <2>3, <2>4
<1> HIDE DEF h, fix
<1>4. StoredTypeOK'
    BY <1>0, <1>1, <1>3 DEF StoredTypeOK
<1>5. \A u \in Thread : WriterOK(u)'
    BY <1>0, <1>1, <1>3 DEF WriterOK
<1>6. \A g \in Handler : FileOK(g)'
    <2> TAKE g \in Handler
    <2>1. CASE g = h
        BY <1>0, <1>1, <1>2, <1>3, <2>1 DEF FileOK, Settled
    <2>2. CASE g # h
        <3>1. Settled(g)' => Settled(g)
            BY <1>3, <2>2 DEF Settled
        <3> QED BY <1>0, <1>1, <1>3, <2>2, <3>1 DEF FileOK
    <2> QED BY <2>1, <2>2
<1> QED BY <1>0, <1>1, <1>4, <1>5, <1>6 DEF StoredIInv, AnswerOK

LEMMA ResetKeeps ==
    ASSUME StoredIInv, may' = may, ResetData PROVE StoredIInv'
<1>0. /\ StoredTypeOK /\ (\A u \in Thread : WriterOK(u))
      /\ (\A g \in Handler : FileOK(g)) /\ AnswerOK
    BY DEF StoredIInv
<1>1. /\ writer["main"] = NotWriting /\ known' = NoFix
      /\ UNCHANGED <<now, file, writer, answer, latest, lost>>
    BY DEF ResetData, MainIdle
<1>2. StoredTypeOK'
    BY <1>0, <1>1 DEF StoredTypeOK
<1>3. \A h \in Handler : FileOK(h)'
    BY <1>0, <1>1 DEF FileOK, Settled
<1>4. \A t \in Thread : WriterOK(t)'
    <2> TAKE t \in Thread
    <2>1. CASE t = "main"
        BY <1>1, <2>1 DEF WriterOK
    <2>2. CASE t = "hal"
        <3>1. "gps" # "network"
            OBVIOUS
        <3> QED BY <1>0, <1>1, <2>2, <3>1 DEF WriterOK
    <2> QED BY <2>1, <2>2 DEF Thread
<1> QED BY <1>0, <1>1, <1>2, <1>3, <1>4 DEF StoredIInv, AnswerOK

LEMMA StoredRestartKeeps ==
    ASSUME StoredIInv, may' = may, StoredRestart PROVE StoredIInv'
<1>0. StoredTypeOK /\ (\A g \in Handler : FileOK(g)) /\ AnswerOK
    BY DEF StoredIInv
<1>1. /\ writer' = [t \in Thread |-> NotWriting] /\ known' = NoFix
      /\ lost' = lost \cup {h \in Handler : Writing(h) # {}}
      /\ UNCHANGED <<now, file, answer, latest>>
    BY DEF StoredRestart
<1>2. StoredTypeOK'
    BY <1>0, <1>1 DEF StoredTypeOK
<1>3. \A h \in Handler : Settled(h)' => Settled(h)
    BY <1>1 DEF Settled, Writing
<1>4. \A h \in Handler : FileOK(h)'
    BY <1>0, <1>1, <1>3 DEF FileOK
<1>5. \A t \in Thread : WriterOK(t)'
    BY <1>1 DEF WriterOK
<1> QED BY <1>0, <1>1, <1>2, <1>4, <1>5 DEF StoredIInv, AnswerOK

-----------------------------------------------------------------------------
(* getCachedPosition.                                                      *)

LEMMA FresherOf ==
    ASSUME NEW p, NEW q, p.at \in Nat, q.at \in Nat
    PROVE  /\ Fresher(p, q) \in {p, q}
           /\ Fresher(p, q).at >= p.at /\ Fresher(p, q).at >= q.at
<1>1. CASE p.at > q.at
    <2>1. ~ (p.at < q.at)
        BY <1>1
    <2>2. Fresher(p, q) = p
        BY <1>1, <2>1, Zenon DEF Fresher
    <2> QED BY <1>1, <2>2
<1>2. CASE p.at < q.at
    <2>1. ~ (p.at > q.at)
        BY <1>2
    <2>2. Fresher(p, q) = q
        BY <1>2, <2>1, Zenon DEF Fresher
    <2> QED BY <1>2, <2>2
<1>3. CASE p.at = q.at
    <2>1. ~ (p.at > q.at) /\ ~ (p.at < q.at)
        BY <1>3
    <2>2. Fresher(p, q) = IF p.acc < q.acc THEN p ELSE q
        BY <2>1, Zenon DEF Fresher
    <2>3. Fresher(p, q) \in {p, q}
        BY <2>2
    <2> QED BY <1>3, <2>3
<1> QED BY <1>1, <1>2, <1>3

(* What is answered was stored, and for "hybrid" is the newest there is.   *)
LEMMA CachedOf ==
    ASSUME StoredTypeOK, NEW handler \in Handler \cup {"hybrid"}
    PROVE  LET p == Cached(handler)
           IN  /\ p = Zeroed \/ \E h \in Handler : p = file[h] /\ file[h] # NoFix
               /\ handler = "hybrid" =>
                      \A h \in Handler : file[h] # NoFix => p.at >= file[h].at
<1>1. \A h \in Handler : /\ file[h] # NoFix => LastPosition(h) = file[h]
                         /\ file[h] = NoFix => LastPosition(h) = Zeroed
    BY DEF LastPosition, Opens
<1>2. Zeroed.at = 0 /\ "gps" \in Handler /\ "network" \in Handler
      /\ Handler = {"gps", "network"}
    BY DEF Zeroed, Handler
<1>3. \A h \in Handler : LastPosition(h).at \in Nat
    <2> TAKE h \in Handler
    <2>1. file[h] # NoFix => file[h].at \in Nat
        BY StoredTypes
    <2>2. CASE file[h] # NoFix
        BY <1>1, <2>1, <2>2
    <2>3. CASE file[h] = NoFix
        <3>1. LastPosition(h) = Zeroed
            BY <1>1, <2>3
        <3> QED BY <1>2, <3>1
    <2> QED BY <2>2, <2>3
<1>4. CASE handler = "hybrid"
    <2> DEFINE a == LastPosition("gps")
               b == LastPosition("network")
    <2>1. Cached(handler) = Fresher(a, b)
        BY <1>4 DEF Cached
    <2>2. a.at \in Nat /\ b.at \in Nat
        BY <1>2, <1>3
    <2>3. /\ a = Zeroed \/ (a = file["gps"] /\ file["gps"] # NoFix)
          /\ b = Zeroed \/ (b = file["network"] /\ file["network"] # NoFix)
          /\ file["gps"] # NoFix => a = file["gps"]
          /\ file["network"] # NoFix => b = file["network"]
        BY <1>1, <1>2
    <2> HIDE DEF a, b
    <2>4. /\ Cached(handler) \in {a, b}
          /\ Cached(handler).at >= a.at /\ Cached(handler).at >= b.at
        BY <2>1, <2>2, FresherOf
    <2> QED BY <1>2, <2>3, <2>4
<1>5. CASE handler # "hybrid"
    <2>1. Cached(handler) = LastPosition(handler) /\ handler \in Handler
        BY <1>5 DEF Cached
    <2> QED BY <1>1, <1>5, <2>1
<1> QED BY <1>4, <1>5

LEMMA CachedAnswer ==
    ASSUME StoredIInv, NEW handler \in Handler \cup {"hybrid"}, NEW age,
           GetCachedPosition(handler, age)
    PROVE  /\ answer' \in [to : Handler \cup {"hybrid"}, fix : Fix \cup {NoFix}]
           /\ answer'.to = handler
           /\ answer'.fix # NoFix =>
                 /\ \E h \in Handler : answer'.fix = file[h] /\ file[h] # NoFix
                 /\ handler = "hybrid" =>
                       \A h \in Handler : file[h] # NoFix => answer'.fix.at >= file[h].at
           /\ writer["main"] = NotWriting
           /\ UNCHANGED <<now, file, writer, known, latest, lost>>
<1>0. StoredTypeOK
    BY DEF StoredIInv
<1> DEFINE p == Cached(handler)
<1>1. Zeroed.place \in Origin
    BY StoredAssumption DEF Zeroed, Nowhere, StoredAssumption
<1>2. PICK f \in {NoFix, p} : /\ answer' = [to |-> handler, fix |-> f]
                              /\ f # NoFix => p.place \notin Origin
    BY DEF GetCachedPosition
<1>3. /\ p = Zeroed \/ \E h \in Handler : p = file[h] /\ file[h] # NoFix
      /\ handler = "hybrid" =>
             \A h \in Handler : file[h] # NoFix => p.at >= file[h].at
    BY <1>0, CachedOf
<1> HIDE DEF p
<1>4. f # NoFix => \E h \in Handler : p = file[h] /\ file[h] # NoFix
    BY <1>1, <1>2, <1>3
<1>5. f \in Fix \cup {NoFix}
    BY <1>0, <1>2, <1>4, StoredTypes
<1>6. answer'.to = handler /\ answer'.fix = f
      /\ answer' \in [to : Handler \cup {"hybrid"}, fix : Fix \cup {NoFix}]
    BY <1>2, <1>5
<1> QED BY <1>2, <1>3, <1>4, <1>6 DEF GetCachedPosition, MainIdle

LEMMA AnswersKeep ==
    ASSUME StoredIInv, may' = may, NEW handler \in Handler \cup {"hybrid"}, NEW age,
           GetCachedPosition(handler, age)
    PROVE  StoredIInv'
<1>0. StoredTypeOK /\ (\A u \in Thread : WriterOK(u)) /\ (\A g \in Handler : FileOK(g))
    BY DEF StoredIInv
<1>1. /\ answer' \in [to : Handler \cup {"hybrid"}, fix : Fix \cup {NoFix}]
      /\ answer'.fix # NoFix =>
             \E h \in Handler : answer'.fix = file[h] /\ file[h] # NoFix
      /\ UNCHANGED <<now, file, writer, known, latest, lost>>
    BY CachedAnswer
<1>2. AnswerOK'
    BY <1>0, <1>1 DEF AnswerOK, FileOK
<1>3. StoredTypeOK'
    BY <1>0, <1>1 DEF StoredTypeOK
<1>4. (\A u \in Thread : WriterOK(u)') /\ (\A g \in Handler : FileOK(g)')
    BY <1>0, <1>1 DEF WriterOK, FileOK, Settled
<1> QED BY <1>2, <1>3, <1>4 DEF StoredIInv

LEMMA StoredKeep ==
    ASSUME StoredIInv, StoredNext \/ StoredRestart \/ UNCHANGED storedVars, may' = may
    PROVE  StoredIInv'
<1>1. CASE UNCHANGED storedVars
    BY <1>1 DEF storedVars, StoredIInv, StoredTypeOK, AnswerOK, WriterOK, FileOK, Settled
<1>2. ASSUME NEW t \in Thread, Commit(t) PROVE StoredIInv'
    BY <1>2, CommitKeeps
<1>3. ASSUME NEW h \in Handler \cup {"hybrid"}, NEW age \in Ages, GetCachedPosition(h, age)
      PROVE  StoredIInv'
    BY <1>3, AnswersKeep
<1> QED BY <1>1, <1>2, <1>3, FixesKeep, TickKeeps, ResetKeeps, StoredRestartKeeps DEF StoredNext

(* No step answers "hybrid" with an older fix than before, when nothing is *)
(* being written and no write was lost.                                    *)
LEMMA StoredForward ==
    ASSUME StoredIInv, StoredNext \/ StoredRestart \/ UNCHANGED storedVars,
           answer.to = "hybrid", answer'.to = "hybrid",
           answer.fix # NoFix, answer'.fix # NoFix,
           Writing("gps") = {}, lost = {}, "mock" \notin may
    PROVE  answer'.fix.at >= answer.fix.at
<1>0. StoredTypeOK /\ (\A u \in Thread : WriterOK(u)) /\ (\A g \in Handler : FileOK(g))
      /\ AnswerOK
    BY DEF StoredIInv
<1>1. answer.fix \in Fix /\ answer.fix.at \in Nat
    BY <1>0, StoredTypes DEF StoredTypeOK
<1>2. CASE answer' = answer
    BY <1>1, <1>2
<1>3. ASSUME NEW handler \in Handler \cup {"hybrid"}, NEW age,
             GetCachedPosition(handler, age)
      PROVE  answer'.fix.at >= answer.fix.at
    <2>1. /\ handler = "hybrid" /\ writer["main"] = NotWriting
          /\ \A h \in Handler : file[h] # NoFix => answer'.fix.at >= file[h].at
          /\ \E h \in Handler : answer'.fix = file[h] /\ file[h] # NoFix
        BY <1>3, CachedAnswer
    <2>2. \A h \in Handler : file[h] = latest[h]
        <3> TAKE h \in Handler
        <3>1. \A t \in Thread : writer[t].to # "gps"
            BY DEF Writing
        <3>2. writer["main"].to = "none"
            BY <2>1 DEF NotWriting
        <3>3. writer["hal"].to # "network"
            <4>1. "hal" \in Thread /\ "network" \in Handler
                BY DEF Thread, Handler
            <4> QED BY <1>0, <4>1, StoredTypes DEF WriterOK
        <3>4. \A t \in Thread : writer[t].to # h
            BY <3>1, <3>2, <3>3 DEF Thread, Handler
        <3> QED BY <1>0, <3>4 DEF FileOK, Settled
    <2>3. PICK h \in Handler : latest[h] # NoFix /\ answer.fix.at <= latest[h].at
        BY <1>0 DEF AnswerOK
    <2>4. latest[h].at \in Nat /\ answer'.fix.at \in Nat
          /\ answer'.fix.at >= latest[h].at
        BY <1>0, <2>1, <2>2, <2>3, StoredTypes
    <2> QED BY <1>1, <2>3, <2>4
<1>4. \/ answer' = answer
      \/ \E handler \in Handler \cup {"hybrid"} : \E age \in Ages :
             GetCachedPosition(handler, age)
    BY DEF StoredNext, StoredRestart, storedVars, Tick, ResetData, NetworkFix, GpsFix,
           Commit
<1> QED BY <1>2, <1>3, <1>4
=============================================================================
