-------------------------- MODULE StoredPositions --------------------------
(***************************************************************************)
(* The last position of each handler, kept in a file of its own, and       *)
(* getCachedPosition, which answers from the files.                        *)
(*                                                                         *)
(* A fix of the GPS is stored by the HAL's thread, one of the GPS mock or  *)
(* of the network by the main loop, which also answers the clients.  A     *)
(* file is opened, which empties it, and then written: in between it holds *)
(* nothing that parses, and the process may end there.  A world may have   *)
(* the GPS mock ("mock") and a full disk or no directory ("disk").         *)
(***************************************************************************)
EXTENDS Integers, World

CONSTANTS
    Report,       \* what a provider may report: [place, acc]
    Origin,       \* the places with a latitude or longitude of 0
    NoFix,        \* a file without a document, or nothing at all
    MaxTime,      \* bound on the clock
    Ages          \* the maximumAge of the calls; 0 for none

Handler == {"gps", "network"}
Thread == {"hal", "main"}
Time == 1..MaxTime
Fix == [at : Time, place : {r.place : r \in Report}, acc : {r.acc : r \in Report}]

(* memset: what getCachedPosition goes by when there is no document.       *)
Nowhere == CHOOSE p \in Origin : TRUE
Zeroed == [at |-> 0, place |-> Nowhere, acc |-> 0]

ASSUME StoredAssumption ==
    /\ Origin # {}
    /\ \A r \in Report : r = [place |-> r.place, acc |-> r.acc] /\ r.acc \in Nat
    /\ MaxTime \in Nat \ {0} /\ Ages \subseteq Nat
    /\ NoFix \notin Fix

VARIABLES
    now,          \* the clock
    file,         \* the files: a fix, or NoFix
    writer,       \* per thread, the file it has opened and what it will write
    known,        \* the network provider's last position, in memory
    answer,       \* the last answer: for which handler, and NoFix when it was
                  \* refused (history)
    latest,       \* the last fix each file is to hold (history)
    lost          \* the files whose last write came to nothing (history)

storedVars == <<now, file, writer, known, answer, latest, lost>>

NotWriting == [to |-> "none", fix |-> NoFix]

StoredTypeOK ==
    /\ now \in Time
    /\ file \in [Handler -> Fix \cup {NoFix}]
    /\ DOMAIN writer = Thread
    /\ \A t \in Thread : \/ writer[t] = NotWriting
                         \/ writer[t].to \in Handler /\ writer[t].fix \in Fix
    /\ known \in Report \cup {NoFix}
    /\ answer \in [to : Handler \cup {"hybrid"}, fix : Fix \cup {NoFix}]
    /\ latest \in [Handler -> Fix \cup {NoFix}]
    /\ lost \subseteq Handler

StoredInit == /\ now = 1
              /\ file = [h \in Handler |-> NoFix]
              /\ writer = [t \in Thread |-> NotWriting]
              /\ known = NoFix
              /\ answer = [to |-> "hybrid", fix |-> NoFix]
              /\ latest = [h \in Handler |-> NoFix]
              /\ lost = {}
-----------------------------------------------------------------------------
Writing(h) == {t \in Thread : writer[t].to = h}
MainIdle == writer["main"] = NotWriting

Tick == /\ now < MaxTime
        /\ now' = now + 1
        /\ UNCHANGED <<file, writer, known, answer, latest, lost>>

(* The document of a report; the HAL goes by the same clock.               *)
FixNow(r) == [at |-> now, place |-> r.place, acc |-> r.acc]

(* set_store_position up to the fopen of commit: the file is empty then,   *)
(* or as it was when it does not open.                                     *)
Store(t, h, r) ==
    /\ latest' = [latest EXCEPT ![h] = FixNow(r)]
    /\ \/ /\ writer' = [writer EXCEPT ![t] = [to |-> h, fix |-> FixNow(r)]]
          /\ file' = [file EXCEPT ![h] = NoFix]
          /\ UNCHANGED lost
       \/ /\ "disk" \in may
          /\ lost' = lost \cup {h}
          /\ UNCHANGED <<writer, file>>

(* gpsLocationCb, called by the HAL's thread or by the GPS mock.           *)
GpsFix(t, r) ==
    /\ writer[t] = NotWriting
    /\ t = "main" => "mock" \in may
    /\ Store(t, "gps", r)
    /\ UNCHANGED <<now, known, answer>>

(* A broken variant: the position that is compared is never replaced.      *)
NetworkFix_Forgets(r) ==
    /\ MainIdle
    /\ known' = IF known = NoFix THEN r ELSE known
    /\ IF r = known THEN UNCHANGED <<writer, file, latest, lost>>
       ELSE Store("main", "network", r)
    /\ UNCHANGED <<now, answer>>

(* handleResponse stores a position that is new; one that is confirmed is  *)
(* not stored again.                                                       *)
NetworkFix(r) ==
    /\ MainIdle
    /\ known' = r
    /\ IF r = known THEN UNCHANGED <<writer, file, latest, lost>>
       ELSE Store("main", "network", r)
    /\ UNCHANGED <<now, answer>>

(* resetData: a request that ends forgets the last position.               *)
ResetData ==
    /\ MainIdle
    /\ known' = NoFix
    /\ UNCHANGED <<now, file, writer, answer, latest, lost>>

(* commit writes the document over whatever the other thread has written   *)
(* since: a longer one leaves its end behind, which does not parse.        *)
Commit(t) ==
    /\ writer[t] # NotWriting
    /\ LET h == writer[t].to
           whole == file' = [file EXCEPT ![h] = writer[t].fix] /\ lost' = lost \ {h}
           garbled == file' = [file EXCEPT ![h] = NoFix] /\ lost' = lost \cup {h}
       IN  \/ whole
           \/ file[h] \notin {NoFix, writer[t].fix} /\ garbled
           \/ "disk" \in may /\ lost' = lost \cup {h} /\ UNCHANGED file
    /\ writer' = [writer EXCEPT ![t] = NotWriting]
    /\ UNCHANGED <<now, known, answer, latest>>
-----------------------------------------------------------------------------
(* getCachedPosition.                                                      *)

(* openPreference, and get for each key of the document.                   *)
Opens(h) == file[h] # NoFix

(* getLastPosition, whose result nobody looks at.                          *)
LastPosition(h) == IF Opens(h) THEN file[h] ELSE Zeroed

(* A broken variant: the accuracy of the other one.                        *)
Fresher_Mixed(p, q) ==
    IF p.at >= q.at
    THEN IF p.at = q.at THEN IF p.acc < q.acc THEN p ELSE q ELSE p
    ELSE [q EXCEPT !.acc = p.acc]

(* A broken variant: the more accurate one, whatever its age.              *)
Fresher_Accurate(p, q) == IF p.acc < q.acc THEN p ELSE q

(* comparePositionTimeStamps                                               *)
Fresher(p, q) ==
    CASE p.at > q.at -> p
      [] p.at < q.at -> q
      [] OTHER       -> IF p.acc < q.acc THEN p ELSE q

Cached(handler) ==
    IF handler = "hybrid" THEN Fresher(LastPosition("gps"), LastPosition("network"))
    ELSE LastPosition(handler)

(* "passive" is answered like "hybrid".                                    *)
GetCachedPosition(handler, maximumAge) ==
    /\ MainIdle
    /\ LET p == Cached(handler)
           old == maximumAge > 0 /\ maximumAge < now - p.at
       IN  answer' = [to  |-> handler,
                      fix |-> IF p.place \in Origin \/ old THEN NoFix ELSE p]
    /\ UNCHANGED <<now, file, writer, known, latest, lost>>

(* The service ends, and is started again.                                 *)
StoredRestart ==
    /\ writer' = [t \in Thread |-> NotWriting]
    /\ known' = NoFix
    /\ lost' = lost \cup {h \in Handler : Writing(h) # {}}
    /\ UNCHANGED <<now, file, answer, latest>>

StoredNext ==
    \/ Tick \/ ResetData
    \/ \E r \in Report : NetworkFix(r) \/ \E t \in Thread : GpsFix(t, r)
    \/ \E t \in Thread : Commit(t)
    \/ \E h \in Handler \cup {"hybrid"}, age \in Ages : GetCachedPosition(h, age)

StoredSpec ==
    /\ StoredInit
    /\ [][(StoredNext \/ StoredRestart) /\ UNCHANGED may]_<<storedVars, may>>
-----------------------------------------------------------------------------
(* Properties.                                                             *)

(* A file that nobody writes, and whose last write did not come to         *)
(* nothing, has a whole fix; the latest one when one thread writes it.     *)
LatestIsStored ==
    \A h \in Handler :
        Writing(h) = {} /\ h \notin lost =>
            /\ latest[h] # NoFix => file[h] # NoFix
            /\ "mock" \notin may => file[h] = latest[h]

(* A position that is not stored again because the provider knows it is in *)
(* the file, also after restarts.                                          *)
ConfirmedIsStored ==
    known # NoFix /\ Writing("network") = {} /\ "network" \notin lost =>
        /\ file["network"] # NoFix
        /\ known = [place |-> file["network"].place, acc |-> file["network"].acc]

(* What the files hold is what was reported, through the steps of writing  *)
(* them, full disks, a second writer and restarts (set_store_position).    *)
FilesAreKept == LatestIsStored /\ ConfirmedIsStored

(* A step after which "hybrid" is answered with no older fix than before,  *)
(* except while the GPS file is being written, or when a write was lost.   *)
Forward ==
    /\ answer.to = "hybrid" /\ answer'.to = "hybrid"
    /\ answer.fix # NoFix /\ answer'.fix # NoFix
    /\ Writing("gps") = {} /\ lost = {} /\ "mock" \notin may
    => answer'.fix.at >= answer.fix.at

(* The answers of getCachedPosition to "hybrid", which compares two files, *)
(* never go back in time.                                                  *)
NeverBackInTime == [][Forward]_storedVars
=============================================================================
