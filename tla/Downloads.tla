----------------------------- MODULE Downloads ------------------------------
(***************************************************************************)
(* What the GNSS engine asks to be downloaded: the time of day, from the   *)
(* system clock, the NtpClient or the nyx module's client, and the XTRA    *)
(* assistance data.  A request comes from a HAL thread (a callback) or the *)
(* main loop (sendExtraCommand), and is guarded by a download state that   *)
(* no lock protects; the downloads run in threads of their own.  A process *)
(* is a caller or one of those threads, and pc says where it stands.       *)
(***************************************************************************)
EXTENDS FiniteSets, Integers

CONSTANTS
    Hal, Main,    \* who asks: a HAL thread, the main loop
    Worker,       \* bound on the download threads that run at a time
    Worlds        \* sets of what may happen together; subsets of Event

Caller == {Hal, Main}
Proc   == Caller \cup Worker

(* What happens to the provider: requests for time and for XTRA data, the  *)
(* setting of the clock, requests that fail, the data connection and the   *)
(* WAN service behind it, news of the data network, a HAL without          *)
(* IAGnssRil or one that fails, the end of the process.                    *)
Event == {"ntp", "xtra", "clock", "no_thread", "nyx_fails", "atl", "wan",
          "network", "no_ril", "ril_fails", "exit"}

ASSUME DownloadsAssumption ==
    /\ Hal \notin Worker /\ Main \notin Worker /\ Hal # Main
    /\ Worlds \subseteq SUBSET Event

VARIABLES
    may,          \* what may happen in this behaviour; one of Worlds
    open,         \* the nyx device is open
    xtraDefault,  \* mXtraDefault: the nyx module has no client of its own
    clock,        \* the system clock is set
    ntp,          \* GPSNyxInterface::mDownloadNtpDataStatus
    client,       \* NtpClient::mDownloadNtpDataStatus
    xtra,         \* GPSPositionProvider::mDownloadXtraDataStatus
    asked,        \* what the nyx module's client has been asked to download
    pc            \* where each process stands

downloads == <<may, open, xtraDefault, clock, ntp, client, xtra, asked, pc>>

Download == {"IDLE", "DOWNLOADING"}

Place == {"out",
          "time_given", "ntp_free", "ntp_noted", "client_free",  \* callers
          "xtra_free",
          "failing", "reporting",                                \* both
          "query", "answered", "xtra_begins", "xtra_fetches"}    \* workers

DownloadsOK == /\ may \in Worlds
               /\ open \in BOOLEAN
               /\ xtraDefault \in BOOLEAN
               /\ clock \in BOOLEAN
               /\ ntp \in Download
               /\ client \in Download
               /\ xtra \in Download
               /\ asked \subseteq {"time", "data"}
               /\ pc \in [Proc -> Place]

DownloadsInit == /\ may \in Worlds
                 /\ open \in BOOLEAN
                 /\ xtraDefault \in {FALSE, open}
                 /\ clock \in BOOLEAN
                 /\ ntp = "IDLE"
                 /\ client = "IDLE"
                 /\ xtra = "IDLE"
                 /\ asked = {}
                 /\ pc = [p \in Proc |-> "out"]

Goes(p, from, to) == pc[p] = from /\ pc' = [pc EXCEPT ![p] = to]

-----------------------------------------------------------------------------
(* The time.                                                               *)

(* gpsRequestUtcTimeCb begins with injectSystemTime, which makes the       *)
(* download state idle on its way if the clock is set.                     *)
RequestTime(p) ==
    /\ "ntp" \in may
    /\ p \in Caller
    /\ Goes(p, "out", "time_given")
    /\ ntp' = IF clock THEN "IDLE" ELSE ntp
    /\ UNCHANGED <<may, open, xtraDefault, clock, client, xtra, asked>>

(* A download is under way already, or not.                                *)
LooksAtNtp(p) ==
    /\ Goes(p, "time_given", IF ntp = "DOWNLOADING" THEN "out" ELSE "ntp_free")
    /\ UNCHANGED <<may, open, xtraDefault, clock, ntp, client, xtra, asked>>

NotesNtp(p) ==
    /\ Goes(p, "ntp_free", "ntp_noted")
    /\ ntp' = "DOWNLOADING"
    /\ UNCHANGED <<may, open, xtraDefault, clock, client, xtra, asked>>

(* The nyx module's client is asked; it may not have one at all.           *)
AsksNyxForTime(p) ==
    /\ ~xtraDefault
    /\ Goes(p, "ntp_noted", "out")
    /\ \/ open /\ asked' = asked \cup {"time"}
       \/ (~open \/ "nyx_fails" \in may) /\ UNCHANGED asked
    /\ UNCHANGED <<may, open, xtraDefault, clock, ntp, client, xtra>>

(* NtpClient::start: with a download under way it returns at once.         *)
StartsClient(p) ==
    /\ xtraDefault
    /\ Goes(p, "ntp_noted", IF client = "DOWNLOADING" THEN "out" ELSE "client_free")
    /\ UNCHANGED <<may, open, xtraDefault, clock, ntp, client, xtra, asked>>

CreatesNtpThread(p) ==
    /\ client' = "DOWNLOADING"
    /\ pc[p] = "client_free"
    /\ \/ \E w \in Worker : /\ pc[w] = "out"
                            /\ pc' = [pc EXCEPT ![p] = "out", ![w] = "query"]
       \/ "no_thread" \in may /\ pc' = [pc EXCEPT ![p] = "failing"]
    /\ UNCHANGED <<may, open, xtraDefault, clock, ntp, xtra, asked>>

(* A broken variant: only the download thread makes the client idle.       *)
NtpGivesUp_Latched(p) ==
    /\ \/ Goes(p, "failing", "reporting") /\ UNCHANGED client
       \/ Goes(p, "query", "reporting") /\ client' = "IDLE"
    /\ UNCHANGED <<may, open, xtraDefault, clock, ntp, xtra, asked>>

(* No thread, no server in the configuration, no socket: the client is     *)
(* idle again, and then calls onRequestCompleted.                          *)
NtpGivesUp(p) ==
    /\ \/ Goes(p, "failing", "reporting")
       \/ Goes(p, "query", "reporting")
    /\ client' = "IDLE"
    /\ UNCHANGED <<may, open, xtraDefault, clock, ntp, xtra, asked>>

ReportsNoTime(p) ==
    /\ Goes(p, "reporting", "out")
    /\ ntp' = "IDLE"
    /\ UNCHANGED <<may, open, xtraDefault, clock, client, xtra, asked>>

(* An answer, or none from any server: onRequestCompleted comes first, and *)
(* the client is idle only afterwards.                                     *)
NtpAnswers(p) ==
    /\ Goes(p, "query", "answered")
    /\ ntp' = "IDLE"
    /\ UNCHANGED <<may, open, xtraDefault, clock, client, xtra, asked>>

NtpEnds(p) ==
    /\ Goes(p, "answered", "out")
    /\ client' = "IDLE"
    /\ UNCHANGED <<may, open, xtraDefault, clock, ntp, xtra, asked>>

SetClock ==
    /\ "clock" \in may
    /\ ~clock
    /\ clock' = TRUE
    /\ UNCHANGED <<may, open, xtraDefault, ntp, client, xtra, asked, pc>>

-----------------------------------------------------------------------------
(* The XTRA data.                                                          *)

(* gpsXtraDownloadRequestCb, with no download under way; otherwise the     *)
(* request is dropped.                                                     *)
RequestXtra(p) ==
    /\ "xtra" \in may
    /\ p \in Caller
    /\ xtra = "IDLE"
    /\ Goes(p, "out", "xtra_free")
    /\ UNCHANGED <<may, open, xtraDefault, clock, ntp, client, xtra, asked>>

AsksNyxForXtra(p) ==
    /\ ~xtraDefault
    /\ Goes(p, "xtra_free", "out")
    /\ xtra' = "DOWNLOADING"
    /\ \/ open /\ asked' = asked \cup {"data"}
       \/ (~open \/ "nyx_fails" \in may) /\ UNCHANGED asked
    /\ UNCHANGED <<may, open, xtraDefault, clock, ntp, client>>

(* The thread has yet to note that it downloads.                           *)
CreatesXtraThread(p) ==
    /\ xtraDefault
    /\ pc[p] = "xtra_free"
    /\ \E w \in Worker : /\ pc[w] = "out"
                         /\ pc' = [pc EXCEPT ![p] = "out", ![w] = "xtra_begins"]
    /\ UNCHANGED <<may, open, xtraDefault, clock, ntp, client, xtra, asked>>

XtraBegins(p) ==
    /\ Goes(p, "xtra_begins", "xtra_fetches")
    /\ xtra' = "DOWNLOADING"
    /\ UNCHANGED <<may, open, xtraDefault, clock, ntp, client, asked>>

(* fetchXtraData has got the data, now injected, or has not.               *)
XtraEnds(p) ==
    /\ Goes(p, "xtra_fetches", "out")
    /\ xtra' = "IDLE"
    /\ UNCHANGED <<may, open, xtraDefault, clock, ntp, client, asked>>

-----------------------------------------------------------------------------
CallerStep(p) == \/ LooksAtNtp(p) \/ NotesNtp(p) \/ AsksNyxForTime(p)
                 \/ StartsClient(p) \/ CreatesNtpThread(p)
                 \/ AsksNyxForXtra(p) \/ CreatesXtraThread(p)

DownloadStep(p) == \/ NtpGivesUp(p) \/ ReportsNoTime(p)
                   \/ NtpAnswers(p) \/ NtpEnds(p)
                   \/ XtraBegins(p) \/ XtraEnds(p)

-----------------------------------------------------------------------------
(* A client that says it downloads has a thread that will make it idle:    *)
(* otherwise "the state latched here wedged every future time-injection    *)
(* request" (NtpClient::start), from whichever threads they come.          *)
ClientIsNotLatched ==
    client = "DOWNLOADING" =>
        \E p \in Proc : pc[p] \in {"query", "answered", "failing"}

(* The same of the state that guards the requests: as long as the clock is *)
(* not set and the NtpClient is in use, a download state that nobody is    *)
(* going to make idle refuses every request there will ever be             *)
(* (GPSNyxInterface::gpsRequestUtcTimeCb).                                 *)
RequestsAreNotLatched ==
    xtraDefault /\ ~clock /\ ntp = "DOWNLOADING" =>
        \E p \in Proc : pc[p] \in {"ntp_noted", "client_free", "failing",
                                   "query", "reporting"}
=============================================================================
