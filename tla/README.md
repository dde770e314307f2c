# A TLA+ model of com.webos.service.location

The service answers Luna calls about the device's position. It is one process: a
GLib main loop that runs the Luna methods, the timers and the replies of other
services, and a handful of threads beside it: the GNSS HAL's callback thread,
the GPS thread of `GPSPositionProvider`, the download threads for NTP time and
XTRA data, and the socket server of the mock network provider. This directory
models the parts that keep state, checks them with TLC on small instances and
proves the most important results with TLAPS for all instances.

Paths below are relative to the repository (`src/src/...` is its source tree,
`src/include/...` its headers).

## 1. Inventory

| Component | State | Operations | Hard behaviour | What makes it correct |
|---|---|---|---|---|
| GPS engine (`GPSPositionProvider`, `GPSNyxInterface`) | `mEnabled`, `mEngineStarted`, `mAPIProgressFlag`, `mPosTimer`, position mode and `mGpsParamModified`, the four first-fix fields | start and stop of three feeds, `STOP_GPS_CMD`, parameters, time-out, first fix | the HAL refuses a start or a stop; `gpsLocationCb` runs on the HAL's thread without a lock; each way of ending a session undoes its own subset of what a start did | a feed that is promised runs; nothing outlives its session; the receiver is not left on |
| Mock locations (`MockLocation.c`, `GpsMockLocation.c`, `NetworkMockLocation.c`) | one word of flags per provider | enable, disable, start, stop, a position | switched while the engine, or a network request, runs | the real device and the mock are not both left running |
| Geofences (`LocationService`) | `is_geofenceId_used`, `htPseudoGeofence`, two Luna subscription lists per id | add, remove, cancel; the HAL's add, remove and breach reports | the report comes on the HAL's thread, its answer goes out from an idle callback; ids are drawn again | an id has one owner, a watched area has its owner, no slot is lost, every call is answered |
| Network provider (`NetworkPositionProvider`, `NetworkData`, `NetworkRequestManager`) | the request's flags and cookies, the scanned scene and the posted one, the last fix and its server | start, stop, WiFi and cell reports, timer, answers of two servers | answers come late and in any order; the answer to the last client stops the request from inside the provider's callback; the server is switched meanwhile | nothing outlives the request; the request does not outlive its clients; a fix is attributed to its server; clients are answered |
| Location updates (`getLocationUpdates` and friends) | three lists, a request table, a response timer per request, minimum interval and distance | request, reply, cancel, time-out, handler off, resume after sleep | a timer and a fix race; the request fails after it was listed | every call is answered and taken off every list |
| Time injection (`gpsRequestUtcTimeCb`, `NtpClient`) | two download states, in two classes | request, download, completion | the states are written by two threads in two steps | a request is never shut out for ever |
| GPS thread, SUPL connection, XTRA (`gpsThreadProc`, `GpsWanInterface`) | one action slot, the connection's state, the network's state as known and as sent | HAL requests, connection changes, downloads, shutdown | four writers overwrite one slot | requests are acted on, shutdown ends |
| Connection state (`ConnectionStateObserver`, `ConnmgrStatus`, `SleepdSignals`) | one subscription per service of the device; what the listeners (`LocationService`, `NetworkPositionProvider`, through it the GPS provider) were told | the hub's news of a service, status replies, sleepd's resume | services die and restart while replies are under way; a dead service's last reply is an error of the hub that may be overtaken; refused suspend attempts look like resumes | listeners know the last state of what runs, believe in no connection of what does not, and the data network goes with the internet state; one resume per sleep |
| Handler state (`setState`, `getState`, `getAllLocationHandlers`, `setNetworkProvider`, `getGpsStatus`, luna-prefs) | each setting in the store, in memory and as its subscribers heard it; the engine's status and its cache | set, get, subscribe, load at start | the store fails, and not every setter looks; the HAL's thread and the main loop write one cache | the views of a setting agree; subscribers know the engine's status |
| Cached positions (`db_util`, `Gps_stored_data`, `getCachedPosition`) | one file per handler, the network provider's last position in memory | store, read, compare, refuse what is too old | a file is emptied before it is written, by two threads; the process ends in between; a position that is confirmed is not stored again | a file holds what was reported last; answers do not go back in time |
| Geocoding (`MapServicesImpl`, `LocationWebServiceProvider`, `NetworkRequestManager`) | the configuration read, the tasks under way, the messages kept | two calls, the task's answer | two clients share the list of requests; a task's address is used again; each check and the post may fail | one answer per call, and its message kept until then |
| Suspend blocker (`LifeCycleMonitor`) | - | - | never constructed: `init` does so only if `m_enableSuspendBlocker` is set, and nothing but a later `sendExtraCommand` (`LocationService.cpp:1464`) sets it | - |
| Configuration, Luna utilities, data classes | - | - | formatting and parsing | - |

The components meet in `LocationService`: its Luna methods call
`processRequest` of a provider and keep the lists of clients, and the
providers call back (`getLocationUpdateCb`, `geofence_*_reply`). A mock
provider stands between a provider and its device. The hazards of the code,
each at its line, are listed in `PROJECT.json`.

## 2. Modules

| Module | Models | Uses |
|---|---|---|
| `MockLocation` | the flags of one mock provider, as functions | - |
| `GpsProvider` | each request handler of `GPSPositionProvider`, as a function on the provider's fields | `MockLocation` |
| `EngineDemand` | abstract: an engine that runs while a feed is asked for | - |
| `GpsEngine` | the provider, the HAL, the HAL's callback thread, the mock provider, sleep | `GpsProvider`; implements `EngineDemand` |
| `GpsEngineProofs` | theorems about `GpsEngine` | |
| `Geofence` | calls, slots, lists, the HAL's queue, the idle callbacks | - |
| `GeofenceProofs` | theorems about `Geofence` | |
| `NetworkProvider` | the provider, its clients, services, queries and servers | `MockLocation` |
| `NetworkProofs` | theorems about `NetworkProvider` | |
| `Downloads` | the states of the time and XTRA downloads in `GPSNyxInterface`, `NtpClient` and on the download threads | - |
| `GpsThread` | `gpsThreadProc` and its action slot, the SUPL connection through the WAN service, the data network, shutdown | `Downloads` |
| `GpsThreadProofs` | theorems about `GpsThread` | |
| `UpdateLists` | lists, request table and timers of `LocationService`, and who ends which session, as functions | `GpsProvider` |
| `ClientCalls` | abstract: what a client's call may meet with: refused or listed, answered while listed, gone with an answer or a cancel | - |
| `LocationUpdates` | the Luna methods, cancels, time-outs, reports, handler switches and resume on them | `UpdateLists`; implements `ClientCalls` |
| `LocationUpdatesProofs` | theorems about `LocationUpdates` | |
| `World` | what a behaviour of the following has in it: the parts that are used, the troubles | - |
| `ConnectionState` | `ConnectionStateObserver` and its three services, the hub, sleepd | `World` |
| `Geocoding` | the two calls, the configuration, `NetworkRequestManager`'s tasks | `ConnectionState` |
| `HandlerSettings` | settings in luna-prefs, in memory and with the subscribers | `World` |
| `EngineStatus` | `gpsStatusCb` and `getGpsStatus` on one cache | - |
| `StoredPositions` | the position files, their two writers, `getCachedPosition` | `World` |
| `ServiceState` | the five composed, with the process that ends and starts again | all of them |
| `ConnectionStateProofs`, `StoredPositionsProofs` | what the steps of these parts keep (lemmas) | |
| `ServiceStateProofs` | the same for geocoding, the settings and the status, and the theorems about `ServiceState` | the two before |
| `MC*` | the instances TLC checks | |

### How they correspond to the code

**GpsProvider, GpsEngine.** The handlers run to completion on the main loop, so
each is a function from the record `e` of the provider's fields to the next
one; a Luna method that makes several requests (`setMockLocationState` stops
and starts the engine around the change) composes them and stays one action.
The answers of the HAL to the calls made within a handler are a parameter
(`hal`): a start, a stop or a position mode may each be refused. `gpsLocationCb`
runs on the HAL's thread: `FixArrives`, `FixStamp`, `FixLatch` and `FixDone`
are its reads and writes of the first-fix fields, and any main-loop action may
fall between them. `SleepDropsSession` is a suspend that costs the HAL its
session without notice, the case the comments at `resumeGpsEngine` describe.
The log recorders, aiding-data commands and capability tests do not touch this
state and are left out.

**Geofence.** A Luna call is its token. `used` is `is_geofenceId_used`, `pseudo`
is `htPseudoGeofence`, `addList` and `removeList` are the subscription lists
Luna keeps under `"<id>addGeofenceArea"` and `"<id>removeGeofenceArea"`.
`requests` is the queue of what the HAL has accepted, `idle` the queue of idle
callbacks. The HAL's callbacks (`HalAdds`, `HalRemoves`, `HalReportsBreach`) run
on its own thread; the one that reports a failed add frees the slot at once,
everything else is done by the idle callback. `waiting` and the `to` field of a
report are history: who has not been answered, and who was listed when the
report was made. `may` is the set of things that may go wrong in a behaviour,
chosen once at the start, so that one run checks several combinations.

**NetworkProvider.** `net` holds the provider's fields (the comment over
`NetState` names them). The lists of access points are abstracted to what
`parseWifiData` decides: whether there are two, and whether they are news.
Queries under way are counted per server and answered in any order; answers
reach whoever is listed by then. A reply that leaves no client stops the request
in the same action (`LocationUpdate`), as `LSSubNonSubReplyLocUpdateCase` does from
inside the provider's callback. `source` (the server the last fix really came
from) and `mocked` are history. What may go wrong in a behaviour is chosen at the
start, as for geofences.

**Downloads, GpsThread.** A thread is a process with a place in the code (`pc`);
its steps are the reads and writes of shared fields, so that another process may
come between them. The GPS thread has one slot for its next action; the history
`lost` notes which requests have been replaced there before they were taken, and
the properties about requests speak of the others. `Downloads` keeps the three states
that say a download runs: `GPSNyxInterface`'s for each kind and `NtpClient`'s own,
written by different threads in different order. External and assumed: the nyx
cleanup waits for a HAL callback that is being run, and there are no more
download threads at a time than `Worker`.

**UpdateLists, LocationUpdates.** All handlers run on the main loop and call each
other (a reply ends a request, a time-out looks at three lists), so they are
functions on one record `s`: the GPS provider, the network request, the
subscription lists by key, `m_locUpdate_req_table` and the pending timers. Lists
are sets: `isListFilled` compares the first element with the leaver, which is the
question whether others remain. The network request is reduced to whether one
runs (`NetworkProvider` has its detail), `meetsCriteria` to the first position, which
always passes; the clock stands still (`GpsEngine` has it). The GPS provider is
enabled, `LSSubscriptionAdd` succeeds, and Luna takes a cancelled call off its
list after `cancelSubscription`. One set of HAL answers holds during one call. The
queue `idle` has what the HAL's thread has queued for the main loop. `told`,
`cancelled` and `dropped` (a sleep has cost the HAL its session and the resume has
not been handled) are history.

**ClientCalls.** What the clients of location updates are owed, whichever list they are
on and whatever becomes of providers: `listed` is the union of the lists of
`LocationUpdates`, `made`, `told` and `cancelled` are its own. `Accept` and `Refuse` are
what may come of the call, `Report` an answer to some of those listed, `TimeOut` and
`Cancel` the two other ways off a list. A request that fails after it was listed stays
listed, in the code and so in `Refuse`.

**ConnectionState.** `up` and `state` are the services and what they have to
report; `hub` and `replies` are the two queues by which the main loop hears of them,
`subscribed` the open `getstatus` calls. `ServiceStatusCb` is the callback of the
hub's news, `StatusCb` the callback of a reply, whose three bodies are `WifiTold`,
`WanTold` and `TelephonyTold`: functions from the reply to what the listeners are
`told`. A reply is what those bodies tell apart. The listeners are told one after the
other within one callback, so one record stands for all of them; what they do about
it is in `NetworkProvider`, `GpsThread`, `Geocoding` and `LocationUpdates`. The hub's
error may be overtaken by replies of the next instance in the worlds with `late`.
Telephony that goes down is not told to anybody, in the code and in the model.

**Geocoding.** `http` is what the HTTP library works on and for whom, `requestList`
is `httpRequestList`; a task is its address, and a new task takes one that is free.
`refs` counts `LSMessageRef` less `LSMessageUnref`. Of a configuration the two
features are kept, of a query its outcome.

**HandlerSettings.** `pref` is the store, `status` and `backend` the memory, `heard`
what the subscribers of each list were told last (a set, since each may have heard
something else). Reads and writes fail in the worlds that say so; a handle that
luna-prefs does not give out makes the call fail with nothing changed, and is left
out.

**EngineStatus.** `gpsStatusCb` and `getGpsStatus` are split where they read and write
`mGPSStatus` and `mCachedGpsEngineStatus`.

**StoredPositions.** A fix is its time, place and accuracy; the HAL's time is the
clock's, and the clock does not go back. `Store` is `set_store_position` up to
`fopen`, which empties the file, `Commit` the rest; a thread that has begun is
`writer[t]`. `known` is the network provider's last position, which `ResetData`
forgets with the request. `answer`, `latest` and `lost` are history.

**ServiceState.** Each part reads and writes its own variables, except that
geocoding goes by what was told of the internet, and all parts end together when
the process does. So a world (`MCWorlds`) uses one part, or connection and geocoding,
together with the troubles that concern it, and nothing is lost by not interleaving
the others; the theorems hold for any worlds, all parts at once among them.

## 3. Runs

| Run | Instance | Shows |
|---|---|---|
| `gps_engine` | gps mock provider, start and stop refused at will, clock up to 3 | `TypeOK`; `TimerIffPosition`, `HalParamsAreMarked`, `RadioHasOwner`; `FirstFixIsFinal`; the refinement `DemandSpec` |
| `gps_stop_gps` | no mock provider | **violation** of `SessionEndResetsFirstFix`: `STOP_GPS_CMD` ends a session without resetting the first-fix measurement |
| `geofence` | 3 calls, two of which subscribe, 2 ids, 2 requests and reports under way; in turn with cancels and failing adds and removes, with refused adds and failing removes, and with calls Luna does not list | `TypeOK`, `NoSlotLost`, `OneOwnerAtATime`, `FenceHasOwner`, `NoStaleReports`; `EveryCallIsAnswered` (liveness) |
| `geofence_cancel` | 3 calls, 1 id, cancels | **violation** of `OneOwner`: the late removal of a cancelled area frees the id of its next owner |
| `network` | a subscriber and a client that asks once, a list of access points that is posted and one that is too short, a cell, a position; in turn with the mock provider, HTTP errors, failing posts and no key, failing services | `TypeOK`, `QuietWhenStopped`, `RunsForClients`, `NoFixAtZero`; `OfflineIsReported` (liveness) |
| `network_source` | 1 client, 2 scenes, 2 positions | **violation** of `FixBackendIsSource` |
| `network_join` | 2 clients, no fault | **violation** of `RunningRequestAnswers` |
| `gps_thread` | 2 download threads, 3 states of the data network, two reports of the WAN service under way; seven combinations of connection, downloads, data network, failures and shutdown | `TypeOK`, `HalConnectionFollows`, `AvailabilityFollows`, `HalKnowsNetwork`, `DownloadsAreNotLatched`; `ShutdownEnds` (liveness) |
| `gps_thread_latch` | time downloads alone | **violation** of `RequestsAreNotLatched` |
| `location_updates` | 3 calls (a subscriber, one with a time-out as well, one that asks once with a time-out), keys gps, nw, hybrid, passive, nmea; handlers off, refusals, mock providers, sleep, no connection | `TypeOK`, `TableMatchesLists`, `SessionsHaveClients`, `ClientsAreServed`, `OffHandlersAreStill`; `TimedCallsEnd` (liveness); the refinement `CallsSpec` |
| `location_resume` | 2 calls (a subscriber, one that asks once with a time-out), keys gps, hybrid, nmea; sleep | **violation** of `ResumeRestartsSession` |
| `service_state` | fifteen worlds: each service alone through restarts, with odd, late and unsent replies, sleep; 2 geocoding calls and 2 task addresses on the wan service; settings with failing reads, failing writes, restarts; the engine's status; 3 reports and 2 maximum ages on the files with a mock, a full disk, a crash | `ServiceTypeOK`, `NetworkGoesWithInternet`, `NoConnectionOfTheDead`, `KnownWhenQuiet`, `OneResumePerSleep`, `MessagesAreKept`, `SettingsAgree`, `EngineKnown`, `FilesAreKept`; `NeverBackInTime` (action property) |

### Bounds

Three values of the clock are enough to tell "not set", "first fix" and "a later
fix" apart, for a request stamped at the first. Three calls and two ids let an
id be drawn, given up and drawn again while a report about its first owner is
queued, and let the ids run out. Three requests and reports under way are an
add, a remove and their reports in every order (two, in the run with liveness, still
have the report of one call's area behind the request of the next); a breach is
reported only while no other breach is queued. For the network, one query under way per server
already gives answers that arrive after the request they belong to; a scene, a
cell and a position tell news from repetition, and the two violations have two
scenes and two positions. Of the runs only `service_state` is reduced by symmetry, of
its geocoding calls and task addresses; it has no liveness property.

Two download threads are the two that two requests in a row may start, and the
third request would find the same states. Two reports of the WAN service are a
network that goes and comes back before the thread has woken. Three calls on five
keys have a leaver, one who stays and one on another list that is served by the
same session; satellite data is handled as NMEA data is. One queued report may
outlive the session, the call, or the handler it was meant for. The worlds of a
run (`MCWorlds`) are the combinations in which the faults meet.

Two replies and two pieces of news per service are a dead instance's last and its
successor's first, with the restart in between. Two calls and two addresses have one
task end, its address go to the other client, and the first call's answer come after.
Two engine reports are one on the main loop's queue while the HAL's thread makes the
next and `getGpsStatus` is between its steps. Three values of the clock order two
fixes and the call; the reports are two places that differ in place and accuracy and
one whose latitude is 0.

### Fairness

`Geofence!FairSpec` lets the HAL work off what it accepted and the main loop run
its idle callbacks; nobody has to call, so the system may stop
(`CHECK_DEADLOCK FALSE`). `NetworkProvider!FairSpec` has the repeating GLib timer,
the reply to a registration, scan results while subscribed, and an answer (or
time-out error) to every query; it says nothing of what clients or radios do,
and nothing of what an answer contains. `GpsThread!FairSpec` wakes the GPS thread
(a condition variable is signalled with its mutex held), lets a download thread
run to its end, and lets a shutdown that has begun go on; nobody has to request
anything and the WAN service need not report. The thread ends, so `gps_thread` may stop. `LocationUpdates!FairSpec` has nothing but GLib's
response timers: `TimedCallsEnd` needs no provider ever to report. `ServiceSpec` states
no fairness: its properties are about states and steps, "once everything is handled"
is a condition on the queues, and whether luna-prefs, sleepd or a radio ever answers is
not this program's to say.

## 4. Proofs

`GpsEngineProofs` proves for every clock bound, every set of HAL answers and every
set of mock providers: `TypeCorrect`, `NoFeedWithoutEngine` (a feed's flag is up only
while the engine runs), `TimerFollowsSession` (`TimerIffPosition`),
`ParamsEndWithSession` (`HalParamsAreMarked`), `ReceiverHasOwner` (`RadioHasOwner`) and
`ImplementsDemand` (`Spec => DemandSpec`). The inductive invariant is
`TypeOK /\ EngineInv(eng)`: the flags, the timer and the mark hold each other up,
since `handleGpsDisable` is reached from handlers that have changed the flags
already. One lemma per handler function states what it keeps and that it is a
step of `EngineDemand`; the step lemma `NextIInv` has one case per action.
`RadioHasOwner` needs one conjunct more, `Owned`: while no mock provider has been
enabled its flags are empty, so every start and stop reaches the HAL.
`ParamsEndWithSession` needs `Agreed`: with a HAL that accepts every mode
(`Accommodating`) the HAL has the parameters the provider has, since each handler that
changes them tells the HAL in the same step; and the provider marks what is not the
default (`EngineInv`).
`FirstFixStaysFinal` (`FirstFixIsFinal`, an action property) needs `MeasureInv`, since
`gpsLocationCb` writes the first-fix fields in steps of its own while sessions end and
begin: without a mock provider the last fix is no later than the clock, a callback that
has entered but written nothing finds the measurement still to be made, and a time that
has been measured is that of the last fix, if this is one of the session. So a callback
that has outlived its session writes what was there already, or what the session has not
had yet.

`GeofenceProofs` proves `TypeCorrect` and `SlotsAreKept` (`NoSlotLost`) for every set
of calls and ids and every combination of faults. `NoSlotLost` is inductive given
the types: whoever takes a slot is entered in `htPseudoGeofence` and listed in the
same step, and each step that takes that away frees the slot. The three properties about
owners and reports, `OwnersStayAlone` (`OneOwnerAtATime`), `FencesHaveOwners`
(`FenceHasOwner`) and `ReportsAreNotStale` (`NoStaleReports`), are of behaviours without
cancels, failed adds and calls Luna does not list (`Orderly`; with cancels the first
is violated, see section 5). None is inductive: an id is given up when the report of
its removal is *handled*, so the proof has to know what is queued. `OrderlyIInv` says
that an owned id is in exactly one phase, its add on the way, its area watched, or
the report of its removal queued (`OnePhase`); that there is one add per id under way
(`OneAdd`); that after the report of a removal nothing for the same owner is queued
(`RemovalIsLast`); and that whoever owns the id of a queued report was listed
when the report was made (`ReportsReachOwners`). One lemma per action moves the id from
phase to phase.

`NetworkProofs` proves, for every set of clients, scenes, cells, positions, bounds and
combinations of faults: `NetworkTypeCorrect` (`TypeOK`), `NetworkIsQuiet`
(`QuietWhenStopped`), `FixIsAnAnswer` (`NoFixAtZero`) and `NetworkRunsForClients`
(`RunsForClients`). The functions on `net` call each other, so one lemma for each
(`StartPosition`, `StopPosition`, `TriggerPostQuery`, `LocationUpdate` and the rest) says
that it keeps `NetFits`: the types, `Quiet` and the fix with its time together. The last
theorem needs `MockUnused`: before a mock provider was first enabled it answers nothing
and no request is the mock's, so the one STOP for the last client ends the real request.

`LocationUpdatesProofs` proves for every set of calls, keys and HAL answers and every
combination of faults: `UpdatesTypeCorrect` (`TypeOK`), `TableAlwaysMatchesLists`
(`TableMatchesLists`), `SessionsAlwaysHaveClients` (`SessionsHaveClients`),
`ClientsAreAlwaysServed` (`ClientsAreServed`), `OffHandlersStayStill`
(`OffHandlersAreStill`), `AnsweredCallsStayDone` (an answered call has no timer left and,
unless it subscribes, is on no list), and `ClientsGetTheirDue` (`Spec => CallsSpec`). The
invariant `UpdatesIInv` is

* `Fit`: the types, a GPS feed that is on keeps the engine started, and lists, table,
  timers and answers agree (`Agree`): a call is on one list at most, and a pending
  timer belongs to a listed call without answer;
* `Sessions`: a session that runs has clients; and, where nothing interferes or
  refuses, `Served`: listed clients have a session;
* handlers are on in behaviours that switch none off, and `OffHandlersAreStill`.

A reply takes clients off lists and ends sessions from within, and replies follow each
other in one action (`SetState`, a reply to every list); so the middle of the
proof is the relation `Follows(t, r, M)`: `Fit` holds of `r`, no session begins, and what
`t` had of `Sessions` and `Served`, `r` has. It is transitive, each reply
of `UpdateLists` and what ends with it is a `Follows` step, and the actions chain them. The refinement is shown
in the same way with `Answered(t, r)`: each reply is one answer to some of those
listed, and as no call is on two lists, several replies in a row are one `Report` again. A
time-out is one of `ClientCalls` since a pending timer is that of a listed call without
answer: `Agree` once more.

`GpsThreadProofs` proves, for every number of download threads, every bound on the
reports under way and every combination of what may happen: `TypeCorrect`,
`ConnectionFollows` (`HalConnectionFollows`), `NetworkIsKnown` (`AvailabilityFollows`),
`HalIsTold` (`HalKnowsNetwork`) and `DownloadsRecover` (`DownloadsAreNotLatched`). The
invariant adds to the types: `Connection` (unless a request was replaced, what the
HAL has open is `OPEN` for the provider too), `Reports` (the last report under way
is the state of the service) and `DataNetwork` (what counts as sent is what the HAL
was told, and without failures the network reported last has been sent).

`DownloadsRecover` takes the two halves of `DownloadsAreNotLatched` by turns: that of
`NtpClient` is in `Invariance`, that of XTRA inductive with it (`XtraKept`).

`ServiceStateProofs` proves all ten properties of `service_state`, for any worlds, any
number of calls, tasks and reports, and any bounds. Its invariant `ServiceIInv` is the
conjunction of one per part, and `PartSteps` says that each step of the service is a
step of each part or leaves it alone; so each part is proved by itself.

* Connection (`ConnIInv`, in `ConnectionStateProofs`): what is told of a service is
  what its last status says unless something about it is still queued. For a service
  that is gone the error of the hub is among the replies, and whatever overtakes it
  does not outlive it (`Dead`); for one that runs the last reply is its state (`Live`,
  without the troubles). `InternetAndNetwork` and `ResumesFollowSleeps` are inductive.
* Geocoding (`Kept`): `MessagesAreKept` is inductive with the types; the work is in
  counting the tasks of a call when one is added to, or taken from, the addresses.
* Settings: `SettingsAgree` is inductive with the types.
* Status (`StatusIInv`): when the HAL's thread is done, the last report queued is the
  engine's status, and without one queued, what `getGpsStatus` has read and cached is.
* Files (`WriterOK`, `FileOK`, `AnswerOK`): who may write which file, that what is
  being written is the latest fix or not newer, that a settled file holds it, and that
  no answer is newer than what was reported. `NeverBackInTime` follows: an answer from
  settled files is the newest there is.

The proofs assume only the named `ASSUME`s of the modules. With them every invariant,
action property and refinement of the passing runs is a theorem. Only model-checked
are the four properties under fairness, which are out of the prover's reach:
`EveryCallIsAnswered`, `OfflineIsReported`, `ShutdownEnds` and `TimedCallsEnd`.

## 5. Divergences found

Each is a run that TLC finds violated; `PROJECT.json` quotes the line it disagrees
with.

* `STOP_GPS_CMD` leaves the first-fix time of the session it ends to the next.
* A cancelled geofence call frees its id before the HAL has removed the area; the
  late report then frees the id of the next owner, and a third call draws it.
* A network answer that arrives after `setNetworkProvider` is recorded as the new
  server's.
* A client that joins a running network request after `setNetworkProvider` waits
  for news that a device at rest never produces.
* A request for time that falls between the end of a download and `NtpClient`'s going
  idle leaves the interface's state at DOWNLOADING, and no later request is served.
* After a sleep that cost the HAL its session the requests made again at resume are
  rejected as duplicates, and nothing is restarted.

## 6. Not modelled, and the plan

Done: the GPS engine, the mock providers, geofences, the network provider, the GPS
thread with its downloads, location updates, connection state, settings, the engine's
status, stored positions, geocoding, and a theorem for each of their safety properties and
refinements. What the plan has left:

* `meetsCriteria` with its clock (minimum interval and distance, accuracy and time of
  the last position sent), as an operator checked against a reference definition.
* More of the theorems: what a cancel leaves of the geofence properties, and the
  conditions under which `RunsForClients` and `FirstFixIsFinal` hold with a mock provider.

Not modelled: the suspend blocker, which is never constructed; the log recorders,
aiding-data commands and extra commands of the GPS provider, which touch nothing the
engine depends on; configuration files read once at the start; formatting, parsing
and accessors. None has states that a model checker could reach in an order of its
own.
