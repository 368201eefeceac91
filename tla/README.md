# Verification of the location stack of `android_device_lge_joan`

The repository is the device tree of the LG V30 (`joan`).  Most of it is data for
the build (overlays, SELinux policies, audio and Wi-Fi configuration).  The
program in it is the Qualcomm location stack: `src/gps` (adapter, API, utilities,
HIDL service) and `src/location` (the LOC API over QMI, synchronous requests,
network interfaces).  It is C and C++ with many threads, hand-made message
queues, timers and callbacks, and no tests.  This directory holds TLA+ models of
its concurrent core, TLC configurations that check them on small instances, and
TLAPS proofs that hold for all instances.

## 1. Files

| File | What it is |
|---|---|
| `SyncCall.tla` | abstract specification: what a synchronous request promises its caller |
| `SyncReq.tla` | `loc_api_sync_req.c`: slots, locks, the timed wait, the scan of the callback thread |
| `SyncReqProofs.tla` | inductive invariant of `SyncReq`, its safety properties, and `SyncReq` implements `SyncCall` |
| `Agps.tla` | `Agps.cpp` with the adapter queue, the modem and the Android framework around it |
| `AgpsProofs.tla` | types, agreement of state and subscribers, waiting for the close, and what the modem is told of its handles |
| `LocTimer.tla` | `LocTimer.cpp`: clients, MsgTask and poll thread around one timerfd |
| `LocTimerProofs.tla` | types, life of delegates, outcomes of starts, and the armed timerfd |
| `GnssSessions.tla` | tracking sessions from `LocationAPI` through `GnssAdapter` and `LocApiV02` to the modem |
| `GnssSessionsProofs.tla` | the engine serves the smallest interval, events follow sessions, no orphans |
| `NiRequests.tla` | network initiated requests in `GnssAdapter.cpp`: two sessions, a thread per request |
| `NiRequestsProofs.tla` | one owner of each request, and answers that are the user's own |
| `Odcpi.tla` | positions on demand in `GnssAdapter.cpp` and their timer |
| `OsObserver.tla` | `SystemStatusOsObserver.cpp` over `LocUnorderedSetMap.h` |
| `OsObserverProofs.tla` | the maps mirror each other, framework and clients follow them |
| `TaskQueue.tla` | abstract specification: what a message task promises to those who send to it |
| `MsgTask.tla` | `MsgTask.cpp`, `LocThread.cpp`, `msg_q.c`, `linked_list.c`: a task from creation to destruction |
| `ApiClient.tla` | `LocationAPIClientBase`: queues of requests and the table of sessions |
| `ApiClientProofs.tla` | answers find their requests, and the client knows the sessions that run |
| `LocHeap.tla` | `LocHeap.cpp`: the tree under the timers |
| `ServicesProofs.tla` | a task handles its messages in order and implements `TaskQueue`, and the life of the delegate that two threads share; requests of `Odcpi` go on as long as the modem asks; the heap is counted, complete and sorted; what is proved of each service holds of their composition |
| `MC*.tla`, `MC*.cfg` | the instances TLC checks; `MCServices` instantiates `NiRequests`, `Odcpi`, `OsObserver`, `MsgTask`, `ApiClient` and `LocHeap` |
| `PROJECT.json` | components, runs, mutants, source map, findings, hazards, theorems |

Each `MC` module extends what it instantiates and defines the sets of
model values and the symmetry.  To repeat a run:
`tlc -workers 2 -config MCAgps.cfg MCAgps`; a proof: `tlapm AgpsProofs.tla`.

Definitions that are named as a mutant in their comment (`SendFailsKeepsSlot`,
`DeniedKeeps`, ...) are not part of any specification.  Each is a plausible bug;
put in place of the definition it mutates, it makes TLC report the property
`PROJECT.json` names, which shows that the property depends on the code.

## 2. Inventory

Sizes and lines are of the sources under `src/`.  "Hard" is what a unit test
would hardly reach.

### Synchronous requests - `location/loc_api/loc_api_v02/loc_api_sync_req.c` (modelled)
- State: `loc_sync_array` (`in_use`, 8 slots with flags `slot_in_use`,
  `ind_is_waiting`, `ind_has_arrived`, key and payload pointer), one mutex for the
  array, a mutex and condition variable for each slot.
- Operations: `loc_sync_send_req` (any thread), `loc_sync_process_ind` (QMI
  callback thread).
- Interacts with: `LocApiV02`, which calls it on the MsgTask's thread and others;
  `loc_api_v02_client`, whose callback passes it every indication.
- Hard: the answer comes before the wait, during it, after the timeout, or never;
  two calls with the same key; slots run out; `in_use` is a cached summary.
- Correct when: a slot belongs to one call; a call that waits is woken by its
  answer; success means an answer; a buffer is written only while its call runs
  and only with an answer to its key; every call returns.

### AGPS data connections - `gps/gnss/Agps.cpp`, `gps/android/AGnss.cpp` (partly)
- State: for each network interface a machine (RELEASED, PENDING, ACQUIRED,
  RELEASING) and its subscriber list with two flags each.
- Operations: `requestATL`, `releaseATL` (from the modem),
  `reportAtlOpenSuccess/OpenFailed/Closed` (from the framework), `handleModemSSR`.
- Interacts with: the adapter's queue, the modem through QMI, the framework
  through HIDL; all of them asynchronous.
- Hard: closes cross grants, the framework loses or denies the connection while
  some subscribers wait for its close, others come while it is being released,
  the modem restarts.
- Correct when: a machine's state agrees with its list; what the modem believes
  of a handle agrees with the machine; every request is answered, and once.

### Timer service - `gps/utils/LocTimer.cpp` (partly)
- State: a heap of delegates for each container, its timerfd and epoll
  registration, `mTimer` in each client, `mClient` in each delegate.
- Operations: `LocTimer::start`, `stop`, destructor (any thread); push, remove and
  expire messages (MsgTask); `LocTimerPollTask::run` (poll thread).
- Hard: three kinds of threads; the fd is written by two of them without a lock;
  a timer is stopped, restarted or deleted while it expires.
- Correct when: the soonest timer is armed; delegates are deleted once, after
  their last use; each start ends in one stop or one callback, not before its
  time; deleted clients are not called.

### Heap - `gps/utils/LocHeap.cpp` (modelled)
- State: nodes with a size, two children and the object they hold.
- Operations: `push` (into the smaller side), `pop`, `remove` (by address).
- Hard: sequential, but every operation moves objects between nodes, nothing is
  rebalanced, and ranks may tie.
- Correct when: sizes add up, nobody outranks his parent, and the tree holds what
  was pushed and neither popped nor removed.

### Message queue, threads, tasks - `gps/utils/msg_q.c`, `linked_list.c`, `LocThread.cpp`, `MsgTask.cpp` (partly)
- State: the list, `unblocked`, the waiter; the delegate with its reference count,
  `mRunnable` and the thread's handle.
- Operations: send, receive, unblock, flush, destroy; create, stop, run.
- Hard: owner and thread destroy the delegate together and the task is deleted by
  its own thread; a signal between the reader's test and its wait.
- Correct when: messages are handled once and in the order they were sent, nobody
  uses a deleted delegate, what waits is handled or flushed, the owner returns.

### Shared lock, set map, local sockets, utilities - `gps/utils`
`LocSharedLock` (not modelled) is a counted mutex.  `LocUnorderedSetMap` (modelled)
is a map to sets, in `OsObserver`.  `LocIpc` (not modelled) is datagram I/O.  The
rest reads configuration files, formats NMEA sentences and logs.

### GNSS adapter - `gps/gnss/GnssAdapter.cpp` (partly)
- State: clients and their callbacks, tracking sessions by (client, id), two NI
  sessions, the ODCPI request and its timer, configuration.
- Operations: commands of clients and events of the engine, as messages on its
  MsgTask; a thread for each NI request; the timer's callback.
- Hard: many sessions are one session of the engine, which refuses and restarts;
  user response, timeout and next request of the network race; a timer's
  expiration is handled after its timer was started again.
- Correct when: the engine runs with the smallest interval exactly while there are
  sessions, each start is answered, an NI request is answered once and by its own
  user, and requests of the modem go on until it stops them.

### Location API - `gps/location` (partly)
- State: in `LocationAPIClientBase` four queues of requests and the table from a
  client's ids to sessions.
- Operations: start, update, stop of tracking and of sessions, NI responses,
  geofences, and the responses of the adapters.
- Hard: answers are matched by session and position; a session is exchanged for
  another one behind an id; answers and ends of trips come on other threads.
- Interacts with: `LocationAPI`, which starts a tracking session on GnssAdapter or on
  the batching adapter, does not note on which, and sends its stops and updates to both.
- Correct when: every response reaches the request that caused it, and a session
  that runs can be stopped.

### HIDL services and API clients - `gps/android` (AGnss in Agps; rest not modelled)
Thin translations.  State: the callback interfaces, and the tracking flag of
`MeasurementAPIClient`.

### Core - `gps/core` (partly)
- State: in `LocApiBase` up to ten adapters and their event masks; in
  `SystemStatusOsObserver` a map from items to clients, its mirror, a cache and the
  framework's object.
- Operations: opening, masks, the message after a restart; subscribe, request,
  unsubscribe, notify.
- Hard: subscriptions come before the framework does; an item is unsubscribed with
  its last client only; a client that comes late has missed the reports.
- Correct when: the maps mirror each other, the framework is subscribed to what is
  wanted, and a subscriber knows the last value.

`ContextBase` and `LocDualContext` create the objects; `SystemStatus` parses text.

### LOC API over QMI - `location/loc_api/loc_api_v02` (partly)
`LocApiV02.cpp` keeps the event masks, the session flag, the engine's state and the
requests that a busy engine refused; these are in `GnssSessions`.  The rest, and
most of its lines, converts between QMI structures and location types.
`loc_api_v02_client.c` opens, closes and validates handles.  The tables are generated.

### Network interfaces and DS client - `location/loc_net_iface`, `loc_api/ds_api` (not modelled)
The data connections of builds without Android's framework, and those of
emergency SUPL with a PDN of its own (`DSStateMachine` with its retry timer).
Neither runs on this device.

### Rest of the tree (not modelled)
`gnsspps` (one thread, one mutex), `light`, `livedisplay`, `pocketmode`, `lineagehw`
(sequential, they write sysfs files or call a vendor library), `init` (properties
at boot), and configuration.

### How they interact

```
 HIDL clients --> LocationAPI --> GnssAdapter --(MsgTask queue)--> LocApiV02
                                     |    ^                          |    ^
            AGnss (HIDL) <--> AgpsManager |                          v    |
               |   ^                      |              loc_sync_send_req |
               v   |                      |                  |      loc_sync_process_ind
         Android framework     LocTimer, NI threads          v             |
                                  (MsgTask, poll thread)   QMI (modem) ----+
```

Two kinds of interaction carry the risk.  One is the FIFO queue of a `MsgTask`:
handlers do not overlap, but messages are handled later than the state they were
posted in.  The other is a lock held for less than a whole operation: between two
critical sections other threads run.  The models put their action boundaries in
exactly these places.

## 3. Modules and the code they model

`PROJECT.json` maps each definition to its source lines.  This section explains
the abstractions.

### SyncReq
A thread inside `loc_sync_send_req` goes through
`select` (slot taken), `send` (indication registered), `wait` (request accepted),
`blocked` (in `pthread_cond_timedwait`), `free` (the slot is to be released) and
`done`.  One action stands for one critical section: `loc_alloc_slot` and
`loc_free_slot` under the array's mutex, `loc_sync_select_ind`,
`loc_sync_wait_for_ind` before and after the wait, and one round of the scan loop
under the slot's mutex.  The array's mutex is held for a whole scan: it is taken
exactly while `ind # NoInd`, and needs no variable.

- A pair (client handle, indication id) is a key.  An answer is a key and the
  serial number of the request, which stands for the payload.
- `pthread_cond_timedwait` may return by a signal, a timeout or spuriously.
- The modem (external) answers each request once, late, early, or not at all; an
  answer may be lost.  Answers may come in any order.
- A send may be refused (`SendFails`).
- `hit` and `why` are history: they record that a slot was matched, and what ended
  a wait; no action reads them.
- Left out: logging, `ind_is_selected`, `req_id` (written, never read), the length
  of the payload, the reinitialisation of an initialised array (which returns).
- Bounds: `MaxCalls` requests are sent to the modem in all.

`SyncCall` is what the callers rely on: a call owns its buffer from start to
return; the buffer is written only while the call runs, only by an answer with
its key, and each answer goes to one buffer at most.  `ImplementsSyncCall` maps
`waitsFor` to the argument of the running call, `buffer` to the caller's buffer,
and `open` to the answers on their way together with the one the scan holds and
has not consumed yet.  Slots, locks and flags disappear.

### Agps
`Subscribe`, `Unsubscribe`, `Granted`, `Released`, `Denied` are the five events of
`AgpsStateMachine::processAgpsEvent`; `RequestATL`, `ReleaseATL`, `ReportAtl` the
messages of the adapter; `ProcessMsg` is one round of the MsgTask, and includes
everything the handler does, up to the calls to framework and modem.

- Configuration: `agpsCapable`, `USE_EMERGENCY_PDN_FOR_EMERGENCY_SUPL = 0` and the
  HIDL callback as the framework: that of this device.  `SUPL` and `SUPL_ES` use the
  AGNSS machine, `WWAN_ANY` the INTERNET one; `SUPL_ES` waits for the close.
- A call to the framework is put in `asked`, and taken later.  `AGnss::statusIpV4Cb`
  drops types it does not know, among them that of the INTERNET machine.
- The framework (external) answers a request unless a release comes first, and
  may lose an open connection at any time.
- The modem (external) uses a handle once between two restarts and may close it
  before its open is answered.  A status is taken by the modem at once;
  `Hears` says which statuses it expects.  A status that may cross a request on
  its way is accepted.
- Left out: APN, bearer, IP address, the order of the list (each subscriber is
  notified with its own handle), `DSStateMachine`.

### LocTimer
The clients' `Start`, `Stop`, `Delete` are whole operations: the code holds the
LocTimer's lock for them.  The MsgTask handles `push` and `remove` in one action up
to `timerfd_settime`, which is `Arm`.  An expiration is `MsgExpire` (the time is read,
the top is popped, `mClient` is read), `StopClient`, `CallBack` and `NextExpired` for
each timer popped, as `LocTimerDelegate::expire` takes and leaves the lock in
between.  The poll thread's steps are `epoll_wait`, the disarming
`timerfd_settime`, `EPOLL_CTL_DEL`, and the message.

- The heap is the set of its delegates with the soonest on top, any of those due
  at the same time: what `HeapIsSound` says of `LocHeap`.
- Time is a counter; a timer started with delay `d` at `now` is due at `now + d`.
- A use of a deleted client is undefined: the behaviour stops with `crashed`.
- One container.  The two containers share the threads only, and the threads
  handle messages one by one.
- `stopped` and `outcomes` are history: the delegate whose start the callback ends,
  and how often a start has ended.
- Left out: a failing `timerfd_create`, the creation of the container, and the C
  wrappers `loc_timer_start` and `loc_timer_stop`.

### GnssSessions
Four layers in one module, since a property of tracking spans them: clients post
(`SetCallbacks`, `StartTracking`, `UpdateTracking`, `StopTracking`, `Destroy`), the adapter's
thread takes messages in order (`Handle...`), `LocApiV02` talks to the modem inside a
handler (`StartFix`, `StopFix`, `RegisterEventMask`, `Open`), and the QMI thread posts the
three messages after a restart of the modem one by one (`ModemRestarts`,
`PostAfterError`), with posts of clients between them.

- An interval stands for the `LocationOptions` of a session.  A client's callbacks are
  those reported during a session only (`track`), and those always reported (`ni`).
- What the modem refuses is the `fault` of a step: the mask, the mode (in the
  response or the indication, as busy or otherwise), the request itself, the
  opening.  Between restart and reopening all requests fail.
- A request refused as busy is cached and sent again when the engine stops:
  `resenders` counts the cached ones, as the state event is registered for the first.
- Removing a client visits its sessions in order (`HandleRemoveClient`,
  `StopNextSession`, `EraseClient`): each stop may be refused on its own.
- Bounds: `MaxIds` sessions in all, `MaxPosted` messages that clients have waiting,
  `MaxTroubles` refusals and restarts.
- Left out: the ULP library, which this device does not have; mode and accuracy.  A
  client keeps a callback that makes it one of GnssAdapter (`isGnssClient`,
  LocationAPI.cpp:61-66), so that its calls and its destruction are posted; section 6 says
  what becomes of one that gives them up.

### NiRequests
The two sessions (`session`, `sessionEs`) are shared by the MsgTask and a thread for each
request.  The MsgTask's handling of a response is cut where the code leaves the
lock: `ResponseChecked` (reads without it), `OtherSessionChecked`, `OtherSessionIgnored`,
`ResponseStored`.  A thread waits, gives its session up in the critical section
(`ResponseSeen`, `WaitTimesOut`), and then, without the lock, clears `reqID` (`ReqIdCleared`) and
posts the response (`ResponsePosted`).

- A request stands for its raw data, whose owner is followed through session,
  thread, message and modem.
- `userSaid` and `niAnswer` record what the user and the modem were told; `late` that a
  response was stored after the thread had given up.
- Left out: a thread that cannot be created, the contents of requests.

### Odcpi
`OdcpiStarts` and `OdcpiStops` are the two halves of `reportOdcpiRequest`, `OdcpiTimerExpire`
the handler of the expiration, which `TimerFires`, `TimerStops` and `TimerCalls` bring
about as the timer's thread does: `LocTimerDelegate::expire` stops the timer that
runs then, calls back, and the callback posts.  `timerActive` is `OdcpiTimer`'s own flag,
`timerOn` what LocTimer thinks; they differ between the stop and the handler.
The service that calls `odcpiInit` is not in this tree.

### OsObserver
All calls are messages of one MsgTask, and one action is the handling of one.  A
report (`HandleNotify`) carries the values of the time it was posted in.  The set map is
a function from keys to sets (`Added`, `Trimmed`, `NewKeys`, `GoneKeys`, `StillThere`); what an
operation returns decides what the framework is asked.  `view` is history: the
last value each client was told of each item.

- `UpdateSubscription` is called by nobody in this tree and breaks the maps (section
  6); it is modelled, and the properties speak of the time before it.
- Left out: `turnOn`, `turnOff`, the backhaul.

### MsgTask
Operations of the queue are one action each, as they hold its mutex; receiving is
two, around `pthread_cond_wait`, which may wake up by itself.  The thread's loop is cut at
every access to the delegate (`ThreadReadsRunnable`, `ThreadTestsRunning`,
`ThreadClearsRunnable`, `ThreadDropsReference`), and so is the owner's destruction
(`OwnerUnblocks`, `Bye`, `Stop`, `Joined`, `OwnerDropsReference`), because neither holds a lock
there.  The thread may be joinable or detached.  `ImplementsTaskQueue` maps the list, the thread's
place and the deletion to `TaskQueue`: a sequence of messages sent, and one of those
taken, one at a time.  The other modules take the MsgTask for just that: a queue
whose messages are handled in one action each.  Left out: `pthread_create` that
fails, and a task destroyed from within one of its messages.

### ApiClient
Calls of the client are one action each, as they hold `mMutex`.  The adapters
take commands in order (`CommandHandled`), and answer in two steps: the request is
found and taken out of its queue under the mutex (`RequestFound`), and its
`onResponse` runs without it (`ResponseDelivered`).  A trip ends at the batching
adapter on its own thread (`TripCompleted`, `TripRemoved`).

- *Where commands go.*  A tracking session, that of `locAPIStartTracking` or one in the mode
  `"fix"` with an id, is started on one adapter of `TrackingAdapters`: `startTracking`
  (LocationAPI.cpp:298-309) chooses by minimum distance and callbacks, which are the client's
  and may change, so each start may choose anew (`StartsOn`).  Its stops and updates go to
  both adapters (`GoesTo`), of which the one that has not the session says nothing.
  Batching sessions are the batching adapter's.  An exchange of a session between the two
  modes is a stop at one or both and a start at another (`SessionExchanged`), with
  one request for both.
- The batching adapter is not in this tree.  It answers the commands for sessions it has,
  and says nothing of tracking sessions it does not have (LocationAPI.cpp:326-327, 353-354); of a
  batching session it does not have it may say either.
- `locAPIUpdateSessionOptions` is two actions: it reads the session's entity, and writes it back at
  the end; the removal of a session takes other locks than the mutex it holds.
- A command carries the number of the request that caused it, and nothing reads
  it: `ResponsesMatch` compares it with the request that was found.
- `outOfStep` records that the order of a queue may differ from that of its answers, after which
  the code promises nothing any more.  It is set in four places, which section 6 describes:
  `PushSession` (requests to both adapters wait in the queue of the sessions with an id),
  `CommandHandled` (the adapter that had the session is silent, and the request for it stays),
  `LocAPIGnssNiResponse` (an id is answered again before its first answer came) and `Skips` (an
  answer finds its session gone and its request still waiting, or looks in another queue, as
  the id of a network request is the number of a session).
- `leftRunning` and `updateRefused` record sessions whose stop was taken for granted and failed,
  and whose update was refused.
- `removeSession` is one step, though it locks the table twice: what the other thread can do
  between is to exchange the session, and then it is gone either way.
- Left out: geofences, fetched batches, options, the destruction of a client.

### LocHeap
A heap is one tree, a function from places (the turns taken from the root) to nodes, each
with its object and size.  `HeapPush`, `HeapPop` and `HeapRemove` begin an operation; each
recursive call of the source is then a step (`NodePush`, `NodePop`), with its choice of
sides, and no other operation begins meanwhile.  The call that is on its way is `doing`.
Sizes change on the way down, where the source changes them before or after the call: none
is read in between.  The search of `remove` changes nothing and is one step with the first call of
`pop` (`Finds`).  `CheckNodes` is the check that the source compiles for its own tests, and
`inHeap` the set that the tree stands for.  An operation ends, as it goes down a finite tree.

### MCServices
The six modules from `NiRequests` to `LocHeap` share no state.  A behaviour chooses one of
them and runs it: one run instead of six, with the sum of their states.  Each
module is extended as it is, with its own Init and Next; `PartsAsSpecified` proves that nothing
is lost or added by it.

## 4. Runs

| Run | Instance | States | Shows |
|---|---|---|---|
| `sync_req` | 3 callers, 2 keys, 2 slots, 2 requests; symmetric | 1.55 M | slots are neither shared nor leaked; the array's summary covers the slots; no lost wakeup; success means an answer |
| `sync_req_live` | 2 callers, 2 keys, 2 slots, 2 requests | 0.33 M | `SyncReq` implements `SyncCall`; every call returns |
| `sync_req_kept` | the same | until the trace | violated: an answer that was given is replaced (finding 1) |
| `agps` | 2 handles, 3 types, 1 restart; symmetric | 2.22 M | types; state agrees with subscribers; open handles are held; no status unasked for; opens are pending; those who wait, wait |
| `agps_live` | 3 handles, 3 types, no restart | 0.51 M | opens and closes are answered |
| `agps_close` | 2 handles, SUPL types | until the trace | violated: a close request is forgotten (finding 2) |
| `agps_restart` | 2 handles, SUPL types, 1 restart | until the trace | violated: when all messages are handled, a subscriber is left that no handle stands for, and holds the connection (finding 3) |
| `loc_timer` | 2 timers, 3 starts, delays 0..2, time 1..2; fair | 0.34 M | types; the soonest timer is armed; deleted delegates are not used; client and delegate agree; one outcome for each start; every started timer expires or is stopped |
| `loc_timer_early` | the same, time 1..3, clients not deleted | until the trace | violated: a callback before its time (finding 4) |
| `loc_timer_dead` | the same, clients deleted | until the trace | violated: a deleted client is used (finding 5) |
| `gnss_sessions` | 2 clients, 2 intervals, 2 sessions, 1 message waiting, 1 refusal or restart; fair | 0.63 M | types; the engine serves the smallest interval; no orphan; events follow sessions; starts are answered; a restart is recovered from |
| `services` | observer: 2 clients, 2 items, 1 change, 1 report waiting; NI: 2 requests; task: 3 messages; client: 2 ids, 2 modes, 2 adapters, 3 sessions, 3 requests, NI ids 2 and 4; heap: 5 objects of 3 ranks; ODCPI: 3 messages waiting; fair | 0.47 M | types; and the properties of the six services below |

Of the properties of `services`, `MapsMirror`, `FrameworkFollows` and `SubscribersKnow` are the
observer's; `OneOwner`, `AnswersAreOwn` and `NiRequestsEnd` those of NI requests;
`ImplementsTaskQueue`, `DelegateLives` and `MessagesEnd` those of a task; `ResponsesMatch` and
`SessionsFollow` the API client's; `HeapIsSound` and `OdcpiIsRepeated` speak for themselves.

**Why the bounds are enough.**
*SyncReq:* three callers on two slots let the slots run out while two calls
compete; two keys let answers match one slot, both, or none; two requests suffice
for an answer of an earlier call that finds its slot taken by a later one, as the
refused send gives calls without a request as well.
*Agps:* with two handles one can wait for the close while the other comes or goes;
the liveness run has a third, for one that comes while the machine is releasing
with another active.  One restart separates old from new handles.
*LocTimer:* three starts of two timers let one be restarted while the other
expires; delays 0, 1, 2 give timers that are due at once, at the same time, and
after another.
*GnssSessions:* two sessions of one or of two clients with equal or different
intervals give all cases of the multiplexing, which compares a session with the
least of the others.  One refusal or one restart at any point; the message that
a client may have waiting comes before, between or after those of the restart.
*NiRequests:* the second request comes in the same session or the other one, at any
point of the first one's life; a third would find both busy.
*OsObserver:* an item wanted by both clients and one wanted by the first only; a value
before and a value after the change.
*MsgTask:* a message handled, one taken and one waiting when the owner comes.
*ApiClient:* three requests are the starts of two sessions on different adapters with a
stop of one, a start, a stop and another start that finds what the first left, or an
exchange of a session in both directions, which takes three sessions.  Two NI ids let an
answer come after the queue has passed on to the next id, and one is the number of a
session too.  The client by itself was also checked with three modes and four requests
(4.46 M states up to symmetry, no violation), which is too much beside the other five.
*LocHeap:* five objects make trees of three levels, with ties within and across
levels.  *Odcpi:* four messages at most: a start, a stop, another start or a
restart, and an expiration, in any order.

The safety properties are proved for every instance (section 5);
for them the bounds only have to be large enough to find a mistake before the proof.

**Symmetry** is used in the runs that check invariants and action properties of
interchangeable callers, keys, handles and timers; never with liveness.

**Deadlock.** Checked in `SyncReq`.  A stop is no error in the others, so their
configurations switch the check off: in `Agps` the handles are used up and no
message is left; in `LocTimer` the clock and the starts have reached their bounds,
or a deleted object was used; in `GnssSessions` the clients are gone and the ids used;
in `MCServices` a task was destroyed, or the requests of the bound were made.  What
must not stop is stated as liveness instead.

**Fairness.**
- `SyncReq`: each thread inside a call goes on (weak fairness of the steps of a
  call), and so does the scan.  A timed wait ends: its timeout is always possible.
  Nobody has to start a call, and the modem does not have to answer.
- `Agps`: the MsgTask's loop takes message after message, and the framework takes
  its calls and ends each attempt to connect.  Neither the modem nor a loss of
  the connection is fair.
- `LocTimer`: time passes, and the MsgTask and the poll thread run.  Clients do
  nothing they need not do.
- `GnssSessions`: the MsgTask takes its messages, and the QMI thread posts the three of
  a restart once it has begun.  Clients need not call, the modem need not
  report, and nothing makes it accept.
- `NiRequests`: the MsgTask and the threads run on, and a timed wait ends, as
  `pthread_cond_timedwait` does.  Neither user nor network is fair.
- `MsgTask`: the thread and, once it destroys the task, the owner run on.  A wakeup
  without a signal is not fair: nothing is owed to it.

Liveness is about instances whose counters are bounded; no
property depends on the bound being reached, as the threads run on when it is.

## 5. Proofs

All theorems are checked with tlapm from the assumptions on the constants
(`NSlots > 0`, NULLs are no members of the sets they are NULLs of, bounds are
natural numbers) and nothing else.

**SyncReq.** `IInv` is inductive.  The safety properties are not: they rest on
`SlotMirrorsCall` (the slot of a registered call has the call's key and buffer, is
waiting exactly while the call is blocked, and a flag or signal it has is from an
indication that matched it), `UnregisteredSlotsClean` (a slot with no call in it
matches nothing), `ScanConsistent` (`seen` covers the slots below the cursor;
without it the end of a scan could clear `in_use` of a slot in use) and
`SerialsFresh`.  There is one lemma for each action.  From `IInv`: `TypeCorrect`,
`SlotsAreOwned`, `NoIndicationDropped`, `WakeupsAreKept`, `SuccessIsAnswered`, and
`Refinement` (`Spec => ImplementsSyncCall`), where each step is shown to be a step of
`SyncCall` or a stutter.

**Agps.** `TypeOK /\ StateMatchesSubscribers` is inductive: each handler leaves its
machine in a state that fits its list, whatever message comes next, so nothing
has to be known of the queue.  `WaitersWait` is an action property: only a denial
or a release removes a subscriber that waits.  What the modem is told needs the queue.
`HandlesFit` says for each handle which of its messages are queued (each kind once,
the open request first: `QueueInOrder`), in whose list it is, and what the modem may know
of it then; it is inductive on top of the former, until the modem restarts, and as the
modem uses a handle once between two restarts.  From it: `OpenHandlesAreHeld`,
`StatusesAreAsked` and `OpensArePending`, for any number of handles on their way at once.

**LocTimer.** Three layers.  `Inv` (types, `ClientMirrorsTimer`, `OneOutcome`, and what
a callback in progress is about) is inductive.  `QueueInv` adds that a delegate's
messages come once each and the push before the remove (`InOrder`), and that
nothing is fired outside an expiration; with it `DeletedNotUsed` is inductive: a
delegate leaves the heap before its remove message deletes it, because the push
was handled before.  `ArmedOrDue` strengthens `SoonestIsArmed` to the states in which
the MsgTask is about to set the fd: unless an expire message comes, the fd, or
the time it is about to be set to, is that of the soonest timer.  It is inductive
on top of `Inv`, and it is the argument why the two threads may write the fd
without a lock: what the poll thread undoes, its expire message makes the MsgTask
do again.

**GnssSessions.** `IInv` adds to the types what the queue holds (`StartsAreFresh`, `SessionsAreOld`,
`RestartFollows`: the message that reopens the connection is followed by the one that
restarts the session, which is why it may run with the wrong interval in
between), what the engine and the masks are like (`MasksFit`, `IdleEngine`, `ServesSmallest`,
which is about every state and not only those at rest), and how far the removal
of a client has come (`PassedAreStopped`).  A least interval exists for any set of
intervals by induction on the naturals, through `WellFoundedInduction`.

**NiRequests.** `NiInv` rests on `SessionIsWatched`: a request in a session has one thread
that waits for it, so that a thread that reads its session after the wait finds
its own request, although nothing in the code compares them.  `ThreadsFit`, `Owners`,
`RespondsFit` and `HandlingFit` say where the raw data is at each place; `Fits`, that the
response in a session is for the request in it, is part of the invariant as long
as no response was late.

**OsObserver.** The mirror is inductive by itself.  What the framework is subscribed to
follows from one map, and what clients know needs both, as `notify` finds its
recipients in the one and what to tell them in the other.

**MsgTask.** What was handled, taken and waits, put together, is what was accepted: an
element only moves over the borders.  The delegate is counted: the references are
those of an owner and a thread that have not dropped theirs.  `TaskImplementsQueue`: with the order, the
head of the list is the first message not taken yet; a message that was sent once is not
sent again (`SentAreKnown`); and the thread leaves its loop only after the owner has closed
the queue (`LeavesWhenClosed`), so that the task ends only then.

**Odcpi.** `OdcpiTypeOK /\ OdcpiIsRepeated` is inductive: no message but an expiration takes an
expiration out of the queue, and that one starts the timer or ends its flag.

**ApiClient.** An answer carries a session and no request: it takes the first request of the
queue its session leads to.  That this is the right one is proved in three layers.  `Base`
is about what was sent, and holds always: numbers increase in every queue and inbox
(`InOrder`), each command is one its adapter understands (`CommandsFit`), the session of
`locAPIStartTracking` is none of those with an id (`Apart`), the start of a session is its first
command (`StartsFirst`), and a trip that is over does not start again (`TripsFit`).  `Matching`
relates requests and commands in both directions: the request of a command that will be
answered waits in the queue its session leads to (`CommandsWait`), and what waits in a queue
has a command that will be answered by the adapter it was meant for (`RequestsWait`), so that
the first request and the first command have the same number.  That the commands of
tracking sessions come to both adapters does no harm, as only the one that has the session
counts (`AnswererOf`); that the requests of one queue come from one adapter is needed, and is
what `PushSession` ends.  `Following` says what the answers are worth: `ClientAnswersFit` (an
answer of success or error is true of the session when it arrives, as nothing for the
session was handled meanwhile), `RunningKnown` and `IdsServed` (each id's session runs, or
something is on its way to it).  `IInv` is `Base`, and the other two until `outOfStep`: they are
inductive no longer than that.

**LocHeap.** `HeapInv` is inductive.  It says of every state, also in the middle of an operation:
the size of a node is one more than that of its subtrees, but for the one node whose call is
on its way (`SizesAdd`); the root's size counts the objects (`Counted`); each node but the root
has a parent (`Connected`); nobody outranks his parent, and when an object is to be replaced,
neither do its children outrank its parent (`Sorted`, `SortedAround`), which is what the next call needs
when it moves the higher child up; and each object has one place, or is the one on its way
down (`Complete`).  `HeapIsSound` is about the states between operations.  That the top
ranks highest needs more than a step down: `AncestorsRankHigher` compares a node with any
above it, by the least depth of a counterexample.

**MCServices.** `PartsAsSpecified`: a behaviour of the composition is one of each of the six
specifications.  With it the theorems of `OsObserver`, `NiRequests`, `MsgTask`, `ApiClient`, `LocHeap`
and `Odcpi` become `PartsTypeCorrect` and `ServicesAreSafe`, about the specification that the run
`services` checks.

**Model-checked only.**  Liveness under fairness (`CallsReturn`, `OpensAnswered`,
`PlainClosesAnswered`, `TimersExpire`, `StartsAnswered`, `EngineComesBack`, `NiRequestsEnd`, `MessagesEnd`):
the prover does not support it.  Every invariant and every action property of a passing run
is stated by a theorem.

## 6. Findings

The first five are runs TLC finds violated, with a trace of steps the code takes.
The others are seen in the models, whose properties except them by name.

1. `loc_api_sync_req.c:208`: an answer overwrites another (`sync_req_kept`).  A slot
   whose waiter has been signalled and has not run yet still matches.  With two
   calls for the same key the second answer goes into the first call's buffer, and
   the second call times out.
2. `Agps.cpp:279`: a close is forgotten (`agps_close`).  A denial in PENDING tells all
   subscribers that their open failed and deletes them, also those that had asked
   to close and wait for the close status.
3. `Agps.cpp:887`: `handleModemSSR` is never called (`agps_restart`).  A subscriber of the time
   before the restart stays for good and holds the connection open, although every
   message is handled and the framework goes on.  The property speaks of the time after
   the messages of the restart: with a message that calls `handleModemSSR` at the end of
   `ModemRestarts`, TLC finds it satisfied (tried with one handle).
4. `LocTimer.cpp:370`: a callback before its time (`loc_timer_early`).  The expire
   message pops the top without looking at its time; if the timer that woke the
   poll thread has been stopped meanwhile, the next one is called back.
5. `LocTimer.cpp:530`: a deleted client is used (`loc_timer_dead`).  `expire` reads `mClient`
   without the lock, and uses it two steps later.

6. `GnssAdapter.cpp:2389`: an answer for the wrong request.  A response that the MsgTask found
   in time may be stored after the thread's wait has ended and `respRecvd` was reset; the
   next request is then answered with it, without asking its user.  `AnswersAreOwn`
   holds until this has happened (`late`).
7. `LocUnorderedSetMap.h:184`: `update` returns what stays, and not what was removed as its comment
   says.  `updateSubscription` unsubscribes the framework from the items that are
   kept, and leaves it subscribed to those that are not.  Nobody calls it in this tree.
8. `LocApiV02.cpp:551`: when the modem rejects the mode in its indication, `startFix` sends no start
   and returns the success of the request.  The client believes in a session that
   does not run until the next restart or change.
9. `LocHeap.h:83`: `remove` is said to find the node "that ranks the same"; it compares
   addresses, as its only user needs.

### Observations

What the models leave out on purpose, or except in a property, because the code
promises nothing.  None of it is a finding of a run.

- *Client base.* The answers of a session carry no request.  All sessions with an id share a queue:
  when requests to both adapters wait in it, and batching and tracking sessions
  together or two tracking sessions started on different ones suffice, the adapter
  that answers first takes the request of the other.  A start that succeeds may then take a stop
  for its request, and a session that runs is removed from the table.  A second stop of a
  tracking session is not answered by anyone, as both adapters take the session for the
  other's, and its request shifts all later responses; a second stop of a batching session
  is answered to a session that is gone, with the same effect, as are a start that
  fails with another request waiting, two quick changes of mode, and the end of a trip
  with a request waiting.  A repeated response to one network request takes the first
  one's answer for its own.  All this is `outOfStep`.  A session removed while an update has read
  it is put back by the update, as an id for a session that is gone.  A mode change
  whose start fails leaves an id that can neither be stopped nor started
  (`updateRefused`).  A stop of tracking that is refused leaves the session running,
  as `mTracking` is cleared before the answer (`leftRunning`), and a start that fails
  leaves it set.  `getRequestBySession` looks NI ids and sessions up in one namespace: an
  answer of an NI id takes the request of a session of the same number, also when the
  queue of NI responses has passed on to the next id (`Skips`).
  `locAPIStartTracking` drops waiting requests without a callback.  `removeAllGeofences` passes
  sessions as ids (758-762).  The destructor frees requests while an adapter may be
  in a callback.
- *NI requests.* `reqID` is cleared outside the lock, after the session was given to the
  next request.  IGNORE for an emergency may be overwritten by a response that
  waits, and a response that comes with the timeout by NO_RESPONSE.  Without a client
  that has the callback the raw data is neither answered nor freed.  A thread that
  cannot be created leaves its session busy.
- *Sessions.* A client that gives up its GNSS callbacks (`updateCallbacks`, LocationAPI.cpp:234-252) is not
  told to GnssAdapter, which keeps the callbacks it had; nor is its destruction then
  (line 205), so that its sessions stay.  A start between a restart and its third message is answered with success
  without an engine.  A client removed while the connection is dead leaves an
  orphan.  With equal intervals the engine keeps the mode of a session that is gone.
  `close` does not reset the engine's state, and the session flag is set although the
  start failed.  The state event for the resenders is dropped by the next mask.
  The cached request keeps pointers into the caller's stack.  The client library
  installs its callbacks after it registered for indications.
- *ODCPI.* The timer of a stopped request runs on, so an emergency may wait ten seconds
  when the last request was one too; an expiration that was on its way asks early,
  or ends the pause that keeps the modem from asking too often.
- *Observer.* An item first requested, not subscribed, is never subscribed at the
  framework, also for later subscribers.  A client that comes back to an item is
  told the cached value of the time before.  `trimOrRemove` reads its iterator after the
  erasure (135), `removeAndReturnInterset` goes on from an erased element (59-67).
  `turnOn` posts a message with the wrong object, so that the framework stays off.
- *Tasks.* `MsgTask::destroy` touches its members after it unblocked the thread that deletes
  them.  An owner faster than the thread's first step leaves the task undeleted.
  Messages refused by an unblocked queue are not freed.
- *LocIpc.* A stop before the bind is lost and the join blocks; chunks of two long
  messages interleave; an error of `recvfrom` is added to an unsigned size.
- *Not on this device.* The retry timer of `DSStateMachine` reads the subscribers on the
  timer's thread (`Agps.cpp:566`); `agpsOpenResultCb` ignores an APN that is NULL, which
  `LocNetIfaceAgps` passes on failure (`GnssAdapter.cpp:3298`), and its state has no lock
  (`LocNetIfaceAgps.cpp:205`).
- *Timers.* `LocTimerWrapper::destroy` tests fields of an object that its callback may have
  deleted (`LocTimer.cpp:608`).  When the last timer is removed the fd stays armed
  (292), against the comment; the model follows the code, and an expiration of an
  empty heap is harmless.

## 7. Not modelled

- Conversions: most of `LocApiV02.cpp`, `location_service_v02.*` (generated), `gnss` reports,
  the HIDL layer, `SystemStatus`, NMEA.  They are long and sequential, and a model of
  them would be their transliteration; together they are the larger part of the
  lines of the location stack.
- `DSStateMachine`, `ds_client`, `LocNetIface*`: other devices'.
- The C wrappers of LocTimer, LocIpc, geofences and `LocationAPIControlClient`, several adapters on one
  `LocApiBase`, validation of handles in `loc_api_v02_client.c`: small parts around those
  modelled, in this order worth adding.
- The rest of the tree, as listed in the inventory.

## 8. Plan

Done: everything in section 1, with a theorem for every safety property that a run checks.
Next, in this order:

1. an abstract client with one outstanding answer for each request, refined by
   `ApiClient` as long as `outOfStep` is false;
2. an abstract timer service, in which a start ends in one callback or one stop, refined
   by `LocTimer` as long as no deleted client was used;
3. `LocTimerWrapper` over `LocTimer`'s actions, with the deletion race of line 608;
4. geofences in `ApiClient`, whose requests carry lists of ids;
5. several adapters on one `LocApiBase`, with the union of their masks.
