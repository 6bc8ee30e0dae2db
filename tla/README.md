# Formal models of douyinLive

TLA+ models of the core of this repository: a Go library that listens to a
Douyin live room over a WebSocket, a server that shares one such listener per
room among any number of downstream WebSocket clients, and the signing script
both run in a JavaScript engine when the native signature is refused. TLC checks
the models on small instances; TLAPS proves the main invariants for instances of
any size. Paths below are relative to `src/`; `internal/server/` is written
`server/`, and `jsScript/webmssdk.js` is called the script.

## 1. The system

A **downstream client** connects to the server for a live id. The **room
manager** finds or makes the **room** of that id and of the cookie the client
brings. The room starts an **upstream listener** (`DouyinLive`), whose messages it
broadcasts to its clients. While the live session is offline the room polls with
**probe** instances from a **monitor** loop. A separate HTTP API asks for the status
of a live id by a one-shot **lookup**, without a room. A listener signs its
connection by a **signer**, which falls back to a JavaScript runtime that evaluates
the **script**: browser code, much of it compiled to bytecode, with the interpreter of
that bytecode. The file also carries what its compiler emits for generators,
asynchronous functions, decorators and iteration; except for one for-of loop over a
local array (4948) nothing in the file uses these.

| component | state | operations | interacts with | correct when |
|---|---|---|---|---|
| room life cycle (`server/room.go`, `room_session.go`, `room_monitor.go`, `room_client.go`) | clients, reservations, `sessionGeneration`, `starting`, `monitor`, `douyinLive`, `probeLive`, `activeTasks`, `closed` | reserve/add/remove a client, start a session, poll, promote a probe, end a session, become idle, `Close` | tasks (goroutines) that carry a generation from one critical section to the next; the listener's ready callback and return | one owner of the upstream at a time; stale tasks change nothing; no listener or client is lost; `Close` ends everything |
| lookups (`server/room_manager.go`) | `probeCalls`, waiters per probe, `probeSem`, `probeWG`, `closed` | `LookupRoom`, wait, give up, execute, `Close` | request contexts, a time limit, permits | one probe per live id; nobody is cancelled by somebody else; `Close` leaves no probe |
| rooms by key (`server/room_manager.go`) | map of rooms, `closed` | `GetOrCreateRoom`, `AcquireRoom`, `removeRoomIfMatch`, `Close`, `CloseAll` | rooms, HTTP handlers | an open room is the one under its key; a client keeps its room open; none is acquired after `Close` |
| downstream client (`server/room_client.go`, `ws_handler.go`) | outbound queue in messages and bytes, write deadline, close state | enqueue, write, pong, handshake, batch close | the room that removes slow clients | accounting never drifts; frames stay in order; a client is closed once, and promptly |
| room status messages (`server/room_status.go`) | cached message, metadata | decide, replay | room | a newcomer is told the current state |
| upstream listener (`lifecycle.go`, `websocket_connection.go`, `reconnect.go`, `heartbeat.go`, `http_context.go`, `douyin.go`) | life cycle, `manualClose`, close context, `conn`, heartbeat loop, `contextMu`, failure count | `Start`, `Close`, `Dispose`, prepare, dial, read, reconnect, heartbeat, cleanup | the upstream; its signer; callers on other goroutines | it runs once; nothing leaks; `Close` and the live-end message end it |
| live status guard (`live_status.go`, `live_status_api.go`) | `isLive`, `liveStatusKnown`, confirmations | record, reset, `CheckLiveStatus` | listener | an offline room is confirmed, a passing error is not |
| room information (`room_info.go`, `live_id.go`) | cached pages | fetch and parse, choose a source | HTTP context | parsing; the order of sources |
| HTTP context, cookies (`cookie_context.go`, `sign/cookie_manager.go`) | cookie, file | set, save, load | listener; the file system | a crash leaves one whole cookie; no save is undone by an older one |
| session and protocol profiles, proxy | tables, chosen once | look up | listener | pure |
| signer (`websocket_signer.go`, `webcast_http_signer.go`, `internal/webcastsign`, `jsScript/jsScript.go`, `sign/ab_sign.go`) | native or fallback runtime, bound profile, closed | prepare, sign, switch to the fallback, close | listener; the script | no runtime is lost; a signature is made for the profile that is bound; a closed signer signs nothing |
| message decoding and bus (`message_decode.go`, `live_message.go`, `events.go`, `message_types.go`) | subscribers, `manualClose` of the listener | subscribe, unsubscribe, publish | listener, room | handlers are called in order, and none that stays subscribed is left out |
| application (`server/app.go`, `runner.go`, `cmd/main/main.go`) | server, port, shutdown once | run, port fallback, shutdown | manager, rooms | rooms are closed before the process ends |
| the script: interpreters (bytecode machine, generator runtime, async drivers) | instruction pointer, frames, open try statements, completions; queues of requests | step, call, throw, return, resume | one another, through native calls | control goes where the program text says; requests are answered in order |
| the script: helper runtimes (decorators, iteration) | lists of elements, initializers, iterators | decorate, iterate, close | compiled classes and loops, of which the file has one loop | what a class gets depends on its text alone; an iterator is closed once |
| the script: digest, behaviour log | hash blocks, event lists, an account in local storage | update, finalize; log, report, reload | the signature; the page | the padded message is absorbed; the quota is kept over reloads |
| the script: signature, fingerprint, environment | tables, caches | compute | the digest | test vectors |
| HTTP API, metrics, configuration, logging, utilities | none, or counters | handlers, parsing, formatting | all | pure, or plain I/O |

What is hard here: every room decision is taken in a critical section and
carried out after it, by goroutines that may by then belong to a retired
generation; two layers of locks (`r.mu`, `clientsMu`) and a wait group; a monitor
and a session that replace one another; a listener with three kinds of
goroutines and a `Close` that may come between a handshake and the moment its
connection is stored; three writers of one connection whose deadline the closing
handshake takes over; a runtime made without the lock of its signer; a room that
closes itself before it leaves the map; a save interrupted at any point; waits
that give up (`roomCloseTimeout`, 1.5 s for a heartbeat, the shutdown of probes);
and, in the script, exceptions, returns and jumps that cross try statements,
callers and suspended generators. `PROJECT.json` lists these hazards one by one,
at their lines, with the properties that would notice each.

## 2. Modules

| module | models | state and actions |
|---|---|---|
| `Room` | one room and the part of its listeners that it sees | one variable per field of `Room`; `task` holds the goroutines `startTask` launches, by kind, each with the generation and the instances its local variables carry; `open`, `held`, `ready`, `returned` say how far each `DouyinLive` is |
| `ProbeLookup` | `LookupRoom`, `waitForRoomProbe`, `executeRoomProbe`, `probeContext`, `RoomManager.Close` | `call` is `roomProbeCall` with the goroutine that executes it; `pc` is where each request is, "adding" holding `probeMu` |
| `RoomManager` | the map of rooms, `GetOrCreateRoom`, `AcquireRoom`, reservations, the end of a room, `Close`, `CloseAll` | `conn` is where each HTTP handler is, `room` what the manager sees of a room: its key, places promised, clients, `closed` and how far it is on its way out of the map |
| `ClientQueue` | one downstream client: `enqueue`, `writeLoop`, pongs, `writeMessage`, the closing handshake, `closeSlowClients` | `writeMu`, the deadline and the queue as fields; the goroutines "loop", "pong" and "closer" by program counter |
| `Listener` | one `DouyinLive`: `Start`, `Close`, `Dispose`, `PrepareWebSocketContext`, `CheckLiveStatus`, heartbeat loops, upstream | one variable per field; `call` holds the goroutines by program counter; `sock` the sockets; `loop` the heartbeat loops |
| `Signer` | the local signer: `Prepare`, `UpdateBrowserFingerprint`, `ActivateFallback`, `Close` | fields in `signer`; what a goroutine carries in `local`; `live` the runtimes not yet closed |
| `MessageBus` | `Subscribe`, `Unsubscribe`, publish, close | the list and the copy being published |
| `CookieFile` | `SetCookie`, `SaveConfig`, `LoadConfig`; kill and loss of power | where each save is; the disk as contents, what is synced, which file may have the name |
| `App` | `Run`, `App.Run` and its watcher, `Shutdown` | the three goroutines by program counter, the two channels |
| `Completions` | what structured control flow promises: the handler of an exception and the finally blocks of a return or jump, read off the program text; no stack of handlers | abstract specification |
| `ScriptVM` | the bytecode machine of the script | its registers and stacks; one action per kind of instruction; implements `Completions` |
| `Regenerator` | the generator runtime of the script | the `Context` object and the state of `_invoke`; implements `Completions` |
| `AsyncQueue` | the three drivers that make generators asynchronous | the queue, promise callbacks still to run |
| `Decorators`, `LegacyDecorators` | the four runtimes of class decorators since 2021, and that of 2018 | the member being decorated, lists of initializers; elements and taken keys |
| `Iteration` | helpers of destructuring and of for-of loops, two variants each | how often the iterator was asked and closed, which error is seen |
| `Digest` | the streaming MD5 | blocks, position, what was absorbed |
| `Tracker` | the behaviour log | list lengths, the account in storage, time |
| `MCRoom`, `MCListenerSafety`, `MCWaits`, `MCService`, `MCScript` | TLC instances | symmetry over clients, connections and loops; the last four explore several parts or settings in one run |
| `RoomProofs`, `ListenerProofs`, `ProbeLookupProofs`, `RegeneratorProofs`, `ScriptVMProofs`, `ServiceProofs` (`RoomManager`, `ClientQueue`, `MessageBus`, `App`, `Signer`, `CookieFile`, and these as `MCService` composes them), `ScriptProofs` (`Iteration`, `AsyncQueue`, `Tracker`, `Digest`, and the parts as `MCScript` composes them), `DecoratorProofs` (`Decorators`, `LegacyDecorators`, and these within `MCScript`) | proofs | section 5 |

How they fit together: `RoomManager` sees a room as three flags and two counts,
`Room` shows what goes on in it; `Room` sees a listener as open, ready and
returned, `Listener` shows how it gets there; `Listener` sees the signer as a
dial that is refused, `Signer` shows the switch; a slow client is a step of
`Room` and the overflow of a `ClientQueue`. The parts share no lock and no field
beyond these steps, so they are checked apart.

In the models of the Go code **a step is one critical section, one channel
operation or one call that leaves the component**, named after the function it
is part of; two such steps of a goroutine can be interleaved with anything. A
check made in one section and used in another is therefore two steps, as in the
code. A function that several goroutines call (`stopHeartbeatLoop`,
`startLiveSession`, `closeCurrentConnection`) is one set of actions with a
parameter. The script runs on one thread: a step is an instruction, a resumption
or one call of user code (a decorator, an iterator, an event handler), which may
do whatever the runtime lets it do meanwhile.

Counters that grow without bound in the code are handled as follows.
`sessionGeneration` is a natural number that changes only when a room without
clients is retired, and a client connects once, so the number of clients bounds
it. `probeFailures` saturates at `RotateAfter`, the only value it is compared
with. Messages, requests, resumptions, events and files are counted up to a
constant (`MaxMessages`, `MaxPongs`, `MaxPublished`, `MaxRequests`, `MaxResumes`,
`MaxEvents`, `MaxLoads`, `MaxTime`, `MaxCookie`, `MaxFiles`, `MaxBytes` of
`Digest`), which stands in the guard of the action that makes one. The number of
goroutines of a kind, of instances, connections or loops *alive at once* is
bounded by the sets given in the configuration (a step that needs a free slot
waits); how often a slot is used again is not bounded. `script.cfg` gives the sizes of the
digest: a block of 64 bytes, a word of 4, and 100 in the place of 2^32, the count at which a
second counter takes over.

Operators marked "Bug" are wrong variants of the definition after them: a
dropped guard, a missing reset, a swapped order. `PROJECT.json` pairs each
property with one of them, in whose place TLC finds the property violated. The
specifications never refer to them.

### What the models leave out

* Room: message texts, the replay cache, metadata (no decision of the room
  reads them). A client of `Slow` may overflow at any time, in batches.
* RoomManager: merged snapshots, which only read. The key of a room is a hash of
  live id and cookie; here it is the pair, so that two cookies never collide.
* ProbeLookup: the status a probe returns, and what `CheckLiveStatus` does (one
  step of any length).
* Listener: message payloads other than the live-end message, ACKs (a failed
  ACK is only logged) and `writeMu`, the choice of user agent and HTTP client in
  a reconnection, the heartbeat interval, `IsLive` (only library users call it),
  and the two close codes in a *handshake* error that stop the retries (fewer
  attempts is a behaviour the model has anyway, by `Close`). A handler that
  closes its own listener is a Close call by another goroutine here.
* ClientQueue: the upgrade, and what the reading goroutine reads besides pings.
* Signer: the TikHub signer (one request under one lock) and the signatures.
* App: the search for a free port is one step that succeeds or fails.
* CookieFile: parsing, the cookie jar, the encoding of the file.
* Script: operands, scopes and arithmetic of the bytecode (such an instruction
  completes or throws); property descriptors and brand checks of decorators; the
  compression function of MD5, which is uninterpreted, its output formats and
  its path for Node (3828-3840); encryption and sending of reports; the wrapper
  of synchronous iterators (`asyncFromSyncIterator`).

### Not modelled

* Signature, fingerprint and environment of the script (4027-4127, 4452-4690,
  4806-5060, 5094-5390, 5816-5998, 6011-6446): bit-level algorithms over byte
  tables and probes of browser properties, most of them bytecode strings. They
  have results, and no state that could go wrong over several steps.
* One-call helpers of the compilers (inheritance, private fields, spread, named
  groups): pure, or one assignment.
* Room status texts, room information, profiles, proxy, HTTP API, metrics,
  configuration, logging, utilities: pure or plain I/O; see `components` in
  `PROJECT.json`, each with its reason.

## 3. Runs

| run | question | instance |
|---|---|---|
| `room_sessions` | sessions start, fail, end and follow one another, and `Close` or becoming idle comes at any time: is a listener, a start or a client ever lost? is anything left? | 2 clients, 2 instances, 1 task of each kind, anonymous probes that rotate, upgrades that fail; the wait of `Close` does not expire |
| `room_monitors` | do a session and monitors of two generations get in each other's way? | 2 clients, 2 monitor tasks, 1 instance, 1 task of each other kind |
| `room_liveness` | do starts, `Close` and the tasks end? | 1 client, which may be slow, 2 instances, fairness, the wait of `Close` may expire |
| `listener_safety` | does a listener run once? is anything lost or left? does a heartbeat that fails close a connection that is not its own? do stream and heartbeat go together? | 2 connections, 2 loops, 2 attempts. Setting "beats": 1 Start, 1 `Dispose`, the wait for a heartbeat loop may expire, the signer does not switch to its fallback; setting "status": 2 Starts, one goroutine that prepares or checks the status, no wait expires |
| `waits` | lookups: shared probes, and `Close`: does every lookup return? do abandoned probes, and `Close`, end by cancellation alone? A listener: does `Dispose` return, does Start end? | part "lookups": 2 requests, 2 live ids, 1 permit; only `LookupReturns` assumes that timers fire. Part "listener": 1 Start, 1 `Dispose`, 1 attempt, fairness, an upstream that drops silent connections; every heartbeat loop ends in time |
| `service` | the six smaller parts of the service, each on its own | queue of 2 messages or 3 bytes, 4 messages of 1 or 2 bytes, 1 pong; bus with 3 handlers, 2 messages; signer with 2 goroutines, 2 sessions, 1 browser, 2 runtimes; the process; 3 requests, 3 rooms, 1 live id with a configured cookie and requests that may bring another; 2 saves at a time, a cookie that changes twice, 4 files, one stop of the process or the machine |
| `script` | the runtimes of the script, each on its own | 45 bytecode programs, 76 generators; 3 requests, 2 resumptions; classes of 2 or 3 members; iterators of 0 to 2 values; messages up to 140 bytes in chunks; lists and quotas of 1, 2 units of time, 3 events, 2 loads |

The five others are in section 4. Some properties are conjunctions of named
parts, so that one run asks one question:

* `SessionConsistent` = `StartingHasOwner`, `RetainedProbeUsable`, `ReadyMeansLive`;
  `RoomEndsOnce` = `RemovedRoomIsEmpty`, `ClosedAdmitsNothing` (of `Room`);
* `NothingForgotten` = `OneRun`, `ConnectionsOwned`, `OneHeartbeat`, `NothingLeft` (of
  `Listener`, in both settings of `listener_safety`);
* `CloseLosesNothing` = `RuntimesAccounted`, `RuntimeFits` (of `Signer`) and
  `RoomsCloseFirst` (of `App`); `RoomsByKey`, `FileIsWhole` with the types of their
  modules; `DecoratorContract` with `NoDuplicateElement` of `LegacyDecorators`.

`waits`, `service` and `script` explore parts that share nothing in one run: the
variable `part` says which one moves, and the others stay in one initial state. A
violation names the part. In `waits`, which of two callers, ids, free connections or free
loops comes first makes no difference, and one of them is taken (`FirstLookup`, `FirstFree`).

**Refinement.** `HandlersAreLexical` and `GeneratorIsLexical` are `Spec` of
`Completions`, instantiated with a mapping from the state of the machine, and of
the generator runtime: both interpreters implement the same promise about
exceptions, returns and jumps. The machine keeps a stack of open try statements
and frames of callers; the generator runtime compares one location with the
four of each entry. `Completions` has neither, and looks for the innermost try
statement around the instruction.

Some properties hold only within limits. `HeartbeatHarmless` excepts the loop that was
told to stop and given up: `stopHeartbeatLoop` waits 1.5 s, a write may take 5 s
(`wsWriteTimeout`), and a loop that outlasts the wait closes whatever connection is
current when its write fails (section 4). Waits do expire in setting "beats" of
`listener_safety`; `waits` lets every heartbeat loop end in time, because liveness with
expiring waits would not finish in five minutes. `StreamHasHeartbeat` speaks of the time
before anybody else has asked for the status of a running listener, and the run of
`LiveEndEndsStart` has nobody who asks:
`PrepareWebSocketContext` or `CheckLiveStatus` may set `isLive` to false for a
moment, which ends the heartbeat loop if it looks then, and not the stream; and
may set it to true after the live-end message. The server asks only probes that
are not started, so this stays a remark about the library. `EveryRequestAnswered`
excepts a request that was lost (section 4). `NoListenerLost` and
the other properties of `Room` make no such assumption.

Why the bounds are enough: every property of the Go code speaks of at most two
actors of a kind (two generations, two clients, two listeners, two monitor
loops, an old and a new connection, two waiters of a probe, two goroutines with
a signer, two saves; three requests where a room ends between two that meet in
it), and each actor goes round its cycle any number of times. One permit makes
probes queue. `RotateAfter` is 1 instead of 3: what matters is that a probe is
rotated. `Attempts` is 1 or 2 instead of 5, enough for a retry. A queue of 2
messages and 3 bytes overflows by either limit. Two monitor tasks let one loop
end while the next one runs (`room_monitors`, with one instance), two instances
let a listener end while the next probe is in use (`room_sessions`, with one
loop); both at once would not finish in a few minutes, and neither would the two
settings of `listener_safety` in one instance. For the same reason only the one client
of `room_liveness` may be slow; with `Slow = {a, b}` in `room_sessions.cfg` TLC takes
five minutes, reaches 5.4 million states and finds no error. The programs of
`script` have a try statement in a try statement, in a handler and in a callee,
one with catch and finally in the body of another,
every way to leave each of them, and a loop; the messages of the digest end
before, at and after the place of the length and a block, in characters of every
width.

Deadlock is not checked: clients, requests and calls happen once and programs
end, so every model stops when all of them have been used.

### Fairness

* *Room*: every goroutine that can run does, requests have time limits
  (`httpRequestTimeout`), tickers tick, a reserved connection is upgraded or
  refused. A stream may last for ever. A `Start` whose listener has been closed
  returns. The last assumption is not quite what `Listener` shows: in the window
  of the finding below, Start ends only when the upstream drops the connection.
  Of `CloseEnds`, that `Close` returns does not depend on it (its wait may expire);
  that all goroutines end does.
* *ProbeLookup*: goroutines run; a probe is bound to return only once its
  context is done. That its timer fires is a premise of `LookupReturns` alone.
* *Listener*: goroutines run; dials, requests and writes end within their time
  limits; a read ends with a message or an error. `DropFairness` adds that the upstream
  drops a connection whose heartbeat loop is gone, which is what the heartbeat is
  for; without it, `listener_unclosed` shows what happens.
* *ClientQueue*: goroutines run, and a write ends by its deadline, if the peer does
  not take it before. The peer may read or not.
* *AsyncQueue*: promises settle, and callbacks run (`Progress`); that a delegate gives an
  object (`Fulfilled`, not `Lose`) is not assumed.
* Nowhere must a client connect or leave, the room close, or the upstream fail.

## 4. Where the code and its documents disagree

Five runs are expected to find a violation.

* `room_unserved` (`ClientsAreServed`): the last client leaves and another joins
  between two steps of a start. The start finds, under an old client count, that
  nobody needs it; the newcomer relied on it. It stays connected, with no session
  and no monitor, which `docs/websocket-client.md` excludes.
* `room_doubled` (`StreamHasStopper`): a start that gives up while the next client
  is being upgraded clears `starting`, although that client has begun a second start
  in the same generation; a third start then replaces the listener of the second,
  which streams on and is out of reach of `Close`. The instance is not lost to its own
  goroutine (`NoListenerLost` holds and is proved), but nobody can stop it.
* `room_unreleased` (`CloseReleasesAll`): `Room.Close` closes, and does not
  dispose, a listener whose goroutine has been launched and has not reached
  `beginStart`; its signer is never released.
* `listener_unclosed` (`CloseEndsStart`): `Close` between a successful handshake
  and `dl.conn = conn` closes nothing, and `setLiveStatus(true)` undoes its
  `setLiveStatus(false)`.
* `bus_unsubscribed` (`UnsubscribeStopsCalls`): `docs/library.md:234` says that `Unsubscribe`
  prevents the callbacks that have not started. Between the check that a handler is
  subscribed and its call, `Unsubscribe` may return; the handler then still starts, once.

What else a reader of the code may want to know, met while modelling; no document
says otherwise, so these are remarks:

* Room: a WebSocket upgrade that fails after a start has kept its probe leaves an
  empty room in the manager, until somebody asks for that room again.
* Listener: every reconnection that succeeds resets `consecutiveFailures` and the
  guard, and one that fails ends the listener: neither count ever passes 1
  (`TypeOK`, and its theorem `ListenerTypes`). The longer delays and the refresh of user agent and HTTP client
  that `reconnectPlan` computes from the count, and the second offline
  confirmation of the guard, are never reached (the retries inside one
  reconnection have a back-off of their own). `CheckLiveStatus` stores its answer a
  second time without `contextMu` (`live_status_api.go:107`).
* Heartbeat: a loop that `stopHeartbeatLoop` gave up, because its write takes longer than
  the wait, closes the connection that has replaced its own when the write fails at last;
  the listener then reconnects once more.
* Signer: after `UpdateBrowserFingerprint` in fallback mode, `Sign` fails until the
  next `Prepare`. `fallbackMu` serialises what makes runtimes, so that the branch
  which finds another profile bound is reached only after `Close`.
* Process: it may end while the watcher's `Shutdown` still waits for open HTTP
  requests; its rooms are closed by then. If readiness and an error are both
  there, either may be reported.
* Rooms by key: a request that got its place before `Close` gets a client that
  `AddClient` closes at once.
* Cookie file: a loss of power after a rename whose directory was not synced may
  bring the older cookie back (the sync of the directory is best effort);
  temporary files stay only when the process is stopped.
* Script, bytecode machine, where it parts from the text: one register holds what a
  finally block has to resume, and no instruction saves it, so that a try statement that
  catches or a call that returns within the block clears it (302, 345);
  a return that is resumed at the end of a finally block leaves the function at once, and
  skips the finally block of a statement around (261-269). No bytecode of the file has a
  finally block, and no jump crosses the border of a try statement: `WellFormed` of `ScriptVM`
  asks the latter and, in its part `Followed`, excludes the former.
* Script, generators, where the runtime parts from the text: a return before the
  start runs the finally block of a try statement at location 0 (2007, 2271); break or
  continue through two finally blocks skips the outer one (2288). While a finally block
  runs for an exception the method of the context is still "throw" (2224-2265): a try
  statement with finally inside such a block, when it ends, throws what is pending
  outside of it and skips the rest of the block; break or continue out of it throws
  the exception again instead; `yield*` in it first calls the inner iterator's `throw`.
  When a finally block is left by an exception of its own or by a jump, its record stays
  (`finish`, 2293-2302, is not reached), and a loop that comes to the block again acts on
  it. `WellFormed` of
  `Regenerator` (its part `Followed`) says which bodies do none of this; the file itself has the
  runtime, but no generator that uses it.
* Script, async drivers: a wrapper resumed by return answers an inner await with
  return (396). The callback of a delegate whose inner result is no object throws
  (397-399), and nobody takes it: the request is never answered and the queue behind it
  stands still (`Lose`, and the flag `lost`).
* Script, decorators: `setMetadata` of a private member writes another field than
  it reads (492-493); the getter of one runtime applies the class decorators again
  each time it is read.
* Script, iteration: `createForOfIteratorHelper` closes an iterator whose `next`
  has thrown after a value; the loose array helper tests the length of the source. The
  one loop of the file that uses a helper (4948) runs over an array, which has
  nothing to close.
* Script, what is there and not used: no function of the file is a compiled generator, an
  asynchronous function or a decorated class. The models of these runtimes say what they
  promise to code that would run on them; no hazard of this repository rests on them.
* Script, digest: a surrogate pair divided between two chunks gives another digest
  than the same text in one chunk.
* Script, behaviour log: it never starts here. The only calls that load the account
  (5554) and install the listeners (5688, 6886-6931) are in a timer that is commented
  out (6980-6986), and the constructor that would set the periodic report (6794-6857,
  action `Report`) is reached only from an `init` that nothing calls. So the reloads of
  `Tracker` are what the code provides for, and nothing that happens in this repository. Were it
  started: the list of window states grows without limit, and a cancelled
  `beforeunload` leaves `triggerUnload` set.

## 5. Proofs

TLAPS proves the following for every value of the constants that satisfies the
named assumptions of the module:

* the kinds of tasks and of calls are disjoint, and `None` is none of them
  (`TaskAssumption`, `InstAssumption`, `CallAssumption`, `NoneAssumption`);
* sets that are counted are finite (`ClientAssumption`, `CallerAssumption`);
* limits, sizes and bounds are natural numbers, and flags Booleans (`OptionAssumption`,
  `BoundAssumption`, `PermitsAssumption`, `SizesAssumption`, `LimitsAssumption` of
  `ClientQueue`, `BoundsAssumption` of `MCScript`);
* the bodies of generators, and the programs of the bytecode machine, are such as a compiler
  makes and have none of the shapes section 4 names (`GeneratorAssumption` and `VMAssumption`,
  which `MCScript` states as `GeneratorsAssumption` and `ProgramsAssumption`, and TLC
  evaluates for those of the run);
* classes that are decorated have finitely many members, of the kinds and placements that
  there are, each with a number of decorators (`DecoratorAssumption`, `LegacyAssumption`;
  `ClassesAssumption` of `MCScript`);
* the constants of the rooms by key, of the behaviour log and of the digest are of their
  kinds (`ManagerAssumption`, which `MCService` states as `RoomsAssumption`;
  `TrackerAssumption` and `DigestAssumption`, which `MCScript` states as
  `LimitsAssumption`): in the digest, a character fits in a word and a block has three.

Each proof has the form: an inductive invariant, a lemma per action and part, the
invariant theorem, and what follows from it. The invariants are defined in the modules
of the components and were checked by TLC before they were proved.

`RoomProofs`. The inductive invariant is `RoomInv`: `TypeOK`; `CarriesInstance`, a
task between the creation of its instance and the end of its start carries one,
needed because `Create` and `PromoteProbe` store it in the room; `MonitorInPlace`,
the monitor in place runs in a slot that is not free and carries the current
generation, needed because the slot's generation is what its later steps compare;
and `OneOwner`. `RoomInvariant`, and from it

* `TypeCorrect`: `Spec => []TypeOK`;
* `SingleOwner`: `Spec => []OneUpstreamOwner`, a room never streams and polls at
  once and its monitor is of the current generation;
* `RetiresNobody`: `Spec => GenerationRetiresNobody`.

The second part of `RoomProofs` has one inductive invariant for the rest of the room,
`SafeInv`: `RoomInv` and

* `Launchers`: a loop that has been installed is launched by exactly one task. Between
  `startMonitor` and `startTask` the monitor of the room has no goroutine yet;
* `InstInv`: an open instance has a holder, a goroutine that runs it or the room or
  `Close`; the retained probe is held by no task, since the task that asks it has
  taken it; an instance that was promoted is past the start of one task only;
* `PeopleInv`: `pendingClients` is the number of reservations, because the code decides by
  that counter who may go; a start about to be launched has its client; a closed room
  has no monitor, probe or listener, and a client only until `Close` has reached it;
* `SessionInv`: whoever set `starting` is still there to clear it, a task that promotes
  has no monitor beside it, and only the current generation asks the retained probe.

Each action is first reduced to the slots it writes (the lemmas `...Effect`), then each
part is preserved for a few kinds of write. `RoomIsSafe`, and from it `SessionSound`
(`SessionConsistent`), `NothingIsLost` (`NoListenerLost`), `MonitorsRun`
(`MonitorHasLoop`), `CloseIsComplete` (`CloseStopsAll`); and the action properties `EndsOnce`
(`RoomEndsOnce`) and `StaleHarmless` (`StaleTaskHarmless`), each a case split on the steps
that could do what it excludes.

`ListenerProofs`. `ListenerInv` is `TypeOK`; `StructInv`, that is `OneRun`, `ConnectionsOwned`,
`OneHeartbeat` and

* `Places`: where a call can be, and what it holds there (a connection only where it
  installs, reads or closes one, a loop only where it stops one);
* `Phases`: a Start that dials has no `dl.conn`, one that has stopped the heartbeat has
  no heartbeat loop in `dl` (the variable `beat`), one that was cleaned up has neither and has
  released the signer. This is
  what makes `NothingLeft` follow, and what `Install` needs in order to forget nothing;
* `LoopOwned`: a loop that is alive and not in `dl` is with somebody who waits for it,
  unless such waits expire;

and `Counts`: where `failures`, `confirmations` and the attempts of a reconnection are 0, from
which TypeOK's bounds on them follow (the longer delays of `reconnectPlan` are dead code
for *any* number of attempts and calls). Theorems: `ListenerInvariant`, `ListenerTypes`,
`ListenerSafe` (`NothingForgotten`), without further hypotheses: with any number of calls,
whether waits expire or not, and whoever asks for the status.

`BeatInv` adds `Closed` (what a call of Close or Dispose has done so far), `Apart` (of the
loops that are *attached*, that is in `dl` or with somebody who stops them or waits for
them: none is alive from dialing to the next `StartBeat`, and each sees `dl.conn` empty or
the connection it was started for) and `InUse` (a connection that is read has a loop that
goes on, as long as nobody else has asked). `Apart` is inductive because an attempt to dial again starts only when
`closeCtx` is not cancelled: had a call of Close taken the old loop from reconnect, it
would be. Two theorems follow:

* `HeartbeatsHarmless`: `Spec => HeartbeatHarmless`, without a hypothesis: waits may
  expire. By `OneHeartbeat` a loop that is alive and not attached has been told to stop, so
  it was given up. Without the exception for such a loop TLC finds the one that closes the
  next connection;
* `StreamsHaveHeartbeat`: `Spec => []StreamHasHeartbeat`, where the property ends with the
  first call of `PrepareWebSocketContext` or `CheckLiveStatus` beside the run (`NobodyAsked`).
  After one TLC finds a loop that looks while the status is offline for a moment. The server
  makes no such call: it asks only probes that are not started.

`ProbeLookupProofs`. `LookupInv` is `Base` (types, which pc goes with which probe,
what an unfinished call looks like), `SingleFlight`, `WaitersCounted`, `LeftAlone` (a
probe cancelled by its last waiter has no waiter), `NoOneElsesCancellation`,
`CloseOrder` and `CloseAwaitsProbes`. A waiter only joins a probe that
`probeCalls` names and nobody has left; `LeftAlone` is what makes
`NoOneElsesCancellation` inductive, and it needs `WaitersCounted`, since the code
cancels when a counter reaches 0 and not when a set is empty. Theorems:
`LookupInvariant`, `LookupTypes`, `OneProbePerId`, `WaiterCount`, `NobodyElseCancels`,
`CloseLeavesNoProbe`, `NoLateProbe`.

`ServiceProofs`, part by part.

* *RoomManager*: `RoomsInv` is `TypeOK`, `RoomsByKey`, `KeysFit` (the map
  names rooms by their own key, and a room on its way out is closed),
  `PlacesCounted` (the count of places promised is the number of handlers at the
  upgrade, needed because `removeIfIdle` reads a counter) and `CloseProgress` (a room
  `Close` has not reached yet is among those it still has to close); that nothing
  outlives `Close` follows from the last two and `KeysFit`. Theorems: `RoomsInvariant`,
  `RoomsKeptByKey`.
* *ClientQueue*: `QueueInv` is `TypeOK`, `OneWriter` (who is writing holds `writeMu`),
  `Stopped` (what each goroutine has seen of the close), `Ordered` (the queue holds the
  messages after those sent), `InterruptHolds` (once the handshake has interrupted the
  writer, nobody pushes the deadline out again) and `FramesInOrder`. `BytesAccounted` is
  a second invariant beside it. The sum over the queue is a recursive function: that it
  exists, is unique, is 0 for the empty queue and grows by the size of what is appended
  is shown by induction (lemma `Induction`, from the library's theorem that the order of
  the numbers is well founded). Theorems: `QueueInvariant`, `QueueTypes`,
  `CloseIsPrompt`, `FramesOrdered`, `BytesAreAccounted`.
* *MessageBus*: `BusInv` adds to the types that the ids in the list of subscribers and
  in the copy being published are distinct and were given before (`IdsGiven`), that
  the publication has gone past whoever was called (`CallsPassed`), that whoever it has
  gone past and is still subscribed was called (`PassedCalled`), and what is true of the
  one it is about to call (`Stage`). Theorem: `HandlersAreOrdered`, for any number of
  handlers and messages.
* *App*: `AppInv` is `RoomsCloseFirst` and `ShutdownHasCause` (who shuts the server down
  saw the signal, or found the server failed). Theorem: `RoomsClosedBeforeExit`.
* *Signer*: `SignerInv` is `TypeOK`, `RuntimesAccounted`, `RuntimeFits` and
  `InstallsOwn` (a runtime about to be put in place was made for the session its
  goroutine remembers), needed because `Install` compares that session, and not the
  runtime, with the one bound by then. Theorems: `SignerInvariant`, `NoRuntimeLost`,
  `SignsForOwnProfile`, for any number of goroutines, profiles and runtimes.
* *CookieFile*: `FileInv` is `TypeOK`, `FileIsWhole`, `NamesAreSynced` (what may
  have the name was synced before), `SavesTheCookie` (a save works on a file of its
  own with the cookie in memory, which cannot change while it holds the lock) and
  `TempsAreInUse`. Theorems: `FileInvariant`, `FileStaysWhole`.
* *The composition* that the run `service` explores: a part moves by its own steps or
  stays (`PartsStep`). Theorems: `MessagesInOrder`,
  `NothingLostByClose`, `RoomsFoundByKey`, `FileKeptWhole`, `ClientKept`, which state
  the properties of the run.

`RegeneratorProofs`: the generator runtime implements `Completions`, for every set of
well-formed bodies, of any length and depth. The runtime searches the entries of a body,
outermost first, for the last one that holds a location; the text has regions
ordered by inclusion. The first part of the module shows from the layout that these agree:
blocks nest (`WellFormed`), so the last entry found is the innermost region around the
location. The refinement maps what is pending for a region to the completion record of
its entry, but only while its finally block runs; elsewhere a record may hold anything
old. That this does no harm is the inductive invariant `GeneratorInv`: `TypeOK`; `Placed`,
where a generator stands in each state; `ThrowsOn`, the method is left at "throw" only in
the finally block that is to throw, needed because `_invoke` acts on the method again when
the block ends; `Settled`, a record that is set belongs to the handler that runs or to a
finally block that is behind, needed because `finish` reads it without asking who set it;
and `JumpsPending`, a pending jump was made in the statement and goes out of it, needed
because `complete` follows it without looking for further finally blocks. Then one
lemma for each kind of move (entering a handler, an exception, a return, a jump, the end of a
block, a resumption with and without an inner iterator), and `StepImplements`. Theorems:
`GeneratorInvariant`, `GeneratorTypes`, `GeneratorImplements`.

`ScriptVMProofs`: the bytecode machine implements `Completions`, for every set of
well-formed programs, of any length, depth of nesting and number of callers. The machine never
looks at the layout: `try` pushes an entry, `bound` fills in its end, `endblock` pops it, a
call saves the whole stack and starts an empty one. `VMInv` says that the stack is
nevertheless a function of the place: `TypeOK`; `StackFits`, it holds the statements of the text
around the instruction, in the order of their beginnings, each with the kind, the end and the
handlers that `EntryAt` gives for this place (an entry is filled in only bit by bit, at the
second `try` and at `bound`), and the same of each saved stack where the caller goes on; and
what is pending is so in a finally block. `StackFits` needs both directions: no entry
of a statement that control has left, or the unwinder would stop at a stale handler, and none
missing, or it would go past one. The layout (`Statement`: the order of the parts, blocks that
nest) then gives that the last entry whose handler does not run yet is the innermost region
that guards the place, in the running function as in each caller. The machine saves no pending
completion with a caller, and the abstract specification has none there either, because
`Followed` keeps calls out of finally blocks. One lemma for each kind of
instruction (`LoadShown` to `CallShown`). Theorems: `VMInvariant`, `VMTypes`, `VMImplements`.

`ScriptProofs`, part by part.

* *Iteration*: `IterationInv` is `IteratorClosed` and `Closing` (how the flags stand
  in each phase), since the helpers decide by flags whether to close.
  Theorem: `IteratorsAreClosed`.
* *AsyncQueue*: `AsyncInv` is `TypeOK`, `QueueInOrder`, `OneUnderWay` (exactly one
  resumption or callback is there while a request is open, unless the first was lost) and `Resumable` (within the
  bound on resumptions, the one under way may go on). Theorem: `RequestsInOrder`, for any number of requests.
* *Tracker*: `TrackerInv` is `TypeOK`, `QuotaKept` and `AccountSaved` (what storage has
  is the account in memory, which a reload therefore continues). A step is a
  composition of operators, of which a lemma each says what it keeps: a report (`Flush`)
  (by an event, the timer or `unload`) the account, an event the limits of the lists, the list of recent events its order.
  Theorem: `ReportsAreLimited`.
* *Digest*: while a digest is in use its state is in `Good`: the buffer holds the bytes
  since the last block that was cleared, in their places and nothing else, what spilled
  over a full block included; every block compressed was whole; the counts agree with
  the number of bytes. A character keeps this (`CharIsGood`), hence, by induction over
  the loop of update, a chunk (`FedIsGood`). `FinalizePads` then compares what finalize
  adds with the definition of padding, in the three cases of the code: the length has
  room in the block, it needs one more, or the last block was compressed already.
  Theorem: `MessagesArePadded`, for any width of words, size of blocks and message.
* *The composition* that the run `script` explores: `IteratorsClosed`, `QueueKeepsOrder`,
  `QuotaIsKept`, `DigestsArePadded`; `GeneratorsFollowText` and `ProgramsFollowText`, for which
  the instances of `RegeneratorProofs` and `ScriptVMProofs` are shown to be about the same
  interpreters (`RuntimesAgree`, `MachinesAgree`) and the same abstract specification
  (`TextsAgree`, `ProgramTextsAgree`); and `ScriptTypes`, from the invariants of the two and of
  the asynchronous drivers.

`DecoratorProofs`. In both models a class is a text of any length, and what a runtime has
made of it so far is compared with a fold over that text.

* *LegacyDecorators*: `LegacyInv` is `NoDuplicateElement` with what elements are and which of
  the lists are empty when. The runtime looks only at its list of keys to decide whether an
  element may go where a decorator puts it; that the list names exactly the elements
  collected, added or still to come, each once, is what makes that check enough, and needs
  that the key which is removed before a decorator runs is the one of its element, wherever
  it is in the list (`GivenUp`). Collecting, placing and defining are loops, each with an
  induction over the elements (`CollectedTyped`, `AllPlaced`, `Found`).
* *Decorators*: `DecoratorInv` adds to the contract `Position` (where the runtime is in the
  text), `CallsEnded` (the calls that are over are those the text puts before this place),
  `MembersSeen` (what `made` and `seen` say of the members visited: a single 0, 3, 4 or 1 for
  each name is enough to tell whether the next member may have it) and `Pushed` (the array so
  far is that of the members before); and that a function `addInitializer` which was handed
  out belongs to the call being made or to one that is over, which is what keeps the lists
  free of late initializers. The array is a concatenation, defined by recursion: `FlatIs` and
  `FlatGrows` show by induction that one more member adds its slots at the end.
* The four runtimes take the same steps (`DecActions`), and those of other parts of the script
  leave theirs alone (`PartsStep`). Theorem: `DecoratorsKeepContract`, which states
  `DecoratorContract` of the run `script`.

Only model-checked is all liveness (`StartResolves`, `CloseEnds`, `LiveEndEndsStart`,
`CloseCompletes`, `LookupReturns`, `CancellationEnds`, `CloseFinishes`,
`EveryRequestAnswered`): the prover handles neither fairness nor ENABLED.

Every other property of a run that passes is stated by a theorem, of the module it is
about (`listener_safety`, which restricts who may do what, checks those of `Listener`).

## 6. Plan

Done, in the order of importance the plan had: `Room`, `ProbeLookup`, `Listener`,
`ClientQueue`, the interpreters and runtimes of the script with `Completions`,
`Signer`, `MessageBus`, `App`, `RoomManager`, `CookieFile`; proofs of the safety of all
parts, and that `Regenerator` and `ScriptVM` implement `Completions`. Left:

1. `RoomPhase`: what a room promises a client (waiting, polling, streaming, closed),
   implemented by `Room` under a refinement mapping.
2. Operators checked over bounded inputs: `reconnectPlan`, the choice of a status
   message, the port search, configuration priority.

## 7. Running

    tlc -workers 2 -config room_sessions.cfg MCRoom
    tlapm RoomProofs.tla

Each run takes at most a few minutes; `DecoratorProofs` takes about twelve, `ScriptProofs` ten,
`ServiceProofs` nine, `RoomProofs` seven, `RegeneratorProofs`, `ScriptVMProofs` and `ListenerProofs` three to
four, `ProbeLookupProofs` one.
