# A formal model of retronet-api

retronet-api serves retro computers over HTTP and WebSocket: CP/M sessions with
a drive, a terminal and a line editor, and *bare* sessions, where a program for
a 4004, 6502, 8008 or 8080 is assembled and run on a bare machine. This
directory holds TLA+ modules of its concurrent core, the TLC configurations
that check them on small instances, and TLAPS proofs of what matters most for
every instance. Paths such as `manager.go:595` are relative to
`internal/server/`, `internal/backend/` and `internal/ws/`.

## 1. The system

| Component | State | Operations | Who calls it |
|---|---|---|---|
| Session manager (`manager.go`, `Manager`) | the table `sessions` under `Manager.mu`, the limit, the TTL | Create, List, Get, Delete, the lazy sweep `cleanupExpiredLocked` | every HTTP handler, every WebSocket message, every tick of every poller |
| CP/M session (`manager.go`, `ManagedSession`, kind `cpm`) | `Closed`, `State`, `LastError`, `line` under `ManagedSession.mu`; the CP/M machine, its terminal, its drive directory | command, run, input with the line editor, output, close; the goroutine `executeCommand` | HTTP handlers and WebSocket readers, any number at once |
| Bare session (kind `bare`) | the same fields, `Loaded`, a `backend.Backend` | assemble, run, input, output, close; the goroutine `executeBareRun` | the same |
| Front panel backends (`i8008.go`, `i8080.go`) | ROM, current panel, `stopRequested` | Load, setup, Run, Stop, Input | bare session, timers |
| Channel backends (`i4004.go`, `i6502.go`) | ROM, `stopCh`, `stopOnce`, `timedOut`, key queue | Load, Run, Stop, Input | bare session, timers, the keyboard of the running program |
| WebSocket handler and poller (`server.go`) | one connection: `done`, `lastState`, messages | reader loop, poller every 50 ms, `SendInitial`, `HandleSocketMessage` | the client, a ticker |
| WebSocket framing (`websocket.go`) | connection buffers, `Conn.mu` | handshake, `readFrame`, `writeFrame`, `ReadText` with its pongs | handler and poller |
| Upload and drive (`server.go`, `manager.go`: `handleUploadFile`, `UploadCOM`, `ListFiles`) | files of a directory, limits | list, upload | HTTP handlers; the running program and `close()` use the same directory |
| HTTP adapter, conformance client, command line | none of their own | routing, JSON, status codes; a test client; flags | - |

**Interaction.** A request finds its session with `Manager.Get`, which takes
`Manager.mu` and sweeps, and then keeps a pointer to it *without* that lock: the
session may be deleted, swept or closed under any request. `List` and the sweep
take the lock of each session while they hold `Manager.mu`. A command runs
without any lock, in the goroutine of the request (`/command`, or the reader of
a WebSocket, which does nothing else meanwhile) or in one of its
own (`/run`, Enter in the line editor), and takes the session lock again to
record its end. Output goes into the terminal of the session, which any number
of clients drain. Uploads and lists use the drive without any lock of the
session, while its program uses it and `close()` may remove it. The reader and
the poller of a connection write frames under `Conn.mu`. `close()` calls
`Backend.Stop`; the backends are used by the running program, by timer callbacks
and by `Stop` without a lock.

**What is hard here.**

* State that was read under the lock and is used after it was released:
  `handleInput`, `Assemble`, `startBareRun`, `drain`.
* The end of a command races DELETE, the expiry and the quit keys.
* A stop races the start of the run it is meant for, and a late timer callback
  races the next run.
* Two goroutines drain one terminal and write to one connection, and a write
  blocks as long as the client does not read.
* A front panel or a channel is replaced while a timer, `Stop` and the running
  program hold the old one; two programs of one session may overlap.
* An upload that has found its session meets a drive that was removed meanwhile,
  or is being removed; a removal may fail half-way.
* Creation takes several steps that may fail after a directory was made.
* Nested locks; an unlock in the middle of the loop of the line editor.

`hazards` in PROJECT.json lists them one by one, each with its line and the
properties that watch it.

**What makes each component correct.** Manager: never more sessions than the
limit; what holds resources is in the table or in the hands of exactly one
request; nothing is released twice or leaked; no expired session is served.
Session: one command at a time; `running` always has a command behind it that
will record its end; an error state has its error; closed is final; the drive
outlives its users. Backends: a run ends, by itself or because it was asked to
while it went on, and reports which. Connection: output is neither lost nor
repeated; frames are whole; the client learns what state the session is in; both
goroutines end with the connection. Drive: no file is cut short, no answer lies,
and nothing of a removed session stays, as far as the file system allows.

## 2. The modules

| Module | Models | State and steps |
|---|---|---|
| `SessionLifecycle` | the promise of a CP/M session to its clients | two variables; Begin, Stop, Record, Recover, Close |
| `SessionCore` | what both kinds of session share: the fields under `ManagedSession.mu`, `beginCommand`, the two ways a command records its end, `close`, `Manager.Get` and `Delete` | `pc` says where a handler stands, `exec` how far each executor is with its command |
| `CpmSession` | a CP/M session: `runCommand`, `startCommandWithInput`, `executeCommand`, `promptOnly`, `drain`, `handleInput` with the line editor, `close`, the sweep | extends `SessionCore` with `drive`, `line`, `todo` (bytes an input message still has), `queued` |
| `BareSession` | a bare session: `Assemble`, `startBareRun`, `executeBareRun`, input, output, `close`, and of the backends the ROM, the current panel and which runs a stop reaches | extends `SessionCore` with `arch`, `loaded`, `rom`, `panel`, `told` |
| `Manager` | the table, both levels of locks, the clock | one step per lock region; `life` follows the resources of each session |
| `Socket` | one WebSocket connection: reader and poller, step by step, over a session reduced to state and output | `chunk`, `shot`, `batch` are the local variables of the two goroutines |
| `RunContract` | what the session relies on in `backend.Backend`: how a run may end | two variables; Begin, End, Request, StopRun |
| `ChannelBackend` | the stop channel, the Once, the timer and the keyboard of the 4004 and 6502 | one step per statement, since no lock guards them; runs may overlap, and `overlapped` remembers which did; implements `RunContract` |
| `PanelBackend` | ROM, front panels, timers and the flag `stopRequested` of the 8008 and 8080, with Loads at any time and runs that overlap | the same; `made`, `on` and `aim` tell the panels apart; implements `RunContract` |
| `Frames` | headers and lengths, `writeFrame` under `Conn.mu`, `ReadText` with its pongs, a reader kept by a command, the ends of reader and poller | a frame crosses the network as a header (a tuple of bytes) and parts of its payload (a size); `view` is what the client makes of them |
| `Drive` | `handleUploadFile`, `UploadCOM`, the lists, `statusForError`, `normalizeCOMName`, DELETE, the sweep and the program of the session | one step per file operation or lock region, any of which may fail; the removal takes two; a file is its name, the bytes kept and the bytes sent; `faults` and `late` remember what failed and what came in the middle of the removal |
| `...Proofs` | the theorems about the module named, and their proofs | - |
| `MC...` | instances for TLC | bounds, symmetry, message sets |

Conventions. One step is one region under a lock, or one statement where there
is no lock. A handler that works on the session is `pc[h]`; when a step leaves
the session locked, `mu` holds the handler (only the line editor does this, so
`mu` is visible there and all other regions just need it to be free).
In `PanelBackend` and `ChannelBackend` nothing is locked, so that every
statement that touches a field of the backend is a step. Executors are handlers
(the synchronous `/command` runs in the handler) or elements of `Runs`
(goroutines). A request that finds no session changes
nothing and is left out. `CloseSession`, of the sweep, is one step with the
removal because `Manager.mu` is held over both; DELETE is two steps
(`Unregister`, `Close`), because the code unlocks between them.

External, and modelled from how they are used: the CP/M machine, the terminal
(a queue), the CPU cores, the assembler, the front panel (whether a Stop that
precedes its Run counts is left open), the drive library (one operation on a
file is one step, none succeeds in a removed directory, any may fail and a
write may then leave a part of the file; its cleanup removes the files it finds
and then the directory, if that is empty), the wall clock, the network and the
client. `map` in PROJECT.json gives the lines of every
definition.

History variables (`asked`, `overlapped`, `overtaken`, `unsent`, `faults`,
`late`) are read by properties only, never by a guard: they name the cases in
which the code cannot keep a promise, so that the properties claim it of all the
others.

Data that no property tells apart is abstracted: bytes of the line editor are
classes (`char`, `blank`, `enter`, `erase`, `clear`, `quit`, `other`), an error
is the origin of its text, output is numbered chunks, a ROM is none, good or
bad, a payload is its length, a file name is a stem and an extension. In `Socket` a
message carries the set of the chunks drained for it, their order being that of
their numbers, and `got` is the sequence of these sets.

Definitions that begin with "Mutant of" are plausible mistakes in the code.
Each property of a passing run is violated when one of them takes the place of
the definition it names; they are otherwise unused.

## 3. The runs

Passing:

| Run | Bounds | Shows |
|---|---|---|
| `cpm` | 2 handlers, 1 goroutine, all five messages, line and queue of 1 byte | one command at a time, errors explained, the drive outlives its users; every request answered; the session implements `SessionLifecycle` with its fairness, so that closed is final and the end of a command is always recorded |
| `bare` | 2 handlers, 1 goroutine, one architecture of each family | `running` has an owner, errors explained, nothing starts after the close; `/run` does not wait for the program; on panel backends every program ends after the close, also when its stop was lost |
| `manager` | 2 clients, 3 ids, 2 sessions, clock 0..2, TTL 1 | limit, ownership, no expired session served and none swept too early; everything answered and closed |
| `socket` | 2 chunks, 1 message from the client | output conserved across the two goroutines, the waiting output first, closing announced, the screen catches up unless a late snapshot overtakes it, goroutines end |
| `channel` | 2 runs that may overlap, keyboard | `RunContract`; a blocked keyboard listens to its own channel, and a closed channel ends the run, unless runs overlapped |
| `panel` | 2 runs, 3 panels, 2 Loads at a time | `RunContract`; a reported timeout has a timer behind it; a timer ends the run it was started for |
| `frames` | lengths 125, 126, 65535, 65536; pings of 0 and 125 bytes; 2 frames of the client, 2 of the poller; 2 chunks on their way | frames are whole and pongs fit their pings; pings are answered; both goroutines end with the connection, also from a blocked write; a reader in a command excepted |
| `drive` | 2 handlers; uploads of 0 to 5 bytes against a limit of 2 and a body of 4; 2 files; names with and without extension | no file cut short or stored twice; every status true; nothing left of a removed session unless the cleanup failed or a file came in its middle |

Violated, because the code does not do what a document, comment or test says
(each is an entry of `findings`):

| Run | Statement | What happens |
|---|---|---|
| `bare_two_programs` | `running` prevents two commands at once (docs/sicurezza.md:17) | `Assemble` checks the state, unlocks, loads, and writes `idle` over the `running` of a program that was started meanwhile |
| `socket_missed_state` | `state` is sent when the state changes (docs/websocket.md:50) | the poller compares samples, and the reader may send an older state after it: the client keeps a state that is over |
| `channel_never_ends` | Run ends by halt, step limit, timeout or Stop (backend.go:38) | a stop between the reset of the Once and the new channel spends the Once; a 4004 program waiting for a key then never ends |
| `channel_double_close` | Stop is safe from other goroutines (backend.go:42) | in the same gap the old, closed channel is closed again: a panic |

**Why the bounds are enough.** A race on a session needs the request that has
read something, the one that changes it, and the goroutine of a command: two
handlers, one goroutine and the sweep give every pair of them, and the safety
properties are proved for every number of each (section 4), so that the runs
need the bounds of their liveness properties only. `bare_two_programs` has two
goroutines, since two programs overlap. The longest message has a byte before
and after Enter, which is what the unlock in the middle of the loop needs. The
manager needs two requests (one holds the lock or is closing, one comes), a full
table and one session that expires; three ids allow a session to be replaced. A
late callback needs the run it belongs to and the next one, which on both
families of backends may follow or overlap it; what is safety there is proved for
every number of runs. With three panels Load makes one before, between or during
the two runs.
The chunks of `Socket` are the first prompt and one that a program writes; with
one message the reader takes part in every way it can and is at its loop again.
The lengths of `Frames` are those on both sides of the two limits where the
header changes, with two chunks on their way a frame (three chunks) never fits,
so that every frame can block. The uploads of `Drive` are on both sides of the
limit of a file and of the body; two handlers, the program and two files fill
the drive. Counters (`queued`, `line`, the clock, chunks, messages, runs, panels,
frames) are bounded by guards with the constants `MaxQueued`, `MaxLine`,
`MaxTime`, `MaxWrites`, `MaxMessages`, `LastRun`, `LastPanel`, `MaxPolls`,
`MaxSent`; `MaxLoads` bounds the Loads that go on at one time.

`CHECK_DEADLOCK FALSE` is set where the system may really stop: all requests
answered on a closed session, a broken connection, a backend whose runs (and
panels, a bound) are used up. In `Manager` and `Drive` a client can always ask
again, and deadlock is checked.

**Fairness.** Goroutines that can run do run (weak fairness of the steps of a
request under way and of executors). Steps that wait for a mutex have strong
fairness: Go's `sync.Mutex` hands the lock to a waiter after 1 ms at the latest
(starvation mode). Nobody is made to send a request, type a key, close a
session or disconnect, no CP/M program ever has to end (the code has no limit
for it), nothing has to expire. A bare program on a panel backend ends at
the step limit at the latest, since its CPU never blocks (a read of an empty
terminal sleeps 2 ms, i8080.go:76); on the channel backends this is *not*
assumed, since `channel_never_ends` refutes it. In `PanelBackend` nothing ends by
itself: armed timers fire, and a panel notices its Stop. In `ChannelBackend` a
program that is not waiting for a key has strong fairness to end, the step
limit being finite. In `Socket` the ticker ticks, a read on a broken connection
fails and the client reads what it is sent; in `Frames` a client that is reading
goes on, and may stall at any time: then a write blocks until the connection
ends. A command that the reader executes need not end, neither there nor in
`Socket`: the properties about the reader leave one in a command out. In `Drive`
only the handlers of requests under way have to run. Launching a goroutine is strongly fair in `BareSession` only because the model bounds
their number.

In `Manager` and in the sessions a request that waits for a lock is under way
(`arrived`, or the label of its next region), so that `RequestsAnswered` is
violated as soon as somebody keeps a lock.

## 4. The proofs

`ManagerProofs` proves, for all sets of clients and ids, every limit, TTL and
bound of the clock (`ManagerAssumption`): `TypeOK`, `LimitRespected`,
`OpenIsOwned`, `ReleasedOnce`, `NoExpiredServed`. None but the first is
inductive. The limit is tested when the creation begins and the session entered
in a later step, so that the invariant carries `RoomKept` (there is still room
while a prompt is printed), which rests on `LockHeld` (`Manager.mu` is held
exactly from the sweep to the end of the operation, hence by one client at
most). `NoExpiredServed` rests on `Swept`: after a sweep, and as long as the
lock is held, no session of the table had expired when the sweep began.
Cardinalities come from `FiniteSetTheorems`. `OpenIsOwned` is proved in the
first-order form `OwnedAlone` (`OwnedEquiv`).

`CpmSessionProofs` proves, for all sets of handlers, goroutines and messages
and every bound (`CoreAssumption` and `CpmAssumption`):
`TypeOK`, `OneCommandAtATime`, `RunningHasOwner`,
`ClosedIsFinal`, `DriveOutlivesUse`, and that the session implements the safety
part of `SessionLifecycle` under the refinement mapping `phase <- Reported`,
`work <- WorkOf`. The inductive invariant `Inv` adds `TokenFollowsPc` (a
handler owns a command exactly while it launches or executes one),
`LockFollowsPc` (the session lock is kept by the line editor only),
`RemovedBeforeClose`, `ClosedAgrees` and `ErrorExplained`. One command at a time
needs `RunningHasOwner` in the strong form that an active command implies
`running` or `closed`: admission tests only the state. The proof goes action by
action; admission, closing and the end of a command are lemmas of their own
because several actions share them.

`BareSessionProofs` proves, for all sets of handlers, goroutines and
architectures: `TypeOK`, `RunningHasOwner`, `ErrorExplained`, `ClosedIsFinal`
and, for finite sets of them, `NothingStartsOnceClosed`. `Assemble` writes `idle`
without looking at the state; the invariant `ClosedFirst` (State says closed only
when `Closed` is set) goes with the proof that neither this nor the end of a
program can leave an error without its text or hide that the session is closed.
For `NothingStartsOnceClosed` the invariant `Token` says that a handler that is
about to launch a program counts as an active one. Once the session
is closed a step then either makes no program active or hands one over from a
handler to a goroutine, so that their number cannot grow. A closed session
without a program therefore stays one (`EndedForGood`).

`PanelBackendProofs` and `ChannelBackendProofs` prove, for every number of runs
and panels, `TypeOK`, that the backends implement `RunContract`
(`ContractSpec`), and `TimeoutExplained` and `KeyboardListens` respectively. For
the panels the invariant (`AskedFirst`) says that a run on a stopped panel was
asked to end itself, since every panel it can find was made after it began; for
the channels (`OwnChannel`) that from the moment a run has made its channel the
field holds that channel or one that another run has made since, and that
whoever closed it asked this run to end; a run that overlapped no other is the only one active
(`Alone`), so that the field holds its own. `TimeoutExplained` needs a cause for
every stopped panel (`Cause`).

`FramesProofs` proves that for every length below 2^64 and every opcode the
header `writeFrame` builds is decoded to the same length, opcode and final bit
(`LengthSurvives`), and the same of the header of a client
(`ClientLengthSurvives`). The round trips of 16 and 64 bits are lemmas. On these
rest `TypeOK` and `WholeFrames`, for any lengths below 2^64 (`LengthsFit`: a
length in Go is an `int`; TLC cannot evaluate the number, so that it is a
hypothesis of the theorems and no assumption of `Frames`), any number of frames
and any capacity of the network. `WholeFrames` folds `Parse` over the chunks on
their way. The invariant (`OnItsWay`) names the results of the fold: a *trail* of
views, one for each chunk, all of them sane. At its end the client misses
exactly what the holder of `Conn.mu` has yet to write (`Writing`; nothing if
nobody holds it), and the pings without a pong are, in their order, that of the
pong the reader is about to write and some of those in its inbox (`Awaited`),
since a pong must have the length of its ping. A write appends to the trail, a
read of the client drops its first view, and a broken connection freezes it.
That the fold of `WholeFrames` computes this trail is shown by the least index at
which they would differ: the induction theorems of the library cannot be used
here, its theorem on minimal elements of a well-founded relation can.

`SocketProofs` proves, for any numbers of chunks and messages, `TypeOK`,
`OutputConserved` and `InitialFirst`. The invariant `Shared` states the
conservation set by set: what the client has, what each goroutine has in hand
and what an answer left out are disjoint, and make up what was drained as long as
the connection is up. It needs to know where chunks can be: `HeldFollowsPc` says
that a goroutine holds chunks only between its drain and the next message
(the snapshot is a step between them),
messages only while it sends, and output only in the first of them, so that a
send moves exactly one set and nothing is overwritten by the next drain.
`CommandAwaited` excludes that the end of a program moves a reader that was not
waiting for it. `FirstChunk` follows the first prompt from the drain of
`SendInitial` to the client; with `PollerStartsLast` no output overtakes it.
`PollerTells` is the safety behind `ClosedIsTold`. The poller overwrites
`lastState` *before* it sends what changed; `Watched` says that, while the
connection is up, a poller that remembers the close has told the client or has
the message in hand, and that it stops only after telling it.

`DriveProofs` proves, for all handlers, uploads and limits, `TypeOK`,
`FilesWhole` and `AnswersTrue`. The invariant says of every handler that has read
its upload that it was read to the end and has a name that is allowed
(`Checked`), and that the directory of a CP/M session exists as long as the
session is in the table (`DirFollowsKey`): an upload may meet a removed
directory, but then the session is gone; a 500 about a session that is still
there has a failure of the file system behind it. `RemovedForGood`: a removed
directory is empty and never comes back. `RemovalRemoves`: when the one handler
that removes the session is done, the directory is removed, or the cleanup failed
or met a file stored in its middle (`Excused`). Together they are the safety of
`NothingLeft`.

Every invariant of the passing runs, and every property of theirs that is an
action property or the refinement `ContractSpec`, is stated by a theorem.
Only model-checked are the liveness properties, since neither fairness nor
`ENABLED` is within reach of the prover: `RequestsAnswered` (three runs),
`ClosedRunsEnd`, `RemovedIsReleased`, `ClosedIsTold`, `ScreenCatchesUp`,
`GoroutinesEnd`, `ClosedChannelEndsRun`, `TimerEndsRun`, `PingsAnswered`,
`LostConnectionEndsBoth`, `NothingLeft` and the fairness in `LifecycleSpec`. Of
some of them the part that is safety is proved: `ImplementsLifecycle` of
`LifecycleSpec`, `EndedForGood` of `ClosedRunsEnd` (which then follows from the
programs of a closed session having ended once, `RunsEndOnceEnded`),
`PollerTells` of `ClosedIsTold`, `RemovedForGood` and `RemovalRemoves` of
`NothingLeft` (which follows from the removal being over some time,
`NothingLeftOnceClosed`).

## 5. Differences from the documents without a run

Observed while the code was read for the models; each is visible in the model
named, but no run is spent on it.

* The TTL counts from the creation, not from the last use (manager.go:194;
  docs/sicurezza.md:16 and the flag `-session-ttl`, main.go:37, say "inattiva").
  In `Manager`, `Get` leaves `expires` alone.
* An expired session keeps its directory until some request sweeps
  (manager.go:482; docs/sicurezza.md:11). `SweepOne` belongs to a request.
* The stop of `close()` may come after `beginCommand` and before `Run`, which
  clears it (i8080.go:91, i6502.go:112): the program runs on to its timeout or
  step limit, although manager.go:789 says that a run is stopped at once. In
  `BareSession`, `Arm` takes the run out of `told`; `ClosedRunsEnd` shows that it
  ends nevertheless.
* A Stop between `setup` and `Store(false)` stops the run, which then reports a
  timeout (i8080.go:91); `TimeoutExplained` says when this may happen.
* EXIT and the quit keys close a session without removing its directory
  (manager.go:735, 639; docs/sicurezza.md:11). `EditQuit` leaves `drive` alone.
* Input that arrived while the session was idle goes through the line editor
  although a command was started meanwhile (manager.go:726; docs/api.md:220).
  `LockEditor` looks at `closed` only.
* A Load that fails has replaced the ROM of a panel backend, while `Loaded`
  stays true (i8080.go:32; manager.go:73). `LoadFails` sets `rom` to `bad`.
* The answer to `run` drains output that no message carries (manager.go:459).
  `Socket` counts it in `unsent`.
* An answer to output may say that a program is over while its last output is
  still in the terminal (manager.go:685; bare_test.go:92 stops there).
* The reader may send a snapshot it took before a newer one of the poller: the
  client shows the older screen until something is written again
  (server.go:344, 394; docs/websocket.md:51). `Socket` marks it `overtaken`.
* When the programs of a bare session overlap (`bare_two_programs`), a 4004
  keyboard goes on waiting on the channel its run made, which nobody closes any
  more (i4004.go:132). `ChannelBackend` marks such runs `overlapped`.
* The sweep and a failed creation ignore the error of `cleanup()`
  (manager.go:183, 187, 487), DELETE answers it with 500, and nobody tries again:
  the directory may stay (docs/sicurezza.md:11). So it may when an upload or a
  program stores a file in the middle of the removal (manager.go:306, 794).
  `RemoveFiles` and `RemoveDir` of `Drive` do so; in `Manager`, released means
  that `close()` was called.
* A late callback of one run makes the next one report a timeout
  (i6502.go:117; backend.go:26). `TimerFlags` does so in `ChannelBackend`.

## 6. Not modelled

* The WebSocket handshake, masks (they do not change a length) and the JSON of
  messages. The several frames of one answer are one in `Frames`.
* HTTP routing, decoding and encoding of JSON, CORS, the conformance client, the
  command line: sequential, without state of their own. The errors that only
  sessions return are not in `StatusForError`.
* The keys of the 4004: the queue of 1024 keys drops what is too much, and a key
  that one program did not read is read by the next. `KeyArrives` lets any key
  come.
* CPU cores, assembler, CP/M machine, terminal emulation: other repositories.
* Data races in the sense of Go's memory model (`stopCh`, `stopOnce`, `Loaded`
  and the panel are used without synchronisation): each access is one
  indivisible step here.
* The order of raw output across messages of the reader and the poller: nothing
  promises it.

## 7. Plan

Done: `SessionLifecycle`, `SessionCore`, `CpmSession` (proved), `BareSession`
(proved), `Manager` (proved), `Socket` (proved), `RunContract`, `ChannelBackend`
(proved), `PanelBackend` (proved), `Frames` (proved), `Drive` (proved).

Next, in this order:

1. Proofs of the safety that the remaining liveness properties rest on: that a
   handler that holds a lock is never the one that waits (`RequestsAnswered`),
   that an armed timer keeps its panel in sight (`TimerEndsRun`), that a broken
   connection keeps no goroutine at the mutex (`LostConnectionEndsBoth`).
2. The key queue of the 4004, with the keys of a program that is over.
3. The remaining branches of `statusForError`, as an operator over the errors of
   all modules.
