# Dronesmith Engine: a TLA+ development

The Engine runs on a companion computer of a drone. It talks MAVLink to a flight
controller (FMU) over a serial line, to Dronesmith Cloud over UDP (DroneDP) and
HTTP, to ground stations over UDP, and offers a local HTTP API and a status page.
All of it is one Go program of a few dozen goroutines that share fields, channels
and locks. Paths below are relative to `src/`; the Go packages are in `src/src/`.

## 1. The system

| Component | State | Operations | Talks to |
|---|---|---|---|
| **Priority queue** `utils/pqueue.go` | a binary heap, 1-based, `elemsCount`, one RWMutex | `Push`, `Pop`, `Head`, `Size` | used by the vehicle for its commands |
| **Vehicle commands** `vehicle/vehicle.go`, `vehicle/api/api.go`, `apiservice/apiservice.go` | the queue of `VehicleCommand`s, their `Status` and `TimesSent`, the last-result cell | a handler per request (push, then `commandBlock`), `sysOnlineHandler` (send, repeat, give up), `COMMAND_ACK` | HTTP clients, the vehicle |
| **Vehicle initialisation** the same files | stage flags, parameter map, missing list, timers | `stateHandler`, `checkOnline`, parameter messages, refresh, `Scrub` | the vehicle, HTTP |
| **RC input** `vehicle.go:694-730` | channels, time-out, enabled | `rcListener` | HTTP, the vehicle |
| **Flight recorder** `fmulink/flightsaver.go` | open file, name, `isLogging`, messages of the period | `Start`, `Persist`, `End`, the throttler | the FMU reader; the syncer's file lock |
| **Flight syncer** `cloudlink/flightsyncer.go` | `isRunning`, ids, `lockname`, `quit`, one RWMutex | `Start`, `Stop`, `Lock`, `Unlock`, `listener`, `upload`, `put` | the server (HTTP), the recorder's files |
| **Cloud session** `cloudlink/cloudlink.go` | `sessionId`, `messageCnt`, `rawFmuCmd`, `msgs`, terminal state | `Serve` (main loop, reader), `sendStatus`, `checkOnline`, `handleMessage`, `UpdateFromFMU`, `Logout` | the server (UDP), syncer, FMU link, terminal |
| **FMU link** `fmulink/fmulink.go` | the vehicle's state behind `Fmu.mut`, output manager, saver, `RawDataPipe` | `Serve`'s loop: decode, relay, take a command, update the state, answer heartbeats | serial line, cloud, recorder, outputs, status server |
| **Message rates** `fmulink/msgManager.go` | last time of each message, status | `Update`, `Listen`, `Stop` | the FMU link |
| **UDP outputs** `fmulink/output.go` | map of links, a goroutine per socket | `Add`, `Remove`, `Send`, `listen` | ground stations, status server |
| **Store** `cloudlink/store.go` | a map, mirrored in a file | `Get`, `Set`, `Del`, `Load`, `SetOutput`, `DelOutput` | cloud, status server |
| **Terminal** `cloudlink/processlauncher.go` | the tunnel's process | `Open`, `Close` | cloud session |
| **Event stream** `apiservice/streamservice.go`, `statusServer.go:97-115` | set of client channels, `Notifier` | make, connect, hand out, disconnect | HTTP clients |
| **Status server** `statusServer/statusServer.go` | `socketCnt` behind `socketLock`, `fmuEvent` | web sockets, periodic status, requests for outputs, login, logout and binding, set-up | browsers, store, outputs, FMU link |
| **Status page** `assets/public/scripts/controllers/StatusCtrl.js` | the last state, `timeOutCnt`, `noConnect` | `fmu:update`, the interval | status server |
| **Codecs** `cloudlink/dronedp`, `crc16`, `mavlink/parser`, `x25` | sequence number, the encoder's buffer | encode, decode | cloud and FMU links |
| **Not used** `utils/dequeue.go`, `utils/keen`, `statusServer/wsClient.go`, `fmulink/translators`, the code launcher | | | |

### What is hard

* *Goroutines that share without locks.* `Status` of a command is written by the
  packet reader and read twice by the state handler; `sessionId`, `messageCnt`
  and the syncer's ids are written by the main loop, the reader and an HTTP
  handler; one MAVLink encoder serves the FMU loop and the HTTP handlers; the
  goroutine of an output looks its link up in a map that others write.
* *Check, unlock, act.* Head then Pop; IsRunning then Stop; the ids checked and
  then copied; a file created and then locked; `rawFmuCmd` read and later cleared;
  the list of outputs read and later set.
* *Waiting.* An RWMutex taken twice by one goroutine; an unbuffered `quit`, sent
  to under a lock; sends that are counted in one place and received in another;
  HTTP calls under a lock that the FMU reader needs.
* *Loss, delay, repetition.* Acknowledgements come late, twice or never and name
  only an op; uploads fail between two requests; a goroutine per packet lets
  packets overtake each other; the program stops in the middle of a file.
* *Edges.* 10 is both a legal op and "no result"; an op is an `int` here and a
  `uint16` on the wire; file names count seconds; one place for a command.

`PROJECT.json` lists each of these hazards at its line, with the properties that
would show it going wrong, or the reason why none does.

### What makes each part correct

* Priority queue: what `Head` and `Pop` return goes before everything else, after
  any history; an operation is one step of the abstract queue.
* Commands: a reply of a poll that found a result for its own op tells what the
  vehicle answered; a command leaves the queue for a reason; it does leave; every
  request ends. (What a poll tells that timed out is not among them, see below.)
* Initialisation: the vehicle is served with all its parameters, or by force and
  then with the rest reported missing; the loader ends; of a silent vehicle
  nothing is kept.
* Recorder and syncer: the file being recorded is never uploaded or removed;
  only what the server has is removed; finished flights are uploaded in the end.
* Cloud session: a silent session ends, unless it began between the two writes of a
  logout; a stopped syncer is silent; uploads are sequential, as the Edison's memory
  demands; the loops go on, unless the syncer is stopped once too often.
* FMU bridge: a command of the cloud reaches the vehicle once and in order, or is
  lost in a way the code has a reason for; what two writers do to each other in the
  encoder is over with the next message that meets no other.
* Relay: no packet is forgotten but for a newer one, or one that came later, of
  its kind; with a session that stays and a main loop that comes back to its select,
  each packet, or one that took its place, is handed to the socket.
* Outputs and store: each goroutine is the one of its link; list and links agree
  when nothing is in progress; a start brings back what the list showed when the
  program stopped; every request ends.
* Status feed: no map of the state is written while a browser's goroutine encodes
  it; who waited for the state gets it; of the feed only a copy of the state or a
  write to a browser holds the FMU loop up; the feed goes on, and when it does not
  the page says so.
* Event stream: an event that is handed out is at most three rounds of waiting old;
  while events are made, slow clients keep no other from them and clients that have
  gone leave.

## 2. Modules

| Module | Models | Theorems in |
|---|---|---|
| `PriorityQueue` | what `PQueue` promises: a set of items and a head | |
| `PQueue` | the heap, one step per swap of `swim` and `sink` | `PQueue_proofs` |
| `VehicleCommands` | requests, state handler, packet reader around a `PriorityQueue` | `VehicleCommands_proofs` |
| `VehicleParams` | how the vehicle comes online, the parameter loader, refreshes | `VehicleParams_proofs` |
| `FlightLog` | recorder, throttler, file lock, one listener's search and upload, crash | `FlightLog_proofs` |
| `CloudLink` | session watchdog, `Start`/`Stop` from two goroutines, the listeners | `CloudLink_proofs` |
| `FmuBridge` | the FMU loop, the slot for a command, the shared encoder | `FmuBridge_proofs` |
| `CloudRelay` | the way of the vehicle's packets to the cloud | `FmuBridge_proofs` |
| `UdpOutputs` | output manager, its goroutines, the requests, the store and its file | `UdpOutputs_proofs` |
| `StatusFeed` | web sockets, periodic status, both RWMutexes, the page's count | `StatusFeed_proofs` |
| `EventStream` | maker of events, broker with patience, clients | `StatusFeed_proofs` |

`MCx` gives module `x` its constants for TLC. `TypeOK` is each module's type
invariant; it is a theorem of the eight modules that have proofs of their own, and
part of what is proved of `CloudRelay` (`RelayTypeOK`) and `EventStream`
(`StreamTypeOK`), whose other definitions of that kind are named likewise so that
one module can extend them with `FmuBridge` or `StatusFeed`. All inductive
invariants (`IInv`, `RelayInv`, `StreamInv`, and `AgreeInv`, `WaitInv` and `PastInv`
beside it) were given to TLC before they were proved.

**PQueue implements PriorityQueue** by the refinement mapping in `PQueue`: while
an operation holds the lock, the abstract queue is the one before it; the step
that releases the lock is the abstract operation. `VehicleCommands` then uses
`PriorityQueue` (`INSTANCE`), so that its interleavings are of whole queue
operations, as the mutex makes them. Items of equal priority come in an order
that depends on the heap's shape: the abstract `Push` and `Pop` leave it open,
except that a push of an equal priority does not replace the head.

**VehicleCommands.** One goroutine per request (`pc[r]`: push the SetMode command
if there is one, push the command, poll), the state handler (`shPc`: `Head`,
record the result, decide, `Pop`) and the packet reader (`rtPc`: read lock, peek,
write `Status`). A step is one critical section or one access to a field that no
lock protects. `writer` is the goroutine that waits for, or holds, the queue's
write lock: Go's RWMutex lets no new reader in from then on. The vehicle may
acknowledge anything that was sent, at any time, any number of times. `Panic` is
the handlers' failed type assertion after the first push. The vehicle has been
initialised and stays online; `VehicleParams` models how it gets there, and its
`Serve` is the step in which this module's state handler runs.

**VehicleParams.** `hPc` is the state handler's round (`online, caps, init, check,
complete, serve` or `late, missing, force, request`, or `scrub`), with a step for
each lock that it takes; `hTotal` and `hFound` are its copies of the list. `pPc` is
the packet reader: it reads the system id, sets it, handles any packet. A request
to the vehicle changes nothing, so it is no step; what the vehicle answers, and
when, is open. A parameter is its index, and the hash that PX4 sends with them is
the index 65535, which is why `len(foundSet)-1` is compared with the total. Ages
(`update`, `timer`) are `fresh` or `old`: five and ten seconds. A client makes one
refresh: it empties what is missing and then the list, under the read lock of
`paramsLock`, and polls. `UintSize` stands for 2^64, where `GetAllParams`' unsigned
difference wraps. Telemetry is one action: all its handlers note an update and
write fields that nothing here reads.

**FlightLog.** Names are the seconds they stand for, so two flights of one second
share a file. A file is `[flight, len]`: whose records, how many. `svPc` is the
recorder inside the FMU's reader goroutine (`create, lock, record, end, unlock`),
`lsPc` a listener (search, check, read, POST, PUT, remove). The server accepts,
refuses, or accepts and fails to say so. `Crash` loses all but files.
`MaxTime`, `MaxFlight`, `MaxRecord`, `MaxUpload`, `MaxCrash` bound the instance.

**CloudLink.** `mPc` is the main loop from tick to tick, `rPc` the reader from
message to message, `lPc[l]` the listeners. `quits` is the queue of goroutines in
`quit <- true` (Go serves a channel's senders in order). `silent` is a history
variable: the ticks since the last message. What is not synchronised is taken apart:
`messageCnt--` is a read and a write (`MainSend`, `MainStore`), the end of a session a
look at the count, a write of the session and one of the count (`MainCheck`,
`MainReset`, `MainRecount`), and so is a `Logout` (`Logout`, `LogoutCount`), of which
several may run. `overtaken` remembers that a logout's second write gave a whole
countdown to a session that had been set since the first, and was already silent
then. `Start` waits for the listeners' read lock (`writer`). What a listener does with one file
is one step here (`Upload`) and all of `FlightLog` there; the recorder's `Lock`
only delays this module's steps, so it is not in it.

Assumptions of CloudLink: a listener whose timer of 15 s and `quit` are both
ready has had `quit` ready for long, so it takes `quit` (`Search` requires
`~QuitPending`); the three assignments of `Stop` are one step; a status message
names a drone.

**FmuBridge.** `loop` is the FMU loop: `decode` a packet, `get` the command that the
cloud's reader left in `rawFmuCmd`, write it (`command`), clear the place, update
the `status`, answer a heartbeat (`reply`). `enc[w]` is the place of a writer in
`EncodePacket`: it reads `CurrSeqID` for the header (`number`), writes header and
payload (`start`) and the checksum (`crc`), flushes (`flush`) and makes the number
the next, which is a read (`count`) and a write (`store`) of its own; `num[w]` is what
it has read. `buf` holds the pieces that have not been flushed with their writer and
number, `seq` is `CurrSeqID`, `frame` the last frame and whether it was `alone`, that
is, of a message that met no other. Nothing guards the encoder: two goroutines may
put one number into two frames, or count twice and skip one, and of two that are at
the buffer one may lose its write (a choice of `Write`). Commands are numbered as they
come; each is `good`, of an `unknown` id (the encoder returns with its header in the
buffer) or `short` (the loop panics). After a failed write the buffer refuses
everything (`broken`), as `bufio.Writer` does. The status is updated under locks that
`StatusFeed` models and that may keep the loop: nothing here says that it goes on.
History variables: `met` names the writers that shared the encoder with another
message, `fate` says how a command was lost or that it arrived.

**CloudRelay.** A packet goes into `RawDataPipe` if there is room (the local API
takes it from there) and to a goroutine of its own, which puts it into the map of
the packets by kind (`msgs`) and holds an unthrottled one out to the main loop. That
loop is `main`: it dials, it selects (it takes an unthrottled packet, or its timer
fires and, while there is a session, it writes and empties the map), or it is in the
syncer's `Stop`, from which it may never come back (`CloudLink`'s `Overstopped`). `sent`
is what was handed to the socket; the error of that write is ignored, and what then
becomes of the datagram is not modelled. `late` is a history variable: packets that
were handed over after a later one of their kind and so replaced it.

**UdpOutputs.** `links` is the manager's map behind its lock, `reader[c]` the
goroutine of a socket: the look-up of its own `Quit` (`loop`), its select (`wait`),
`Read`, the send to `Input`. A task `t` is a request (`add`, `delete`, `login`,
`logout`) or the start-up (task `Boot`), which loads the file and adds the outputs
of the command line and of the list; `pc[t]` goes from critical section to
critical section. `Store.data` is `mem`, the text in the file is `file`; a `Set` that
is cut short, by the end of the program or by a write that fails, leaves a text of
old and new parts, or none that can be decoded (`readable`: `CutShort`). `Load` reads
512 bytes, so that a longer text has no whole block (`Fits`, `Room` entries), and
splits each entry at `-` and takes the second piece, so that the list ends in what is
left of the first name with a `-` (`Dashed`, `Fragment`); as a list is a set here, any
part of the others may have stood before it (`Decoded`). Three things fail: the file
cannot be opened for a `Set` (`OpenFails`), a write of a `Set` fails, whereupon the
whole key goes from memory (`SetFails`), or `Del` cannot create the file anew, which
then stays as it was (`ForgetFails`). Of the keys only the list and the user are
there (`email` and `pass` are one, a login that is cut short may leave either);
`step` and `ruid`, which the set-up of the wifi sets, rewrite the same file and are
left out. `kept` is the list as the program had it when it stopped, `sure` that no
`Set` was cut short, no `Del` failed and no dashed name was loaded since the file was
last written as a whole. The map is written under the lock and read without it: `MapRace` is
Go's end of the program when it notices. `twice` remembers that an address was
added while it was linked, `clashed` that two requests for one address, or two
changes of the list, overlapped, that the list was wiped or a good address refused.
A socket's number is taken again when its link and its goroutine are gone; on the
`Quit` of a link that has been deleted nobody sends any more, so that a goroutine
that still waits for it waits for nobody (`NoConn`), also when its number is new.

**StatusFeed.** `handler[s]` is a web socket's connection and disconnection,
`receiver[s]` its goroutine (select, the two read locks, `Emit`), `tick` the periodic
goroutine, `loop` the FMU loop as a writer of the state. `sockLock` and `fmuLock` are
RWMutexes with the writer that has announced itself and the readers that it keeps
out. `fmuEvent` is the queue of its receivers: each send is taken by the one that
has waited longest, whoever it was counted for. `timeOutCnt` is the page's count of
seconds since the last state, cut off above `Seconds`. `waiting`, `served` and `leaving`
are history variables of a tick: who waited when it began, who has been served,
how many sockets were being closed. What the browser is sent is `GetData`'s copy of
the struct, whose maps are those of the state: the model has the locks and the moments
of copying, writing and encoding (`Emit`), not the values.

**EventStream.** `maker` makes an event and puts it into `Notifier`, which has one
place; `broker` is at its select or hands an event out to one client after the
other, each for as long as `patience`; `pc[c]` is a client's goroutine, `here[c]` its
connection. The encoder may refuse the telemetry (`Refused`: a NaN), as often as it
likes. What an event says is left out; `age` counts for each event on its way the
clients that the broker has waited for since its telemetry was taken.

How they fit together: `FmuBridge`'s `Read` is the packet whose copies are
`CloudRelay`'s `ReadPacket`, `FlightLog`'s record, `UdpOutputs`' `Send` (which waits for the
manager's lock and changes nothing) and `StatusFeed`'s `ReadPacket`. `CloudRelay`'s
`online` is `CloudLink`'s session; `FmuBridge`'s `ReceiveCommand` is a message of
`CloudLink`'s reader. Each of these interfaces is left open in the module that does
not own it: any packet, any command, a session that comes and goes.

## 3. Runs

| Run | Bounds | Shows |
|---|---|---|
| `pqueue` | 7 items, 4 priorities with ties: three levels, last child alone or paired | the heap is a priority queue; the head goes first; no operation keeps the lock, which would be a deadlock |
| `commands` | takeoff (ops 176 and 22) and a generic op 65712, which is 176 on the wire; no repetition, one poll | a reply to a poll that found its op is acked, a command leaves for a reason, a pop takes the judged item or one that overtook it, an ack settles only the head; every command leaves; every request is answered |
| `commands_jam` | 2 mode changes, one repetition, one poll | *violated:* reader and writer do not wait for each other |
| `commands_tries` | one command, the source's limits (`TimesSent > 5`, 10 polls) | *violated:* a command is thrown out after five tries |
| `params` | 2 parameters and the hash, 1 refresh of 1 poll | all loaded or forced; missing only when forced; the loader ends; an answering vehicle is served and known; a refresh ends; a silent vehicle is forgotten |
| `flights` | 2 names, 2 flights of 2 records, 1 failed upload, 1 crash | the locked file is left alone; only uploaded files are removed; finished flights are synced; the FMU reader goes on |
| `cloud` | 2 accounts, 3 listeners, time-out 2 ticks, 1 file, 1 logout at a time | a stopped syncer is silent; uploads are sequential; silent sessions end unless overtaken; both loops go on unless overstopped |
| `outputs` | 3 addresses: one of the command line with a `-` in it, one plain, one bad; room for 1 entry; 2 sockets, 2 requests, 1 stop | each goroutine is its link's; list and links agree; a start restores; tasks end |
| `bridge` | 2 commands of any class, 1 binder, sequence numbers modulo 3 | commands are accounted for, taken once and in order; a message alone in the encoder arrives whole, and next in number if the one before was alone |
| `relay` | 2 kinds, one unthrottled; 4 packets, pipe of 2 | nothing is forgotten; with a session and a main loop that selects, each packet or what replaced it is handed to the socket |
| `feed` | 2 browsers, the page waits 0 seconds | no write of the state during an `Emit`; a tick serves who waited; the feed goes on unless all wait for all; the FMU loop goes on even then, and the pages say so |
| `stream` | 2 clients | an event that is handed out is at most three rounds of waiting old; while events are made, a waiting client gets one and clients that have gone leave |

Why the bounds are enough:

* The heap of seven has every case of `Child` and ties on each level.
* The takeoff's second command overtakes the first, and both the generic one, at any
  point between `Head` and `Pop`; the limit of 0 lets each command be sent, answered late
  and given up. Ties are in the `pqueue` run; repetitions, ties and the op 10 are in the
  theorems, which are for all ops and limits.
* Two parameters and the hash give sets of the right size that are the wrong ones.
* Two flights have a file uploaded while another, of the same name or not, is
  recorded.
* Three listeners are one more than can live (a theorem below says so for any
  number). One logout at a time, again and again, comes between any two steps of the
  countdown; the theorem has any number at once.
* Two requests overlap in every pair of kinds, with the start-up before them; two
  sockets let an address be added twice, and let `Dial` find none; one stop has
  the start from whatever file it left. A user and an output are more than the room
  of one, so that a start fails on a text that is too long; the dashed name is one of
  the command line's, which clients can add to the list as well.
* Two commands replace each other, or come during each other's writing; one binder
  and the loop meet in the encoder at every step; modulo 3 tells a repeated number
  and a skipped one from the next.
* Four packets are three of a kind, so that one can overtake and be replaced, and
  one of the other; the pipe of two overflows.
* Two browsers are one that is served and one that closes; 0 seconds shorten the
  wait of the page, which does not depend on its length.
* Two clients are one that is slow and one that waits; ages are bounded by what
  `ThreeRounds` says, so that the stream needs no bound of its own.

The theorems remove the bounds for safety.

Deadlock is checked in `pqueue`, `relay`, `feed` and `stream`, which always can go
on. It is not (`CHECK_DEADLOCK FALSE`) where a run may stop: when all requests are
answered, when a client of `VehicleParams` is done and nothing else moves, when the
bounds of `FlightLog` are reached, in `cloud`, where two quits without a taker stop
both loops (`Overstopped`), in `outputs`, when the requests are done, the program is
down for good or all sockets wait for datagrams, and in `bridge` after a panic.

### Findings

* `commands_jam` (`vehicle.go:429`, `api.go:782-783`): the read lock of the queue is
  taken twice by the packet reader. In the run's trace a second request's `Push` asks
  for the write lock in between: the reader waits for it, and it for the reader, and
  so does the state handler at its next `Pop`. A `Pop` can be the writer in between as
  well. The queue's comment (`pqueue.go:35-36`) calls it "synchronized" and "safe for
  concurrent operations".
* `commands_tries` (`vehicle.go:201`): `TimesSent > 5` is tested before the increment,
  so that a command without an answer is sent six times. The comment at
  `vehicle.go:202`: "We tried 5 times, but got no ack, so throw it out and send next
  item."

Two more lines of `readme.md` say other than the code, without a run of their own:

* `readme.md:83`, "If there's no valid reply from server after 5 seconds, reset
  everything and return to 1.": the count is 15 and goes down once per second
  (`cloudlink.go:27`, 445), and what `SilentSessionEnds` is about is this count.
* `readme.md:82`, "Always echo mavlink data as OP_MAVLINK_TEXT if you get any from the
  flight controller, even if there's no connection.": without a session only the five
  unthrottled kinds are written (`cloudlink.go:213-225`); the others wait in the map, each
  replaced by the next of its kind. `EchoedInTheEnd` supposes a session.

### Seen while modelling

What the models contain and the properties take account of, and what no document
of the repository speaks of:

* *Commands.* A command pushed between `Head` and `Pop` is popped unsent
  (`vehicle.go:187-203`): the exception in `PopTakesDecided` and `GivenUpForAReason`.
  "Only update if they are the same command" (`api.go:786`) compares the op, so that a
  late acknowledgement settles a later command of the same op. The reply of a poll that
  timed out names the request's command and the result that the last-result cell holds,
  which may be another op's (`apiservice.go:621-631`): `ReplyIsAcked` says nothing of it.
* *Parameters.* `Scrub` keeps `paramForceInit` (`api.go:343-358`): after one forced
  start every reconnection is served at its first parameter. A refresh is answered
  OK right after the reset, since 0 >= 0 (`apiservice.go:330`), and after a `Scrub`
  because the difference wraps. `GetParamByIndex` returns before its retries when
  the index is unknown (`vehicle.go:629`).
* *Flights.* Two flights that begin in one second share a file, which the second
  truncates (`flightsaver.go:74`). Of a file above `MAX_UPLOAD_SIZE` the first
  50,000,000 bytes are uploaded and the whole is removed (`flightsyncer.go:157`). A new
  recording's empty file may be removed before its name is locked (`fmulink.go:635`);
  the flight is then written to a file without a name.
* *Session.* `Stop` clears the ids between the listener's check and its copy
  (`flightsyncer.go:142-148`): the flight is associated with nobody. Both loops stop
  one syncer (`cloudlink.go:354-357, 395-397`), and the quit without a taker stops
  the status messages for ever: `Overstopped`, the exception in `BothGoOn`. A message
  between the two writes of a logout (`cloudlink.go:105-106`) sets a session again; if
  ticks pass before the second write, the countdown begins anew and the silent
  session outlives the time-out: `overtaken`, the exception in `SilentSessionEnds`.
* *Bridge.* A command in `rawFmuCmd` is overwritten by the next, and one that comes
  while another is written is cleared unsent (`fmulink.go:413-427`): `replaced` and
  `during`. A command shorter than a frame panics (`fmulink.go:421`). A message of
  unknown id leaves its header in the buffer, where it spoils the next frame
  (`message.go:229`). `CurrSeqID` is read for the header and counted after the flush
  (`message.go:216-217, 241-243`): of two writers at once both may send one number, and
  then both count, so that the message after them skips one. One failed write stops all
  further ones: `bufio.Writer` keeps its error, and the writer is not made anew.
* *Relay.* Of the packets of a throttled kind the cloud gets the last to arrive before
  each tick, and an older one may be that one. While the main loop is in the syncer's
  `Stop` (`cloudlink.go:357`) unthrottled packets wait too, each with its goroutine.
* *Outputs.* An address that is added twice has two goroutines; when it is
  then removed the look-up of one, or of both, finds no link and the program ends
  (`output.go:99`), or one goroutine waits for the other's `Quit`. That look-up reads
  the map without the lock. A bad address is stored all the same, and every later
  start tries it for ever (`statusServer.go:197-209`). A failed login and a logout
  empty the store with its outputs while their links run (`statusServer.go:543`,
  `cloudlink.go:104-117`).
* *Store.* `SetOutput` and `DelOutput` lose each other's change (`store.go:54`). After a
  stop in the middle of `Set` the file may have no PEM block, and each start ends at
  a nil field (`store.go:168-170`); so does each start from a text of more than 512
  bytes, of which `Load` sees a part. A value ends for `Load` at its second `-`: a list
  with a name that has one in it is cut there, and an address without a port, which
  can never be dialled, is left at its end. A `Set` whose write fails deletes the whole
  key, that is, all outputs, from memory (`store.go:134`); a `Del` that cannot create
  the file leaves it, and what was logged out comes back with the next start
  (`store.go:146-149`).
* *Status.* Sends are counted, receivers are not named: a browser that leaves while
  another connects or is late can leave the periodic goroutine, the handlers and the
  receivers waiting for each other (`statusServer.go:133-147, 285-289`): `Jammed`. The
  pages then say that they are not connected. The FMU loop goes on, but each browser
  that is slow to take a write keeps it, with all that it does, for that long
  (`statusServer.go:141-144`, `fmulink.go:432-433`). A packet that comes between `GetData`
  and `Emit` gives a browser the old fields of the struct (`CloudOnline`,
  `fmulink.go:438-445`) with the new packets of its maps (`Generic`, 728).
* *Stream.* The maker waits behind the broker: with k slow clients an event is handed
  out up to 3k seconds after its telemetry was taken (`streamservice.go:93-98`). When
  the telemetry holds a NaN no event is made (`statusServer.go:110-113`): clients wait,
  and those that have gone stay in the map until there is one.
* *Rates.* A tick that is older than a message's stamp makes a huge unsigned
  difference (`msgManager.go:66`).

## 4. Fairness

Weak fairness of a goroutine: the Go scheduler runs what can run. Strong fairness
where a goroutine waits for a lock or a channel that others take in between: Go's
mutexes and channels serve those that wait in order, or nearly so.

* `VehicleCommands`: state handler (called every 500 ms), packet reader and every
  begun request. Not the vehicle: it may never answer. Liveness is claimed
  *unless `Jammed`*, the deadlock of `commands_jam`.
* `VehicleParams`: the handler, the reader within a packet, `checkOnline`, the
  clients, and the ten seconds, which pass. `AnsweringSpec` adds a vehicle that,
  while online, sends packets and, when it is asked again and again, answers: its
  capabilities, and one parameter of a list. Single parameters may be lost for
  ever.
* `FlightLog`: the recorder and the listener; `OnlineSpec` adds a server that
  answers, and strong fairness of the steps that a locked file disables now and
  then: an attempt that could be made again and again is made with the name free.
  Without a server that answers the FMU reader waits for the length of an HTTP
  call without a time-out (`flightsyncer.go:54`, `177`).
* `CloudLink`: both loops and the listeners; strong fairness of the two steps that
  wait behind a writer. Not the server, not `Search`, not the users, whose logout may
  stop after its first write. Liveness is claimed *unless `Overstopped`*.
* `FmuBridge`: none, and no liveness. The loop waits for `StatusFeed`'s locks, whose
  `LoopGoesOn` is about it.
* `CloudRelay`: the FMU loop, each packet's goroutine, and what the main loop does at its
  select, whose timer is set again by each tick; the step is enabled at that select
  alone. Not the dialling and not the return from `Stop`: a session that stays and a
  loop that comes back to its select are conditions of `EchoedInTheEnd`.
* `UdpOutputs`: strong fairness of tasks, weak fairness of the readers, except for
  their `Read`: no datagram need come, which is what `Remove`'s `Close` is for. The
  goroutine that takes from `Input` starts with `fmulink.Serve`, after the outputs of
  the command line. `TasksEnd` excepts the end of the program and an address that
  cannot be dialled, at which the start-up tries for ever.
* `StatusFeed`: strong fairness of the handlers, weak of the receivers, the periodic
  goroutine, the FMU loop within a packet and the page's interval. A browser takes
  what it is sent, after any time: this is an assumption, since the program does not
  bound a connection that is open and takes nothing, and `LoopGoesOn` and `FeedGoesOn`
  rest on it. `FeedGoesOn` holds *unless `Jammed`*.
* `EventStream`: maker and broker; a client's goroutine looks on, and its write ends
  when its connection is closed; strong fairness of registering and leaving, since
  the broker's select takes each of its channels in the end. Not the clients. The
  encoder may refuse for ever: that events are made (`EventsAreMade`) is a condition of
  `WaitingGets` and `LeaversGo`.
* `PQueue` has no liveness of its own.

## 5. Theorems

All are proved for every value of the constants that satisfies the module's
named assumption, by an inductive invariant `IInv`. `FmuBridge_proofs` is about
`FmuBridge` and `CloudRelay`, and `StatusFeed_proofs` about `StatusFeed` and
`EventStream`: it extends both, whose definitions have different names (`RelaySpec`,
`RelayInv`, `StreamSpec`, `StreamInv`).

* **PQueue_proofs.** `HeadIsFirst`: `[]HeadGoesFirst`; `Refinement`:
  `Spec => ImplementsPriorityQueue`. `HeadGoesFirst` alone is not inductive: `IInv`
  says that the heap is ordered except at the cell that `swim` or `sink` is
  moving (`Displaced`), and that this cell's parent and children are in order, so
  that a swap restores the order behind it. That no parent chain is longer than
  the index lets the order of the cells give the order of the root.
* **VehicleCommands_proofs.** `RepliesAreAcked` (of the replies of a poll that found its
  op, `apiservice.go:610-620`), `FinishedForAReason`,
  `PopsTakeDecided`, `AcksUpdateHead`. `IInv` ties the handler's local command to
  the queue (it is at the head, or overtaken by a smaller op), the reader's local
  command to its acknowledgement, and the last-result cell and each `Status` to
  what was answered. The reader is safe because no `Pop` happens under its lock;
  the handler because only it pops.
* **VehicleParams_proofs.** `MissingIsForced`, `ServedIsLoaded`. `IInv` keeps list
  and total in step, in the API and in the handler's copies: a total of 0 then
  means an empty list, whose count never matches. `CountedIsFound` is the lemma on
  finite sets behind `vehicle.go:235`: one more than the total, out of the list and
  the hash, is all of them. What is missing is only set under the write lock, so
  no refresh is between its two steps, and `force` follows.
* **FlightLog_proofs.** `LockedLeftAlone`, `RemovesUploaded`. `IInv` says that a
  listener inside its lock works on the file as it was read, because its read
  lock keeps the recorder from locking (and so from writing) that name.
* **CloudLink_proofs.** `Stopped`, `Sequential`, `SilentEnds`. `IInv` balances
  listeners against who wants them: each live listener, and the one about to be
  spawned, is wanted (`isRunning`) or has a quit waiting for it (`quits`); two of
  them need both, and three never live. `StoppedIsSilent` and
  `UploadsAreSequential` follow; neither is inductive. `CountOK` bounds silence
  plus countdown of a session that is not `overtaken`, with the decrement or the end
  of a session that is under way, whatever reset is lost to the races.
* **FmuBridge_proofs.** `NoCommandVanishes`, `CommandsInOrder`, `EncoderRecovers`.
  `IInv` has three parts. `AloneInv`: a writer that met no other is alone in the
  encoder, the number it has read still holds, and the buffer holds what it wrote
  and nothing else. `SeqInv`: after a frame of a message that met no other, `CurrSeqID`
  is the number after that frame's, or still that frame's while exactly one writer is
  counting. So a lone message after a lone frame has the next number; of the numbers
  of messages that met nothing is said, since they may repeat or skip. `LoopInv`: the slot is empty or newer than what the loop took,
  except while the loop writes it, and then a newer one's fate is known; when the
  loop has written a command, that command's fate is known.
  `NoPacketForgotten`, of the relay: `NothingForgotten` is not inductive, since a
  packet is replaced without a look at what is in its place. The invariant follows
  the place of each kind: what is in it has been handed over and is of that kind
  (`MapInv`), and of what has been handed over, an unthrottled packet that is still
  held out included, the packet or one that replaced it is pending or sent
  (`HandedInv`).
* **UdpOutputs_proofs.** `ReadersAreLinked`, `ListMatchesLinks`, `StartsRestore`, and
  `NilAfterTwice`: the
  unlocked look-up ends the program only after an address was added while it was
  linked. `IInv`: who writes the map has the lock; a new socket belongs to its task
  until it is in the map; from `Quit` to `delete` the link is there and its goroutine
  is gone (`QuitInv`), so that no reader can look up what is about to go.
  `ListMatchesLinks` needs to know what is in progress, since list and links change
  under different locks and the list is read, changed and written back. `AgreeInv`:
  the place of a task tells its operation (`OpInv`); and unless requests clashed, who
  is not alone works on an address of its own (`AloneInv`), a task knows what it owes
  (`DebtInv`: linked and not yet listed, off the list and still linked, still to be
  linked again), the start has linked what it has passed of the list (`BootInv`),
  and each other difference between list and links has its debtor (`SettledInv`).
  When nobody is busy there are no debtors.
  `StartsRestore` speaks of a stop and the start after it, with any number of requests
  and failures before. `PastInv` follows the list through it: one `Set` writes at a
  time, and while `sure` the file has the list that memory has between writes, that the
  program had when it stopped (`kept`), and that the start has read; `BootInv` then says
  that the start, when it ends, has linked exactly that.
  `RemoveCanEnd` is about a wait under a lock: `Remove` keeps the manager's lock while
  it sends on a `Quit` without a buffer. `WaitInv` says that a link that is not being
  deleted has its goroutine, and that this one, if it is in its select, waits for the
  `Quit` of that link (`LinkInv`); that the socket is closed before the send, so that
  `Read` returns (`ClosedInv`); and that who takes from `Input` runs before there are
  requests (`ServeInv`). So wherever the goroutine is it can come to its select
  without the lock. `TasksEnd` is the liveness that TLC derives from it.
* **StatusFeed_proofs.** `EmitsAreUndisturbed`, `LoopWaitsForBrowsers`, `TicksServe`, for any
  number of sockets. `IInv`: `LockInv` says who is in which lock; `FeedInv` that
  `socketCnt` is the number of sockets not counted out, and that the queue holds each
  waiting receiver once; `TickInv` that those who waited when the tick began are first
  in the queue until they are served. The count then bounds those who are passed over
  by the sockets being closed.
  `OnlyTheJamStopsTheFeed`: in every state some goroutine can go on without a new
  socket or packet, or all are at rest, or `Jammed`. `CanGoOn` lists the steps that
  are not waits. `WaitInv` says that each goroutine that has asked for one of the
  locks is among its readers or is kept out by a writer, that a writer is at the line
  where it asked, and that a socket whose handler is done has its goroutine. If nobody
  can go on, the FMU loop is not among those who wait, because those that read the
  state can go on; then a handler that waits for `socketLock` waits for the
  periodic goroutine, which is in a send that no receiver takes: `Jammed`. Without
  such a handler, a send that waits has a socket that was counted, whose receiver is at
  its select and in the queue, so that the send can go on. This is the safety half
  of `FeedGoesOn`, for any number of sockets.
  `AgeIsBounded`, of the stream: `ThreeRounds` is not inductive, since an event grows
  older while it waits in the maker and in `Notifier`. `AgeInv` bounds, for each of the
  three places, the age and the waiting that is still ahead: two rounds for what the
  maker has taken, counting the event before it and the one in `Notifier`; two for the
  one in `Notifier`; and one more while it is handed out itself.

Every invariant and every action property of the runs is a theorem. Only
model-checked: liveness (the prover has no rules for fairness and ENABLED here), so
`CommandsLeave`, `RequestsAnswered`, `InitDone`, `OnlineIsKnown`, `RefreshEnds`,
`SilentIsForgotten`, `FilesAreSynced`, `ReaderGoesOn`, `BothGoOn`, `TasksEnd`,
`EchoedInTheEnd`, `FeedGoesOn`, `LoopGoesOn`, `PagesTell`,
`WaitingGets` and `LeaversGo`; and the findings. `QuitIsTaken` and `OnlyJam` are no
properties of a run: they are what `TasksEnd` and `FeedGoesOn` rest on, proved.

## 6. Plan

Done: the core (commands, initialisation, flights, session), because it carries
what users rely on; then the bridge and the relay, the outputs with the store, the
feed and the stream. What is left, in this order:

1. A composition of `FlightLog` and `CloudLink`: `CloudLink`'s listener as the
   abstraction that `FlightLog`'s listener implements; one of `VehicleParams` and
   `VehicleCommands`, whose queue stands still while the vehicle is offline.
2. `VehicleParams`, what is left: subsystems (`api.go:286-324`), requests for one
   parameter (`vehicle.go:627-656`).
3. `Terminal` (`processlauncher.go`, `cloudlink.go:405-440`), `MsgManager`
   (`msgManager.go`), `RCInput` (`vehicle.go:694-730`): small state machines each.
4. The set-up of the wifi and the list of access points (`statusServer.go`).
5. Codecs: DroneDP framing and CRC-16, the MAVLink decoder's resynchronisation, as
   functions against a reference over bounded inputs.
6. Theorems: the refinement of item 1; where the locks of the other modules are
   taken, that nobody waits in a circle but in `commands_jam` and in `Overstopped`.

## 7. Not modelled

Components without state of their own (configuration, start-up), generated
message packers, device drivers, and the parts of the program that nothing calls;
each is listed with its reason in `PROJECT.json`. Within the modelled components:
telemetry and mission getters (reads of one locked field), the text of log
messages, and the contents of records and replies.

By lines the repository is mostly JavaScript, some 61,700 of them, and all but
about 530 of those are vendored libraries (Angular, jQuery, Bootstrap and their
like, under `assets/public/components`). They are not this system's logic. Of the
page's own code the handling of the feed (`StatusCtrl.js`) is modelled, in
`StatusFeed`; the rest are forms and layout. The system is the Go program, and that
is what the modules translate.
