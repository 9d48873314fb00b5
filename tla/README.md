# Traintastic, modelled in TLA+

Traintastic is a server that runs a model railway, and a client that displays
it. This directory holds TLA+ specifications of the server
(`src/server/src`) and of the part of the client that holds the server's
objects (`src/client/src/network`), the TLC configurations that check them on
small instances, and proofs for every instance. Paths below are relative to `src/server/src`
unless they start with `src/`.

## 1. The system

The server has one **event loop** thread on which every object of the world
lives. Property changes, method calls from clients, Lua handlers, timer
handlers and everything that hardware reports run there, one after the other
and each to its end. Every hardware interface has a **kernel** with a thread of
its own; kernel and event loop send each other closures (`EventLoop::call`,
`KernelBase::m_ioContext.post`). So there is no data race between objects of
the world; what interleaves are whole handlers. Two things make that harder
than it sounds: an event of an object calls Lua handlers **synchronously**, in
the middle of the handler that fires it, and what hardware reports is as old as
the queue it came through.

### Inventory

| component | state | operations | depends on |
|---|---|---|---|
| blocks (`board/tile/rail/blockrailtile.cpp`) | `state`, `sensorStates`, `trains` (statuses), `m_reservedPaths`, `m_pathsIn` | sensor change, identification, assign/remove/flip train, set free, reserve/release, updatePaths | input maps, block paths, train tracking |
| train tracking (`train/traintracking.cpp`, `trainblockstatus.cpp`) | `Train::blocks`, the statuses shared with blocks | assigned, removed, reserve, enter, left | blocks, trains, Lua events |
| block paths (`board/map/blockpath.cpp`) | the elements of a path, `m_isReserved` | find, isReady, reserve (dry run, real run), release | blocks, turnouts, crossings, bridges, direction controls, signals |
| NX buttons (`board/nx`, `nxbuttonrailtile.cpp`) | the pressed buttons, `isPressed`, `enabled` | pressed, released, select, selectPath | inputs, block paths |
| signals (`abstractsignalpath.cpp`, `tile/rail/signal`) | aspect, `requireReservation`, the blocks ahead | evaluate, setAspect, handset correction | block states, reservations, output maps |
| turnouts, output maps (`hardware/output/map`) | position, reserved position, output values | setPosition, output state matched back to a position | outputs |
| train control (`train/train.cpp`, `trainvehiclelist.cpp`, `vehicle/rail`) | direction, speed, throttle speed, `emergencyStop`, `active`, mode, speed timer; vehicles' `activeTrain` | setters, activation, timer, world events | decoders, throttles |
| decoders, throttles (`hardware/decoder`, `hardware/throttle`) | throttle, direction, `emergencyStop`, functions, driver | acquire (steal), release, setters, destroying | kernels, trains |
| world (`world/world.cpp`) | power, run, edit, online, mute states | power on/off, run, stop, edit, event to all objects | every object |
| loader, saver (`world/world{loader,saver}.cpp`) | the file | save, load, create objects before their states | every object |
| interfaces, kernels (`hardware/interface`, `hardware/protocol`) | online state; send queues, pending responses, timers, slots | online/offline, send, receive, echo, timeout | decoders, inputs, outputs |
| inputs, identifications (`hardware/input`, `hardware/identification`) | tri-state value, tag events | updateValue, identificationEvent | kernels, blocks, NX buttons |
| network (`network`) | per connection: state, write queue, session; per session: handles | login, method call, property set, events to the client | every object |
| object core (`core`) | properties, attributes (`enabled`), events, references | set with guard and callback, destroy | |
| Lua (`lua`) | sandbox per script, event handlers, persistent references | start, stop, handler calls | every object |
| board editing (`board/board.cpp`, `board/map/{node,link}.cpp`) | tiles, nodes, links | add, delete, move, boardModified, updatePaths | tiles |
| client (`src/client/src`) | requests with callbacks, objects held and to be released, handle counts | request, cancel, drop an object, read messages | network |
| clock, log, status, pcap, os | | | |

### How the parts interact

    kernel --> Input / Identification --> BlockRailTile --> TrainTracking --> Train
                                            |    ^              |
                          updateState, evaluate  |              v
                                            v    |         Lua handlers
                     signals           BlockPath::reserve       |
                                      /   |    |    \           v
                               blocks turnouts ... crossings  anything
                                            ^
                                     NXManager (two buttons)

A sensor reports to a block. The block explains an occupation by a moving
train in a neighbour with a ready path, or by a path reserved into it, and
`TrainTracking::enter` moves the train: a status at the head, statuses behind
the tail destroyed as far as their blocks are no longer occupied. A route is
asked for with two NX buttons, or by a script: `BlockPath::reserve` asks every
element in a dry run, then changes every element in a second, real run.

### What is hard

* Interleaving of **sensor reports** (late, flickering, unknown), **user
  commands**, **tags** and **reservations**, each of which appends to the same
  list of statuses after a test of its own.
* **Two directions of one relation** (`BlockRailTile::trains`,
  `Train::blocks`), kept by hand in each handler.
* **Cached state**: a block's `state` is computed from sensors and statuses and
  trusted by the next reservation and by signals.
* **Re-entrancy**: scripts run between the dry run and the end of the real run.
* **Restart**: the world is saved with statuses and block states but without
  reservations, and sensors come up without a value.
* **Nothing releases a path**: `BlockPath::release` exists and has no caller.
* **Timers**: cancelling the speed timer does not take its handler out of the
  queue of the event loop.
* **One vehicle, several trains; one decoder, several throttles**: who commands
  is recorded on both sides, by hand.
* **The bus answers late or not at all**: a kernel has one message under way and
  three queues behind it; it waits for an echo, then for an answer, and the
  handler of its response timer may be queued already when it cancels it.
* **Power travels both ways**: the world tells the kernels, the kernels tell the
  world what the bus said, and what each side says is as old as its queue. Closures
  of a kernel that has been destroyed are still in the event loop.
* **Outputs answer with an echo**: a turnout or signal takes what the bus says, its
  own echoes included, and they come back behind newer commands; a change of one
  makes signals evaluate, which send again.
* **Handles on the wire**: client and session count the messages that name an
  object, each on its side, and a release is granted only when both counts agree.

### What makes each component correct

* blocks: one train in a block; the state tells the occupants and is never
  stale; the two relations agree; a train that is on the track is in a block.
* block paths: a reservation is complete or not there; two reserved paths
  never meet; a reserved path stays set.
* NX: a route follows two buttons held by one user; no button stays pressed.
* signals: a proceed aspect only towards a block that is free, or reserved for
  the path the signal is on; the aspect is never staler than the event loop.
* turnouts: the position shown is the position the outputs say.
* train control: an emergency stop reaches every decoder and lasts until it is
  withdrawn; a vehicle is active in at most one train; a stopped train stays.
* decoders: at most one throttle drives a decoder, and both sides agree.
* kernels: every message that expects a response is answered or timed out;
  the send queue makes progress; nothing is sent out of turn.
* network: a handle in use refers to a live object; an event of an object
  arrives after the reply that introduced its handle.

## 2. Modules

| module | models |
|---|---|
| `TrackClaims` | abstract: who holds which block; a block is claimed only while nobody holds it |
| `Interlocking` | blocks, statuses, tracking, reservation, and the elements of paths |
| `MCInterlocking` | the layouts on which `Interlocking` is checked |
| `InterlockingProofs` | occupancy, refinement of `TrackClaims`; reservations are complete and disjoint |
| `TrackingProofs` | types; states are current; the two sides of the tracking agree; trains are not lost |
| `TrainControl` | speed, speed timer, emergency stop, activation, vehicle lists, decoders |
| `MCTrainControl` | the symmetry of trains |
| `TrainControlProofs` | types, emergency stop, activation, speeds |
| `Leases` | abstract: which throttle has which decoder, one each |
| `Throttles` | throttles acquire, steal and release decoders; both disappear |
| `ThrottleProofs` | driver and acquired decoder agree, refinement of `Leases` |
| `MessageLink` | abstract: messages accepted are sent once each, but for those that may be repeated, in the order of their priority; a link may get stuck |
| `LocoNetKernel` | the send queues, echoes, answers and response timer of a LocoNet kernel, its slots and pending speeds |
| `LocoNetProofs` | what the kernel waits for is what it sent, slots, refinement of `MessageLink` |
| `WorldPower` | power, run and online of the world, its LocoNet interfaces, their kernels and the bus |
| `WorldPowerProofs` | types; a power off at rest is obeyed; power and run agree once settled |
| `ObjectHandles` | handles, counts and releases between a session and its client |
| `Signals` | turnouts and signals, their output maps and outputs on a LocoNet interface |
| `MCSignals` | the layout and the maps on which `Signals` is checked |
| `SignalProofs` | types; aspects are current; positions and aspects are what the bus said |
| `ObjectHandlesProofs` | releases are final, objects held are listed, handles named are described |

The groups are checked apart, each against all that the others may do to it.
`Signals` sees of the blocks only that they change as they like and reserve a path
whose end is free; its kernel is one queue to the bus, as that of `WorldPower`.
`Interlocking` sees of train control only a train's direction and whether it is
stopped, and lets both change at any time. `TrainControl` sees of throttles only
that a decoder may get any value at any time (`OperateDecoder`). `WorldPower`
contains a kernel with one queue, whose messages are carried in order; that a
LocoNet kernel keeps the order of its messages of high priority, and that an
emergency stop in them is sent, is what `LocoNetKernel` is shown to do, unless an
early answer stalls its link or it sends `LNCVStart` again for ever.

### Interlocking

One handler on the event loop is one action. State and code:

| variable | code |
|---|---|
| `sensors[b][i]` | the value of item `i` of the block's input map |
| `sensorStates[b]` | whether `BlockRailTile::sensorStates` has been filled (it is, with the first report) |
| `state[b]` | `BlockRailTile::state` |
| `trains[b]` | `BlockRailTile::trains`: statuses, each with its train or tag and its direction |
| `reservedPaths[b][s]` | `m_reservedPaths` and the side's bit of the reservation mask |
| `blocks[t]` | `Train::blocks`; an entry names a status by its block and its age: 0 for the status the train has there, `n` for one of the `n`th before, which was destroyed |
| `forward[t]`, `stopped[t]` | `Train::direction`, `Train::isStopped` |
| `position[x]`, `turnoutHeld[x]` | a turnout's `position` and reserved position |
| `control[d]` | `DirectionControlRailTile::state` |
| `crossState[c]`, `bridgeHeld[g]` | `m_crossState`; the reserved tracks of a bridge |

`BlockRailTile::inputItemValueChanged` is one function with a long case
analysis; it is split by what the changed item means: `TrainArrives` (a train
explains the occupation), `UnexplainedOccupation`, `TrainLeaves` (the tail of a
longer train has left), `SensorClears`. A detector may clear and report again as
often as it likes: `TrainArrives` then enters a status that the list has already,
and `Leave` and `Destroy` take out as many entries as `TrainTracking::left` and
`TrainBlockStatus::destroying` do, which may be fewer than there are. Each action ends with `updateState`, as
the function does. `AssignTrain`, `RemoveTrain`, `FlipTrain`, `SetStateFree`
are the methods of a block, `IdentificationPresent` and `IdentificationAbsent`
are `identificationEvent`, `ReverseTrain` is the handler of
`Train::direction`, `ReservePath` and `ReleasePath` are the functions of
`BlockPath`, `Reload` is saving and loading the world (a restart).
`StartOrStop`, `SetPosition` and `SetControl` stand for anything that may
change what they change.

Where the code is undefined the model says so: `TrainTracking::enter` may
destroy the status of the block being entered and read it again (`Enter`, the
read returns what was there), `inputItemValueChanged` may pass a null train of
a tag to `enter` (`ExpectedArrivals`, no step: the server is gone).

Abstracted: which rail tiles a path passes (`PathInfo` lists turnouts,
controls, crossings and bridges), zones, the mode and the blocks-per-train
display, wording and logging. A train is powered, activatable and in mode
`ManualUnprotected`.

Four next-state relations name the environment: `RoutesNext` (sensors, user
commands, reservations), `SessionNext` (also tags and anybody throwing turnouts
and controls), `Next` (also restarts), `ApiNext` (also `BlockPath::release`,
which the server never calls but the class offers).

### TrackClaims

The promise of the block administration: a block is held by nobody, a train or
a tag; it is claimed only while nobody holds it; it never passes from one
holder to another in one step; one step is about one holder. `Interlocking`
implements it under the mapping `HolderMap`: a block is held by the train or
tag of its first status.

### TrainControl

| variable | code |
|---|---|
| `train[t].throttleSpeed`, `.speed`, `.isStopped`, `.emergencyStop`, `.active` | the properties of `Train` of that name |
| `train[t].speedState` | `Train::m_speedState` |
| `train[t].waiting` | `m_speedTimer` is running |
| `train[t].queued` | its handler has been queued on the event loop, and no cancel reaches it |
| `vehicles[t]` | `Train::vehicles`; the powered ones are `m_poweredVehicles` |
| `activeTrain[v]` | `RailVehicle::activeTrain` |
| `decoder[v]` | `Decoder::throttle` and `emergencyStop` of a powered vehicle |
| `recomposed` | history: vehicles put into, or taken out of, an active train |

`Updated` is the body of `Train::updateSpeed`, a function of a train's
properties; `UpdateSpeed` is that and what `setSpeed` tells the decoders. Every
handler that calls `updateSpeed` does so in the same action:
`SetThrottleSpeed`, `Activate`, `Deactivate` (the handler of `Train::active`
runs after `setTrainActive` has allowed the change) and `TimerHandler`.
`SetEmergencyStop` is the handler of `emergencyStop`; it resets the train and
leaves the decoders their throttle, as the code does. `stop` is
`SetThrottleSpeed` with 0. `Reload` is a restart.

Abstracted: speeds are whole levels, the steps of 0.1 and 0.05 m/s become
`Acceleration` and `Braking`, and a vehicle gets the level of its train
(`setSpeed` without a speed profile and with vehicles of one maximum speed). A
powered vehicle keeps one decoder of its own. The order of vehicles, length,
weight and mode are left out. The direction is in `Interlocking`.

`Composing` (adding and removing vehicles) needs a train that is stopped, as
`Train::updateEnabled` has it, active or not. The code updates `activeTrain` of no
vehicle then. `recomposed`, a history variable, keeps the vehicles that were put
into, or taken out of, a train while it was active: `OneCommander` and
`MovingTrainDrivesAll` except these, and no others.

### Throttles and Leases

`driver[d]` is `Decoder::m_driver`, `acquired[h]` is `Throttle::m_decoder`.
`Acquire` and `Steal` are `Throttle::acquire` with `Decoder::acquire` in it,
`Release` is `Throttle::release` with `Decoder::release` in it, and
`DestroyThrottle` and `DestroyDecoder` the two `destroying` functions. `Steal`
releases the driver of whatever decoder it has at that moment, which need not
be the one that is stolen, and goes on past the assertion that denies this, as a
release build does. What a throttle commands is left out.

`Throttle::acquire` of a second decoder does not release the first
(`throttle.cpp:121`), and no client is assumed to do so. The decoder that is left
keeps its driver: `left`, a history variable, holds these decoders until somebody
acquires them, and `DriverAgrees` is about all others. `Throttles` implements
`Leases`, in which a take ends the lease of the throttle that has the decoder, or
that has left it, and of nobody else; the lease of a throttle is its acquired
decoder.

### LocoNetKernel and MessageLink

| variable | code (`hardware/protocol/loconet/kernel.cpp`) |
|---|---|
| `link.queue[p]`, `link.priority` | `m_sendQueue[p]`, `m_sentMessagePriority` |
| `link.echo`, `link.response` | `m_waitingForEcho`, `m_waitingForResponse` |
| `link.armed`, `link.expired` | `m_waitingForResponseTimer` is running; its handler is ready and no cancel reaches it |
| `link.wire`, `asked` | what is on the bus and not echoed; requests the station has yet to answer |
| `slots[s]`, `addressToSlot[a]`, `pending[a]` | `m_slots`, `m_addressToSlot`, `m_pendingSlotMessages` |
| `emergencyStop`, `lncvActive` | `m_emergencyStop`, `m_lncvActive` |
| `posted` | what the event loop has posted to `m_ioContext` |
| `mode` | is there a kernel, and has its error reached the event loop |
| `link.sent`, `refused`, `inputs` | history: how often the message at the front was sent, requests refused or never sent; the bound of inputs |

A handler of the kernel's thread is one action. `receive` is one function: the
echo of a message that asks for nothing, or the answer to one that does, makes
room for the next message (`received`); in between the message is handled, and
what kind it is tells the rest (`ReceiveIdle`, `ReceiveSpeed`, ...). `Echo`,
`StationAnswers` and `OtherThrottle` say who sent it. `send`, `append`,
`sendNextMessage` and `isValidResponse` keep their names. `decoderChanged`
tests the emergency stop in the event loop and posts, the `Run...` actions are
the posted closures. `start` and `stop` create and destroy a kernel.

Messages come in any order: any request may stay unanswered (`AnswerLost`), and
another throttle's message that fits as an answer may come before the echo of our
request (`kernel.cpp:327`). The kernel takes it for the answer and pops the request.
When another message waits it sends that one; when none does, `m_waitingForEcho`
stays set for a message that is gone: the link is `Stalled`. It then sends nothing
until it receives a message that equals the one at the front of the queue, which it
takes for the missing echo and pops without having sent it. `sent` counts what
`sendNextMessage` sends of the message at the front: `Stalled` is waiting for an
echo with `sent = 0`, and `sent = 2` is a message that was sent again.

Assumed: an echo takes less than the response time-out, and writing to the device
succeeds. Abstracted: functions, directions, inputs, outputs, the fast clock,
reading and writing LNCVs, listen-only mode, checksums and the bytes of a
message. A queue is limited to a number of messages instead of bytes, and has no
front when it is empty; the code reads the bytes behind the last message then, which
are zero for the first 2000 bytes sent at a priority and old messages later.

`MessageLink` is the promise to those who send: a message that is accepted is
sent, those of one priority in order, and none while one of a higher
priority was waiting at its turn; nothing but `LNCVStart` is sent again. `waiting`
is mapped to the queues, `flight` to the priority of the message sent last, while the
kernel waits for it, and `again` tells whether it was sent more than once. A link may
get stuck, only when it has nothing else to send; the kernel does so when it is
`Stalled`.

### WorldPower

| variable | code |
|---|---|
| `world` | the bits of `World::state` for online, power and run |
| `status[i]` | `InterfaceStatus::state` |
| `kernel[i].power`, `.stop` | `Kernel::m_globalPower`, `m_emergencyStop` |
| `kernel[i].posted`, `.queue` | calls posted to the kernel; its messages of high priority, the first on its way |
| `station[i]` | does the command station give power (external) |
| `events` | what kernels have posted to the event loop; `live` says whether that kernel still exists |
| `switchedOff`, `ranOn` | history: the user's power off; the interfaces that were online when `run` put the power on |
| `inputs` | the bound of inputs |

`event` is `World::event` with what `LocoNetInterface::worldEvent` posts and
with the `on_event` handlers of scripts, which run before the interfaces are
told: a handler that stops the world gets its calls in front of those of the
event that caused it. `GoOnline`, `GoOffline`, `ToggleOnline` are `setOnline`,
`KernelRuns` and `BusCarries` the thread of the kernel, `OnStarted`, `OnError`
and `WorldFollows` the callbacks. A closure of a kernel that is destroyed reads
freed memory (`OrphanRuns`): it does nothing, or what it would have done.

`run` puts the power of the world on and only resumes the interfaces (`NotTold`):
`PowerAgrees` excepts those that were online then, until the world asks for power
or for none, or until they start again. It excepts only that the world has a power
the station lacks, never a station with power in a world without.

Assumed in the run: scripts call `stop` only (`ScriptCalls`), and handlers of a
script's own event make no further call. Left out: mute, smoke, edit and simulation; interfaces of
other protocols.

### ObjectHandles

| variable | code |
|---|---|
| `handleOf`, `counter`, `nextHandle` | `m_handles` and the counters of `Session` (`network/session.cpp`, `handlelist.hpp`) |
| `used`, `releasing`, `count` | `Connection::m_objects`, `m_requestForRelease`, `m_handleCounter` (`src/client/src/network/connection.cpp`) |
| `waiting` | `m_requestCallback` |
| `dead` | handles of client objects that were told they are destroyed |
| `toServer`, `toClient` | the socket, both ways |
| `unread`, stamps | history: objects in messages dropped unread; the session's count at sending |

`Ask`, `Cancel` and `Drop` are the client's; `AnswersGet`, `RefusesGet` and
`ReceivesRelease` the cases of `Session::processMessage`; `Notify`, `TileChanged`
and `Destroy` the signals of objects that the session forwards; `ReadsMessage`,
`ReadsChange`, `ReadsReleased`, `ReadsDestroyed` the cases of
`Connection::processMessage`. What objects contain is left out, as are table
models, several objects in one message, a reconnect and counters that wrap at
2^32.

### Signals

| variable | code |
|---|---|
| `block[b]`, `granted` | `BlockRailTile::state`; the paths in `m_reservedPaths` |
| `reserved[s]`, `require[s]` | `SignalRailTile::m_blockPath`, `requireReservation` |
| `run` | does the world run |
| `shown[t]` | `TurnoutRailTile::position`, `SignalRailTile::aspect` |
| `output[o]` | `PairOutput::value` |
| `job` | what the handler that runs has still to do |
| `online`, `commands`, `values[o]` | is there a kernel; messages on their way to the bus; `Kernel::m_outputValues` |
| `events` | calls of `updateOutputValue` that the kernel has posted |
| `overruled`, `unsent`, `inputs` | history: who set a signal since its last evaluation; tiles whose last actions did not get to the bus; the bound of inputs |

A handler of the event loop sets off a chain: a changed turnout makes the signals
that watch it evaluate, a signal that takes another aspect makes those that watch it
evaluate, and so on. The chain runs to its end before the next handler does, but the
kernel's thread goes on meanwhile, and what each step sends gets in between. So a step
of the chain is an action, `job` is what remains, and a handler begins when the last
one is through (`Begins`, `Idle`): signals that are due come first, as `evaluate` is
called from within. `BlockChanges`, `ReservePath`, `SetPosition`, `SetAspect`,
`SetRequireReservation`, `Run`, `Stop`, `GoesOnline`, `GoesOffline` and `Reports`
begin a handler, `Evaluate`, `ReserveTurnout`, `ReserveSignal`, `MatchTurnout` and
`MatchSignal` go on with it. `Carries` and `Handset` are the bus, with `Receive` of
the kernel.

`Ahead` is the tree that `findBlocks` builds, as its branches; an item of a branch is
a turnout in a position, a block with the side by which it is left, or a signal.
`Match` is `getMatchingActionOnCurrentState`, `Evaluated` is
`AbstractSignalPath::evaluate` with `determineAspect` of both kinds of signals.

Assumed: an item of a map has commands for outputs of its map, any number of them
(`MapAssumption`), so that what one item sends may agree with several; the
conditions of a reservation on the train are those of `Interlocking`, so that only a
path from a block with a train into a free block is reserved. Left out: direction
controls ahead of a signal, outputs other than pairs, scripts on the events of tiles,
tiles that are deleted.

## 3. Runs

**Fairness** is assumed of threads, timers and the bus, never of users.

* `driving`: weak fairness of `TimerExpires` and `TimerHandler` for each train: a
  started `steady_timer` expires after 100 ms, and the event loop
  (`EventLoop::run`, one `io_context`) runs what is queued. `SpeedSettles` is
  about a train whose throttle speed is not changed any more.
* `loconet`: weak fairness of `Echo` and of `StationAnswers \/ AnswerLost` (the
  bus carries what is sent; the station answers, or time passes), of
  `ResponseTimerExpires` and `waitingForResponseTimerExpired` (a `steady_timer`)
  and of the posted closures (`KernelRuns`; the kernel's own `io_context`).
* `power`: the same of the kernels' threads and buses (`KernelRuns(i)`,
  `BusCarries(i)`) and of what is queued in the event loop (`CallbackRuns`,
  `OrphanRuns`).
* `outputs`: while the event loop has a step of a handler or an event to do, or the
  kernel a message to send, one of the two goes on (`EventLoop \/ Carries`): neither
  thread waits for the other.
* `handles`: both sides read what has arrived (`ServerReads`, `ClientReads`): a
  read of the socket is started again after each message.

The interlocking answers to sensors and users, promises nothing by itself, and
has no fairness.

| run | instance and bounds | shows |
|---|---|---|
| `tracking` | Line: three blocks, two detectors in the middle one, routes one way, one train that may be turned; a session | types; the state of a block is never stale; the lists of trains and of blocks agree; a train loses its last block only by `removeTrain`, or after a block it is in reported again |
| `claims` | Short: two blocks with a detector each, two trains, one tag, releases, restarts | one status in a block; the state tells the occupants, also after a restart; `TrackClaims` is implemented |
| `routes` | Cross: four blocks, two lines over a crossing and a bridge, a direction control, a turnout; two trains that stand where they are assigned, releases, restarts (`StandingSpec`) | reservations are complete and disjoint |
| `flicker` | Short, lists of two entries | violation of `LastBlockIsKept` |
| `driving` | two trains, one powered vehicle, speeds 0 to 3, steps of 2 up and 1 down; a session | speeds go towards the throttle speed, reach it and are given to the vehicles that were not recomposed |
| `commanding` | two trains, one powered and one other vehicle, speeds 0 to 2, restarts, decoders set by others | emergency stop holds; only active trains move; one commander of a vehicle that was not recomposed |
| `throttles` | three throttles, three decoders, any client | throttle and decoder agree who drives, except for decoders left for another; `Leases` is implemented |
| `loconet` | one slot, two addresses, speeds 0 and 2, queues of 2 messages, 3 inputs, 2 open requests; any message of others at any time, any request may stay unanswered | types; the message popped is the one sent, unless an early answer stalled the link; a kernel with work waits for something; slots are mapped as the bus said; a speed that waits has a request; `MessageLink` is implemented; an emergency stop that is queued is sent, unless `LNCVStart` is sent again for ever |
| `power` | one interface, 4 inputs, a script that stops the world | types; world, kernel and station agree once all is settled, save after a `run` without power; a kernel of a world that runs is resumed; a power off at rest is obeyed and arrives; a start ends |
| `handles` | a board and a tile that comes with its events, 4 handles, 4 inputs | types; a granted release is final; objects held are listed; handles named are described; a request for release is honoured as long as the counts are equal |
| `outputs` | a turnout, a signal with three aspects and the default map, one with two, three blocks, two paths; pair outputs of four addresses; three messages that handsets may send; 3 inputs, from a world in which nothing has been set | an aspect is not older than what it depends on, unless it was overruled; once quiet, what is shown agrees with what the bus said; every chain of commands and echoes ends |
| `overruled` | the same, with a map that tells all aspects apart | violation of `HandsetIsCorrected` |

Deadlock is not checked where the system may stop: in `throttles` when every
throttle and decoder has been destroyed, in `power`, `handles`, `outputs`
and `overruled` when the inputs are used up and all has settled.

**Bounds.** `MaxListed` bounds the length of a train's list: a report that
would make it longer is left out, whatever the list has in it. Three entries, in
`tracking`, let a train be in all three blocks, or list one block twice and
another, or list what is left of a status that was destroyed. Three blocks in a
line let a train be in two blocks with a third ahead reserved, and its routes go one
way, as a train that is turned meets the same lists from the other end (`claims` has
routes both ways); two detectors in the middle tell the direction of arrival; two trains and two blocks are enough
for every pair of handlers to compete for a block; the two tracks of the
crossing and of the bridge are used by different paths, and the third path
shares the bridge track and not the crossing. The proofs remove these bounds
for what they prove. Symmetry is used for trains only, in runs without
liveness. In `routes` no train moves: the properties are about what
reservations do to each other, and a reservation depends on where trains stand.

Two trains that share vehicles cover every conflict over a vehicle; a speed
range of 3 with a step of 2 makes the last step overshoot and be cut off, and a
change of mind in the middle possible. A steal that hits the wrong decoder takes
two throttles and two decoders; the third of each is a bystander.

With one slot and two addresses, `loconet` has a slot that changes its address
and an address that loses its slot; queues of two messages overflow; three
inputs and the request of the start fill all three queues at once. A request may
be answered after its time-out, and the answer of an earlier request may fit a
later one of the same kind. Four inputs let the world of `power` be switched
twice while the interface goes on- and offline. Four messages that count are
enough for a release, a request that crosses it, an event that carries the same
object, and a new handle for it; the runs never use up the handles. Three inputs of
`outputs` let a reservation go behind another one, a handset or an old echo overtake
a command, and the interface fail with commands on their way; the layout has a signal
that looks past a turnout and a second signal, and both ways to a proceed aspect (two
reserved blocks, or a free block and a signal that shows proceed).

**Findings.** The violations are behaviours of the code that contradict what
the source or the manual says; `PROJECT.json` quotes the lines.

* `flicker`: a reserved path is never released, so each report of the detector
  enters the status again; then `blocks.size() > 1` holds for a train that is
  in one block, and it is taken out of it.
* `overruled`: `changed = (value == aspect)` is true when nothing changed, so that
  an aspect a handset sets stays until something else makes the signal evaluate. The
  same happens without handsets: the echo of an older command of the signal itself,
  behind a newer one, leaves it at the older aspect.

**Known deviations**, met while modelling. Those that are in the models, as
behaviours that no property excludes:

* `run` switches the power of the world on and sends no `GPON`: the interface
  only resumes (`loconetinterface.cpp:449`; the client offers it,
  `mainwindow.cpp:354`). `PowerAgrees` excepts what follows (`ranOn`).
* `setPowerOn(false)` sends nothing while the kernel still believes the bus is
  without power, though its own power on is under way; that arrives and switches the
  world on again (`loconet/kernel.cpp:906`). `PowerOffIsObeyed` is therefore about a
  power off `"atRest"`.
* The response to a cancelled request is dropped with the description of an object
  in it (`src/client/src/network/connection.cpp:183`); the session believes that the
  client has it and names only its handle next time, and the client reads a class
  that is not there. `NamedIsDescribed` excepts what was dropped unread.
* An aspect that the user sets is taken back by its own echo, which equals it and so
  makes the signal evaluate (`signalrailtile.cpp:194`).
* Actions executed while the interface is offline, or that it takes down with it, are
  never sent again (`unsent`): a loaded world sets its aspects before any interface is
  online (`loconetinterface.cpp:183`).
* Output maps may be ambiguous, and the default map of a signal with three aspects is
  (`signalrailtile.cpp:36`): each aspect sets one output of the two, so that proceed
  or stop behind a proceed at reduced speed leave its output as it is, and the first
  item that agrees is matched (`outputmap.cpp:587`). The aspect that was set may then
  be shown as another one that the outputs agree with; `ShownIsTrue` allows any.
* A change of `requireReservation` is not evaluated before the world runs
  (`signalrailtile.cpp:144`).
* Vehicles removed from an active train keep it as their `activeTrain`
  (`trainvehiclelist.cpp:46`): added again after it was deactivated, they keep it from
  ever being activated, against the assertion in `train.cpp:405`. A vehicle added to an
  active train has none, so that a second train can be activated with it;
  deactivating (`train.cpp:438`) resets it for both.
* A turnout never refuses a reservation (`ReservePath` sets `position`): a path
  that shares two turnouts tip to tip with a reserved one, but no block, throws
  them under it.
* `ReleasePath` keeps `crossState`, as `CrossRailTile::release` leaves
  `m_crossState` set: a released crossing refuses every later path.
* `SetThrottleSpeed` ends the emergency stop of the train without the handler of
  `emergencyStop`; the decoders stay in emergency stop.
* An emergency stop leaves the decoders their throttle (`train.cpp:110`);
  withdrawing it makes them run again, while the train says that it is stopped.
* A block that is listed twice when its status is destroyed leaves an entry behind that
  names a status which no block has (`Destroy`). `save` writes its id, and loading fails
  on it, or, when a newer status has taken the id over, lists that one
  (`blockrailtile.cpp:313`). `Reload` is about worlds that can be loaded: no list of
  such a train.
* A tag without train may be the only status of a block, and `removeTrain` and
  `flipTrain` dereference its train (`blockrailtile.cpp:168`).
* Speeds posted or queued before an emergency stop are sent after it, although
  `decoderChanged` suppresses new ones (`loconet/kernel.cpp:979`).
* `LNCVStart` without an answer is sent again for ever (`loconet/kernel.cpp:1443`), and
  an emergency stop waits behind it: `EmergencyStopIsSent` excepts that, and nothing
  less than for ever. `lncvStop` while it waits turns the late time-out into an
  interface error.
* An answer before its echo stalls the link when nothing else waits
  (`loconet/kernel.cpp:329`, `Stalled`): nothing is sent any more, an emergency stop
  neither, until something received equals the next message, which is then lost.
* A queue that is full drops a message (`loconet/kernel.cpp:1335`), an emergency stop
  too.
* A request for a slot that the station refuses or leaves unanswered, or that the
  queue drops, is never repeated: the speeds of that locomotive wait for good
  (`refused`).
* `Throttle::acquire` of a second decoder does not release the first
  (`throttle.cpp:121`), which keeps its driver (`left`). Stealing it, or destroying it,
  releases the second instead, against the assertions at `decoder.cpp:284` and 304.
* A power off while power is on stops trains but leaves the kernels resumed. With
  two interfaces, or a script, power on and off can chase each other through
  world and bus without end.
* Messages about property and attribute changes increment only the session's
  counter (`session.cpp:881`; the client's comment at `connection.cpp:485` says
  that both count): an object that changed since it was sent is never released,
  and neither is one whose events the client drops while it releases it, or that
  is destroyed.

Those that a constant or an assumption keeps out of the runs:

* Maps of several tiles that share outputs can make their tiles set each other off for
  ever (`signalrailtile.cpp:200`); `FeedbackDies` breaks then.
* A script that sets a direction control from `on_train_reserved` runs inside the
  real run of `BlockPath::reserve`; one that closes a control of the path leaves
  half a reservation (`blockpath.cpp:362`; `ScriptedControl = {"d"}` in `routes`
  breaks `ReservedCompletely`).
* A lost echo stalls the link for good: nothing times the echo
  (`loconet/kernel.cpp:1411`).
* Listen-only mode clears the queues under a message that is in flight
  (`loconet/kernel.cpp:1628`), and `stop` posts messages that the stopped
  `io_context` need not run (`loconet/kernel.cpp:286`).
* A change of an object that waits for its release is dropped; when the object is
  used again it shows the old value (`connection.cpp:748`).

Every property of a passing run is also broken by a faulty variant of one
definition ("Faulty variant" in the modules), so that none holds vacuously.

## 4. Proofs

### Interlocking

For every layout, number of trains, tags, sensors, under the two assumptions of
`Interlocking` (`PathAssumption`: a path passes a turnout or crossing at most
once; `LayoutAssumption`: constants are of the right kind and distinct):

| theorem | module | says |
|---|---|---|
| `BlockTypesAreKept` | `InterlockingProofs` | `ApiSpec => []BlockTypeOK`: all but the lists of trains |
| `AtMostOneTrain` | `InterlockingProofs` | `ApiSpec => []OneTrainPerBlock` |
| `StateCanBeTrusted` | `InterlockingProofs` | `ApiSpec => []StateTellsOccupants` |
| `InterlockingImplementsClaims` | `InterlockingProofs` | `ApiSpec => ImplementsClaims` |
| `ReservationsAreComplete` | `InterlockingProofs` | without scripted controls, `ApiSpec => []ReservedCompletely` |
| `ReservationsAreDisjoint` | `InterlockingProofs` | without scripted controls, `ApiSpec => []GrantedPathsDisjoint` |
| `TypesAreKept` | `TrackingProofs` | `ApiSpec => []TypeOK` |
| `StateStaysCurrent` | `TrackingProofs` | `SessionSpec => []StateIsCurrent` |
| `TrackingStaysConsistent` | `TrackingProofs` | `SessionSpec => []TrackingIsConsistent` |
| `TrainsAreNotLost` | `TrackingProofs` | `ApiSpec => LostOnlyIfListedTwice` |

*Occupancy.* Neither of the two properties is inductive: a handler appends a
status after a test of the state, and updateState computes the state from the
list. Their conjunction with the types, `Occupancy`, is. Each action has a
lemma; `OccupancyEnter` covers `TrainTracking::enter` for any set of blocks
left behind, so nothing about the loop's result is needed.

*Refinement.* Given `Occupancy` each action changes the holder of at most one
block from nobody to `h`, and otherwise only from `h` to nobody (`Moves`);
`MoveOfHolder` turns that into a step of `TrackClaims`.

*Reservations.* `Reservations` is the conjunction of the types and the two
properties: disjointness of the granted paths is what keeps a release of one
from undoing another, completeness is what makes the tests of a dry run see
every earlier grant. `ReserveEffect` states what a reservation does once its
dry run has passed, and needs that no script sets a control in between
(`ScriptedControl = {}`, an assumption of the two theorems).

*Lists.* `Train::blocks` grows at its head, is reversed, and loses entries in the
middle, one for each `removeInternal`. `RemoveFirstElements`, `DestroyElements`
and `LeaveElements` say what is left of a list, `LoopElements` what the loop of
`TrainTracking::enter` leaves, a recursive function. `SetInduction` (a set
of numbers that has 0 and each successor is `Nat`) is derived from the facts about
finite sets, since a theorem with an operator as parameter cannot be used; by it
`LoopRecursion` shows that the function exists.

*States.* `StateIsCurrent` is inductive together with `Occupancy`. Several handlers
change the statuses of a block and do not call `updateState`: `flipTrain`, the
reversal of a train, and in a block that is occupied `assignTrain`, `removeTrain`
and the identification of a tag. Their lemmas show why they need not
(`CurrentWithoutUpdate`): the state depends only on whether there is a status, and
not even on that while a sensor says occupied.

*Tracking.* `TrackingIsConsistent` is about the statuses that exist; what a list
names besides was destroyed. `Lists` says that a status that is listed is the one
its block has, and `Ahead`, the other half, follows a reservation from the step that
makes it to the arrival. A block may be listed twice: then a status that is destroyed
goes on being listed, but no more as the status the train has there, and that is all
the two need. Each action concerns one train (`OnlyFor`) and gives it no status that
it does not list, except the reservation (`NothingUnlisted`).

*Lost trains.* When nothing is twice in a list, leaving takes one entry out of it.
The tail goes while more than one entry remains; so one is left, whatever the sensors
say. That is the lemma about lists (`Single`), and a list in which something is twice
is the only other way to lose a train: `flicker` shows that this way exists.

### TrainControl

For every number of trains and vehicles, every maximum speed, acceleration and
braking, under `TrainControlAssumption` (vehicles and trains are distinct
things, steps are positive):

| theorem (`TrainControlProofs`) | says |
|---|---|
| `TypesAreKept` | `Spec => []TypeOK` |
| `EmergencyStopIsKept` | `Spec => []EmergencyStopHolds` |
| `MovingTrainsAreActive` | `Spec => []MovingTrainIsActive` |
| `VehiclesHaveOneCommander` | `Spec => []OneCommander` |
| `IdleTrainsHaveTheirSpeed` | `DrivingSpec => []IdleMeansReached` |
| `SpeedsFollowThrottles` | `DrivingSpec => SpeedFollowsThrottle` |
| `MovingTrainsDriveAll` | `DrivingSpec => []MovingTrainDrivesAll` |

The properties are stated, and proved, for any composing of trains that stand; what
they say of vehicles stops at those in `recomposed`.

*Inv* is the types, `Sound` of every train, and `OneCommander`.
`EmergencyStopHolds` and `MovingTrainIsActive` are not inductive: a late timer
handler of a train in emergency stop would have to find its state idle, and a
stopped train must not be braking, or it would start to move while inactive.
`Sound` says both. `UpdatedIsSound` shows that `updateSpeed` keeps it, and each
action has a lemma. *DrivingInv* adds `IdleMeansReached` and
`MovingTrainDrivesAll`; the latter needs `OneCommander`, because the handler of
one train sets the decoders of all its vehicles and must not touch those of
another moving train (`UpdateSpeedDrivesAll`).

### Throttles

For every number of throttles and decoders, with `NoThrottle` no throttle and
`NoDecoder` no decoder (`ThrottlesAssumption`):

| theorem (`ThrottleProofs`) | says |
|---|---|
| `AcquiredDecoderIsDriven` | `Spec => []AcquiredIsDriven` |
| `DriversAgree` | `Spec => []DriverAgrees` |
| `ThrottlesImplementLeases` | `Spec => ImplementsLeases` |

The types and `AcquiredIsDriven` are inductive, and `DriverAgrees` is with them.
`AcquiredIsDriven` alone makes a step a `Take`: the throttle that a steal releases is
the driver of the decoder, which has it or, when it has something else, has left it.

### LocoNetKernel

For every number of slots, every set of addresses and speeds, every limit of the
queues that has room for the requests of `start`, under `KernelAssumption`:

| theorem (`LocoNetProofs`) | says |
|---|---|
| `TypesAreKept` | `Spec => []TypeOK` |
| `LastSentIsKept` | `Spec => []LastSentIsFront` |
| `LinkNeverStalls` | `Spec => []NeverIdleWithWork` |
| `LinkKeepsItsPromise` | `Spec => ImplementsLink` |
| `MappingStaysTrue` | `Spec => []MappingIsTrue` |
| `PendingStaysRequested` | `Spec => []PendingIsRequested` |

The first three are inductive together: `send` may start a message only when the
kernel waits for nothing, which is what keeps the front of the queue the message
that was sent. `LastSentIsFront` needs no order of echo and answer: an answer pops
only what was sent (`link.response => link.sent > 0`), and what it leaves behind
is either a new message that was sent or a stalled link. Each function of the link (`send`, `pop`, `sendNextMessage`,
`received`) has a lemma that it keeps them; the handlers follow from those.
*Refinement.* `send` is an `Accept`; the echo or answer that pops is a
`Complete` in which the handled message may accept others, before or after the
next one is chosen, which is why `StartsNext` allows both; after an early answer with
nothing to send it is `GetStuck`, and the echo that a stalled link then takes is a
`Lose`. The time-out of `LNCVStart` is a `Repeat`, since only its queue has the
highest priority, or a `GoOn`. *Slots.* `MappingIsTrue`
is inductive by itself: a slot that changes its address loses the entry of the
old one in the same handler. *Pending* needs that what is popped is the request
itself: then the answer either clears the pending speeds or records the refusal, and
an echo pops a request only in a stalled link, which `refused` records.

### WorldPower

For every number of interfaces, any scripts and any user:

| theorem (`WorldPowerProofs`) | says |
|---|---|
| `StatusIsKept` | `Spec => []TypeOK`: types, and the status tells whether there is a kernel |
| `PowerOffHolds` | `Spec => []PowerOffIsObeyed` |
| `RunsAreResumed` | `Spec => []RunAgrees` |
| `PowersAgree` | `Spec => []PowerAgrees` |

The inductive invariant adds to the types that what a kernel knows of the power
is true of its station (`KernelKnows`), and that after a power off at rest
nothing switches the power on (`Quiet`): no queue, no posted call and no callback
does, and each interface in use knows that its power is off or has a message or
call on the way that sees to it (`Falling`).

The last two need what each side believes at every stage of a round through posted
calls, queue, bus and event loop (`AllInformed`). Of each kernel it says that the
last callback on its way that tells of the power says what the kernel knows
(`LastSays`), so that the world, when it has obeyed that callback, is where the bus
is, or a script has just posted a call that changes the bus; and that, when no such
callback is on its way, the kernel is in the state of the world or has a call or
message for it on the way (`Rising`, `Falling`). It need not be the last one: what comes
after it changes the bus, and then a callback follows. For the run of the world it
says the same of `resume` and of the callback of `IDLE`. `EventSends` shows that
an event posts a call that brings the bus to the new state of the world, whatever a
script calls in its midst. The one exception is `Run` without power, which
posts no `on`: an interface that was online then is in `ranOn`, and what its kernel
knows may stay `Falling` in a world with power (`PowerComes`).

### ObjectHandles

For every set of objects, tiles and boards, every number of handles and inputs:

| theorem (`ObjectHandlesProofs`) | says |
|---|---|
| `TypesAreKept` | `Spec => []TypeOK` |
| `ReleasesAreFinal` | `Spec => []ReleaseIsFinal` |
| `HeldObjectsAreListed` | `Spec => []HeldIsListed` |
| `NamesAreDescribed` | `Spec => []NamedIsDescribed` |

The argument is the order of the wire. Each message carries, as history, the
count its handle had in the session. The inductive invariant says that the
messages about a handle arrive in the order of their stamps, that every stamp is
above what the client has counted and at most what the session has, and that the
requests for release under way name a count the client had. So when a release
finds equal counts, nothing about the handle is on the wire.

### Signals

For every layout, tree ahead and set of paths and maps, ambiguous maps and maps that
share outputs included, under `LayoutAssumption` and `MapAssumption`:

| theorem (`SignalProofs`) | says |
|---|---|
| `TypesAreKept` | `Spec => []TypeOK` |
| `AspectsAreCurrent` | `Spec => []AspectIsCurrent` |
| `ShownStaysTrue` | `Spec => []ShownIsTrue` |

*Aspects.* `CurrentInv` is about the middle of a handler: a signal is due, or
overruled, or shows what lies ahead. `SameAspect` says on what an evaluation depends;
`BlockFrame` and `TileFrame` say that a change of one block or tile leaves those who
do not watch it alone. A path that is granted changes what other signals read without
an event of its own: the lemma needs that its last block changes with it.

*What is shown.* `ValuesInv` relates the two ends of the event queue: what a kernel
takes an output to have is in the last event about it, or already at the output. With
it `TruthInv` says of a tile that its outputs agree with what it shows, or with no item
of its map, or that it is going to match them, or that a message that changes one of
them is on its way (`ExecuteSettles`: if none of the actions changes anything, the
outputs are as the actions say). The kernel may therefore drop what it knows already, and only that.

### What is only model-checked

* Liveness: `SpeedSettles`, `EmergencyStopIsSent`, `PowerOffArrives`,
  `StartEnds`, `ReleaseIsHonoured`, `FeedbackDies`. They rest on fairness, and
  the prover does not reason about ENABLED.

Every other property of a passing run is a theorem: the invariants and step
properties for all constants, under the hypotheses named above.

## 5. Plan

Done, in the order of what matters most to a railway: the interlocking, train
control, throttles, the LocoNet kernel, power of world and interfaces, the
handles of network sessions, signals and output maps. What remains:

1. **NXButtons** over an abstract reservation; then composed with
   `Interlocking`.
2. `Signals` composed with `Interlocking`, so that blocks and reservations change
   only as trains and sensors make them; direction controls ahead of a signal.
3. Outputs other than pairs, and deleting the tiles that share an output.
4. **RailTraffic**: physical trains that move over the layout and cause the
   sensor reports, composed with `Interlocking`: where do tracked and physical
   trains agree?
5. In `Interlocking`: connecting an input map, destroying a train or a block,
   `updatePaths` with its stale `m_pathsIn`. In `TrainControl`: the direction of
   decoders, speed limits, destroying trains and vehicles. In `Throttles`: the
   values a throttle shows and sends, which survive a change of decoder.

## 6. Not modelled

* **Other protocol kernels** (DCC++, ECoS, Marklin CAN, XpressNet, Z21,
  TraintasticDIY, WiThrottle, Railcom...): mostly a translation of messages
  without queues or waiting; the LocoNet kernel is the one with both.
* **Board editing and path finding**: a search of a graph, done once in edit
  mode, without concurrency; its result is the constant `PathInfo`.
* **Clock, log, status, operating system, capture files**: no state that other
  components depend on.
* **User interface of the client**: only its network side has a protocol.
* **File formats**: what a restart keeps is modelled (`Reload`), not how it is
  written.
* **Vendored libraries** (`src/server/thirdparty`: Boost, nlohmann/json, Catch2;
  `src/client/thirdparty`, `src/shared/thirdparty`). They are most of the lines of C++ in the repository,
  so that any model of Traintastic itself covers a small share of these.
