---------------------------- MODULE Interlocking ----------------------------
(***************************************************************************)
(* The interlocking core of the Traintastic server: blocks, the statuses   *)
(* that tie trains to blocks, the block paths that routes reserve, and the *)
(* turnouts, direction controls, crossings and bridges on those paths.     *)
(*                                                                         *)
(* Every handler below runs to its end on the server's one event loop      *)
(* thread, so a handler is one action.  What may happen inside a handler   *)
(* is a script: the events a reservation fires run Lua handlers            *)
(* synchronously, see ScriptOutcome.                                       *)
(*                                                                         *)
(* A TrainBlockStatus is the entry of a block's trains list; a train's     *)
(* blocks list holds the same status objects, here named by their block    *)
(* and their age: 0 for the status the block holds, more for statuses that *)
(* were destroyed and are listed still, older ones having higher ages.     *)
(***************************************************************************)
EXTENDS Integers, Sequences, FiniteSets, SequencesExt

CONSTANTS
  Block,             \* block tiles
  Train,             \* trains, powered, in mode ManualUnprotected, activatable
  Tag,               \* identifiers an identification detector can report
  Turnout,           \* turnout tiles
  DirectionControl,  \* direction control tiles
  Crossing,          \* crossings on the level
  Bridge,            \* bridges
  Path,              \* the block paths found on the boards
  NoPath,            \* a block side without a reserved path
  Position,          \* the positions a turnout can be set to
  NoPosition,        \* an unknown turnout position; a turnout nobody reserved
  PathInfo,          \* PathInfo[p]: the elements of block path p
  NumSensors,        \* NumSensors[b]: items in the input map of block b
  ScriptedControl,   \* direction controls that event handlers of scripts set
  MaxListed,         \* bound: the length of a train's list of blocks
  Nobody             \* the holder of a block without a status

Side == {"A", "B"}
Track == {"AC", "BD"}                       \* the two tracks of a crossing, bridge
SensorState == {"Unknown", "Free", "Occupied"}
BlockState == {"Unknown", "Occupied", "Free", "Reserved"}
TrainDirection == {"Unknown", "TowardsA", "TowardsB"}
ControlState == {"None", "AtoB", "BtoA", "Both"}
Who == Train \cup Tag

PathType == [from : Block, fromSide : Side, to : Block, toSide : Side,
             turnouts : SUBSET (Turnout \X Position),
             controls : SUBSET (DirectionControl \X {"AtoB", "BtoA"}),
             crossings : SUBSET (Crossing \X Track),
             bridges : SUBSET (Bridge \X Track)]

(***************************************************************************)
(* BlockPath::find ends a path at the first block it meets and passes a    *)
(* turnout or a crossing at most once.                                     *)
(***************************************************************************)
ASSUME PathAssumption ==
  /\ PathInfo \in [Path -> PathType]
  /\ NoPath \notin Path
  /\ \A p \in Path : \A x, y \in PathInfo[p].turnouts : x[1] = y[1] => x = y
  /\ \A p \in Path : \A x, y \in PathInfo[p].crossings : x[1] = y[1] => x = y

ASSUME LayoutAssumption ==
  /\ NumSensors \in [Block -> Nat]
  /\ NoPosition \notin Position
  /\ ScriptedControl \subseteq DirectionControl
  /\ MaxListed \in Nat \ {0}
  /\ Train \cap Tag = {}
  /\ Nobody \notin Train \cup Tag

VARIABLES
  sensors,        \* sensors[b][i]: value of item i of b's input map
  sensorStates,   \* sensorStates[b]: b.sensorStates has been filled
  state,          \* state[b]: BlockRailTile::state
  trains,         \* trains[b]: BlockRailTile::trains, the statuses in block b
  reservedPaths,  \* reservedPaths[b][side]: m_reservedPaths and its mask bit
  blocks,         \* blocks[t]: Train::blocks, head of the train first
  forward,        \* forward[t]: Train::direction is Forward
  stopped,        \* stopped[t]: Train::isStopped
  position,       \* position[x]: TurnoutRailTile::position
  turnoutHeld,    \* turnoutHeld[x]: the position a path reserved x in
  control,        \* control[d]: DirectionControlRailTile::state
  crossState,     \* crossState[c]: CrossRailTile::m_crossState
  bridgeHeld      \* bridgeHeld[g]: the reserved tracks of bridge g

blockVars == <<sensors, sensorStates, state, trains>>
trainVars == <<blocks, forward, stopped>>
routeVars == <<reservedPaths, turnoutHeld, crossState, bridgeHeld>>
fieldVars == <<position, control>>
vars == <<blockVars, trainVars, routeVars, fieldVars>>

-----------------------------------------------------------------------------
(* Statuses and sides *)

Status(w, d) == [who |-> w, dir |-> d]

Towards(side) == IF side = "A" THEN "TowardsA" ELSE "TowardsB"
AwayFrom(side) == IF side = "A" THEN "TowardsB" ELSE "TowardsA"
\* Faulty variant of Turned: counts up, and leaves the enumeration.
TurnedByIncrement(d) == CASE d = "Unknown"  -> "Unknown"
                          [] d = "TowardsA" -> "TowardsB"
                          [] d = "TowardsB" -> "3"

Turned(d) == CASE d = "Unknown"  -> "Unknown"
               [] d = "TowardsA" -> "TowardsB"
               [] d = "TowardsB" -> "TowardsA"

\* The status at one end of a block: trains.front() at side A, trains.back() at B.
EndStatus(b, side) == IF side = "A" THEN Head(trains[b]) ELSE Last(trains[b])

Holds(b, w) == \E i \in DOMAIN trains[b] : trains[b][i].who = w

\* Faulty variant of Without: the status is destroyed, the block still lists it.
NothingRemoved(statuses, w) == statuses

\* The statuses of a block once the one of w is taken out.
Without(statuses, w) == RemoveFirstMatch(statuses, LAMBDA s : s.who = w)

\* An entry of a train's list: the status the train has, or had, in a block.
EntryType == [block : Block, age : Nat]
Entered(b) == [block |-> b, age |-> 0]

\* How often train t lists the status it has in block b.
TimesListed(t, b) == Cardinality({i \in DOMAIN blocks[t] : blocks[t][i] = Entered(b)})

(***************************************************************************)
(* TrainBlockStatus::destroying, for the status in block b: removeInternal *)
(* takes its first entry out of the train's list.  Were there more, they   *)
(* go on naming a status that no block has.                                *)
(***************************************************************************)
Destroy(list, b) ==
  LET rest == RemoveFirst(list, Entered(b))
  IN  IF Entered(b) \in ToSet(rest)
        THEN [i \in DOMAIN rest |-> IF rest[i].block = b
                                      THEN [rest[i] EXCEPT !.age = @ + 1] ELSE rest[i]]
        ELSE rest

(***************************************************************************)
(* TrainTracking::left for the status entry e names: it takes the first of *)
(* its entries out of the list, then destroys the status, which takes out  *)
(* another.  A status that has been destroyed already only loses an entry. *)
(***************************************************************************)
Leave(list, e) ==
  IF e.age = 0 THEN Destroy(RemoveFirst(list, e), e.block) ELSE RemoveFirst(list, e)

\* Faulty variant of BlockStateOf: what the sensors say, without the statuses.
StateOfSensors(values, statuses) ==
  LET notFree == {i \in DOMAIN values : values[i] # "Free"}
      first == CHOOSE i \in notFree : \A j \in notFree : i <= j
  IN  CASE notFree # {} /\ values[first] = "Occupied" -> "Occupied"
        [] notFree = {} /\ DOMAIN values # {} -> "Free"
        [] OTHER -> "Unknown"

(***************************************************************************)
(* BlockRailTile::updateState.  The scan over the sensors stops at the     *)
(* first one that is not free: an unknown one hides those behind it.       *)
(***************************************************************************)
BlockStateOf(values, statuses) ==
  LET notFree == {i \in DOMAIN values : values[i] # "Free"}
      first == CHOOSE i \in notFree : \A j \in notFree : i <= j
  IN  CASE notFree # {} /\ values[first] = "Occupied" -> "Occupied"
        [] notFree = {} /\ DOMAIN values # {} ->
             IF statuses = <<>> THEN "Free" ELSE "Reserved"
        [] OTHER -> IF statuses = <<>> THEN "Unknown" ELSE "Reserved"

-----------------------------------------------------------------------------
(* Paths *)

\* BlockPath::isReady
Ready(p) ==
  /\ \A x \in PathInfo[p].turnouts : position[x[1]] = x[2]
  /\ \A x \in PathInfo[p].controls : control[x[1]] \in {x[2], "Both"}

(***************************************************************************)
(* BlockRailTile::reserve, the conditions: may a path of train t take this *)
(* side of block b?  A block that is not free must hold the same train,    *)
(* facing that side.                                                       *)
(***************************************************************************)
SideReservable(b, side, t) ==
  /\ state[b] # "Unknown"
  /\ reservedPaths[b][side] = NoPath
  /\ \/ state[b] = "Free"
     \/ /\ trains[b] # <<>>
        /\ EndStatus(b, side).who = t
        /\ EndStatus(b, side).dir = Towards(side)

\* Faulty variants of CanReserve: one leaves out the direction controls, one the bridges.
CanReserveAgainstControls(p, t) ==
  /\ SideReservable(PathInfo[p].from, PathInfo[p].fromSide, t)
  /\ SideReservable(PathInfo[p].to, PathInfo[p].toSide, t)
  /\ \A x \in PathInfo[p].crossings : crossState[x[1]] = "Unset"
  /\ \A x \in PathInfo[p].bridges : x[2] \notin bridgeHeld[x[1]]

CanReserveHeldBridges(p, t) ==
  /\ SideReservable(PathInfo[p].from, PathInfo[p].fromSide, t)
  /\ SideReservable(PathInfo[p].to, PathInfo[p].toSide, t)
  /\ \A x \in PathInfo[p].controls : control[x[1]] \in {x[2], "Both"}
  /\ \A x \in PathInfo[p].crossings : crossState[x[1]] = "Unset"

\* BlockPath::reserve, the dry run.  Turnouts and signals never refuse.
CanReserve(p, t) ==
  /\ SideReservable(PathInfo[p].from, PathInfo[p].fromSide, t)
  /\ SideReservable(PathInfo[p].to, PathInfo[p].toSide, t)
  /\ \A x \in PathInfo[p].controls : control[x[1]] \in {x[2], "Both"}
  /\ \A x \in PathInfo[p].crossings : crossState[x[1]] = "Unset"
  /\ \A x \in PathInfo[p].bridges : x[2] \notin bridgeHeld[x[1]]

(***************************************************************************)
(* TrainTracking::reserve fires on_block_reserved and on_train_reserved in *)
(* the middle of a reservation.  A script on these events may set the      *)
(* direction controls it operates to anything.                             *)
(***************************************************************************)
ScriptOutcome(p) ==
  IF state[PathInfo[p].to] = "Free"
    THEN {c \in [DirectionControl -> ControlState] :
            \A d \in DirectionControl \ ScriptedControl : c[d] = control[d]}
    ELSE {control}

\* Faulty variant of ReservedBy: a status for the from block too, whose train has one.
ReservedTwice(b, side, t) == Append(trains[b], Status(t, AwayFrom(side)))

\* The statuses of block b once train t has reserved side of it.
ReservedBy(b, side, t) ==
  IF state[b] = "Free" THEN Append(trains[b], Status(t, AwayFrom(side))) ELSE trains[b]

-----------------------------------------------------------------------------
(* Tracking *)

(***************************************************************************)
(* The while loop of TrainTracking::enter over the list q, head first: it  *)
(* leaves the tail while that block is reserved and more than one entry    *)
(* remains.  A block the loop has left already is not reserved any more.   *)
(***************************************************************************)
TailReserved(q, list) ==
  LET e == Last(list)
  IN  /\ state[e.block] = "Reserved"
      /\ Entered(e.block) \in ToSet(q) => Entered(e.block) \in ToSet(list)

AfterLoop(q) ==
  LET list[n \in 0 .. Len(q)] ==
        IF n = 0 THEN q
        ELSE LET before == list[n - 1]
             IN  IF Len(before) > 1 /\ TailReserved(q, before)
                   THEN Leave(before, Last(before)) ELSE before
  IN  list[Len(q)]

\* The blocks whose status the loop destroys.
LeftBehind(q) == {c \in Block : Entered(c) \in ToSet(q) \ ToSet(AfterLoop(q))}

(***************************************************************************)
(* TrainTracking::enter, then the updateState of the sensor handler: train *)
(* t has its head in block b, whose statuses are those given.  The loop    *)
(* sees the states from before the step.  When it leaves b itself it goes  *)
(* on to read a status it just destroyed: undefined, here the read returns *)
(* what was there, the other outcome is that the server is gone.  The      *)
(* updateState for a status destroyed before finds the block reserved, as  *)
(* it is.                                                                  *)
(***************************************************************************)
Enter(t, b, statuses) ==
  LET q == <<Entered(b)>> \o blocks[t]
      left == LeftBehind(q)
      present(c) == IF c = b THEN statuses ELSE trains[c]
  IN  /\ trains' = [c \in Block |-> IF c \in left THEN Without(present(c), t) ELSE present(c)]
      /\ blocks' = [blocks EXCEPT ![t] = AfterLoop(q)]
      /\ state' = [c \in Block |-> IF c \in left \cup {b}
                                     THEN BlockStateOf(sensors'[c], trains'[c])
                                     ELSE state[c]]

\* Paths along which a moving train can have come into block b over its item i.
WaysIn(b, i) ==
  {p \in Path :
     /\ PathInfo[p].to = b
     /\ NumSensors[b] = 1 \/ PathInfo[p].toSide = (IF i = 1 THEN "A" ELSE "B")
     /\ trains[PathInfo[p].from] # <<>>
     /\ Ready(p)
     /\ LET s == EndStatus(PathInfo[p].from, PathInfo[p].fromSide)
        IN  /\ s.dir = Towards(PathInfo[p].fromSide)
            /\ s.who \in Train
            /\ ~stopped[s.who]}

(***************************************************************************)
(* Item i of a free or unknown block b became occupied: the train, if the  *)
(* item is at an edge of the block and exactly one path explains it.       *)
(***************************************************************************)
Arrivals(b, i) ==
  {Status(EndStatus(PathInfo[p].from, PathInfo[p].fromSide).who, AwayFrom(PathInfo[p].toSide)) :
     p \in {w \in WaysIn(b, i) : /\ state[b] \in {"Free", "Unknown"}
                                 /\ NumSensors[b] > 2 => i \in {1, NumSensors[b]}
                                 /\ WaysIn(b, i) = {w}}}

\* A reserved path leads into side of block b.
PathInto(b, side) ==
  reservedPaths[b][side] # NoPath /\ PathInfo[reservedPaths[b][side]].to = b

\* Item i of a reserved block b became occupied: the train that has it reserved.
\* When it is an identification tag, not a train, enter() dereferences null: no step.
ExpectedArrivals(b, i) ==
  LET enterA == i = 1 /\ PathInto(b, "A")
      enterB == i = NumSensors[b] /\ PathInto(b, "B")
  IN  {EndStatus(b, side) : side \in {s \in Side : /\ state[b] = "Reserved"
                                                   /\ enterA # enterB
                                                   /\ enterA = (s = "A")}}

-----------------------------------------------------------------------------
(* BlockRailTile::inputItemValueChanged, by what the changed item means *)

SensorReads(b, i, v) ==
  /\ sensors[b][i] # v
  /\ sensors' = [sensors EXCEPT ![b][i] = v]
  /\ sensorStates' = [sensorStates EXCEPT ![b] = TRUE]
  /\ UNCHANGED <<forward, stopped, routeVars, fieldVars>>

\* The sensor tells that a train came in, unannounced or over its reserved path.
TrainArrives(b, i) ==
  /\ SensorReads(b, i, "Occupied")
  /\ \/ \E s \in Arrivals(b, i) :
          /\ Len(blocks[s.who]) < MaxListed
          /\ Enter(s.who, b, Append(trains[b], s))
     \/ \E s \in ExpectedArrivals(b, i) :
          /\ s.who \in Train
          /\ Len(blocks[s.who]) < MaxListed
          /\ Enter(s.who, b, trains[b])

\* Faulty variant of UpdateState: called before the list has changed.
UpdateStateFirst(b) == state' = [state EXCEPT ![b] = BlockStateOf(sensors'[b], trains[b])]

UpdateState(b) == state' = [state EXCEPT ![b] = BlockStateOf(sensors'[b], trains'[b])]

\* Occupied, and nothing the server knows of explains it.
UnexplainedOccupation(b, i) ==
  /\ SensorReads(b, i, "Occupied")
  /\ Arrivals(b, i) = {} /\ ExpectedArrivals(b, i) = {}
  /\ UNCHANGED <<trains, blocks>>
  /\ UpdateState(b)

\* Faulty variant of TailGone: a train in one block only has a tail too.
TailGoneFromOnlyBlock(b, values) ==
  /\ BlockStateOf(values, trains[b]) = "Reserved"
  /\ Len(trains[b]) = 1
  /\ LET t == Head(trains[b]).who
     IN  t \in Train /\ blocks[t] # <<>> /\ Last(blocks[t]) = Entered(b)

\* Does block b, reading these values, hold the tail of a longer train that has gone?
TailGone(b, values) ==
  /\ BlockStateOf(values, trains[b]) = "Reserved"
  /\ Len(trains[b]) = 1
  /\ LET t == Head(trains[b]).who
     IN  t \in Train /\ Len(blocks[t]) > 1 /\ Last(blocks[t]) = Entered(b)

\* TrainTracking::left
TrainLeaves(b, i) ==
  /\ SensorReads(b, i, "Free")
  /\ TailGone(b, sensors'[b])
  /\ LET t == Head(trains[b]).who
     IN  /\ trains' = [trains EXCEPT ![b] = Without(@, t)]
         /\ blocks' = [blocks EXCEPT ![t] = Leave(@, Entered(b))]
  /\ UpdateState(b)

\* No longer occupied, or no longer known, and no train moves by it.
SensorClears(b, i, v) ==
  /\ v \in {"Free", "Unknown"}
  /\ SensorReads(b, i, v)
  /\ ~(v = "Free" /\ TailGone(b, sensors'[b]))
  /\ UNCHANGED <<trains, blocks>>
  /\ UpdateState(b)

-----------------------------------------------------------------------------
(* What the user does to a block, and what an identification detector sees *)

\* BlockRailTile::assignTrain.  Only for a train that is in no block yet.
AssignTrain(b, t) ==
  /\ trains[b] = <<>>
  /\ blocks[t] = <<>>
  /\ trains' = [trains EXCEPT ![b] =
                  Append(@, Status(t, IF forward[t] THEN "TowardsA" ELSE "TowardsB"))]
  /\ blocks' = [blocks EXCEPT ![t] = Append(@, Entered(b))]
  /\ IF state[b] \in {"Free", "Unknown"}
       THEN state' = [state EXCEPT ![b] = BlockStateOf(sensors[b], trains'[b])]
       ELSE UNCHANGED state
  /\ UNCHANGED <<sensors, sensorStates, forward, stopped, routeVars, fieldVars>>

\* BlockRailTile::removeTrain.  Only from the head or the tail of a stopped train.
RemoveTrain(b) ==
  /\ Len(trains[b]) = 1
  /\ LET t == Head(trains[b]).who
     IN  /\ t \in Train
         /\ stopped[t]
         /\ blocks[t] # <<>> => b \in {Head(blocks[t]).block, Last(blocks[t]).block}
         /\ trains' = [trains EXCEPT ![b] = Without(@, t)]
         /\ blocks' = [blocks EXCEPT ![t] = Destroy(@, b)]
  /\ IF state[b] = "Reserved"
       THEN state' = [state EXCEPT ![b] = BlockStateOf(sensors[b], trains'[b])]
       ELSE UNCHANGED state
  /\ UNCHANGED <<sensors, sensorStates, forward, stopped, routeVars, fieldVars>>

\* BlockRailTile::flipTrain.  Only for a stopped train that is in this block alone.
FlipTrain(b) ==
  /\ Len(trains[b]) = 1
  /\ LET t == Head(trains[b]).who
     IN  /\ t \in Train
         /\ stopped[t]
         /\ Len(blocks[t]) = 1 /\ Head(blocks[t]).block = b
  /\ trains' = [trains EXCEPT ![b][1].dir = Turned(@)]
  /\ UNCHANGED <<sensors, sensorStates, state, trainVars, routeVars, fieldVars>>

\* BlockRailTile::setStateFree.  sensorStates stays empty until a sensor reports.
SetStateFree(b) ==
  /\ trains[b] = <<>>
  /\ ~sensorStates[b]
  /\ state' = [state EXCEPT ![b] = "Free"]
  /\ UNCHANGED <<sensors, sensorStates, trains, trainVars, routeVars, fieldVars>>

\* Faulty variant of IdentificationPresent: an occupied block is taken over.
IdentificationTakesOver(b, tag, d) ==
  /\ trains' = [trains EXCEPT ![b] = <<Status(tag, d)>>]
  /\ UNCHANGED <<sensors, sensorStates, state, trainVars, routeVars, fieldVars>>

\* BlockRailTile::identificationEvent, Present in an empty block.
IdentificationPresent(b, tag, d) ==
  /\ trains[b] = <<>>
  /\ trains' = [trains EXCEPT ![b] = Append(@, Status(tag, d))]
  /\ IF state[b] \in {"Free", "Unknown"}
       THEN state' = [state EXCEPT ![b] = BlockStateOf(sensors[b], trains'[b])]
       ELSE UNCHANGED state
  /\ UNCHANGED <<sensors, sensorStates, trainVars, routeVars, fieldVars>>

\* BlockRailTile::identificationEvent, Absent in a block that shows this tag.
IdentificationAbsent(b, tag) ==
  /\ Holds(b, tag)
  /\ trains' = [trains EXCEPT ![b] = Without(@, tag)]
  /\ state' = [state EXCEPT ![b] = BlockStateOf(sensors[b], trains'[b])]
  /\ UNCHANGED <<sensors, sensorStates, trainVars, routeVars, fieldVars>>

-----------------------------------------------------------------------------
(* Trains, turnouts and direction controls *)

\* Train::direction changed: every status the train lists turns, the list is reversed.
ReverseTrain(t) ==
  /\ forward' = [forward EXCEPT ![t] = ~@]
  /\ trains' = [b \in Block |->
                  [i \in DOMAIN trains[b] |->
                     IF trains[b][i].who = t /\ TimesListed(t, b) % 2 = 1
                       THEN [trains[b][i] EXCEPT !.dir = Turned(@)]
                       ELSE trains[b][i]]]
  /\ blocks' = [blocks EXCEPT ![t] = Reverse(@)]
  /\ UNCHANGED <<sensors, sensorStates, state, stopped, routeVars, fieldVars>>

\* Train::isStopped, as the speed control of the train sets it.
StartOrStop(t) ==
  /\ stopped' = [stopped EXCEPT ![t] = ~@]
  /\ UNCHANGED <<blockVars, blocks, forward, routeVars, fieldVars>>

\* TurnoutRailTile::doSetPosition: a user, a script, or a matched output state.
SetPosition(x, pos) ==
  /\ position' = [position EXCEPT ![x] = pos]
  /\ UNCHANGED <<blockVars, trainVars, routeVars, control>>

\* DirectionControlRailTile::setState
SetControl(d, s) ==
  /\ control' = [control EXCEPT ![d] = s]
  /\ UNCHANGED <<blockVars, trainVars, routeVars, position>>

-----------------------------------------------------------------------------
(* Routes *)

(***************************************************************************)
(* NXManager::selectPath on one path, and BlockPath::reserve.  The dry run *)
(* has passed.  If a script closes a direction control of the path from    *)
(* within the events, the real run ends there: blocks and turnouts are     *)
(* reserved, what comes after the direction controls is not.               *)
(***************************************************************************)
ReservePath(p) ==
  LET info == PathInfo[p]
      end(b) == IF b = info.from THEN info.fromSide ELSE info.toSide
  IN  /\ trains[info.from] # <<>>
      /\ LET t == EndStatus(info.from, info.fromSide).who
         IN  /\ t \in Train
             /\ CanReserve(p, t)
             /\ trains' = [b \in Block |-> IF b \in {info.from, info.to}
                                             THEN ReservedBy(b, end(b), t) ELSE trains[b]]
      /\ state' = [b \in Block |-> IF b \in {info.from, info.to}
                                     THEN BlockStateOf(sensors[b], trains'[b]) ELSE state[b]]
      /\ reservedPaths' = [reservedPaths EXCEPT ![info.from][info.fromSide] = p,
                                                ![info.to][info.toSide] = p]
      /\ position' = [x \in Turnout |-> IF \E pos \in Position : <<x, pos>> \in info.turnouts
                                          THEN CHOOSE pos \in Position : <<x, pos>> \in info.turnouts
                                          ELSE position[x]]
      /\ turnoutHeld' = [x \in Turnout |-> IF \E pos \in Position : <<x, pos>> \in info.turnouts
                                             THEN position'[x] ELSE turnoutHeld[x]]
      /\ control' \in ScriptOutcome(p)
      /\ IF \A x \in info.controls : control'[x[1]] \in {x[2], "Both"}
           THEN /\ crossState' = [c \in Crossing |-> IF \E k \in Track : <<c, k>> \in info.crossings
                                                       THEN CHOOSE k \in Track : <<c, k>> \in info.crossings
                                                       ELSE crossState[c]]
                /\ bridgeHeld' = [g \in Bridge |->
                                    bridgeHeld[g] \cup {k \in Track : <<g, k>> \in info.bridges}]
           ELSE UNCHANGED <<crossState, bridgeHeld>>
      /\ UNCHANGED <<sensors, sensorStates, trainVars>>

(***************************************************************************)
(* BlockPath::release.  Nothing in the server calls it: it is part of      *)
(* ApiNext only.  A crossing keeps its m_crossState.                       *)
(***************************************************************************)
ReleasePath(p) ==
  LET info == PathInfo[p]
  IN  /\ reservedPaths[info.from][info.fromSide] = p
      /\ reservedPaths[info.to][info.toSide] = p
      /\ reservedPaths' = [reservedPaths EXCEPT ![info.from][info.fromSide] = NoPath,
                                                ![info.to][info.toSide] = NoPath]
      /\ turnoutHeld' = [x \in Turnout |-> IF \E pos \in Position : <<x, pos>> \in info.turnouts
                                             THEN NoPosition ELSE turnoutHeld[x]]
      /\ bridgeHeld' = [g \in Bridge |-> bridgeHeld[g] \ {k \in Track : <<g, k>> \in info.bridges}]
      /\ UNCHANGED <<blockVars, trainVars, crossState, fieldVars>>

-----------------------------------------------------------------------------
(***************************************************************************)
(* The world is saved and loaded again, a restart of the server.  Block    *)
(* states, statuses, train directions, turnout positions and control       *)
(* states are stored.  Reservations are not, and the input map items start *)
(* without a value.  A train that lists a destroyed status is stored with  *)
(* the id of no object, and the world cannot be loaded.                    *)
(***************************************************************************)
Reload ==
  /\ \A t \in Train : \A e \in ToSet(blocks[t]) : e.age = 0
  /\ sensors' = [b \in Block |-> [i \in 1 .. NumSensors[b] |-> "Unknown"]]
  /\ stopped' = [t \in Train |-> TRUE]
  /\ reservedPaths' = [b \in Block |-> [s \in Side |-> NoPath]]
  /\ turnoutHeld' = [x \in Turnout |-> NoPosition]
  /\ crossState' = [c \in Crossing |-> "Unset"]
  /\ bridgeHeld' = [g \in Bridge |-> {}]
  /\ UNCHANGED <<sensorStates, state, trains, blocks, forward, fieldVars>>

Init ==
  /\ sensors = [b \in Block |-> [i \in 1 .. NumSensors[b] |-> "Unknown"]]
  /\ sensorStates = [b \in Block |-> FALSE]
  /\ state = [b \in Block |-> "Unknown"]
  /\ trains = [b \in Block |-> <<>>]
  /\ reservedPaths = [b \in Block |-> [s \in Side |-> NoPath]]
  /\ blocks = [t \in Train |-> <<>>]
  /\ forward = [t \in Train |-> TRUE]
  /\ stopped = [t \in Train |-> TRUE]
  /\ position = [x \in Turnout |-> NoPosition]
  /\ turnoutHeld = [x \in Turnout |-> NoPosition]
  /\ control = [d \in DirectionControl |-> "Both"]
  /\ crossState = [c \in Crossing |-> "Unset"]
  /\ bridgeHeld = [g \in Bridge |-> {}]

SensorChange ==
  \E b \in Block : \E i \in 1 .. NumSensors[b] :
    \/ TrainArrives(b, i)
    \/ UnexplainedOccupation(b, i)
    \/ TrainLeaves(b, i)
    \/ \E v \in SensorState : SensorClears(b, i, v)

BlockCommand ==
  \E b \in Block :
    \/ \E t \in Train : AssignTrain(b, t)
    \/ RemoveTrain(b)
    \/ FlipTrain(b)
    \/ SetStateFree(b)

Identification ==
  \E b \in Block, tag \in Tag :
    \/ \E d \in TrainDirection : IdentificationPresent(b, tag, d)
    \/ IdentificationAbsent(b, tag)

TrainCommand == \E t \in Train : ReverseTrain(t) \/ StartOrStop(t)

FieldCommand ==
  \/ \E x \in Turnout, pos \in Position : SetPosition(x, pos)
  \/ \E d \in DirectionControl, s \in ControlState : SetControl(d, s)

\* One session: the server runs, nothing is reloaded and nobody throws a
\* turnout or a control but the routes.
RoutesNext == SensorChange \/ BlockCommand \/ TrainCommand \/ \E p \in Path : ReservePath(p)

\* One session, with everything a user, a script or a detector may do.
SessionNext == RoutesNext \/ Identification \/ FieldCommand

Next == SessionNext \/ Reload

RoutesSpec == Init /\ [][RoutesNext]_vars
SessionSpec == Init /\ [][SessionNext]_vars
Spec == Init /\ [][Next]_vars

\* Every operation of the classes, BlockPath::release included.
ApiNext == Next \/ \E p \in Path : ReleasePath(p)
ApiSpec == Init /\ [][ApiNext]_vars

-----------------------------------------------------------------------------
(* Properties *)

SensorTypeOK ==
  /\ DOMAIN sensors = Block
  /\ \A b \in Block : sensors[b] \in [1 .. NumSensors[b] -> SensorState]
  /\ sensorStates \in [Block -> BOOLEAN]

StatusTypeOK ==
  /\ state \in [Block -> BlockState]
  /\ trains \in [Block -> Seq([who : Who, dir : TrainDirection])]

TrainTypeOK == forward \in [Train -> BOOLEAN] /\ stopped \in [Train -> BOOLEAN]

FieldTypeOK ==
  /\ position \in [Turnout -> Position \cup {NoPosition}]
  /\ control \in [DirectionControl -> ControlState]

RouteTypeOK ==
  /\ reservedPaths \in [Block -> [Side -> Path \cup {NoPath}]]
  /\ turnoutHeld \in [Turnout -> Position \cup {NoPosition}]
  /\ crossState \in [Crossing -> Track \cup {"Unset"}]
  /\ bridgeHeld \in [Bridge -> SUBSET Track]

BlockTypeOK == SensorTypeOK /\ StatusTypeOK /\ TrainTypeOK /\ FieldTypeOK /\ RouteTypeOK

\* Every variable has its type: the shape of the state the handlers work on.
TypeOK ==
  /\ BlockTypeOK
  /\ blocks \in [Train -> Seq(EntryType)]

(***************************************************************************)
(* A block has at most one status: assignTrain, TrainTracking::enter,      *)
(* TrainTracking::reserve and identificationEvent all append to            *)
(* BlockRailTile::trains, and each relies on a different test (an empty    *)
(* list, a free or unknown state) that nobody else has appended before.    *)
(***************************************************************************)
OneTrainPerBlock == \A b \in Block : Len(trains[b]) <= 1

(***************************************************************************)
(* The state of a block tells whether a status is in it, also after a      *)
(* reload: free or unknown means none, reserved means one.  reserve() and  *)
(* inputItemValueChanged() decide by the state and then use the list.      *)
(***************************************************************************)
StateTellsOccupants ==
  \A b \in Block :
    /\ state[b] \in {"Free", "Unknown"} => trains[b] = <<>>
    /\ state[b] = "Reserved" => trains[b] # <<>>

(***************************************************************************)
(* Within a session the state of a block is never stale: it is what        *)
(* updateState would make of the sensors and the statuses now, although    *)
(* several handlers change the list without calling it.  The exception is  *)
(* a block set free by the user that no sensor has reported on.            *)
(***************************************************************************)
StateIsCurrent ==
  \A b \in Block :
    \/ state[b] = BlockStateOf(sensors[b], trains[b])
    \/ state[b] = "Free" /\ trains[b] = <<>> /\ ~sensorStates[b]

(***************************************************************************)
(* Train::blocks and BlockRailTile::trains agree, however often sensors    *)
(* report a train into a block: each status a train lists that was not     *)
(* destroyed is in its block's list, and a block that has a status of a    *)
(* train which does not list it is reserved ahead of that train, over a    *)
(* path that leads into it.                                                *)
(***************************************************************************)
TrackingIsConsistent ==
  \A t \in Train, b \in Block :
    /\ TimesListed(t, b) > 0 => Holds(b, t)
    /\ Holds(b, t) /\ TimesListed(t, b) = 0 => \E side \in Side : PathInto(b, side)

Ends(p) == {<<PathInfo[p].from, PathInfo[p].fromSide>>, <<PathInfo[p].to, PathInfo[p].toSide>>}

Granted == {p \in Path : reservedPaths[PathInfo[p].from][PathInfo[p].fromSide] = p}

(***************************************************************************)
(* A reservation is all or nothing ("dry run first, to make sure it will   *)
(* succeed"): when the from block has the path reserved then so have the   *)
(* to block, every crossing and every bridge on it.                        *)
(***************************************************************************)
ReservedCompletely ==
  \A p \in Granted :
    /\ reservedPaths[PathInfo[p].to][PathInfo[p].toSide] = p
    /\ \A x \in PathInfo[p].crossings : crossState[x[1]] = x[2]
    /\ \A x \in PathInfo[p].bridges : x[2] \in bridgeHeld[x[1]]

(***************************************************************************)
(* Two reserved paths never meet: not at a block side, not on a crossing,  *)
(* not on the same track of a bridge.                                      *)
(***************************************************************************)
GrantedPathsDisjoint ==
  \A p, q \in Granted : p # q =>
    /\ Ends(p) \cap Ends(q) = {}
    /\ \A x \in PathInfo[p].crossings, y \in PathInfo[q].crossings : x[1] # y[1]
    /\ PathInfo[p].bridges \cap PathInfo[q].bridges = {}

\* The status of train t in block b is twice in its list.
ListedTwice(t, b) ==
  \E i, j \in DOMAIN blocks[t] : i # j /\ blocks[t][i] = Entered(b) /\ blocks[t][j] = Entered(b)

(***************************************************************************)
(* A train loses its last block only by removeTrain, or when a block is    *)
(* reported that it is in already: its entry is then in the list twice,    *)
(* "blocks.size() > 1" counts one block as two and leaving takes out both. *)
(* Whatever else sensors report, while the train drives, waits or reverses *)
(* and blocks behind it are left by the loop in TrainTracking::enter or by *)
(* a sensor, it stays on the layout.                                       *)
(***************************************************************************)
LostOnlyIfListedTwice ==
  [][\A t \in Train : blocks[t] # <<>> /\ blocks'[t] = <<>> =>
       \E b \in Block : \/ RemoveTrain(b)
                        \/ ListedTwice(t, b)
                        \/ /\ Entered(b) \in ToSet(blocks[t])
                           /\ \E i \in 1 .. NumSensors[b] :
                                sensors[b][i] # "Occupied" /\ sensors'[b][i] = "Occupied"]_vars

(***************************************************************************)
(* "Train must be in at least two blocks, else we loose it": nothing but   *)
(* removeTrain takes a train out of its last block.                        *)
(***************************************************************************)
LastBlockIsKept ==
  [][\A t \in Train : blocks[t] # <<>> /\ blocks'[t] = <<>> => \E b \in Block : RemoveTrain(b)]_vars

-----------------------------------------------------------------------------
(* The abstract specification *)

\* Who holds a block with these statuses, and who holds each block.
HolderOf(list) == IF list = <<>> THEN Nobody ELSE Head(list).who
HolderMap == [b \in Block |-> HolderOf(trains[b])]

Claims == INSTANCE TrackClaims WITH Holder <- Who, holder <- HolderMap

\* The statuses of the blocks are claims: Interlocking implements TrackClaims.
ImplementsClaims == Claims!ClaimsSpec
=============================================================================
