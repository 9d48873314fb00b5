------------------------- MODULE InterlockingProofs -------------------------
(***************************************************************************)
(* Proofs about Interlocking, for every layout, every number of trains and *)
(* every number of sensors in a block.                                     *)
(***************************************************************************)
EXTENDS Interlocking, SequenceTheorems, TLAPS

-----------------------------------------------------------------------------
(* Lemmas about the operators *)

StatusType == [who : Who, dir : TrainDirection]

\* A block with a list of at most one status: what a state says about the list.
Tells(s, list) ==
  /\ s \in BlockState
  /\ list \in Seq(StatusType)
  /\ Len(list) <= 1
  /\ s \in {"Free", "Unknown"} => list = <<>>
  /\ s = "Reserved" => list # <<>>

(***************************************************************************)
(* Taking a status out of a list of at most one leaves a list of at most   *)
(* one: TrainBlockStatus::destroying on BlockRailTile::trains.             *)
(***************************************************************************)
LEMMA WithoutOne ==
  ASSUME NEW list \in Seq(StatusType), Len(list) <= 1, NEW w
  PROVE  /\ Without(list, w) \in Seq(StatusType)
         /\ Len(Without(list, w)) <= 1
         /\ Without(list, w) \in {list, <<>>}
         /\ list # <<>> /\ Head(list).who = w => Without(list, w) = <<>>
         /\ list # <<>> /\ Head(list).who # w => Without(list, w) = list
<1>1. Len(list) \in Nat /\ (list # <<>> <=> Len(list) = 1)
  <2>1. Len(list) \in Nat
    BY LenProperties
  <2>2. Len(list) = 0 \/ Len(list) = 1
    BY <2>1
  <2> QED
    BY <2>1, <2>2, EmptySeq
<1>2. CASE list # <<>> /\ list[1].who = w
  <2>1. {i \in 1 .. Len(list) : list[i].who = w} = {1}
    BY <1>1, <1>2
  <2>2. SelectInSeq(list, LAMBDA s : s.who = w) = 1
    BY <2>1 DEF SelectInSeq, Min
  <2>3. \E i \in 1 .. Len(list) : list[i].who = w
    BY <2>1
  <2>4. Without(list, w) = RemoveAt(list, 1)
    BY <2>2, <2>3 DEF Without, RemoveFirstMatch
  <2>5. RemoveAt(list, 1) = SubSeq(list, 1, 0) \o SubSeq(list, 2, 1)
    BY <1>1, <1>2 DEF RemoveAt
  <2>6. SubSeq(list, 1, 0) = <<>> /\ SubSeq(list, 2, 1) = <<>>
    OBVIOUS
  <2>7. Without(list, w) = <<>>
    BY <2>4, <2>5, <2>6
  <2> QED
    BY <1>1, <1>2, <2>7
<1>3. CASE list = <<>> \/ list[1].who # w
  <2>1. \A i \in 1 .. Len(list) : list[i].who # w
    BY <1>1, <1>3
  <2>2. Without(list, w) = list
    BY <2>1 DEF Without, RemoveFirstMatch
  <2> QED
    BY <1>1, <1>3, <2>2
<1> QED
  BY <1>2, <1>3

(***************************************************************************)
(* updateState leaves a block in a state that tells its list.              *)
(***************************************************************************)
LEMMA UpdatedStateTells ==
  ASSUME NEW values, NEW list \in Seq(StatusType), Len(list) <= 1
  PROVE  Tells(BlockStateOf(values, list), list)
BY DEF Tells, BlockStateOf, BlockState

(***************************************************************************)
(* The first status of a block: Append on BlockRailTile::trains.           *)
(***************************************************************************)
LEMMA FirstStatus ==
  ASSUME NEW s \in StatusType
  PROVE  /\ Append(<<>>, s) \in Seq(StatusType)
         /\ Len(Append(<<>>, s)) <= 1
         /\ Head(Append(<<>>, s)) = s
         /\ Append(<<>>, s) # <<>>
OBVIOUS

(***************************************************************************)
(* What "trains->size() == 1" says in removeTrain and flipTrain.           *)
(***************************************************************************)
LEMMA OneIsNotEmpty ==
  ASSUME NEW list, Len(list) = 1
  PROVE  list # <<>>
BY EmptySeq

(***************************************************************************)
(* A list of one status has it at both ends.                               *)
(***************************************************************************)
LEMMA OnlyStatus ==
  ASSUME NEW list \in Seq(StatusType), Len(list) <= 1, list # <<>>
  PROVE  /\ Head(list) \in StatusType
         /\ Last(list) = Head(list)
         /\ Len(list) = 1
<1>1. Len(list) \in Nat
  BY LenProperties
<1>2. Len(list) = 1
  BY <1>1, EmptySeq
<1> QED
  BY <1>2 DEF Last

-----------------------------------------------------------------------------
(* The statuses of the blocks *)

(***************************************************************************)
(* The inductive invariant: typed lists, and every block's state tells its *)
(* list.  The length alone is not inductive, a handler that appends tests  *)
(* the state and not the list; nor is the state without the length.        *)
(***************************************************************************)
Occupancy ==
  /\ trains \in [Block -> Seq(StatusType)]
  /\ state \in [Block -> BlockState]
  /\ \A b \in Block : Tells(state[b], trains[b])

(***************************************************************************)
(* trains.front() and trains.back() of a block that has a status.          *)
(***************************************************************************)
LEMMA StatusesOfEnd ==
  ASSUME Occupancy, NEW b \in Block, NEW side, trains[b] # <<>>
  PROVE  /\ EndStatus(b, side) = Head(trains[b])
         /\ EndStatus(b, side) \in StatusType
BY OnlyStatus DEF Occupancy, Tells, EndStatus

(***************************************************************************)
(* A new board has no statuses, and every block is unknown.                *)
(***************************************************************************)
LEMMA OccupancyInit == Init => Occupancy
<1> SUFFICES ASSUME Init PROVE Occupancy
  OBVIOUS
<1>1. <<>> \in Seq(StatusType) /\ Len(<<>>) = 0
  BY EmptySeq
<1> QED
  BY <1>1 DEF Init, Occupancy, Tells, BlockState

(***************************************************************************)
(* TrainTracking::enter, whatever blocks it leaves behind the train.       *)
(***************************************************************************)
LEMMA OccupancyEnter ==
  ASSUME Occupancy, NEW t \in Train, NEW b \in Block,
         NEW statuses \in Seq(StatusType), Len(statuses) <= 1,
         Enter(t, b, statuses)
  PROVE  Occupancy'
<1> DEFINE left == LeftBehind(<<Entered(b)>> \o blocks[t])
           present(c) == IF c = b THEN statuses ELSE trains[c]
           list(c) == IF c \in left THEN Without(present(c), t) ELSE present(c)
<1>1. trains' = [c \in Block |-> list(c)]
  BY DEF Enter
<1>2. state' = [c \in Block |-> IF c \in left \cup {b}
                                   THEN BlockStateOf(sensors'[c], trains'[c])
                                   ELSE state[c]]
  BY DEF Enter
<1>3. ASSUME NEW c \in Block PROVE list(c) \in Seq(StatusType) /\ Len(list(c)) <= 1
  <2>1. present(c) \in Seq(StatusType) /\ Len(present(c)) <= 1
    BY DEF Occupancy, Tells
  <2> HIDE DEF present, left
  <2> QED
    BY <2>1, WithoutOne
<1>4. ASSUME NEW c \in Block PROVE Tells(state'[c], trains'[c])
  <2>1. CASE c \in left \cup {b}
    <3> HIDE DEF list, left
    <3>1. state'[c] = BlockStateOf(sensors'[c], list(c)) /\ trains'[c] = list(c)
      BY <1>1, <1>2, <2>1
    <3> QED
      BY <3>1, <1>3, UpdatedStateTells
  <2>2. CASE c \notin left \cup {b}
    <3> HIDE DEF left
    <3>1. state'[c] = state[c] /\ trains'[c] = trains[c]
      BY <1>1, <1>2, <2>2
    <3> QED
      BY <3>1 DEF Occupancy
  <2> QED
    BY <2>1, <2>2
<1> HIDE DEF list, left
<1> QED
  BY <1>1, <1>2, <1>3, <1>4 DEF Occupancy, Tells

(***************************************************************************)
(* A handler that gives one block a new list and a state that tells it.    *)
(***************************************************************************)
LEMMA OccupancyOneBlock ==
  ASSUME Occupancy, NEW b \in Block, NEW list, NEW s, Tells(s, list),
         trains' = [trains EXCEPT ![b] = list],
         state' = [state EXCEPT ![b] = s]
  PROVE  Occupancy'
BY DEF Occupancy, Tells

(***************************************************************************)
(* inputItemValueChanged, the occupied cases: by the state of the block    *)
(* the list is empty when a status is appended.                            *)
(***************************************************************************)
LEMMA OccupancyTrainArrives ==
  ASSUME Occupancy, NEW b \in Block, NEW i, TrainArrives(b, i)
  PROVE  Occupancy'
<1>1. ASSUME NEW s \in Arrivals(b, i), Enter(s.who, b, Append(trains[b], s))
      PROVE  Occupancy'
  <2>1. PICK p \in WaysIn(b, i) :
          /\ s = Status(EndStatus(PathInfo[p].from, PathInfo[p].fromSide).who,
                        AwayFrom(PathInfo[p].toSide))
          /\ state[b] \in {"Free", "Unknown"}
    BY <1>1 DEF Arrivals
  <2>2. EndStatus(PathInfo[p].from, PathInfo[p].fromSide).who \in Train
    BY DEF WaysIn
  <2>3. s \in StatusType /\ s.who \in Train
    BY <2>1, <2>2 DEF Status, StatusType, Who, AwayFrom, TrainDirection
  <2>4. trains[b] = <<>>
    BY <2>1 DEF Occupancy, Tells
  <2>5. Append(trains[b], s) \in Seq(StatusType) /\ Len(Append(trains[b], s)) <= 1
    BY <2>3, <2>4, FirstStatus
  <2> QED
    BY <1>1, <2>3, <2>5, OccupancyEnter
<1>2. ASSUME NEW s \in ExpectedArrivals(b, i), s.who \in Train, Enter(s.who, b, trains[b])
      PROVE  Occupancy'
  <2>1. trains[b] \in Seq(StatusType) /\ Len(trains[b]) <= 1
    BY DEF Occupancy, Tells
  <2> QED
    BY <1>2, <2>1, OccupancyEnter
<1> QED
  BY <1>1, <1>2 DEF TrainArrives

(***************************************************************************)
(* The handlers that leave the lists alone and call updateState.           *)
(***************************************************************************)
LEMMA OccupancyUpdateState ==
  ASSUME Occupancy, NEW b \in Block, UNCHANGED trains, UpdateState(b)
  PROVE  Occupancy'
<1>1. trains[b] \in Seq(StatusType) /\ Len(trains[b]) <= 1
  BY DEF Occupancy, Tells
<1>2. Tells(BlockStateOf(sensors'[b], trains[b]), trains[b])
  BY <1>1, UpdatedStateTells
<1>3. trains' = [trains EXCEPT ![b] = trains[b]]
  BY DEF Occupancy
<1>4. state' = [state EXCEPT ![b] = BlockStateOf(sensors'[b], trains[b])]
  BY DEF UpdateState
<1> QED
  BY <1>2, <1>3, <1>4, OccupancyOneBlock

(***************************************************************************)
(* TrainTracking::left takes the only status out of one block.             *)
(***************************************************************************)
LEMMA OccupancyTrainLeaves ==
  ASSUME Occupancy, NEW b \in Block, NEW i, TrainLeaves(b, i)
  PROVE  Occupancy'
<1> DEFINE list == Without(trains[b], Head(trains[b]).who)
<1>1. trains[b] \in Seq(StatusType) /\ Len(trains[b]) <= 1
  BY DEF Occupancy, Tells
<1>2. list \in Seq(StatusType) /\ Len(list) <= 1
  BY <1>1, WithoutOne
<1>3. trains' = [trains EXCEPT ![b] = list] /\ trains'[b] = list
  BY DEF TrainLeaves, Occupancy
<1>4. state' = [state EXCEPT ![b] = BlockStateOf(sensors'[b], list)]
  BY <1>3 DEF TrainLeaves, UpdateState
<1> HIDE DEF list
<1>5. Tells(BlockStateOf(sensors'[b], list), list)
  BY <1>2, UpdatedStateTells
<1> QED
  BY <1>3, <1>4, <1>5, OccupancyOneBlock

(***************************************************************************)
(* assignTrain appends to an empty list and then brings the state up to    *)
(* date.                                                                   *)
(***************************************************************************)
LEMMA OccupancyAssignTrain ==
  ASSUME Occupancy, NEW b \in Block, NEW t \in Train, AssignTrain(b, t)
  PROVE  Occupancy'
<1> DEFINE s == Status(t, IF forward[t] THEN "TowardsA" ELSE "TowardsB")
           list == Append(<<>>, s)
<1>1. s \in StatusType
  BY DEF Status, StatusType, Who, TrainDirection
<1>2. list \in Seq(StatusType) /\ Len(list) <= 1 /\ list # <<>>
  BY <1>1, FirstStatus
<1>3. trains' = [trains EXCEPT ![b] = list] /\ trains'[b] = list /\ trains[b] = <<>>
  BY DEF AssignTrain, Occupancy
<1> HIDE DEF list
<1>4. CASE state[b] \in {"Free", "Unknown"}
  <2>1. state' = [state EXCEPT ![b] = BlockStateOf(sensors[b], list)]
    BY <1>3, <1>4 DEF AssignTrain
  <2>2. Tells(BlockStateOf(sensors[b], list), list)
    BY <1>2, UpdatedStateTells
  <2> QED
    BY <1>3, <2>1, <2>2, OccupancyOneBlock
<1>5. CASE state[b] \notin {"Free", "Unknown"}
  <2>1. state' = [state EXCEPT ![b] = state[b]]
    BY <1>5 DEF AssignTrain, Occupancy
  <2>2. Tells(state[b], list)
    BY <1>2, <1>5 DEF Tells, Occupancy
  <2> QED
    BY <1>3, <2>1, <2>2, OccupancyOneBlock
<1> QED
  BY <1>4, <1>5

(***************************************************************************)
(* removeTrain empties the list; a state other than reserved stays, and    *)
(* must then be occupied.                                                  *)
(***************************************************************************)
LEMMA OccupancyRemoveTrain ==
  ASSUME Occupancy, NEW b \in Block, RemoveTrain(b)
  PROVE  Occupancy'
<1> DEFINE list == Without(trains[b], Head(trains[b]).who)
<1>1. trains[b] \in Seq(StatusType) /\ Len(trains[b]) <= 1 /\ trains[b] # <<>>
  BY OneIsNotEmpty DEF Occupancy, Tells, RemoveTrain
<1>2. list = <<>>
  BY <1>1, WithoutOne
<1>3. trains' = [trains EXCEPT ![b] = <<>>] /\ trains'[b] = <<>>
  BY <1>2 DEF RemoveTrain, Occupancy
<1>4. <<>> \in Seq(StatusType) /\ Len(<<>>) <= 1
  BY EmptySeq
<1>5. CASE state[b] = "Reserved"
  <2>1. state' = [state EXCEPT ![b] = BlockStateOf(sensors[b], <<>>)]
    BY <1>3, <1>5 DEF RemoveTrain
  <2>2. Tells(BlockStateOf(sensors[b], <<>>), <<>>)
    BY <1>4, UpdatedStateTells
  <2> QED
    BY <1>3, <2>1, <2>2, OccupancyOneBlock
<1>6. CASE state[b] # "Reserved"
  <2>1. state' = [state EXCEPT ![b] = state[b]]
    BY <1>6 DEF RemoveTrain, Occupancy
  <2>2. Tells(state[b], <<>>)
    BY <1>4, <1>6 DEF Tells, Occupancy
  <2> QED
    BY <1>3, <2>1, <2>2, OccupancyOneBlock
<1> QED
  BY <1>5, <1>6

(***************************************************************************)
(* flipTrain changes a status and leaves the list as long as it was.       *)
(***************************************************************************)
LEMMA OccupancyFlipTrain ==
  ASSUME Occupancy, NEW b \in Block, FlipTrain(b)
  PROVE  Occupancy'
<1> DEFINE s == [trains[b][1] EXCEPT !.dir = Turned(@)]
           list == [trains[b] EXCEPT ![1] = s]
<1>1. trains[b] \in Seq(StatusType) /\ Len(trains[b]) = 1 /\ trains[b] # <<>>
  BY OneIsNotEmpty DEF Occupancy, FlipTrain
<1>2. trains[b][1] \in StatusType
  BY <1>1, ElementOfSeq
<1>3. s \in StatusType
  BY <1>2 DEF StatusType, Turned, TrainDirection
<1>4. list \in Seq(StatusType) /\ Len(list) = 1 /\ list # <<>>
  BY <1>1, <1>3, ExceptSeq, EmptySeq
<1>5. trains' = [trains EXCEPT ![b] = list]
  BY DEF FlipTrain
<1>6. state' = [state EXCEPT ![b] = state[b]]
  BY DEF FlipTrain, Occupancy
<1> HIDE DEF list
<1>7. Tells(state[b], list)
  BY <1>1, <1>4 DEF Tells, Occupancy
<1> QED
  BY <1>5, <1>6, <1>7, OccupancyOneBlock

(***************************************************************************)
(* identificationEvent appends to an empty list, or takes a status out.    *)
(***************************************************************************)
LEMMA OccupancyIdentification ==
  ASSUME Occupancy, NEW b \in Block, NEW tag \in Tag,
         \/ \E d \in TrainDirection : IdentificationPresent(b, tag, d)
         \/ IdentificationAbsent(b, tag)
  PROVE  Occupancy'
<1>1. ASSUME NEW d \in TrainDirection, IdentificationPresent(b, tag, d) PROVE Occupancy'
  <2> DEFINE list == Append(<<>>, Status(tag, d))
  <2>1. Status(tag, d) \in StatusType
    BY DEF Status, StatusType, Who
  <2>2. list \in Seq(StatusType) /\ Len(list) <= 1 /\ list # <<>>
    BY <2>1, FirstStatus
  <2>3. trains' = [trains EXCEPT ![b] = list] /\ trains'[b] = list
    BY <1>1 DEF IdentificationPresent, Occupancy
  <2> HIDE DEF list
  <2>4. CASE state[b] \in {"Free", "Unknown"}
    <3>1. state' = [state EXCEPT ![b] = BlockStateOf(sensors[b], list)]
      BY <1>1, <2>3, <2>4 DEF IdentificationPresent
    <3>2. Tells(BlockStateOf(sensors[b], list), list)
      BY <2>2, UpdatedStateTells
    <3> QED
      BY <2>3, <3>1, <3>2, OccupancyOneBlock
  <2>5. CASE state[b] \notin {"Free", "Unknown"}
    <3>1. state' = [state EXCEPT ![b] = state[b]]
      BY <1>1, <2>5 DEF IdentificationPresent, Occupancy
    <3>2. Tells(state[b], list)
      BY <2>2, <2>5 DEF Tells, Occupancy
    <3> QED
      BY <2>3, <3>1, <3>2, OccupancyOneBlock
  <2> QED
    BY <2>4, <2>5
<1>2. ASSUME IdentificationAbsent(b, tag) PROVE Occupancy'
  <2> DEFINE list == Without(trains[b], tag)
  <2>1. trains[b] \in Seq(StatusType) /\ Len(trains[b]) <= 1
    BY DEF Occupancy, Tells
  <2>2. list \in Seq(StatusType) /\ Len(list) <= 1
    BY <2>1, WithoutOne
  <2>3. trains' = [trains EXCEPT ![b] = list] /\ trains'[b] = list
    BY <1>2 DEF IdentificationAbsent, Occupancy
  <2>4. state' = [state EXCEPT ![b] = BlockStateOf(sensors[b], list)]
    BY <1>2, <2>3 DEF IdentificationAbsent
  <2> HIDE DEF list
  <2>5. Tells(BlockStateOf(sensors[b], list), list)
    BY <2>2, UpdatedStateTells
  <2> QED
    BY <2>3, <2>4, <2>5, OccupancyOneBlock
<1> QED
  BY <1>1, <1>2

(***************************************************************************)
(* Train::direction turns statuses in place.                               *)
(***************************************************************************)
LEMMA OccupancyReverseTrain ==
  ASSUME Occupancy, NEW t \in Train, ReverseTrain(t)
  PROVE  Occupancy'
<1> DEFINE turned(b) == [i \in DOMAIN trains[b] |->
                           IF trains[b][i].who = t /\ TimesListed(t, b) % 2 = 1
                             THEN [trains[b][i] EXCEPT !.dir = Turned(@)]
                             ELSE trains[b][i]]
<1>1. trains' = [b \in Block |-> turned(b)] /\ state' = state
  BY DEF ReverseTrain
<1>2. ASSUME NEW b \in Block
      PROVE  /\ turned(b) \in Seq(StatusType)
             /\ Len(turned(b)) = Len(trains[b])
             /\ turned(b) = <<>> <=> trains[b] = <<>>
  <2>1. /\ trains[b] \in Seq(StatusType)
        /\ Len(trains[b]) \in Nat
        /\ DOMAIN trains[b] = 1 .. Len(trains[b])
        /\ \A i \in 1 .. Len(trains[b]) : trains[b][i] \in StatusType
    BY LenProperties, ElementOfSeq DEF Occupancy
  <2>2. \A i \in 1 .. Len(trains[b]) : turned(b)[i] \in StatusType
    BY <2>1 DEF StatusType, Turned, TrainDirection
  <2>3. turned(b) \in [1 .. Len(trains[b]) -> StatusType]
    BY <2>1, <2>2
  <2> HIDE DEF turned
  <2>4. turned(b) \in Seq(StatusType) /\ Len(turned(b)) = Len(trains[b])
    BY <2>1, <2>3
  <2> QED
    BY <2>1, <2>4, EmptySeq
<1>3. \A b \in Block : Tells(state[b], turned(b))
  <2> HIDE DEF turned
  <2> QED
    BY <1>2 DEF Tells, Occupancy
<1> HIDE DEF turned
<1> QED
  BY <1>1, <1>2, <1>3 DEF Occupancy

(***************************************************************************)
(* BlockRailTile::reserve appends a status only to a free block, which by  *)
(* the invariant has none.                                                 *)
(***************************************************************************)
LEMMA OccupancyReservePath ==
  ASSUME Occupancy, NEW p \in Path, ReservePath(p)
  PROVE  Occupancy'
<1> DEFINE info == PathInfo[p]
           end(b) == IF b = info.from THEN info.fromSide ELSE info.toSide
           t == EndStatus(info.from, info.fromSide).who
           list(b) == IF b \in {info.from, info.to} THEN ReservedBy(b, end(b), t) ELSE trains[b]
<1>1. /\ t \in Train
      /\ trains' = [b \in Block |-> list(b)]
      /\ state' = [b \in Block |-> IF b \in {info.from, info.to}
                                     THEN BlockStateOf(sensors[b], trains'[b]) ELSE state[b]]
  BY DEF ReservePath
<1>2. ASSUME NEW b \in Block PROVE list(b) \in Seq(StatusType) /\ Len(list(b)) <= 1
  <2>1. trains[b] \in Seq(StatusType) /\ Len(trains[b]) <= 1
    BY DEF Occupancy, Tells
  <2>2. CASE state[b] = "Free"
    <3>1. trains[b] = <<>>
      BY <2>2 DEF Occupancy, Tells
    <3>2. Status(t, AwayFrom(end(b))) \in StatusType
      BY <1>1 DEF Status, StatusType, Who, AwayFrom, TrainDirection
    <3> HIDE DEF t
    <3> QED
      BY <2>1, <3>1, <3>2, FirstStatus DEF ReservedBy
  <2>3. CASE state[b] # "Free"
    BY <2>1, <2>3 DEF ReservedBy
  <2> QED
    BY <2>2, <2>3
<1>3. ASSUME NEW b \in Block PROVE Tells(state'[b], trains'[b])
  <2>1. CASE b \in {info.from, info.to}
    <3> HIDE DEF list
    <3>1. state'[b] = BlockStateOf(sensors[b], list(b)) /\ trains'[b] = list(b)
      BY <1>1, <2>1
    <3> QED
      BY <1>2, <3>1, UpdatedStateTells
  <2>2. CASE b \notin {info.from, info.to}
    BY <1>1, <2>2 DEF Occupancy
  <2> QED
    BY <2>1, <2>2
<1> HIDE DEF list
<1> QED
  BY <1>1, <1>2, <1>3 DEF Occupancy, Tells

(***************************************************************************)
(* Every operation of the classes, a release and a reload included, keeps  *)
(* the invariant.                                                          *)
(***************************************************************************)
LEMMA OccupancyStep == Occupancy /\ [ApiNext]_vars => Occupancy'
<1> SUFFICES ASSUME Occupancy, [ApiNext]_vars PROVE Occupancy'
  OBVIOUS
<1>1. CASE SensorChange
  <2> SUFFICES ASSUME NEW b \in Block, NEW i \in 1 .. NumSensors[b],
                      \/ TrainArrives(b, i)
                      \/ UnexplainedOccupation(b, i)
                      \/ TrainLeaves(b, i)
                      \/ \E v \in SensorState : SensorClears(b, i, v)
               PROVE  Occupancy'
    BY <1>1 DEF SensorChange
  <2>1. CASE TrainArrives(b, i)
    BY <2>1, OccupancyTrainArrives
  <2>2. CASE UnexplainedOccupation(b, i)
    BY <2>2, OccupancyUpdateState DEF UnexplainedOccupation
  <2>3. CASE TrainLeaves(b, i)
    BY <2>3, OccupancyTrainLeaves
  <2>4. ASSUME NEW v \in SensorState, SensorClears(b, i, v) PROVE Occupancy'
    BY <2>4, OccupancyUpdateState DEF SensorClears
  <2> QED
    BY <2>1, <2>2, <2>3, <2>4
<1>2. CASE BlockCommand
  <2>1. ASSUME NEW b \in Block, SetStateFree(b) PROVE Occupancy'
    <3>1. trains' = [trains EXCEPT ![b] = <<>>] /\ state' = [state EXCEPT ![b] = "Free"]
      BY <2>1 DEF SetStateFree, Occupancy
    <3>2. Tells("Free", <<>>)
      BY EmptySeq DEF Tells, BlockState
    <3> QED
      BY <3>1, <3>2, OccupancyOneBlock
  <2> QED
    BY <1>2, <2>1, OccupancyAssignTrain, OccupancyRemoveTrain, OccupancyFlipTrain
    DEF BlockCommand
<1>3. CASE Identification
  BY <1>3, OccupancyIdentification DEF Identification
<1>4. CASE TrainCommand
  <2>1. ASSUME NEW t \in Train, StartOrStop(t) PROVE Occupancy'
    BY <2>1 DEF StartOrStop, blockVars, Occupancy
  <2> QED
    BY <1>4, <2>1, OccupancyReverseTrain DEF TrainCommand
<1>5. CASE FieldCommand
  BY <1>5 DEF FieldCommand, SetPosition, SetControl, blockVars, Occupancy
<1>6. ASSUME NEW p \in Path, ReservePath(p) \/ ReleasePath(p) PROVE Occupancy'
  <2>1. CASE ReservePath(p)
    BY <2>1, OccupancyReservePath
  <2>2. CASE ReleasePath(p)
    BY <2>2 DEF ReleasePath, blockVars, Occupancy
  <2> QED
    BY <1>6, <2>1, <2>2
<1>7. CASE Reload
  BY <1>7 DEF Reload, Occupancy
<1>8. CASE UNCHANGED vars
  BY <1>8 DEF vars, blockVars, Occupancy
<1> QED
  BY <1>1, <1>2, <1>3, <1>4, <1>5, <1>6, <1>7, <1>8
  DEF ApiNext, Next, SessionNext, RoutesNext

(***************************************************************************)
(* The invariant holds in every reachable state.                           *)
(***************************************************************************)
LEMMA OccupancyAlways == ApiSpec => []Occupancy
BY OccupancyInit, OccupancyStep, PTL DEF ApiSpec

(***************************************************************************)
(* No order of sensor events, user commands, reservations, releases and    *)
(* reloads gives a block two statuses, in any layout.                      *)
(***************************************************************************)
THEOREM AtMostOneTrain == ApiSpec => []OneTrainPerBlock
<1>1. Occupancy => OneTrainPerBlock
  BY DEF Occupancy, Tells, OneTrainPerBlock
<1> QED
  BY <1>1, OccupancyAlways, PTL

(***************************************************************************)
(* A state of a block that says free, unknown or reserved can be trusted:  *)
(* what reserve() and inputItemValueChanged() do after testing it only.    *)
(***************************************************************************)
THEOREM StateCanBeTrusted == ApiSpec => []StateTellsOccupants
<1>1. Occupancy => StateTellsOccupants
  BY DEF Occupancy, Tells, StateTellsOccupants
<1> QED
  BY <1>1, OccupancyAlways, PTL

-----------------------------------------------------------------------------
(* Types *)

(***************************************************************************)
(* The sensor values keep their type: only inputItemValueChanged and a     *)
(* reload write them.                                                      *)
(***************************************************************************)
LEMMA SensorTypesStep == SensorTypeOK /\ [ApiNext]_vars => SensorTypeOK'
<1> SUFFICES ASSUME SensorTypeOK, [ApiNext]_vars PROVE SensorTypeOK'
  OBVIOUS
<1>1. ASSUME NEW b \in Block, NEW i \in 1 .. NumSensors[b], NEW v \in SensorState,
             SensorReads(b, i, v)
      PROVE  SensorTypeOK'
  <2>1. /\ sensors' = [sensors EXCEPT ![b] = [sensors[b] EXCEPT ![i] = v]]
        /\ sensorStates' = [sensorStates EXCEPT ![b] = TRUE]
    BY <1>1 DEF SensorReads
  <2>2. [sensors[b] EXCEPT ![i] = v] \in [1 .. NumSensors[b] -> SensorState]
    BY DEF SensorTypeOK
  <2> QED
    BY <2>1, <2>2 DEF SensorTypeOK
<1>2. CASE SensorChange
  <2>1. "Occupied" \in SensorState /\ "Free" \in SensorState
    BY DEF SensorState
  <2> QED
    BY <1>1, <1>2, <2>1
    DEF SensorChange, TrainArrives, UnexplainedOccupation, TrainLeaves, SensorClears
<1>3. CASE UNCHANGED <<sensors, sensorStates>>
  BY <1>3 DEF SensorTypeOK
<1>4. CASE Reload
  BY <1>4 DEF Reload, SensorTypeOK, SensorState
<1> QED
  BY <1>2, <1>3, <1>4 DEF ApiNext, Next, SessionNext, RoutesNext, BlockCommand, Identification,
     TrainCommand, FieldCommand, AssignTrain, RemoveTrain, FlipTrain, SetStateFree,
     IdentificationPresent, IdentificationAbsent, ReverseTrain, StartOrStop, SetPosition,
     SetControl, ReservePath, ReleasePath, vars, blockVars

(***************************************************************************)
(* The direction and the stopped flag of a train keep their type.          *)
(***************************************************************************)
LEMMA TrainTypesStep == TrainTypeOK /\ [ApiNext]_vars => TrainTypeOK'
<1> SUFFICES ASSUME TrainTypeOK, [ApiNext]_vars PROVE TrainTypeOK'
  OBVIOUS
<1>1. CASE UNCHANGED <<forward, stopped>>
  BY <1>1 DEF TrainTypeOK
<1>2. CASE TrainCommand
  BY <1>2 DEF TrainCommand, ReverseTrain, StartOrStop, TrainTypeOK
<1>3. CASE Reload
  BY <1>3 DEF Reload, TrainTypeOK
<1>4. CASE SensorChange
  BY <1>1, <1>4 DEF SensorChange, TrainArrives, UnexplainedOccupation, TrainLeaves, SensorClears,
     SensorReads
<1> QED
  BY <1>1, <1>2, <1>3, <1>4 DEF ApiNext, Next, SessionNext, RoutesNext, BlockCommand,
     Identification, FieldCommand, AssignTrain, RemoveTrain, FlipTrain, SetStateFree,
     IdentificationPresent, IdentificationAbsent, SetPosition, SetControl, ReservePath,
     ReleasePath, vars, trainVars

(***************************************************************************)
(* Only reserving a path, releasing one, loading the world and throwing a  *)
(* turnout or a control touch the route and field variables.               *)
(***************************************************************************)
LEMMA OthersLeaveRoutes ==
  ASSUME [ApiNext]_vars
  PROVE  \/ FieldCommand
         \/ \E p \in Path : ReservePath(p)
         \/ \E p \in Path : ReleasePath(p)
         \/ Reload
         \/ UNCHANGED <<routeVars, fieldVars>>
<1>1. CASE SensorChange
  BY <1>1 DEF SensorChange, TrainArrives, UnexplainedOccupation, TrainLeaves, SensorClears,
     SensorReads
<1>2. CASE BlockCommand
  BY <1>2 DEF BlockCommand, AssignTrain, RemoveTrain, FlipTrain, SetStateFree
<1>3. CASE Identification
  BY <1>3 DEF Identification, IdentificationPresent, IdentificationAbsent
<1>4. CASE TrainCommand
  BY <1>4 DEF TrainCommand, ReverseTrain, StartOrStop
<1>5. CASE UNCHANGED vars
  BY <1>5 DEF vars
<1> QED
  BY <1>1, <1>2, <1>3, <1>4, <1>5 DEF ApiNext, Next, SessionNext, RoutesNext

(***************************************************************************)
(* Turnout positions and direction control states keep their type, over    *)
(* the positions a path requires.                                          *)
(***************************************************************************)
LEMMA FieldTypesStep == FieldTypeOK /\ [ApiNext]_vars => FieldTypeOK'
<1> SUFFICES ASSUME FieldTypeOK, [ApiNext]_vars PROVE FieldTypeOK'
  OBVIOUS
<1>1. CASE FieldCommand
  BY <1>1 DEF FieldCommand, SetPosition, SetControl, FieldTypeOK
<1>2. ASSUME NEW p \in Path, ReservePath(p) PROVE FieldTypeOK'
  <2>1. position' = [x \in Turnout |-> IF \E pos \in Position : <<x, pos>> \in PathInfo[p].turnouts
                       THEN CHOOSE pos \in Position : <<x, pos>> \in PathInfo[p].turnouts
                       ELSE position[x]]
    BY <1>2 DEF ReservePath
  <2>2. position' \in [Turnout -> Position \cup {NoPosition}]
    BY <2>1 DEF FieldTypeOK
  <2>3. control' \in ScriptOutcome(p)
    BY <1>2 DEF ReservePath
  <2>4. control' \in [DirectionControl -> ControlState]
    BY <2>3 DEF ScriptOutcome, FieldTypeOK
  <2> QED
    BY <2>2, <2>4 DEF FieldTypeOK
<1>3. ASSUME NEW p \in Path, ReleasePath(p) PROVE FieldTypeOK'
  BY <1>3 DEF ReleasePath, fieldVars, FieldTypeOK
<1>4. CASE Reload
  BY <1>4 DEF Reload, fieldVars, FieldTypeOK
<1>5. CASE UNCHANGED <<routeVars, fieldVars>>
  BY <1>5 DEF fieldVars, FieldTypeOK
<1> QED
  BY <1>1, <1>2, <1>3, <1>4, <1>5, OthersLeaveRoutes

(***************************************************************************)
(* A path's ends are block sides, its elements turnouts, controls,         *)
(* crossings and bridges of the boards.                                    *)
(***************************************************************************)
LEMMA PathElements ==
  ASSUME NEW p \in Path
  PROVE  /\ PathInfo[p].from \in Block /\ PathInfo[p].to \in Block
         /\ PathInfo[p].fromSide \in Side /\ PathInfo[p].toSide \in Side
         /\ \A x \in PathInfo[p].controls : x[1] \in DirectionControl
         /\ \A x \in PathInfo[p].crossings :
              x = <<x[1], x[2]>> /\ x[1] \in Crossing /\ x[2] \in Track
         /\ \A x \in PathInfo[p].bridges :
              x = <<x[1], x[2]>> /\ x[1] \in Bridge /\ x[2] \in Track
<1>1. PathInfo[p] \in PathType
  BY PathAssumption
<1> QED
  BY <1>1 DEF PathType, Side

(***************************************************************************)
(* Reservations keep their type: BlockPath::reserve stores what the path   *)
(* says.                                                                   *)
(***************************************************************************)
LEMMA RouteTypesStep ==
  FieldTypeOK' /\ RouteTypeOK /\ [ApiNext]_vars => RouteTypeOK'
<1> SUFFICES ASSUME FieldTypeOK', RouteTypeOK, [ApiNext]_vars PROVE RouteTypeOK'
  OBVIOUS
<1>1. CASE FieldCommand
  BY <1>1 DEF FieldCommand, SetPosition, SetControl, routeVars, RouteTypeOK
<1>2. ASSUME NEW p \in Path, ReservePath(p) PROVE RouteTypeOK'
  <2> DEFINE info == PathInfo[p]
  <2>1. reservedPaths' \in [Block -> [Side -> Path \cup {NoPath}]]
    BY <1>2, PathElements DEF ReservePath, RouteTypeOK
  <2>2. turnoutHeld' \in [Turnout -> Position \cup {NoPosition}]
    BY <1>2 DEF ReservePath, RouteTypeOK, FieldTypeOK
  <2> DEFINE set == [c \in Crossing |-> IF \E k \in Track : <<c, k>> \in info.crossings
                                         THEN CHOOSE k \in Track : <<c, k>> \in info.crossings
                                         ELSE crossState[c]]
             held == [g \in Bridge |->
                        bridgeHeld[g] \cup {k \in Track : <<g, k>> \in info.bridges}]
  <2>3. \/ crossState' = set /\ bridgeHeld' = held
        \/ UNCHANGED <<crossState, bridgeHeld>>
    BY <1>2 DEF ReservePath
  <2>4. set \in [Crossing -> Track \cup {"Unset"}]
    BY DEF RouteTypeOK
  <2>5. held \in [Bridge -> SUBSET Track]
    BY DEF RouteTypeOK
  <2> HIDE DEF set, held
  <2>6. crossState' \in [Crossing -> Track \cup {"Unset"}]
    BY <2>3, <2>4 DEF RouteTypeOK
  <2>7. bridgeHeld' \in [Bridge -> SUBSET Track]
    BY <2>3, <2>5 DEF RouteTypeOK
  <2> QED
    BY <2>1, <2>2, <2>6, <2>7 DEF RouteTypeOK
<1>3. ASSUME NEW p \in Path, ReleasePath(p) PROVE RouteTypeOK'
  BY <1>3, PathElements DEF ReleasePath, RouteTypeOK
<1>4. CASE Reload
  BY <1>4 DEF Reload, RouteTypeOK
<1>5. CASE UNCHANGED <<routeVars, fieldVars>>
  BY <1>5 DEF routeVars, RouteTypeOK
<1> QED
  BY <1>1, <1>2, <1>3, <1>4, <1>5, OthersLeaveRoutes

(***************************************************************************)
(* Every variable but the trains' block lists keeps its type: what the     *)
(* handlers read is always of the shape they expect.                       *)
(***************************************************************************)
THEOREM BlockTypesAreKept == ApiSpec => []BlockTypeOK
<1>1. Occupancy => StatusTypeOK
  BY DEF Occupancy, StatusTypeOK, StatusType
<1>2. Init => SensorTypeOK /\ TrainTypeOK /\ FieldTypeOK /\ RouteTypeOK
  BY DEF Init, SensorTypeOK, SensorState, TrainTypeOK, FieldTypeOK, ControlState, RouteTypeOK
<1> QED
  BY <1>1, <1>2, OccupancyAlways, SensorTypesStep, TrainTypesStep, FieldTypesStep,
     RouteTypesStep, PTL DEF ApiSpec, BlockTypeOK

-----------------------------------------------------------------------------
(* The statuses are claims: Interlocking implements TrackClaims *)

(***************************************************************************)
(* A handler that moves holder h: the blocks in gained were empty and now  *)
(* have a status of h, the others keep their holder or lose their status   *)
(* of h.                                                                   *)
(***************************************************************************)
Moves(h, gained) ==
  /\ \A b, c \in gained : b = c
  /\ \A b \in gained : HolderOf(trains[b]) = Nobody /\ HolderOf(trains'[b]) = h
  /\ \A b \in Block \ gained :
       \/ HolderOf(trains'[b]) = HolderOf(trains[b])
       \/ HolderOf(trains[b]) = h /\ HolderOf(trains'[b]) = Nobody

(***************************************************************************)
(* Such a change of the holders is a step of TrackClaims.                  *)
(***************************************************************************)
LEMMA MoveOfHolder ==
  ASSUME NEW h \in Who, NEW gained \in SUBSET Block, Moves(h, gained)
  PROVE  Claims!ClaimsNext
<1> DEFINE lost == {b \in Block \ gained : HolderOf(trains[b]) = h /\ HolderOf(trains'[b]) = Nobody}
<1>1. \A b \in Block : HolderOf(trains'[b]) = IF b \in gained THEN h
                                              ELSE IF b \in lost THEN Nobody
                                              ELSE HolderOf(trains[b])
  BY DEF Moves
<1>2. lost \in SUBSET Block /\ \A b \in lost : HolderOf(trains[b]) = h
  OBVIOUS
<1> HIDE DEF lost
<1>3. Claims!Move(h, gained, lost)
  BY <1>1, <1>2 DEF Moves, Claims!Move, HolderMap
<1> QED
  BY <1>2, <1>3 DEF Claims!ClaimsNext, Claims!Move

(***************************************************************************)
(* TrainTracking::enter claims at most the block it enters.                *)
(***************************************************************************)
LEMMA EnterMoves ==
  ASSUME Occupancy, NEW t \in Train, NEW b \in Block,
         NEW statuses \in Seq(StatusType), Len(statuses) <= 1,
         \/ statuses = trains[b]
         \/ /\ trains[b] = <<>>
            /\ statuses # <<>>
            /\ Head(statuses).who = t,
         Enter(t, b, statuses)
  PROVE  Claims!ClaimsNext
<1> DEFINE left == LeftBehind(<<Entered(b)>> \o blocks[t])
           present(c) == IF c = b THEN statuses ELSE trains[c]
           gained == IF statuses = trains[b] \/ b \in left THEN {} ELSE {b}
<1>1. trains' = [c \in Block |-> IF c \in left THEN Without(present(c), t) ELSE present(c)]
  BY DEF Enter
<1> HIDE DEF left
<1>2. t \in Who
  BY DEF Who
<1>3. ASSUME NEW c \in gained
      PROVE  HolderOf(trains[c]) = Nobody /\ HolderOf(trains'[c]) = t
  BY <1>1 DEF HolderOf
<1>4. ASSUME NEW c \in Block \ gained
      PROVE  \/ HolderOf(trains'[c]) = HolderOf(trains[c])
             \/ HolderOf(trains[c]) = t /\ HolderOf(trains'[c]) = Nobody
  <2>1. CASE c \notin left
    <3>1. trains'[c] = trains[c]
      BY <1>1, <2>1
    <3> QED
      BY <3>1
  <2>2. CASE c \in left /\ present(c) = trains[c]
    <3>1. trains[c] \in Seq(StatusType) /\ Len(trains[c]) <= 1
      BY DEF Occupancy, Tells
    <3>2. trains'[c] = Without(trains[c], t)
      BY <1>1, <2>2
    <3>3. \/ trains'[c] = trains[c]
          \/ trains[c] # <<>> /\ Head(trains[c]).who = t /\ trains'[c] = <<>>
      BY <3>1, <3>2, WithoutOne
    <3> QED
      BY <3>3 DEF HolderOf
  <2>3. CASE c \in left /\ present(c) # trains[c]
    <3>1. c = b /\ trains[b] = <<>> /\ statuses # <<>> /\ Head(statuses).who = t
      BY <2>3
    <3>2. trains'[b] = Without(statuses, t)
      BY <1>1, <2>3, <3>1
    <3>3. trains'[b] = <<>>
      BY <3>1, <3>2, WithoutOne
    <3> QED
      BY <3>1, <3>3
  <2> QED
    BY <2>1, <2>2, <2>3
<1>5. gained \in SUBSET Block /\ \A c, d \in gained : c = d
  OBVIOUS
<1> HIDE DEF gained
<1>6. \A c \in gained : HolderOf(trains[c]) = Nobody /\ HolderOf(trains'[c]) = t
  BY <1>3
<1>7. \A c \in Block \ gained :
        \/ HolderOf(trains'[c]) = HolderOf(trains[c])
        \/ HolderOf(trains[c]) = t /\ HolderOf(trains'[c]) = Nobody
  BY <1>4
<1>8. Moves(t, gained)
  BY <1>5, <1>6, <1>7 DEF Moves
<1> QED
  BY <1>2, <1>5, <1>8, MoveOfHolder

ClaimsOrStutter == Claims!ClaimsNext \/ UNCHANGED HolderMap

(***************************************************************************)
(* A handler that gives one block a new list: h comes into it or goes.     *)
(***************************************************************************)
LEMMA OneBlockMoves ==
  ASSUME Occupancy, NEW b \in Block, NEW h \in Who, NEW list,
         trains' = [trains EXCEPT ![b] = list],
         \/ trains[b] = <<>> /\ list # <<>> /\ Head(list).who = h
         \/ trains[b] # <<>> /\ Head(trains[b]).who = h /\ list = <<>>
  PROVE  Claims!ClaimsNext
<1>1. /\ trains'[b] = list
      /\ \A c \in Block \ {b} : trains'[c] = trains[c]
  BY DEF Occupancy
<1>2. CASE trains[b] = <<>> /\ list # <<>> /\ Head(list).who = h
  <2>1. Moves(h, {b})
    BY <1>1, <1>2 DEF Moves, HolderOf
  <2> QED
    BY <2>1, MoveOfHolder
<1>3. CASE trains[b] # <<>> /\ Head(trains[b]).who = h /\ list = <<>>
  <2>1. Moves(h, {})
    BY <1>1, <1>3 DEF Moves, HolderOf
  <2> QED
    BY <2>1, MoveOfHolder
<1> QED
  BY <1>2, <1>3

(***************************************************************************)
(* A handler that leaves the lists alone is a stuttering step of           *)
(* TrackClaims.                                                            *)
(***************************************************************************)
LEMMA StutterOnTrains == UNCHANGED trains => ClaimsOrStutter
BY DEF ClaimsOrStutter, HolderMap, HolderOf

(***************************************************************************)
(* A train that arrives claims the block it enters and lets go the blocks  *)
(* behind its tail.                                                        *)
(***************************************************************************)
LEMMA ClaimsTrainArrives ==
  ASSUME Occupancy, NEW b \in Block, NEW i, TrainArrives(b, i)
  PROVE  Claims!ClaimsNext
<1>1. ASSUME NEW s \in Arrivals(b, i), Enter(s.who, b, Append(trains[b], s))
      PROVE  Claims!ClaimsNext
  <2>1. PICK p \in WaysIn(b, i) :
          /\ s = Status(EndStatus(PathInfo[p].from, PathInfo[p].fromSide).who,
                        AwayFrom(PathInfo[p].toSide))
          /\ state[b] \in {"Free", "Unknown"}
    BY <1>1 DEF Arrivals
  <2>2. EndStatus(PathInfo[p].from, PathInfo[p].fromSide).who \in Train
    BY DEF WaysIn
  <2>3. s \in StatusType /\ s.who \in Train
    BY <2>1, <2>2 DEF Status, StatusType, Who, AwayFrom, TrainDirection
  <2>4. trains[b] = <<>>
    BY <2>1 DEF Occupancy, Tells
  <2> DEFINE list == Append(trains[b], s)
  <2>5. /\ list \in Seq(StatusType)
        /\ Len(list) <= 1
        /\ list # <<>>
        /\ Head(list).who = s.who
    BY <2>3, <2>4, FirstStatus
  <2>6. Enter(s.who, b, list)
    BY <1>1
  <2> HIDE DEF list
  <2> QED
    BY <2>3, <2>4, <2>5, <2>6, EnterMoves
<1>2. ASSUME NEW s \in ExpectedArrivals(b, i), s.who \in Train, Enter(s.who, b, trains[b])
      PROVE  Claims!ClaimsNext
  <2>1. trains[b] \in Seq(StatusType) /\ Len(trains[b]) <= 1
    BY DEF Occupancy, Tells
  <2> QED
    BY <1>2, <2>1, EnterMoves
<1> QED
  BY <1>1, <1>2 DEF TrainArrives

(***************************************************************************)
(* Taking a status out of one block lets go that block for that holder.    *)
(***************************************************************************)
LEMMA ClaimsRemoval ==
  ASSUME Occupancy, NEW b \in Block, NEW h \in Who,
         Holds(b, h),
         trains' = [trains EXCEPT ![b] = Without(trains[b], h)]
  PROVE  Claims!ClaimsNext
<1>1. trains[b] \in Seq(StatusType) /\ Len(trains[b]) <= 1
  BY DEF Occupancy, Tells
<1>2. PICK k \in DOMAIN trains[b] : trains[b][k].who = h
  BY DEF Holds
<1>3. Len(trains[b]) \in Nat /\ DOMAIN trains[b] = 1 .. Len(trains[b])
  BY <1>1, LenProperties
<1>4. k = 1 /\ Len(trains[b]) = 1
  <2>1. \A n \in Nat : n <= 1 /\ k \in 1 .. n => k = 1 /\ n = 1
    OBVIOUS
  <2> QED
    BY <1>1, <1>2, <1>3, <2>1
<1>5. trains[b] # <<>> /\ Head(trains[b]).who = h
  BY <1>1, <1>2, <1>4, EmptySeq
<1>6. Without(trains[b], h) = <<>>
  BY <1>1, <1>5, WithoutOne
<1> QED
  BY <1>5, <1>6, OneBlockMoves

(***************************************************************************)
(* The only status of a block is its holder.                               *)
(***************************************************************************)
LEMMA OnlyStatusHolds ==
  ASSUME Occupancy, NEW b \in Block, Len(trains[b]) = 1
  PROVE  /\ Holds(b, Head(trains[b]).who)
         /\ Head(trains[b]).who \in Who
<1>1. trains[b] \in Seq(StatusType) /\ DOMAIN trains[b] = 1 .. Len(trains[b])
  BY LenProperties DEF Occupancy
<1>2. 1 \in DOMAIN trains[b] /\ trains[b][1] \in StatusType
  BY <1>1, ElementOfSeq
<1> QED
  BY <1>1, <1>2 DEF Holds, StatusType

(***************************************************************************)
(* Turning the status of one block changes no holder.                      *)
(***************************************************************************)
LEMMA ClaimsFlipTrain ==
  ASSUME Occupancy, NEW b \in Block, FlipTrain(b)
  PROVE  UNCHANGED HolderMap
<1> DEFINE s == [trains[b][1] EXCEPT !.dir = Turned(@)]
           list == [trains[b] EXCEPT ![1] = s]
<1>1. trains' = [trains EXCEPT ![b] = list]
  BY DEF FlipTrain
<1>2. Len(trains[b]) = 1 /\ trains[b] \in Seq(StatusType)
  BY DEF FlipTrain, Occupancy
<1>3. trains[b][1] \in StatusType
  BY <1>2, ElementOfSeq
<1>4. s \in StatusType /\ s.who = trains[b][1].who
  BY <1>3 DEF StatusType, Turned, TrainDirection
<1>5. list \in Seq(StatusType) /\ Len(list) = 1 /\ list[1] = s
  BY <1>2, <1>4, ExceptSeq
<1> HIDE DEF list, s
<1>6. trains[b] # <<>> /\ list # <<>>
  BY <1>2, <1>5, OneIsNotEmpty
<1>7. HolderOf(list) = HolderOf(trains[b])
  BY <1>2, <1>4, <1>5, <1>6 DEF HolderOf
<1>8. \A c \in Block : HolderOf(trains'[c]) = HolderOf(trains[c])
  BY <1>1, <1>7 DEF Occupancy
<1> QED
  BY <1>8 DEF HolderMap

(***************************************************************************)
(* The commands of the user on a block are claims of one train, or         *)
(* releases.                                                               *)
(***************************************************************************)
LEMMA ClaimsBlockCommand ==
  ASSUME Occupancy, BlockCommand
  PROVE  ClaimsOrStutter
<1>1. ASSUME NEW b \in Block, NEW t \in Train, AssignTrain(b, t) PROVE Claims!ClaimsNext
  <2> DEFINE s == Status(t, IF forward[t] THEN "TowardsA" ELSE "TowardsB")
             list == Append(<<>>, s)
  <2>1. s \in StatusType /\ s.who = t /\ t \in Who
    BY DEF Status, StatusType, Who, TrainDirection
  <2>2. list # <<>> /\ Head(list).who = t
    BY <2>1, FirstStatus
  <2>3. trains' = [trains EXCEPT ![b] = list] /\ trains[b] = <<>>
    BY <1>1 DEF AssignTrain, Occupancy
  <2> HIDE DEF list
  <2> QED
    BY <2>1, <2>2, <2>3, OneBlockMoves
<1>2. ASSUME NEW b \in Block, RemoveTrain(b) PROVE Claims!ClaimsNext
  <2>1. /\ Len(trains[b]) = 1
        /\ trains' = [trains EXCEPT ![b] = Without(trains[b], Head(trains[b]).who)]
    BY <1>2 DEF RemoveTrain, Occupancy
  <2> QED
    BY <2>1, OnlyStatusHolds, ClaimsRemoval
<1>3. ASSUME NEW b \in Block, FlipTrain(b) PROVE UNCHANGED HolderMap
  BY <1>3, ClaimsFlipTrain
<1>4. ASSUME NEW b \in Block, SetStateFree(b) PROVE UNCHANGED trains
  BY <1>4 DEF SetStateFree
<1> QED
  BY <1>1, <1>2, <1>3, <1>4, StutterOnTrains DEF BlockCommand, ClaimsOrStutter

(***************************************************************************)
(* Turning statuses in place changes no holder.                            *)
(***************************************************************************)
LEMMA ClaimsReverseTrain ==
  ASSUME Occupancy, NEW t \in Train, ReverseTrain(t)
  PROVE  UNCHANGED HolderMap
<1> DEFINE turned(b) == [i \in DOMAIN trains[b] |->
                           IF trains[b][i].who = t /\ TimesListed(t, b) % 2 = 1
                             THEN [trains[b][i] EXCEPT !.dir = Turned(@)]
                             ELSE trains[b][i]]
<1>1. trains' = [b \in Block |-> turned(b)]
  BY DEF ReverseTrain
<1>2. ASSUME NEW b \in Block PROVE HolderOf(turned(b)) = HolderOf(trains[b])
  <2>1. trains[b] \in Seq(StatusType) /\ Len(trains[b]) <= 1
    BY DEF Occupancy, Tells
  <2>2. Len(trains[b]) \in Nat /\ DOMAIN trains[b] = 1 .. Len(trains[b])
    BY <2>1, LenProperties
  <2>3. CASE trains[b] = <<>>
    <3>1. DOMAIN trains[b] = {}
      BY <2>3
    <3>2. turned(b) = <<>>
      BY <3>1
    <3> HIDE DEF turned
    <3> QED
      BY <2>3, <3>2
  <2>4. CASE trains[b] # <<>>
    <3>1. Len(trains[b]) = 1 /\ trains[b][1] \in StatusType
      BY <2>1, <2>4, OnlyStatus
    <3>2. DOMAIN trains[b] = {1}
      BY <2>2, <3>1
    <3>3. turned(b)[1].who = trains[b][1].who
      BY <3>1, <3>2 DEF StatusType
    <3>4. DOMAIN turned(b) = {1} /\ turned(b) # <<>>
      BY <3>2
    <3>5. Head(turned(b)) = turned(b)[1] /\ Head(trains[b]) = trains[b][1]
      OBVIOUS
    <3> HIDE DEF turned
    <3> QED
      BY <2>4, <3>3, <3>4, <3>5 DEF HolderOf
  <2> QED
    BY <2>3, <2>4
<1> HIDE DEF turned
<1> QED
  BY <1>1, <1>2 DEF HolderMap

(***************************************************************************)
(* A reservation claims at most the block the path leads to: the other one *)
(* has the train.                                                          *)
(***************************************************************************)
LEMMA ReserveGains ==
  ASSUME Occupancy, NEW p \in Path, ReservePath(p)
  PROVE  \E t \in Train, gained \in SUBSET {PathInfo[p].to} :
           /\ \A b \in gained : HolderOf(trains[b]) = Nobody /\ HolderOf(trains'[b]) = t
           /\ \A b \in Block \ gained : HolderOf(trains'[b]) = HolderOf(trains[b])
<1> DEFINE info == PathInfo[p]
           end(b) == IF b = info.from THEN info.fromSide ELSE info.toSide
           t == EndStatus(info.from, info.fromSide).who
           gained == IF state[info.to] = "Free" THEN {info.to} ELSE {}
<1>1. /\ t \in Train
      /\ trains[info.from] # <<>>
      /\ trains' = [b \in Block |-> IF b \in {info.from, info.to}
                                      THEN ReservedBy(b, end(b), t) ELSE trains[b]]
  BY DEF ReservePath
<1>2. info \in PathType
  BY PathAssumption
<1>3. info.from \in Block /\ info.to \in Block
  BY <1>2 DEF PathType
<1>4. state[info.from] # "Free"
  BY <1>1, <1>3 DEF Occupancy, Tells
<1> HIDE DEF t, info
<1>5. ASSUME NEW b \in gained
      PROVE  HolderOf(trains[b]) = Nobody /\ HolderOf(trains'[b]) = t
  <2>1. b = info.to /\ state[b] = "Free"
    OBVIOUS
  <2>2. trains[b] = <<>>
    BY <1>3, <2>1 DEF Occupancy, Tells
  <2>3. trains'[b] = Append(<<>>, Status(t, AwayFrom(end(b))))
    BY <1>1, <1>3, <2>1, <2>2 DEF ReservedBy
  <2>4. Status(t, AwayFrom(end(b))) \in StatusType /\ Status(t, AwayFrom(end(b))).who = t
    BY <1>1 DEF Status, StatusType, Who, AwayFrom, TrainDirection
  <2>5. trains'[b] # <<>> /\ Head(trains'[b]).who = t
    BY <2>3, <2>4, FirstStatus
  <2> QED
    BY <2>2, <2>5 DEF HolderOf
<1>6. ASSUME NEW b \in Block \ gained
      PROVE  HolderOf(trains'[b]) = HolderOf(trains[b])
  <2>1. trains'[b] = trains[b]
    BY <1>1, <1>4 DEF ReservedBy
  <2> QED
    BY <2>1
<1>7. gained \in SUBSET {info.to}
  OBVIOUS
<1> HIDE DEF gained
<1> QED
  BY <1>1, <1>5, <1>6, <1>7 DEF info

(***************************************************************************)
(* Which is a claim of that train.                                         *)
(***************************************************************************)
LEMMA ClaimsReservePath ==
  ASSUME Occupancy, NEW p \in Path, ReservePath(p)
  PROVE  Claims!ClaimsNext
<1>1. PICK t \in Train, gained \in SUBSET {PathInfo[p].to} :
        /\ \A b \in gained : HolderOf(trains[b]) = Nobody /\ HolderOf(trains'[b]) = t
        /\ \A b \in Block \ gained : HolderOf(trains'[b]) = HolderOf(trains[b])
  BY ReserveGains
<1>2. gained \in SUBSET Block /\ t \in Who
  BY PathElements DEF Who
<1>3. Moves(t, gained)
  BY <1>1 DEF Moves
<1> QED
  BY <1>2, <1>3, MoveOfHolder

(***************************************************************************)
(* Every operation of the classes is a step of TrackClaims or a stutter.   *)
(***************************************************************************)
LEMMA ClaimsStep == Occupancy /\ [ApiNext]_vars => [Claims!ClaimsNext]_HolderMap
<1> SUFFICES ASSUME Occupancy, [ApiNext]_vars PROVE ClaimsOrStutter
  BY DEF ClaimsOrStutter
<1>1. CASE SensorChange
  <2> SUFFICES ASSUME NEW b \in Block, NEW i \in 1 .. NumSensors[b],
                      \/ TrainArrives(b, i)
                      \/ UnexplainedOccupation(b, i)
                      \/ TrainLeaves(b, i)
                      \/ \E v \in SensorState : SensorClears(b, i, v)
               PROVE  ClaimsOrStutter
    BY <1>1 DEF SensorChange
  <2>1. CASE TrainArrives(b, i)
    BY <2>1, ClaimsTrainArrives DEF ClaimsOrStutter
  <2>2. CASE UnexplainedOccupation(b, i)
    BY <2>2, StutterOnTrains DEF UnexplainedOccupation
  <2>3. CASE TrainLeaves(b, i)
    <3>1. /\ Len(trains[b]) = 1
          /\ trains' = [trains EXCEPT ![b] = Without(trains[b], Head(trains[b]).who)]
      BY <2>3 DEF TrainLeaves, TailGone, Occupancy
    <3> QED
      BY <3>1, OnlyStatusHolds, ClaimsRemoval DEF ClaimsOrStutter
  <2>4. ASSUME NEW v \in SensorState, SensorClears(b, i, v) PROVE ClaimsOrStutter
    BY <2>4, StutterOnTrains DEF SensorClears
  <2> QED
    BY <2>1, <2>2, <2>3, <2>4
<1>2. CASE BlockCommand
  BY <1>2, ClaimsBlockCommand
<1>3. CASE Identification
  <2>1. ASSUME NEW b \in Block, NEW tag \in Tag, NEW d \in TrainDirection,
               IdentificationPresent(b, tag, d)
        PROVE  Claims!ClaimsNext
    <3> DEFINE list == Append(<<>>, Status(tag, d))
    <3>1. Status(tag, d) \in StatusType /\ Status(tag, d).who = tag /\ tag \in Who
      BY DEF Status, StatusType, Who
    <3>2. list # <<>> /\ Head(list).who = tag
      BY <3>1, FirstStatus
    <3>3. trains' = [trains EXCEPT ![b] = list] /\ trains[b] = <<>>
      BY <2>1 DEF IdentificationPresent, Occupancy
    <3> HIDE DEF list
    <3> QED
      BY <3>1, <3>2, <3>3, OneBlockMoves
  <2>2. ASSUME NEW b \in Block, NEW tag \in Tag, IdentificationAbsent(b, tag)
        PROVE  Claims!ClaimsNext
    <3>1. tag \in Who /\ Holds(b, tag) /\ trains' = [trains EXCEPT ![b] = Without(trains[b], tag)]
      BY <2>2 DEF IdentificationAbsent, Occupancy, Who
    <3> QED
      BY <3>1, ClaimsRemoval
  <2> QED
    BY <1>3, <2>1, <2>2 DEF Identification, ClaimsOrStutter
<1>4. CASE TrainCommand
  <2>1. ASSUME NEW t \in Train, StartOrStop(t) PROVE UNCHANGED trains
    BY <2>1 DEF StartOrStop, blockVars
  <2> QED
    BY <1>4, <2>1, ClaimsReverseTrain, StutterOnTrains DEF TrainCommand, ClaimsOrStutter
<1>5. CASE FieldCommand
  BY <1>5, StutterOnTrains DEF FieldCommand, SetPosition, SetControl, blockVars
<1>6. ASSUME NEW p \in Path, ReservePath(p) \/ ReleasePath(p) PROVE ClaimsOrStutter
  BY <1>6, ClaimsReservePath, StutterOnTrains DEF ReleasePath, blockVars, ClaimsOrStutter
<1>7. CASE Reload
  BY <1>7, StutterOnTrains DEF Reload
<1>8. CASE UNCHANGED vars
  BY <1>8, StutterOnTrains DEF vars, blockVars
<1> QED
  BY <1>1, <1>2, <1>3, <1>4, <1>5, <1>6, <1>7, <1>8
  DEF ApiNext, Next, SessionNext, RoutesNext

(***************************************************************************)
(* The block administration keeps its promise: whatever the layout and the *)
(* order of events, every step claims at most one empty block for one      *)
(* holder and lets go only that holder's blocks.                           *)
(***************************************************************************)
THEOREM InterlockingImplementsClaims == ApiSpec => ImplementsClaims
<1>1. Init => Claims!ClaimsInit
  BY DEF Init, Claims!ClaimsInit, HolderMap, HolderOf
<1> QED
  BY <1>1, ClaimsStep, OccupancyAlways, PTL DEF ApiSpec, ImplementsClaims, Claims!ClaimsSpec

-----------------------------------------------------------------------------
(***************************************************************************)
(* What a reservation of a block path gives, for every board: as long as   *)
(* no script operates a direction control from within the events of a      *)
(* reservation, it is complete and no other reservation meets it.          *)
(***************************************************************************)


(***************************************************************************)
(* The two properties are inductive together.  A new path is kept off the  *)
(* elements of the granted ones because these are complete, and releasing  *)
(* one takes nothing from another because they are disjoint.               *)
(***************************************************************************)
Reservations ==
  /\ RouteTypeOK
  /\ FieldTypeOK
  /\ ReservedCompletely
  /\ GrantedPathsDisjoint

\* What a granted path has, of the three kinds of elements.
Complete(p) ==
  /\ reservedPaths[PathInfo[p].to][PathInfo[p].toSide] = p
  /\ \A x \in PathInfo[p].crossings : crossState[x[1]] = x[2]
  /\ \A x \in PathInfo[p].bridges : x[2] \in bridgeHeld[x[1]]

Apart(p, q) ==
  /\ Ends(p) \cap Ends(q) = {}
  /\ \A x \in PathInfo[p].crossings, y \in PathInfo[q].crossings : x[1] # y[1]
  /\ PathInfo[p].bridges \cap PathInfo[q].bridges = {}

(***************************************************************************)
(* The two properties of the runs, path by path.                           *)
(***************************************************************************)
LEMMA Reformulated ==
  /\ ReservedCompletely <=> \A p \in Granted : Complete(p)
  /\ GrantedPathsDisjoint <=> \A p, q \in Granted : p # q => Apart(p, q)
BY DEF ReservedCompletely, GrantedPathsDisjoint, Complete, Apart

(***************************************************************************)
(* Nothing is reserved on a new board.                                     *)
(***************************************************************************)
LEMMA ReservationsInit == Init => Reservations
<1> SUFFICES ASSUME Init PROVE Reservations
  OBVIOUS
<1>1. Granted = {}
  BY PathAssumption, PathElements DEF Init, Granted
<1>2. ReservedCompletely /\ GrantedPathsDisjoint
  BY <1>1 DEF ReservedCompletely, GrantedPathsDisjoint
<1>3. RouteTypeOK /\ FieldTypeOK
  BY DEF Init, RouteTypeOK, FieldTypeOK, ControlState
<1> QED
  BY <1>2, <1>3 DEF Reservations

(***************************************************************************)
(* What BlockPath::reserve does to the sides of the blocks: it reserves    *)
(* the two ends of the path, which were not reserved.                      *)
(***************************************************************************)
LEMMA ReservedSides ==
  ASSUME RouteTypeOK, NEW p \in Path, ReservePath(p)
  PROVE  /\ \A b \in Block, s \in Side :
              reservedPaths'[b][s] = IF <<b, s>> \in Ends(p) THEN p ELSE reservedPaths[b][s]
         /\ \A e \in Ends(p) : reservedPaths[e[1]][e[2]] = NoPath
<1> DEFINE info == PathInfo[p]
<1>1. CanReserve(p, EndStatus(info.from, info.fromSide).who)
  BY DEF ReservePath
<1>2. reservedPaths' = [reservedPaths EXCEPT ![info.from][info.fromSide] = p,
                                             ![info.to][info.toSide] = p]
  BY DEF ReservePath
<1>3. \A b \in Block, s \in Side :
        reservedPaths'[b][s] = IF <<b, s>> \in Ends(p) THEN p ELSE reservedPaths[b][s]
  BY <1>2, PathElements DEF Ends, RouteTypeOK
<1>4. \A e \in Ends(p) : reservedPaths[e[1]][e[2]] = NoPath
  BY <1>1 DEF CanReserve, SideReservable, Ends
<1> QED
  BY <1>3, <1>4

(***************************************************************************)
(* What BlockPath::reserve does once its dry run has passed, when no       *)
(* script interferes: it gets to its end.                                  *)
(***************************************************************************)
LEMMA ReserveEffect ==
  ASSUME ScriptedControl = {}, Reservations, NEW p \in Path, ReservePath(p)
  PROVE  /\ \A b \in Block, s \in Side :
              reservedPaths'[b][s] = IF <<b, s>> \in Ends(p) THEN p ELSE reservedPaths[b][s]
         /\ \A e \in Ends(p) : reservedPaths[e[1]][e[2]] = NoPath
         /\ \A x \in PathInfo[p].crossings : crossState[x[1]] = "Unset" /\ crossState'[x[1]] = x[2]
         /\ \A c \in Crossing : crossState[c] # "Unset" => crossState'[c] = crossState[c]
         /\ \A x \in PathInfo[p].bridges : x[2] \notin bridgeHeld[x[1]] /\ x[2] \in bridgeHeld'[x[1]]
         /\ \A g \in Bridge : bridgeHeld[g] \subseteq bridgeHeld'[g]
<1> DEFINE info == PathInfo[p]
<1>1. CanReserve(p, EndStatus(info.from, info.fromSide).who)
  BY DEF ReservePath
<1>2. control' = control
  <2>1. control' \in ScriptOutcome(p)
    BY DEF ReservePath
  <2>2. control \in [DirectionControl -> ControlState]
    BY DEF Reservations, FieldTypeOK
  <2> QED
    BY <2>1, <2>2 DEF ScriptOutcome
<1>3. \A x \in info.controls : control'[x[1]] \in {x[2], "Both"}
  BY <1>1, <1>2 DEF CanReserve
<1>4. crossState' = [c \in Crossing |-> IF \E k \in Track : <<c, k>> \in info.crossings
                                          THEN CHOOSE k \in Track : <<c, k>> \in info.crossings
                                          ELSE crossState[c]]
  BY <1>3 DEF ReservePath
<1>5. bridgeHeld' = [g \in Bridge |-> bridgeHeld[g] \cup {k \in Track : <<g, k>> \in info.bridges}]
  BY <1>3 DEF ReservePath
<1>6. /\ \A b \in Block, s \in Side :
           reservedPaths'[b][s] = IF <<b, s>> \in Ends(p) THEN p ELSE reservedPaths[b][s]
      /\ \A e \in Ends(p) : reservedPaths[e[1]][e[2]] = NoPath
  BY ReservedSides DEF Reservations
<1>7. \A x \in info.crossings : crossState[x[1]] = "Unset"
  BY <1>1 DEF CanReserve
<1>8. ASSUME NEW x \in info.crossings PROVE crossState'[x[1]] = x[2]
  <2>1. x = <<x[1], x[2]>> /\ x[1] \in Crossing /\ x[2] \in Track
    BY PathElements
  <2>2. \A k \in Track : <<x[1], k>> \in info.crossings => k = x[2]
    BY <2>1, PathAssumption
  <2>3. crossState'[x[1]] = CHOOSE k \in Track : <<x[1], k>> \in info.crossings
    BY <1>4, <2>1
  <2> QED
    BY <2>1, <2>2, <2>3
<1>9. ASSUME NEW c \in Crossing, crossState[c] # "Unset" PROVE crossState'[c] = crossState[c]
  <2>1. ~ \E k \in Track : <<c, k>> \in info.crossings
    BY <1>7, <1>9
  <2> QED
    BY <1>4, <2>1
<1>10. \A x \in info.bridges : x[2] \notin bridgeHeld[x[1]]
  BY <1>1 DEF CanReserve
<1>11. \A x \in info.bridges : x[2] \in bridgeHeld'[x[1]]
  BY <1>5, PathElements
<1>12. \A g \in Bridge : bridgeHeld[g] \subseteq bridgeHeld'[g]
  BY <1>5
<1> HIDE DEF info
<1> QED
  BY <1>6, <1>7, <1>8, <1>9, <1>10, <1>11, <1>12 DEF info

(***************************************************************************)
(* BlockPath::reserve: the new path is complete, and meets no path         *)
(* reserved before.                                                        *)
(***************************************************************************)
LEMMA ReservationsReserve ==
  ASSUME ScriptedControl = {}, Reservations, NEW p \in Path, ReservePath(p)
  PROVE  ReservedCompletely' /\ GrantedPathsDisjoint'
<1>1. /\ \A q \in Granted : Complete(q)
      /\ \A q, r \in Granted : q # r => Apart(q, r)
  BY Reformulated DEF Reservations
<1>2. \A q \in Granted : \A e \in Ends(q) : reservedPaths[e[1]][e[2]] = q
  BY <1>1 DEF Granted, Complete, Ends
<1>3. \A q \in Granted : q \in Path /\ q # NoPath
  BY PathAssumption DEF Granted
<1>4. \A q \in Granted : Ends(q) \cap Ends(p) = {}
  BY <1>2, <1>3, ReserveEffect
<1>5. ASSUME NEW q \in Granted' PROVE q \in Granted \/ q = p
  <2>1. q \in Path /\ reservedPaths'[PathInfo[q].from][PathInfo[q].fromSide] = q
    BY DEF Granted
  <2>2. PathInfo[q].from \in Block /\ PathInfo[q].fromSide \in Side
    BY <2>1, PathElements
  <2>3. \/ reservedPaths'[PathInfo[q].from][PathInfo[q].fromSide] = p
        \/ reservedPaths'[PathInfo[q].from][PathInfo[q].fromSide]
             = reservedPaths[PathInfo[q].from][PathInfo[q].fromSide]
    BY <2>2, ReserveEffect
  <2> QED
    BY <2>1, <2>3 DEF Granted
<1>6. ASSUME NEW q \in Granted PROVE Complete(q)' /\ Apart(q, p) /\ Apart(p, q)
  <2>1. Complete(q) /\ q \in Path
    BY <1>1, <1>3
  <2>2. reservedPaths'[PathInfo[q].to][PathInfo[q].toSide] = q
    <3>1. <<PathInfo[q].to, PathInfo[q].toSide>> \notin Ends(p)
      BY <1>4 DEF Ends
    <3> QED
      BY <2>1, <3>1, ReserveEffect, PathElements DEF Complete
  <2>3. ASSUME NEW x \in PathInfo[q].crossings
        PROVE  crossState[x[1]] # "Unset" /\ crossState'[x[1]] = x[2]
    <3>1. crossState[x[1]] = x[2] /\ x[1] \in Crossing /\ x[2] # "Unset"
      BY <2>1, PathElements DEF Complete, Track
    <3> QED
      BY <3>1, ReserveEffect
  <2>4. \A x \in PathInfo[q].bridges : x[2] \in bridgeHeld[x[1]] /\ x[2] \in bridgeHeld'[x[1]]
    BY <2>1, ReserveEffect, PathElements DEF Complete
  <2>5. \A x \in PathInfo[q].crossings, y \in PathInfo[p].crossings : x[1] # y[1]
    BY <2>3, ReserveEffect
  <2>6. PathInfo[q].bridges \cap PathInfo[p].bridges = {}
    BY <2>4, ReserveEffect
  <2>7. Complete(q)'
    BY <2>2, <2>3, <2>4 DEF Complete
  <2> QED
    BY <1>4, <2>5, <2>6, <2>7 DEF Apart
<1>7. Complete(p)'
  <2>1. reservedPaths'[PathInfo[p].to][PathInfo[p].toSide] = p
    BY ReserveEffect, PathElements DEF Ends
  <2> QED
    BY <2>1, ReserveEffect DEF Complete
<1>8. ReservedCompletely'
  <2>1. \A q \in Granted' : Complete(q)'
    BY <1>5, <1>6, <1>7
  <2> QED
    BY <2>1 DEF Complete, ReservedCompletely
<1>9. GrantedPathsDisjoint'
  <2>1. \A q, r \in Granted' : q # r => Apart(q, r)
    BY <1>1, <1>5, <1>6
  <2> QED
    BY <2>1 DEF Apart, Ends, GrantedPathsDisjoint
<1> QED
  BY <1>8, <1>9

(***************************************************************************)
(* BlockPath::release takes away what its path alone has reserved.         *)
(***************************************************************************)
LEMMA ReservationsRelease ==
  ASSUME Reservations, NEW p \in Path, ReleasePath(p)
  PROVE  ReservedCompletely' /\ GrantedPathsDisjoint'
<1>1. /\ \A q \in Granted : Complete(q)
      /\ \A q, r \in Granted : q # r => Apart(q, r)
  BY Reformulated DEF Reservations
<1>2. \A b \in Block, s \in Side :
        reservedPaths'[b][s] = IF <<b, s>> \in Ends(p) THEN NoPath ELSE reservedPaths[b][s]
  BY PathElements DEF ReleasePath, Ends, Reservations, RouteTypeOK
<1>3. p \in Granted
  BY DEF ReleasePath, Granted
<1>4. ASSUME NEW q \in Granted' PROVE q \in Granted /\ q # p
  <2>1. q \in Path /\ q # NoPath /\ reservedPaths'[PathInfo[q].from][PathInfo[q].fromSide] = q
    BY <1>4, PathAssumption DEF Granted
  <2>2. <<PathInfo[q].from, PathInfo[q].fromSide>> \notin Ends(p)
    BY <1>2, <2>1, PathElements
  <2> QED
    BY <1>2, <2>1, <2>2, PathElements DEF Granted, Ends
<1>5. ASSUME NEW q \in Granted' PROVE Complete(q)'
  <2>1. Complete(q) /\ Apart(q, p) /\ q \in Path
    BY <1>1, <1>3, <1>4 DEF Granted
  <2>2. reservedPaths'[PathInfo[q].to][PathInfo[q].toSide] = q
    <3>1. <<PathInfo[q].to, PathInfo[q].toSide>> \notin Ends(p)
      BY <2>1 DEF Apart, Ends
    <3> QED
      BY <1>2, <2>1, <3>1, PathElements DEF Complete
  <2>3. \A x \in PathInfo[q].crossings : crossState'[x[1]] = x[2]
    BY <2>1 DEF Complete, ReleasePath
  <2>4. ASSUME NEW x \in PathInfo[q].bridges PROVE x[2] \in bridgeHeld'[x[1]]
    <3>1. x = <<x[1], x[2]>> /\ x[1] \in Bridge /\ x \notin PathInfo[p].bridges
      BY <2>1, PathElements DEF Apart
    <3>2. x[2] \in bridgeHeld[x[1]]
      BY <2>1 DEF Complete
    <3>3. bridgeHeld'[x[1]] = bridgeHeld[x[1]] \ {k \in Track : <<x[1], k>> \in PathInfo[p].bridges}
      BY <3>1 DEF ReleasePath
    <3> QED
      BY <3>1, <3>2, <3>3
  <2> QED
    BY <2>2, <2>3, <2>4 DEF Complete
<1>6. ReservedCompletely'
  BY <1>5 DEF Complete, ReservedCompletely
<1>7. GrantedPathsDisjoint'
  <2>1. \A q, r \in Granted' : q # r => Apart(q, r)
    BY <1>1, <1>4
  <2> QED
    BY <2>1 DEF Apart, Ends, GrantedPathsDisjoint
<1> QED
  BY <1>6, <1>7

(***************************************************************************)
(* Every operation of the classes keeps the invariant.                     *)
(***************************************************************************)
LEMMA ReservationsStep ==
  ASSUME ScriptedControl = {}
  PROVE  Reservations /\ FieldTypeOK' /\ RouteTypeOK' /\ [ApiNext]_vars => Reservations'
<1> SUFFICES ASSUME Reservations, FieldTypeOK', RouteTypeOK', [ApiNext]_vars
             PROVE  ReservedCompletely' /\ GrantedPathsDisjoint'
  BY DEF Reservations
<1>1. CASE UNCHANGED routeVars
  BY <1>1 DEF routeVars, Reservations, ReservedCompletely, GrantedPathsDisjoint, Granted, Ends
<1>2. CASE FieldCommand
  BY <1>1, <1>2 DEF FieldCommand, SetPosition, SetControl
<1>3. ASSUME NEW p \in Path, ReservePath(p) PROVE ReservedCompletely' /\ GrantedPathsDisjoint'
  BY <1>3, ReservationsReserve
<1>4. ASSUME NEW p \in Path, ReleasePath(p) PROVE ReservedCompletely' /\ GrantedPathsDisjoint'
  BY <1>4, ReservationsRelease
<1>5. CASE Reload
  <2>1. Granted' = {}
    BY <1>5, PathAssumption, PathElements DEF Reload, Granted
  <2> QED
    BY <2>1 DEF ReservedCompletely, GrantedPathsDisjoint
<1> QED
  BY <1>1, <1>2, <1>3, <1>4, <1>5, OthersLeaveRoutes

(***************************************************************************)
(* Without scripts on direction controls a reservation is all or nothing:  *)
(* the dry run of BlockPath::reserve vouches for the real run, whatever    *)
(* else happens and in whatever order paths are reserved and released.     *)
(***************************************************************************)
THEOREM ReservationsAreComplete ==
  ASSUME ScriptedControl = {}
  PROVE  ApiSpec => []ReservedCompletely
<1>1. Reservations /\ BlockTypeOK' /\ [ApiNext]_vars => Reservations'
  BY ReservationsStep DEF BlockTypeOK
<1>2. Reservations => ReservedCompletely
  BY DEF Reservations
<1> QED
  BY <1>1, <1>2, ReservationsInit, BlockTypesAreKept, PTL DEF ApiSpec

(***************************************************************************)
(* And no two reserved paths share a block side, a crossing or a track of  *)
(* a bridge.                                                               *)
(***************************************************************************)
THEOREM ReservationsAreDisjoint ==
  ASSUME ScriptedControl = {}
  PROVE  ApiSpec => []GrantedPathsDisjoint
<1>1. Reservations /\ BlockTypeOK' /\ [ApiNext]_vars => Reservations'
  BY ReservationsStep DEF BlockTypeOK
<1>2. Reservations => GrantedPathsDisjoint
  BY DEF Reservations
<1> QED
  BY <1>1, <1>2, ReservationsInit, BlockTypesAreKept, PTL DEF ApiSpec

=============================================================================
