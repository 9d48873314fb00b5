---------------------------- MODULE TrainControl ----------------------------
(***************************************************************************)
(* How a train commands the decoders of its vehicles: throttle speed, the  *)
(* speed timer, emergency stop, activation, and the vehicle list.  Every   *)
(* handler runs to its end on the event loop and is one action.            *)
(*                                                                         *)
(* Speeds are whole levels; setSpeed() gives every powered vehicle the     *)
(* level of its train (no speed profile).  Direction is in Interlocking.   *)
(***************************************************************************)
EXTENDS Integers, FiniteSets

CONSTANTS
  Train,         \* trains
  Vehicle,       \* rail vehicles
  Powered,       \* the powered ones among them, each with a decoder of its own
  NoTrain,       \* the active train of a vehicle that is free
  MaxSpeed,      \* the highest speed level
  Acceleration,  \* levels per 100 ms when accelerating
  Braking        \* levels per 100 ms when braking

ASSUME TrainControlAssumption ==
  /\ Powered \subseteq Vehicle
  /\ NoTrain \notin Train
  /\ MaxSpeed \in Nat /\ Acceleration \in Nat \ {0} /\ Braking \in Nat \ {0}

VARIABLES
  train,        \* train[t]: the properties of a train, see TrainType
  vehicles,     \* vehicles[t]: Train::vehicles, as a set
  activeTrain,  \* activeTrain[v]: RailVehicle::activeTrain
  decoder,      \* decoder[v]: throttle and emergencyStop of a powered vehicle's decoder
  recomposed    \* history: vehicles added to, or removed from, a train while it was active

vars == <<train, vehicles, activeTrain, decoder, recomposed>>

SpeedState == {"Idle", "Accelerate", "Braking"}
Speed == 0 .. MaxSpeed

TrainType ==
  [throttleSpeed : Speed, speed : Speed, speedState : SpeedState,
   isStopped : BOOLEAN, emergencyStop : BOOLEAN, active : BOOLEAN,
   waiting : BOOLEAN,   \* the speed timer is running
   queued : BOOLEAN]    \* its handler is in the queue of the event loop

DecoderType == [throttle : Speed, emergencyStop : BOOLEAN]

NewTrain ==
  [throttleSpeed |-> 0, speed |-> 0, speedState |-> "Idle", isStopped |-> TRUE,
   emergencyStop |-> TRUE, active |-> FALSE, waiting |-> FALSE, queued |-> FALSE]

NewDecoder == [throttle |-> 0, emergencyStop |-> FALSE]

PoweredIn(t) == vehicles[t] \cap Powered

-----------------------------------------------------------------------------
(* Train::updateSpeed, for a train with the properties r *)

SpeedUpdates(r) == r.speedState = "Braking" \/ (r.speedState = "Accelerate" /\ r.active)

NextSpeed(r) ==
  IF r.speedState = "Accelerate" THEN r.speed + Acceleration ELSE r.speed - Braking

Reached(r) ==
  IF r.speedState = "Accelerate" THEN NextSpeed(r) >= r.throttleSpeed
                                 ELSE NextSpeed(r) <= r.throttleSpeed

\* Faulty variant of Updated: the timer is not started for the next step.
UpdatedOnce(r) ==
  IF ~SpeedUpdates(r) THEN r
  ELSE IF Reached(r)
    THEN [r EXCEPT !.speedState = "Idle", !.speed = r.throttleSpeed,
                   !.isStopped = r.throttleSpeed = 0]
    ELSE [r EXCEPT !.speed = NextSpeed(r), !.isStopped = FALSE]

\* Faulty variant of Updated: the last step is not cut off at the throttle speed.
UpdatedPast(r) ==
  IF ~SpeedUpdates(r) THEN r
  ELSE IF Reached(r)
    THEN [r EXCEPT !.speedState = "Idle", !.speed = NextSpeed(r),
                   !.isStopped = r.throttleSpeed = 0]
    ELSE [r EXCEPT !.speed = NextSpeed(r), !.waiting = TRUE, !.isStopped = FALSE]

Updated(r) ==
  IF ~SpeedUpdates(r) THEN r
  ELSE IF Reached(r)
    THEN [r EXCEPT !.speedState = "Idle", !.speed = r.throttleSpeed,
                   !.isStopped = r.throttleSpeed = 0]
    ELSE [r EXCEPT !.speed = NextSpeed(r), !.waiting = TRUE, !.isStopped = FALSE]

\* Faulty variant of UpdateSpeed: the decoders get the speed from before the step.
UpdateSpeedLate(t, r, decoders) ==
  /\ train' = [train EXCEPT ![t] = Updated(r)]
  /\ decoder' = [v \in Powered |-> IF SpeedUpdates(r) /\ v \in vehicles[t]
                                     THEN [decoders[v] EXCEPT !.throttle = r.speed]
                                     ELSE decoders[v]]

\* Train t, with properties r and decoders as given so far, updates its speed.
UpdateSpeed(t, r, decoders) ==
  /\ train' = [train EXCEPT ![t] = Updated(r)]
  /\ decoder' = [v \in Powered |-> IF SpeedUpdates(r) /\ v \in vehicles[t]
                                     THEN [decoders[v] EXCEPT !.throttle = Updated(r).speed]
                                     ELSE decoders[v]]

-----------------------------------------------------------------------------
(* Properties of a train that a user, a script or a client sets *)

\* Faulty variant of Released: the emergency stop stays, the speed is set.
StillStopped(r, value) == [r EXCEPT !.throttleSpeed = value]

\* A new throttle speed ends the emergency stop, of the train and not of its vehicles.
Released(r, value) == [r EXCEPT !.throttleSpeed = value, !.emergencyStop = FALSE]

(***************************************************************************)
(* Train::throttleSpeed.  Its maximum is zero for a train without powered  *)
(* vehicles.  Cancelling the timer leaves a handler that is in the queue.  *)
(***************************************************************************)
SetThrottleSpeed(t, value) ==
  LET r == Released(train[t], value)
      wanted == IF value > r.speed THEN "Accelerate" ELSE "Braking"
  IN  /\ value # train[t].throttleSpeed
      /\ value > 0 => PoweredIn(t) # {}
      /\ IF value = r.speed \/ r.speedState = wanted
           THEN train' = [train EXCEPT ![t] = r] /\ UNCHANGED decoder
           ELSE UpdateSpeed(t, [r EXCEPT !.speedState = wanted, !.waiting = FALSE], decoder)
      /\ UNCHANGED <<vehicles, activeTrain, recomposed>>

\* Faulty variant of Halted: the speed is not reset with the throttle.
HaltedThrottle(r) ==
  [r EXCEPT !.emergencyStop = TRUE, !.speedState = "Idle", !.waiting = FALSE,
            !.throttleSpeed = 0, !.isStopped = TRUE]

Halted(r) ==
  [r EXCEPT !.emergencyStop = TRUE, !.speedState = "Idle", !.waiting = FALSE,
            !.throttleSpeed = 0, !.speed = 0, !.isStopped = TRUE]

\* Train::emergencyStop.  The decoders keep their throttle, they are told to stop.
SetEmergencyStop(t, value) ==
  /\ value # train[t].emergencyStop
  /\ train' = [train EXCEPT ![t] = IF value THEN Halted(@) ELSE [@ EXCEPT !.emergencyStop = FALSE]]
  /\ decoder' = [v \in Powered |-> IF train[t].active /\ v \in vehicles[t]
                                     THEN [decoder[v] EXCEPT !.emergencyStop = value]
                                     ELSE decoder[v]]
  /\ UNCHANGED <<vehicles, activeTrain, recomposed>>

\* Faulty variant of CanActivate: the vehicles may be active in another train.
CanActivateUsed(t) ==
  /\ vehicles[t] # {}
  /\ \A v \in PoweredIn(t) : decoder[v].throttle = 0

CanActivate(t) ==
  /\ vehicles[t] # {}
  /\ \A v \in vehicles[t] : activeTrain[v] = NoTrain
  /\ \A v \in PoweredIn(t) : decoder[v].throttle = 0

\* Train::active becomes true: setTrainActive, then updateSpeed.
Activate(t) ==
  /\ ~train[t].active
  /\ CanActivate(t)
  /\ activeTrain' = [v \in Vehicle |-> IF v \in vehicles[t] THEN t ELSE activeTrain[v]]
  /\ UpdateSpeed(t, [train[t] EXCEPT !.active = TRUE],
       [v \in Powered |-> IF v \in vehicles[t]
                            THEN [decoder[v] EXCEPT !.emergencyStop = train[t].emergencyStop]
                            ELSE decoder[v]])
  /\ UNCHANGED <<vehicles, recomposed>>

\* Faulty variant of CanDeactivate: also while the train moves.
CanDeactivateMoving(t) == train[t].active

CanDeactivate(t) == train[t].active /\ train[t].isStopped

\* Train::active becomes false.
Deactivate(t) ==
  /\ CanDeactivate(t)
  /\ activeTrain' = [v \in Vehicle |-> IF v \in vehicles[t] THEN NoTrain ELSE activeTrain[v]]
  /\ UpdateSpeed(t, [train[t] EXCEPT !.active = FALSE], decoder)
  /\ UNCHANGED <<vehicles, recomposed>>

-----------------------------------------------------------------------------
(* The speed timer *)

\* 100 ms have passed.  The reactor does not run while a handler is queued.
TimerExpires(t) ==
  /\ train[t].waiting /\ ~train[t].queued
  /\ train' = [train EXCEPT ![t].waiting = FALSE, ![t].queued = TRUE]
  /\ UNCHANGED <<vehicles, activeTrain, decoder, recomposed>>

\* Its handler runs, also when the timer was cancelled or started again meanwhile.
TimerHandler(t) ==
  /\ train[t].queued
  /\ UpdateSpeed(t, [train[t] EXCEPT !.queued = FALSE], decoder)
  /\ UNCHANGED <<vehicles, activeTrain, recomposed>>

-----------------------------------------------------------------------------
(* TrainVehicleList, other users of a decoder, restart *)

\* An active train may be composed too: it need only be stopped (Train::updateEnabled).
Recomposed(t, v) == IF train[t].active THEN recomposed \cup {v} ELSE recomposed

AddVehicle(t, v) ==
  /\ train[t].isStopped
  /\ v \notin vehicles[t]
  /\ vehicles' = [vehicles EXCEPT ![t] = @ \cup {v}]
  /\ recomposed' = Recomposed(t, v)
  /\ UNCHANGED <<train, activeTrain, decoder>>

RemoveVehicle(t, v) ==
  /\ train[t].isStopped
  /\ v \in vehicles[t]
  /\ vehicles' = [vehicles EXCEPT ![t] = @ \ {v}]
  /\ recomposed' = Recomposed(t, v)
  /\ UNCHANGED <<train, activeTrain, decoder>>

\* The decoder is set directly, or by a throttle.
OperateDecoder(v, d) ==
  /\ decoder' = [decoder EXCEPT ![v] = d]
  /\ UNCHANGED <<train, vehicles, activeTrain, recomposed>>

\* Saved and loaded: speed, isStopped and the decoders' values are not stored.
Reload ==
  /\ train' = [t \in Train |-> [train[t] EXCEPT !.speed = 0, !.speedState = "Idle", !.isStopped = TRUE,
                                                !.waiting = FALSE, !.queued = FALSE]]
  /\ decoder' = [v \in Powered |-> NewDecoder]
  /\ UNCHANGED <<vehicles, activeTrain, recomposed>>

-----------------------------------------------------------------------------
Init ==
  /\ train = [t \in Train |-> NewTrain]
  /\ vehicles = [t \in Train |-> {}]
  /\ activeTrain = [v \in Vehicle |-> NoTrain]
  /\ decoder = [v \in Powered |-> NewDecoder]
  /\ recomposed = {}

TimerStep(t) == TimerExpires(t) \/ TimerHandler(t)

Driving(t) ==
  \/ \E value \in Speed : SetThrottleSpeed(t, value)
  \/ \E value \in BOOLEAN : SetEmergencyStop(t, value)
  \/ Activate(t) \/ Deactivate(t)
  \/ TimerStep(t)

Composing(t) == \E v \in Vehicle : AddVehicle(t, v) \/ RemoveVehicle(t, v)

\* Within a session: trains are driven and composed.
DrivingNext == \E t \in Train : Driving(t) \/ Composing(t)

Next == DrivingNext \/ Reload \/ \E v \in Powered, d \in DecoderType : OperateDecoder(v, d)

\* The event loop runs on, and a started timer expires.
Fairness == \A t \in Train : WF_vars(TimerExpires(t)) /\ WF_vars(TimerHandler(t))

DrivingSpec == Init /\ [][DrivingNext]_vars /\ Fairness
Spec == Init /\ [][Next]_vars

-----------------------------------------------------------------------------
(* Properties *)

\* Every variable has its type; a speed never passes the limits.
TypeOK ==
  /\ train \in [Train -> TrainType]
  /\ vehicles \in [Train -> SUBSET Vehicle]
  /\ activeTrain \in [Vehicle -> Train \cup {NoTrain}]
  /\ decoder \in [Powered -> DecoderType]
  /\ recomposed \subseteq Vehicle

(***************************************************************************)
(* Emergency stop holds: a train in emergency stop has no speed and asks   *)
(* for none, whatever timer handler was in the queue when it was stopped.  *)
(***************************************************************************)
EmergencyStopHolds ==
  \A t \in Train : train[t].emergencyStop =>
    train[t].speed = 0 /\ train[t].throttleSpeed = 0 /\ train[t].isStopped

(***************************************************************************)
(* Only an active train moves: it cannot be deactivated, and its vehicles  *)
(* given to another train, before the last step of braking has been made.  *)
(***************************************************************************)
MovingTrainIsActive ==
  \A t \in Train : train[t].isStopped \/ train[t].active

(***************************************************************************)
(* A vehicle is active in exactly the one active train that lists it: no   *)
(* two active trains command it, and no train keeps it when it is not      *)
(* active any more.  The exception are vehicles that were put into, or     *)
(* taken out of, a train that was active: nobody updates activeTrain then. *)
(***************************************************************************)
OneCommander ==
  \A t \in Train, v \in Vehicle \ recomposed :
    activeTrain[v] = t <=> train[t].active /\ v \in vehicles[t]

(***************************************************************************)
(* A moving train has all its powered vehicles at its own speed: no other  *)
(* train sets the decoder of one of them, unless that vehicle was put into *)
(* or taken out of a train that was active.                                *)
(***************************************************************************)
MovingTrainDrivesAll ==
  \A t \in Train : ~train[t].isStopped =>
    \A v \in PoweredIn(t) \ recomposed : decoder[v].throttle = train[t].speed

(***************************************************************************)
(* Within a session a train that is not changing speed has the speed its   *)
(* throttle asks for: no cancelled or stale timer handler ends a change    *)
(* early.                                                                  *)
(***************************************************************************)
IdleMeansReached ==
  \A t \in Train : train[t].speedState = "Idle" => train[t].speed = train[t].throttleSpeed

(***************************************************************************)
(* The speed only moves towards the throttle speed and never past it,      *)
(* except that an emergency stop takes it to zero.                         *)
(***************************************************************************)
SpeedFollowsThrottle ==
  [][\A t \in Train :
       LET r == train[t]  s == train'[t]
       IN  \/ s.emergencyStop /\ s.speed = 0
           \/ r.speed <= s.speed /\ s.speed <= s.throttleSpeed
           \/ s.throttleSpeed <= s.speed /\ s.speed <= r.speed
           \/ s.speed = r.speed]_vars

(***************************************************************************)
(* Once nobody changes its throttle speed, an active train gets to the     *)
(* speed asked for: the chain of timer handlers never breaks.              *)
(***************************************************************************)
SpeedSettles ==
  \A t \in Train :
    <>[][train'[t].throttleSpeed = train[t].throttleSpeed]_vars
      => []<>(train[t].speedState = "Idle" \/ ~train[t].active)
=============================================================================
