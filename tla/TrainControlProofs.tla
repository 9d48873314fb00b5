------------------------- MODULE TrainControlProofs -------------------------
(***************************************************************************)
(* Theorems about TrainControl, for every number of trains and vehicles    *)
(* and all speeds, accelerations and brakings.                             *)
(*                                                                         *)
(* Inv is inductive: the types, what each train keeps true of itself       *)
(* (Sound), and the one relation between trains, OneCommander.             *)
(***************************************************************************)
EXTENDS TrainControl, TLAPS

(***************************************************************************)
(* What the properties r of a train always satisfy.  An emergency stop     *)
(* leaves no change of speed that a late timer handler could go on with,   *)
(* and a stopped train does not brake, so that an inactive train, which is *)
(* stopped, does not begin to move.                                        *)
(***************************************************************************)
Sound(r) ==
  /\ r.emergencyStop => r.speed = 0 /\ r.throttleSpeed = 0 /\ r.isStopped /\ r.speedState = "Idle"
  /\ r.isStopped => r.speed = 0 /\ r.speedState # "Braking"
  /\ r.isStopped \/ r.active

TrainsAreSound == \A t \in Train : Sound(train[t])

Inv == TypeOK /\ TrainsAreSound /\ OneCommander

\* A speed may be zero.
LEMMA ZeroIsSpeed == 0 \in Speed
BY TrainControlAssumption DEF Speed

\* A new decoder has its type.
LEMMA NewDecoderType == NewDecoder \in DecoderType
BY ZeroIsSpeed DEF NewDecoder, DecoderType

(***************************************************************************)
(* Train::updateSpeed.                                                     *)
(***************************************************************************)

\* It keeps the type of a train and its soundness, and does not touch what the user sets.
LEMMA UpdatedIsSound ==
  ASSUME NEW r \in TrainType, Sound(r)
  PROVE  /\ Updated(r) \in TrainType
         /\ Sound(Updated(r))
         /\ Updated(r).throttleSpeed = r.throttleSpeed
         /\ Updated(r).emergencyStop = r.emergencyStop
         /\ Updated(r).active = r.active
<1>1. CASE ~SpeedUpdates(r)
  BY <1>1 DEF Updated
<1>2. CASE SpeedUpdates(r) /\ Reached(r)
  BY <1>2, TrainControlAssumption
  DEF Updated, SpeedUpdates, TrainType, SpeedState, Speed, Sound
<1>3. CASE SpeedUpdates(r) /\ ~Reached(r)
  <2>1. NextSpeed(r) \in Speed
    BY <1>3, TrainControlAssumption
    DEF SpeedUpdates, Reached, NextSpeed, TrainType, SpeedState, Speed
  <2> QED BY <1>3, <2>1 DEF Updated, SpeedUpdates, TrainType, SpeedState, Sound
<1> QED BY <1>1, <1>2, <1>3

\* A train that updates its speed is active: an inactive one is stopped, so it is not braking.
LEMMA OnlyActiveUpdates ==
  ASSUME NEW r \in TrainType, Sound(r), SpeedUpdates(r)
  PROVE  r.active
BY DEF SpeedUpdates, Sound, TrainType

\* As a step of train t it changes no other train, and of the decoders only those of
\* its vehicles, and these only when t is active.
LEMMA UpdateSpeedIsSound ==
  ASSUME Inv, NEW t \in Train, NEW r \in TrainType, Sound(r),
         NEW decoders \in [Powered -> DecoderType], UpdateSpeed(t, r, decoders)
  PROVE  /\ train' \in [Train -> TrainType]
         /\ decoder' \in [Powered -> DecoderType]
         /\ TrainsAreSound'
         /\ train'[t].active = r.active
         /\ \A u \in Train \ {t} : train'[u] = train[u]
<1>1. Updated(r) \in TrainType /\ Sound(Updated(r)) /\ Updated(r).active = r.active
  BY UpdatedIsSound
<1>2. train' = [train EXCEPT ![t] = Updated(r)]
  BY DEF UpdateSpeed
<1>3. \A v \in Powered :
        decoder'[v] = IF SpeedUpdates(r) /\ v \in vehicles[t]
                        THEN [decoders[v] EXCEPT !.throttle = Updated(r).speed]
                        ELSE decoders[v]
  BY DEF UpdateSpeed
<1>4. Updated(r).speed \in Speed
  BY <1>1 DEF TrainType
<1>5. ASSUME NEW v \in Powered
      PROVE  [decoders[v] EXCEPT !.throttle = Updated(r).speed] \in DecoderType
  BY <1>4 DEF DecoderType
<1>6. decoder' \in [Powered -> DecoderType]
  BY <1>5 DEF UpdateSpeed
<1>7. train \in [Train -> TrainType]
  BY DEF Inv, TypeOK
<1>8. TrainsAreSound'
  <2> SUFFICES ASSUME NEW u \in Train
               PROVE  Sound(train'[u])
    BY DEF TrainsAreSound, Sound
  <2> QED BY <1>1, <1>2, <1>7 DEF Inv, TrainsAreSound
<1> QED BY <1>1, <1>2, <1>6, <1>7, <1>8

(***************************************************************************)
(* Each step keeps Inv.                                                    *)
(***************************************************************************)

\* Train::throttleSpeed: braking is only chosen for a train that has a speed.
LEMMA SetThrottleSpeedKeepsInv ==
  ASSUME Inv, NEW t \in Train, NEW value \in Speed, SetThrottleSpeed(t, value)
  PROVE  Inv'
<1> DEFINE r == Released(train[t], value)
           wanted == IF value > r.speed THEN "Accelerate" ELSE "Braking"
           s == [r EXCEPT !.speedState = wanted, !.waiting = FALSE]
<1>1. train[t] \in TrainType /\ Sound(train[t])
  BY DEF Inv, TypeOK, TrainsAreSound
<1>2. r \in TrainType /\ Sound(r) /\ r.active = train[t].active
  BY <1>1 DEF Released, TrainType, Sound
<1>3. CASE value = r.speed \/ r.speedState = wanted
  <2>1. train' = [train EXCEPT ![t] = r] /\ UNCHANGED <<vehicles, activeTrain, decoder, recomposed>>
    BY <1>3 DEF SetThrottleSpeed
  <2> HIDE DEF r
  <2>2. TypeOK'
    BY <1>2, <2>1 DEF Inv, TypeOK
  <2>3. \A u \in Train : Sound(train'[u]) /\ train'[u].active = train[u].active
    BY <1>2, <2>1 DEF Inv, TypeOK, TrainsAreSound
  <2> QED BY <2>1, <2>2, <2>3 DEF Inv, TrainsAreSound, Sound, OneCommander
<1>4. CASE ~(value = r.speed \/ r.speedState = wanted)
  <2>1. UpdateSpeed(t, s, decoder) /\ UNCHANGED <<vehicles, activeTrain, recomposed>>
    BY <1>4 DEF SetThrottleSpeed
  <2>2. s \in TrainType /\ s.active = train[t].active
    BY <1>2 DEF TrainType, SpeedState
  <2>3. Sound(s)
    <3>1. r.isStopped => wanted # "Braking"
      BY <1>2, <1>4 DEF Sound, TrainType, Speed
    <3>2. ~s.emergencyStop
      BY <1>1 DEF Released, TrainType
    <3>3. s.isStopped = r.isStopped /\ s.active = r.active /\ s.speed = r.speed /\ s.speedState = wanted
      BY <1>2 DEF TrainType
    <3> HIDE DEF r, wanted, s
    <3> QED BY <1>2, <3>1, <3>2, <3>3 DEF Sound
  <2> HIDE DEF r, wanted, s
  <2>4. decoder \in [Powered -> DecoderType]
    BY DEF Inv, TypeOK
  <2>5. /\ train' \in [Train -> TrainType] /\ decoder' \in [Powered -> DecoderType]
        /\ TrainsAreSound'
        /\ \A u \in Train : train'[u].active = train[u].active
    BY <2>1, <2>2, <2>3, <2>4, UpdateSpeedIsSound
  <2> QED BY <2>1, <2>5 DEF Inv, TypeOK, OneCommander
<1> QED BY <1>3, <1>4

\* Halting a train, and ending its emergency stop, keep it sound.
LEMMA ToggledIsSound ==
  ASSUME NEW r \in TrainType, Sound(r)
  PROVE  /\ Halted(r) \in TrainType /\ Sound(Halted(r)) /\ Halted(r).active = r.active
         /\ [r EXCEPT !.emergencyStop = FALSE] \in TrainType
         /\ Sound([r EXCEPT !.emergencyStop = FALSE])
         /\ [r EXCEPT !.emergencyStop = FALSE].active = r.active
<1>0. 0 \in Speed
  BY ZeroIsSpeed
<1>1. Halted(r) \in TrainType /\ Sound(Halted(r)) /\ Halted(r).active = r.active
  <2>1. Halted(r) \in TrainType
    BY <1>0 DEF Halted, TrainType, SpeedState
  <2>2. /\ Halted(r).speed = 0 /\ Halted(r).throttleSpeed = 0
        /\ Halted(r).isStopped /\ Halted(r).speedState = "Idle"
        /\ Halted(r).active = r.active
    BY DEF Halted, TrainType
  <2> QED BY <2>1, <2>2 DEF Sound
<1>2. /\ [r EXCEPT !.emergencyStop = FALSE] \in TrainType
      /\ Sound([r EXCEPT !.emergencyStop = FALSE])
      /\ [r EXCEPT !.emergencyStop = FALSE].active = r.active
  BY DEF TrainType, Sound
<1> QED BY <1>1, <1>2

\* Train::emergencyStop.
LEMMA SetEmergencyStopKeepsInv ==
  ASSUME Inv, NEW t \in Train, NEW value \in BOOLEAN, SetEmergencyStop(t, value)
  PROVE  Inv'
<1> DEFINE s == IF value THEN Halted(train[t]) ELSE [train[t] EXCEPT !.emergencyStop = FALSE]
<1>1. train[t] \in TrainType /\ Sound(train[t])
  BY DEF Inv, TypeOK, TrainsAreSound
<1>2. s \in TrainType /\ Sound(s) /\ s.active = train[t].active
  BY <1>1, ToggledIsSound
<1>3. train' = [train EXCEPT ![t] = s] /\ UNCHANGED <<vehicles, activeTrain, recomposed>>
  BY DEF SetEmergencyStop
<1>4. decoder' \in [Powered -> DecoderType]
  <2>1. ASSUME NEW v \in Powered
        PROVE  [decoder[v] EXCEPT !.emergencyStop = value] \in DecoderType
    BY DEF Inv, TypeOK, DecoderType
  <2> QED BY <2>1 DEF SetEmergencyStop, Inv, TypeOK
<1> HIDE DEF s
<1>5. TypeOK'
  BY <1>2, <1>3, <1>4 DEF Inv, TypeOK
<1>6. \A u \in Train : Sound(train'[u]) /\ train'[u].active = train[u].active
  BY <1>2, <1>3 DEF Inv, TypeOK, TrainsAreSound
<1> QED BY <1>3, <1>5, <1>6 DEF Inv, TrainsAreSound, Sound, OneCommander

\* Train::active becomes true: the train takes vehicles that no train has.
LEMMA ActivateKeepsInv ==
  ASSUME Inv, NEW t \in Train, Activate(t)
  PROVE  Inv'
<1> DEFINE s == [train[t] EXCEPT !.active = TRUE]
           decoders == [v \in Powered |->
             IF v \in vehicles[t] THEN [decoder[v] EXCEPT !.emergencyStop = train[t].emergencyStop]
                                  ELSE decoder[v]]
<1>1. s \in TrainType /\ Sound(s) /\ s.active
  BY DEF Inv, TypeOK, TrainsAreSound, TrainType, Sound
<1>2. decoders \in [Powered -> DecoderType]
  BY DEF Inv, TypeOK, TrainType, DecoderType
<1>3. UpdateSpeed(t, s, decoders)
  BY DEF Activate
<1> HIDE DEF s, decoders
<1>4. /\ train' \in [Train -> TrainType] /\ decoder' \in [Powered -> DecoderType]
      /\ TrainsAreSound'
      /\ train'[t].active
      /\ \A u \in Train \ {t} : train'[u] = train[u]
  BY <1>1, <1>2, <1>3, UpdateSpeedIsSound
<1>5. /\ activeTrain' = [v \in Vehicle |-> IF v \in vehicles[t] THEN t ELSE activeTrain[v]]
      /\ vehicles' = vehicles /\ recomposed' = recomposed
      /\ \A v \in vehicles[t] : activeTrain[v] = NoTrain
      /\ ~train[t].active
  BY DEF Activate, CanActivate
<1>6. TypeOK'
  BY <1>4, <1>5 DEF Inv, TypeOK
<1>7. OneCommander'
  <2> SUFFICES ASSUME NEW u \in Train, NEW v \in Vehicle \ recomposed
               PROVE  activeTrain'[v] = u <=> train'[u].active /\ v \in vehicles[u]
    BY <1>5 DEF OneCommander
  <2>1. activeTrain[v] = u <=> train[u].active /\ v \in vehicles[u]
    BY DEF Inv, OneCommander
  <2>2. CASE u = t
    BY <1>4, <1>5, <2>1, <2>2
  <2>3. CASE u # t
    BY <1>4, <1>5, <2>1, <2>3, TrainControlAssumption
  <2> QED BY <2>2, <2>3
<1> QED BY <1>4, <1>6, <1>7 DEF Inv

\* Train::active becomes false: only a stopped train gives its vehicles back.
LEMMA DeactivateKeepsInv ==
  ASSUME Inv, NEW t \in Train, Deactivate(t)
  PROVE  Inv'
<1> DEFINE s == [train[t] EXCEPT !.active = FALSE]
<1>1. s \in TrainType /\ Sound(s) /\ ~s.active
  BY DEF Inv, TypeOK, TrainsAreSound, TrainType, Sound, Deactivate, CanDeactivate
<1>2. UpdateSpeed(t, s, decoder) /\ decoder \in [Powered -> DecoderType]
  BY DEF Deactivate, Inv, TypeOK
<1> HIDE DEF s
<1>3. /\ train' \in [Train -> TrainType] /\ decoder' \in [Powered -> DecoderType]
      /\ TrainsAreSound'
      /\ ~train'[t].active
      /\ \A u \in Train \ {t} : train'[u] = train[u]
  BY <1>1, <1>2, UpdateSpeedIsSound
<1>4. /\ activeTrain' = [v \in Vehicle |-> IF v \in vehicles[t] THEN NoTrain ELSE activeTrain[v]]
      /\ vehicles' = vehicles /\ recomposed' = recomposed
      /\ train[t].active
  BY DEF Deactivate, CanDeactivate
<1>5. TypeOK'
  BY <1>3, <1>4 DEF Inv, TypeOK
<1>6. OneCommander'
  <2> SUFFICES ASSUME NEW u \in Train, NEW v \in Vehicle \ recomposed
               PROVE  activeTrain'[v] = u <=> train'[u].active /\ v \in vehicles[u]
    BY <1>4 DEF OneCommander
  <2>1. /\ activeTrain[v] = u <=> train[u].active /\ v \in vehicles[u]
        /\ activeTrain[v] = t <=> v \in vehicles[t]
    BY <1>4 DEF Inv, OneCommander
  <2>2. CASE v \in vehicles[t]
    BY <1>3, <1>4, <2>1, <2>2, TrainControlAssumption
  <2>3. CASE v \notin vehicles[t]
    BY <1>3, <1>4, <2>1, <2>3
  <2> QED BY <2>2, <2>3
<1> QED BY <1>3, <1>5, <1>6 DEF Inv

\* The speed timer expires and its handler runs.
LEMMA TimerStepKeepsInv ==
  ASSUME Inv, NEW t \in Train, TimerStep(t)
  PROVE  Inv'
<1>1. train[t] \in TrainType /\ Sound(train[t])
  BY DEF Inv, TypeOK, TrainsAreSound
<1>2. CASE TimerExpires(t)
  <2> DEFINE s == [train[t] EXCEPT !.waiting = FALSE, !.queued = TRUE]
  <2>1. s \in TrainType /\ Sound(s) /\ s.active = train[t].active
    BY <1>1 DEF TrainType, Sound
  <2>2. train' = [train EXCEPT ![t] = s] /\ UNCHANGED <<vehicles, activeTrain, decoder, recomposed>>
    BY <1>2 DEF TimerExpires, Inv, TypeOK
  <2> HIDE DEF s
  <2>3. TypeOK'
    BY <2>1, <2>2 DEF Inv, TypeOK
  <2>4. \A u \in Train : Sound(train'[u]) /\ train'[u].active = train[u].active
    BY <2>1, <2>2 DEF Inv, TypeOK, TrainsAreSound
  <2> QED BY <2>2, <2>3, <2>4 DEF Inv, TrainsAreSound, Sound, OneCommander
<1>3. CASE TimerHandler(t)
  <2> DEFINE s == [train[t] EXCEPT !.queued = FALSE]
  <2>1. s \in TrainType /\ Sound(s) /\ s.active = train[t].active
    BY <1>1 DEF TrainType, Sound
  <2>2. /\ UpdateSpeed(t, s, decoder) /\ decoder \in [Powered -> DecoderType]
        /\ UNCHANGED <<vehicles, activeTrain, recomposed>>
    BY <1>3 DEF TimerHandler, Inv, TypeOK
  <2> HIDE DEF s
  <2>3. /\ train' \in [Train -> TrainType] /\ decoder' \in [Powered -> DecoderType]
        /\ TrainsAreSound'
        /\ \A u \in Train : train'[u].active = train[u].active
    BY <2>1, <2>2, UpdateSpeedIsSound
  <2> QED BY <2>2, <2>3 DEF Inv, TypeOK, OneCommander
<1> QED BY <1>2, <1>3 DEF TimerStep

\* Composing a train changes which vehicle an active train lists only for a vehicle that
\* is recomposed then.
LEMMA ComposingFrame ==
  ASSUME Inv, NEW t \in Train, Composing(t)
  PROVE  /\ UNCHANGED <<train, activeTrain, decoder>> /\ train[t].isStopped
         /\ vehicles' \in [Train -> SUBSET Vehicle]
         /\ recomposed \subseteq recomposed' /\ recomposed' \subseteq Vehicle
         /\ \A u \in Train \ {t} : vehicles'[u] = vehicles[u]
         /\ train[t].active => \A v \in Vehicle \ recomposed' : v \in vehicles'[t] <=> v \in vehicles[t]
<1>1. PICK v \in Vehicle : AddVehicle(t, v) \/ RemoveVehicle(t, v)
  BY DEF Composing
<1>2. /\ train[t].isStopped /\ UNCHANGED <<train, activeTrain, decoder>>
      /\ recomposed' = Recomposed(t, v)
      /\ \/ vehicles' = [vehicles EXCEPT ![t] = @ \cup {v}]
         \/ vehicles' = [vehicles EXCEPT ![t] = @ \ {v}]
  BY <1>1 DEF AddVehicle, RemoveVehicle
<1>3. recomposed \subseteq recomposed' /\ recomposed' \subseteq Vehicle /\ (train[t].active => v \in recomposed')
  BY <1>2 DEF Recomposed, Inv, TypeOK
<1>4. vehicles \in [Train -> SUBSET Vehicle]
  BY DEF Inv, TypeOK
<1> QED BY <1>2, <1>3, <1>4

LEMMA ComposingKeepsInv ==
  ASSUME Inv, NEW t \in Train, Composing(t)
  PROVE  Inv'
<1>1. OneCommander'
  <2> SUFFICES ASSUME NEW u \in Train, NEW v \in Vehicle \ recomposed'
               PROVE  activeTrain'[v] = u <=> train'[u].active /\ v \in vehicles'[u]
    BY DEF OneCommander
  <2>1. v \in Vehicle \ recomposed /\ activeTrain' = activeTrain /\ train' = train
    BY ComposingFrame
  <2>2. activeTrain[v] = u <=> train[u].active /\ v \in vehicles[u]
    BY <2>1 DEF Inv, OneCommander
  <2>3. train[u].active => (v \in vehicles'[u] <=> v \in vehicles[u])
    BY ComposingFrame
  <2> QED BY <2>1, <2>2, <2>3
<1> QED BY <1>1, ComposingFrame DEF Inv, TypeOK, TrainsAreSound, Sound

\* Reload: the trains stand, and are active as before.
LEMMA ReloadKeepsInv ==
  ASSUME Inv, Reload
  PROVE  Inv'
<1>1. ASSUME NEW r \in TrainType, Sound(r)
      PROVE  LET s == [r EXCEPT !.speed = 0, !.speedState = "Idle", !.isStopped = TRUE,
                                !.waiting = FALSE, !.queued = FALSE]
             IN  s \in TrainType /\ Sound(s) /\ s.active = r.active
  <2> DEFINE s == [r EXCEPT !.speed = 0, !.speedState = "Idle", !.isStopped = TRUE,
                            !.waiting = FALSE, !.queued = FALSE]
  <2>1. s \in TrainType
    BY <1>1, ZeroIsSpeed DEF TrainType, SpeedState
  <2>2. /\ s.speed = 0 /\ s.speedState = "Idle" /\ s.isStopped
        /\ s.active = r.active /\ s.throttleSpeed = r.throttleSpeed
        /\ s.emergencyStop = r.emergencyStop
    BY <1>1 DEF TrainType
  <2> HIDE DEF s
  <2>3. Sound(s)
    BY <1>1, <2>2 DEF Sound
  <2> QED BY <2>1, <2>2, <2>3 DEF s
<1>2. \A t \in Train : /\ train'[t] \in TrainType /\ Sound(train'[t])
                       /\ train'[t].active = train[t].active
  BY <1>1 DEF Reload, Inv, TypeOK, TrainsAreSound
<1>3. train' \in [Train -> TrainType]
  BY <1>2 DEF Reload
<1>4. decoder' \in [Powered -> DecoderType]
  BY NewDecoderType DEF Reload
<1>5. UNCHANGED <<vehicles, activeTrain, recomposed>>
  BY DEF Reload
<1> QED BY <1>2, <1>3, <1>4, <1>5 DEF Inv, TypeOK, TrainsAreSound, Sound, OneCommander

\* Driving and composing.
LEMMA DrivingNextKeepsInv ==
  ASSUME Inv, DrivingNext
  PROVE  Inv'
<1>1. ASSUME NEW t \in Train, Driving(t)
      PROVE  Inv'
  BY <1>1, SetThrottleSpeedKeepsInv, SetEmergencyStopKeepsInv, ActivateKeepsInv,
     DeactivateKeepsInv, TimerStepKeepsInv DEF Driving
<1> QED BY <1>1, ComposingKeepsInv DEF DrivingNext

\* Init establishes Inv and every step keeps it.
LEMMA InvIsInductive ==
  /\ Init => Inv
  /\ Inv /\ [Next]_vars => Inv'
<1>1. Init => Inv
  BY TrainControlAssumption
  DEF Init, Inv, TypeOK, TrainsAreSound, Sound, OneCommander, NewTrain, NewDecoder,
      TrainType, DecoderType, SpeedState, Speed
<1>2. ASSUME Inv, NEW v \in Powered, NEW d \in DecoderType, OperateDecoder(v, d)
      PROVE  Inv'
  BY <1>2 DEF OperateDecoder, Inv, TypeOK, TrainsAreSound, Sound, OneCommander
<1>3. ASSUME Inv, UNCHANGED vars
      PROVE  Inv'
  BY <1>3 DEF vars, Inv, TypeOK, TrainsAreSound, Sound, OneCommander
<1> QED BY <1>1, <1>2, <1>3, DrivingNextKeepsInv, ReloadKeepsInv DEF Next

(***************************************************************************)
(* Theorems about every step a train can make, reloads and other users of  *)
(* the decoders included.                                                  *)
(***************************************************************************)

(***************************************************************************)
(* Types are kept: no step of updateSpeed takes a speed past its limits.   *)
(***************************************************************************)
THEOREM TypesAreKept == Spec => []TypeOK
<1>1. Inv => TypeOK
  BY DEF Inv
<1> QED BY <1>1, InvIsInductive, PTL DEF Spec

(***************************************************************************)
(* Train::emergencyStop takes effect for good: no timer handler that was   *)
(* in the queue, no activation and no reload gives the train a speed.      *)
(***************************************************************************)
THEOREM EmergencyStopIsKept == Spec => []EmergencyStopHolds
<1>1. Inv => EmergencyStopHolds
  BY DEF Inv, TrainsAreSound, Sound, EmergencyStopHolds
<1> QED BY <1>1, InvIsInductive, PTL DEF Spec

(***************************************************************************)
(* Only an active train moves: Train::setTrainActive lets no train go      *)
(* before it is stopped, and no inactive train starts.                     *)
(***************************************************************************)
THEOREM MovingTrainsAreActive == Spec => []MovingTrainIsActive
<1>1. Inv => MovingTrainIsActive
  BY DEF Inv, TrainsAreSound, Sound, MovingTrainIsActive
<1> QED BY <1>1, InvIsInductive, PTL DEF Spec

(***************************************************************************)
(* RailVehicle::activeTrain and Train::active agree, so that no two active *)
(* trains have a vehicle, but for vehicles that were put into or taken out *)
(* of a train that was active.                                             *)
(***************************************************************************)
THEOREM VehiclesHaveOneCommander == Spec => []OneCommander
<1>1. Inv => OneCommander
  BY DEF Inv
<1> QED BY <1>1, InvIsInductive, PTL DEF Spec

(***************************************************************************)
(* Theorems about trains that are only driven, within a session.           *)
(***************************************************************************)

IdleInv == Inv /\ IdleMeansReached

DrivingInv == IdleInv /\ MovingTrainDrivesAll

\* A train that stops updating its speed has the speed asked for, and each update goes
\* towards it.
LEMMA UpdatedApproaches ==
  ASSUME NEW r \in TrainType, r.speedState = "Idle" => r.speed = r.throttleSpeed
  PROVE  LET s == Updated(r)
         IN  /\ s.speedState = "Idle" => s.speed = s.throttleSpeed
             /\ \/ s.speed = r.speed
                \/ r.speed <= s.speed /\ s.speed <= s.throttleSpeed
                \/ s.throttleSpeed <= s.speed /\ s.speed <= r.speed
<1> DEFINE s == Updated(r)
<1>0. /\ r.speed \in Int /\ r.throttleSpeed \in Int
      /\ Acceleration \in Nat /\ Braking \in Nat
  BY TrainControlAssumption DEF TrainType, Speed
<1>1. CASE ~SpeedUpdates(r)
  BY <1>1 DEF Updated
<1>2. CASE SpeedUpdates(r) /\ Reached(r)
  <2>1. s.speed = r.throttleSpeed /\ s.throttleSpeed = r.throttleSpeed
    BY <1>2 DEF Updated, TrainType
  <2> HIDE DEF s
  <2>2. s.speed <= r.speed \/ r.speed <= s.speed
    BY <1>0, <2>1
  <2> QED BY <1>0, <2>1, <2>2 DEF s
<1>3. CASE SpeedUpdates(r) /\ ~Reached(r)
  <2>1. /\ s.speed = NextSpeed(r) /\ s.throttleSpeed = r.throttleSpeed
        /\ s.speedState = r.speedState
    BY <1>3 DEF Updated, TrainType
  <2>2. s.speedState # "Idle"
    BY <1>3, <2>1 DEF SpeedUpdates
  <2> HIDE DEF s
  <2>3. \/ r.speed <= s.speed /\ s.speed <= s.throttleSpeed
        \/ s.throttleSpeed <= s.speed /\ s.speed <= r.speed
    BY <1>0, <1>3, <2>1 DEF Reached, NextSpeed
  <2> QED BY <2>2, <2>3 DEF s
<1> QED BY <1>1, <1>2, <1>3

\* What a driving step does to the speed of train t: nothing, an emergency stop, or an
\* update of a train r that has the speed of before.
LEMMA DrivingStepShape ==
  ASSUME Inv, IdleMeansReached, NEW t \in Train, Driving(t)
  PROVE  /\ \A u \in Train \ {t} : train'[u] = train[u]
         /\ LET r == train[t]  s == train'[t]
            IN  /\ s.speedState = "Idle" => s.speed = s.throttleSpeed
                /\ \/ s.emergencyStop /\ s.speed = 0
                   \/ s.speed = r.speed
                   \/ r.speed <= s.speed /\ s.speed <= s.throttleSpeed
                   \/ s.throttleSpeed <= s.speed /\ s.speed <= r.speed
<1> DEFINE Good(s) ==
      /\ s.speedState = "Idle" => s.speed = s.throttleSpeed
      /\ \/ s.emergencyStop /\ s.speed = 0
         \/ s.speed = train[t].speed
         \/ train[t].speed <= s.speed /\ s.speed <= s.throttleSpeed
         \/ s.throttleSpeed <= s.speed /\ s.speed <= train[t].speed
<1>0. /\ train \in [Train -> TrainType] /\ train[t] \in TrainType
      /\ train[t].speedState = "Idle" => train[t].speed = train[t].throttleSpeed
  BY DEF Inv, TypeOK, IdleMeansReached
<1>1. ASSUME NEW r \in TrainType, NEW decoders, r.speed = train[t].speed,
             r.speedState = "Idle" => r.speed = r.throttleSpeed, UpdateSpeed(t, r, decoders)
      PROVE  train' = [train EXCEPT ![t] = Updated(r)] /\ Good(Updated(r))
  BY <1>1, UpdatedApproaches DEF UpdateSpeed
<1>2. ASSUME NEW s, train' = [train EXCEPT ![t] = s], Good(s)
      PROVE  Good(train'[t]) /\ \A u \in Train \ {t} : train'[u] = train[u]
  <2>1. train'[t] = s /\ \A u \in Train \ {t} : train'[u] = train[u]
    BY <1>0, <1>2
  <2> QED BY <1>2, <2>1
<1>3. ASSUME NEW value \in Speed, SetThrottleSpeed(t, value)
      PROVE  \E s : train' = [train EXCEPT ![t] = s] /\ Good(s)
  <2> DEFINE r == Released(train[t], value)
             wanted == IF value > r.speed THEN "Accelerate" ELSE "Braking"
             q == [r EXCEPT !.speedState = wanted, !.waiting = FALSE]
  <2>1. /\ r \in TrainType /\ r.speed = train[t].speed /\ r.throttleSpeed = value
        /\ r.speedState = train[t].speedState
    BY <1>0 DEF Released, TrainType
  <2>2. q \in TrainType /\ q.speed = train[t].speed /\ q.speedState # "Idle"
    BY <2>1 DEF TrainType, SpeedState
  <2>3. wanted # "Idle"
    OBVIOUS
  <2>4. CASE value = r.speed \/ r.speedState = wanted
    <3>1. train' = [train EXCEPT ![t] = r]
      BY <1>3, <2>4 DEF SetThrottleSpeed
    <3> HIDE DEF r, wanted
    <3>2. Good(r)
      BY <2>1, <2>3, <2>4
    <3> QED BY <3>1, <3>2
  <2>5. CASE ~(value = r.speed \/ r.speedState = wanted)
    <3>1. UpdateSpeed(t, q, decoder)
      BY <1>3, <2>5 DEF SetThrottleSpeed
    <3> HIDE DEF q, Good
    <3> QED BY <1>1, <2>2, <3>1
  <2> QED BY <2>4, <2>5
<1>4. ASSUME NEW value \in BOOLEAN, SetEmergencyStop(t, value)
      PROVE  \E s : train' = [train EXCEPT ![t] = s] /\ Good(s)
  <2>1. Good(Halted(train[t])) /\ Good([train[t] EXCEPT !.emergencyStop = FALSE])
    BY <1>0 DEF Halted, TrainType
  <2> HIDE DEF Good
  <2> QED BY <1>4, <2>1 DEF SetEmergencyStop
<1>5. ASSUME Activate(t) \/ Deactivate(t) \/ TimerHandler(t)
      PROVE  \E s : train' = [train EXCEPT ![t] = s] /\ Good(s)
  <2>1. PICK r, decoders :
          /\ r \in TrainType /\ UpdateSpeed(t, r, decoders)
          /\ r.speed = train[t].speed /\ r.speedState = train[t].speedState
          /\ r.throttleSpeed = train[t].throttleSpeed
    <3>1. ASSUME NEW b \in BOOLEAN
          PROVE  LET r == [train[t] EXCEPT !.active = b]
                 IN  /\ r \in TrainType /\ r.speed = train[t].speed
                     /\ r.speedState = train[t].speedState
                     /\ r.throttleSpeed = train[t].throttleSpeed
      BY <1>0, <3>1 DEF TrainType
    <3>2. LET r == [train[t] EXCEPT !.queued = FALSE]
          IN  /\ r \in TrainType /\ r.speed = train[t].speed
              /\ r.speedState = train[t].speedState
              /\ r.throttleSpeed = train[t].throttleSpeed
      BY <1>0 DEF TrainType
    <3>3. CASE Activate(t)
      BY <3>1, <3>3 DEF Activate
    <3>4. CASE Deactivate(t)
      BY <3>1, <3>4 DEF Deactivate
    <3>5. CASE TimerHandler(t)
      BY <3>2, <3>5 DEF TimerHandler
    <3> QED BY <1>5, <3>3, <3>4, <3>5
  <2>2. r.speedState = "Idle" => r.speed = r.throttleSpeed
    BY <1>0, <2>1
  <2> HIDE DEF Good
  <2> QED BY <1>1, <2>1, <2>2
<1>6. ASSUME TimerExpires(t)
      PROVE  \E s : train' = [train EXCEPT ![t] = s] /\ Good(s)
  <2> DEFINE s == [train[t] EXCEPT !.waiting = FALSE, !.queued = TRUE]
  <2>1. train' = [train EXCEPT ![t] = s]
    BY <1>0, <1>6 DEF TimerExpires
  <2>2. Good(s)
    BY <1>0 DEF TrainType
  <2> HIDE DEF s, Good
  <2> QED BY <2>1, <2>2
<1>7. Good(train'[t]) /\ \A u \in Train \ {t} : train'[u] = train[u]
  <2> HIDE DEF Good
  <2> QED BY <1>2, <1>3, <1>4, <1>5, <1>6 DEF Driving, TimerStep
<1> QED BY <1>7

\* Driving and composing keep every train idle only at the speed asked for.
LEMMA DrivingNextKeepsIdle ==
  ASSUME IdleInv, DrivingNext
  PROVE  IdleMeansReached'
<1>1. ASSUME NEW t \in Train, Driving(t)
      PROVE  IdleMeansReached'
  BY <1>1, DrivingStepShape DEF IdleInv, IdleMeansReached
<1>2. ASSUME NEW t \in Train, Composing(t)
      PROVE  IdleMeansReached'
  BY <1>2 DEF IdleInv, IdleMeansReached, Composing, AddVehicle, RemoveVehicle
<1> QED BY <1>1, <1>2 DEF DrivingNext

\* Init establishes IdleInv and every driving step keeps it.
LEMMA IdleInvIsInductive ==
  /\ Init => IdleInv
  /\ IdleInv /\ [DrivingNext]_vars => IdleInv'
<1>1. Init => IdleInv
  BY InvIsInductive DEF Init, IdleInv, IdleMeansReached, NewTrain
<1>2. ASSUME IdleInv, DrivingNext
      PROVE  IdleInv'
  BY <1>2, DrivingNextKeepsInv, DrivingNextKeepsIdle DEF IdleInv
<1>3. ASSUME IdleInv, UNCHANGED vars
      PROVE  IdleInv'
  BY <1>3, InvIsInductive DEF vars, IdleInv, IdleMeansReached
<1> QED BY <1>1, <1>2, <1>3

(***************************************************************************)
(* Within a session Train::updateSpeed ends a change of speed only at the  *)
(* speed asked for, whatever timer handlers were cancelled or late.        *)
(***************************************************************************)
THEOREM IdleTrainsHaveTheirSpeed == DrivingSpec => []IdleMeansReached
<1>1. IdleInv => IdleMeansReached
  BY DEF IdleInv
<1> QED BY <1>1, IdleInvIsInductive, PTL DEF DrivingSpec

(***************************************************************************)
(* Each step takes the speed towards the throttle speed and never past it, *)
(* unless it is an emergency stop, for all accelerations and brakings.     *)
(***************************************************************************)
THEOREM SpeedsFollowThrottles == DrivingSpec => SpeedFollowsThrottle
<1>1. ASSUME IdleInv, DrivingNext, NEW t \in Train
      PROVE  LET r == train[t]  s == train'[t]
             IN  \/ s.emergencyStop /\ s.speed = 0
                 \/ r.speed <= s.speed /\ s.speed <= s.throttleSpeed
                 \/ s.throttleSpeed <= s.speed /\ s.speed <= r.speed
                 \/ s.speed = r.speed
  <2>1. CASE Driving(t)
    BY <1>1, <2>1, DrivingStepShape DEF IdleInv
  <2>2. ASSUME NEW u \in Train, u # t, Driving(u)
        PROVE  train'[t] = train[t]
    BY <1>1, <2>2, DrivingStepShape DEF IdleInv
  <2>3. ASSUME NEW u \in Train, Composing(u)
        PROVE  train'[t] = train[t]
    BY <2>3 DEF Composing, AddVehicle, RemoveVehicle
  <2> QED BY <1>1, <2>1, <2>2, <2>3 DEF DrivingNext
<1>2. ASSUME IdleInv, [DrivingNext]_vars
      PROVE  [\A t \in Train :
                LET r == train[t]  s == train'[t]
                IN  \/ s.emergencyStop /\ s.speed = 0
                    \/ r.speed <= s.speed /\ s.speed <= s.throttleSpeed
                    \/ s.throttleSpeed <= s.speed /\ s.speed <= r.speed
                    \/ s.speed = r.speed]_vars
  BY <1>1, <1>2
<1> QED BY <1>2, IdleInvIsInductive, PTL DEF DrivingSpec, SpeedFollowsThrottle

\* Train::updateSpeed sets all the decoders of its train and, as no other active train
\* has one of these, no decoder of another moving train.
LEMMA UpdateSpeedDrivesAll ==
  ASSUME Inv, Inv', MovingTrainDrivesAll,
         NEW t \in Train, NEW r \in TrainType, Sound(r),
         r.isStopped = train[t].isStopped, r.speed = train[t].speed,
         NEW decoders \in [Powered -> DecoderType],
         \A v \in Powered : decoders[v].throttle = decoder[v].throttle,
         UpdateSpeed(t, r, decoders), vehicles' = vehicles, recomposed' = recomposed
  PROVE  MovingTrainDrivesAll'
<1>1. /\ Updated(r) \in TrainType /\ Updated(r).active = r.active
      /\ train'[t] = Updated(r)
      /\ \A u \in Train \ {t} : train'[u] = train[u]
  BY UpdatedIsSound DEF UpdateSpeed, Inv, TypeOK
<1>2. \A v \in Powered : decoder'[v].throttle =
        IF SpeedUpdates(r) /\ v \in vehicles[t] THEN Updated(r).speed ELSE decoder[v].throttle
  BY <1>1 DEF UpdateSpeed, DecoderType
<1> SUFFICES ASSUME NEW u \in Train, ~train'[u].isStopped, NEW v \in PoweredIn(u)' \ recomposed'
             PROVE  decoder'[v].throttle = train'[u].speed
  BY DEF MovingTrainDrivesAll
<1>3. v \in Powered /\ v \in Vehicle \ recomposed /\ v \notin recomposed' /\ v \in vehicles[u] /\ v \in PoweredIn(u)
  BY TrainControlAssumption DEF PoweredIn
<1>4. CASE u = t /\ SpeedUpdates(r)
  BY <1>1, <1>2, <1>3, <1>4
<1>5. CASE u = t /\ ~SpeedUpdates(r)
  <2>1. train'[t] = r
    BY <1>1, <1>5 DEF Updated
  <2> QED BY <1>2, <1>3, <1>5, <2>1 DEF MovingTrainDrivesAll
<1>6. CASE u # t
  <2>1. train'[u] = train[u]
    BY <1>1, <1>6
  <2>2. train[u].active
    BY <2>1 DEF Inv, TrainsAreSound, Sound
  <2>3. activeTrain'[v] = u
    BY <1>3, <2>1, <2>2 DEF Inv, OneCommander
  <2>4. ~(SpeedUpdates(r) /\ v \in vehicles[t])
    <3> SUFFICES ASSUME SpeedUpdates(r), v \in vehicles[t]
                 PROVE  FALSE
      OBVIOUS
    <3>1. train'[t].active
      BY <1>1, OnlyActiveUpdates
    <3>2. activeTrain'[v] = t
      BY <1>3, <3>1 DEF Inv, OneCommander
    <3> QED BY <1>6, <2>3, <3>2
  <2>5. decoder'[v].throttle = decoder[v].throttle
    BY <1>2, <1>3, <2>4
  <2> QED BY <1>3, <2>1, <2>5 DEF MovingTrainDrivesAll
<1> QED BY <1>4, <1>5, <1>6

\* A step that changes no throttle of a decoder, no list of vehicles and the speed of no
\* train that still moves.
LEMMA ThrottlesUntouched ==
  ASSUME MovingTrainDrivesAll, vehicles' = vehicles, recomposed' = recomposed,
         \A v \in Powered : decoder'[v].throttle = decoder[v].throttle,
         \A u \in Train : ~train'[u].isStopped =>
           ~train[u].isStopped /\ train'[u].speed = train[u].speed
  PROVE  MovingTrainDrivesAll'
BY DEF MovingTrainDrivesAll, PoweredIn

\* Driving and composing keep every powered vehicle of a moving train at its speed.
LEMMA DrivingNextDrivesAll ==
  ASSUME DrivingInv, Inv', DrivingNext
  PROVE  MovingTrainDrivesAll'
<1>0. /\ Inv /\ MovingTrainDrivesAll
      /\ train \in [Train -> TrainType] /\ decoder \in [Powered -> DecoderType]
      /\ \A t \in Train : train[t] \in TrainType /\ Sound(train[t])
  BY DEF DrivingInv, IdleInv, Inv, TypeOK, TrainsAreSound
<1>1. ASSUME NEW t \in Train, NEW value \in Speed, SetThrottleSpeed(t, value)
      PROVE  MovingTrainDrivesAll'
  <2> DEFINE r == Released(train[t], value)
             wanted == IF value > r.speed THEN "Accelerate" ELSE "Braking"
             s == [r EXCEPT !.speedState = wanted, !.waiting = FALSE]
  <2>1. /\ r \in TrainType /\ ~r.emergencyStop /\ Sound(r)
        /\ r.isStopped = train[t].isStopped /\ r.speed = train[t].speed
    BY <1>0 DEF Released, TrainType, Sound
  <2>2. CASE value = r.speed \/ r.speedState = wanted
    <3>1. train' = [train EXCEPT ![t] = r] /\ UNCHANGED <<vehicles, decoder, recomposed>>
      BY <1>1, <2>2 DEF SetThrottleSpeed
    <3> HIDE DEF r
    <3>2. \A u \in Train : train'[u].isStopped = train[u].isStopped /\ train'[u].speed = train[u].speed
      BY <1>0, <2>1, <3>1
    <3> QED BY <1>0, <3>1, <3>2, ThrottlesUntouched
  <2>3. CASE ~(value = r.speed \/ r.speedState = wanted)
    <3>1. UpdateSpeed(t, s, decoder) /\ UNCHANGED <<vehicles, recomposed>>
      BY <1>1, <2>3 DEF SetThrottleSpeed
    <3>2. /\ s \in TrainType /\ s.isStopped = r.isStopped /\ s.speed = r.speed
          /\ s.active = r.active /\ s.emergencyStop = r.emergencyStop /\ s.speedState = wanted
      BY <2>1 DEF TrainType, SpeedState
    <3>3. r.isStopped => wanted # "Braking"
      BY <2>1, <2>3 DEF Sound, TrainType, Speed
    <3> HIDE DEF r, wanted, s
    <3>4. Sound(s)
      BY <2>1, <3>2, <3>3 DEF Sound
    <3> QED BY <1>0, <2>1, <3>1, <3>2, <3>4, UpdateSpeedDrivesAll
  <2> QED BY <2>2, <2>3
<1>2. ASSUME NEW t \in Train, NEW value \in BOOLEAN, SetEmergencyStop(t, value)
      PROVE  MovingTrainDrivesAll'
  <2> DEFINE s == IF value THEN Halted(train[t]) ELSE [train[t] EXCEPT !.emergencyStop = FALSE]
  <2>1. ~s.isStopped => ~train[t].isStopped /\ s.speed = train[t].speed
    BY <1>0 DEF Halted, TrainType
  <2>2. train' = [train EXCEPT ![t] = s] /\ UNCHANGED <<vehicles, recomposed>>
    BY <1>2 DEF SetEmergencyStop
  <2>3. \A v \in Powered : decoder'[v].throttle = decoder[v].throttle
    BY <1>0, <1>2 DEF SetEmergencyStop, DecoderType
  <2> HIDE DEF s
  <2>4. \A u \in Train : ~train'[u].isStopped => ~train[u].isStopped /\ train'[u].speed = train[u].speed
    BY <1>0, <2>1, <2>2
  <2> QED BY <1>0, <2>2, <2>3, <2>4, ThrottlesUntouched
<1>3. ASSUME NEW t \in Train, Activate(t)
      PROVE  MovingTrainDrivesAll'
  <2> DEFINE s == [train[t] EXCEPT !.active = TRUE]
             decoders == [v \in Powered |->
               IF v \in vehicles[t] THEN [decoder[v] EXCEPT !.emergencyStop = train[t].emergencyStop]
                                    ELSE decoder[v]]
  <2>1. s \in TrainType /\ Sound(s) /\ s.isStopped = train[t].isStopped /\ s.speed = train[t].speed
    BY <1>0 DEF TrainType, Sound
  <2>2. /\ decoders \in [Powered -> DecoderType]
        /\ \A v \in Powered : decoders[v].throttle = decoder[v].throttle
    BY <1>0 DEF TrainType, DecoderType
  <2>3. UpdateSpeed(t, s, decoders) /\ UNCHANGED <<vehicles, recomposed>>
    BY <1>3 DEF Activate
  <2> HIDE DEF s, decoders
  <2> QED BY <1>0, <2>1, <2>2, <2>3, UpdateSpeedDrivesAll
<1>4. ASSUME NEW t \in Train, Deactivate(t)
      PROVE  MovingTrainDrivesAll'
  <2> DEFINE s == [train[t] EXCEPT !.active = FALSE]
  <2>1. s \in TrainType /\ Sound(s) /\ s.isStopped = train[t].isStopped /\ s.speed = train[t].speed
    BY <1>0, <1>4 DEF TrainType, Sound, Deactivate, CanDeactivate
  <2>2. UpdateSpeed(t, s, decoder) /\ UNCHANGED <<vehicles, recomposed>>
    BY <1>4 DEF Deactivate
  <2> HIDE DEF s
  <2> QED BY <1>0, <2>1, <2>2, UpdateSpeedDrivesAll
<1>5. ASSUME NEW t \in Train, TimerExpires(t)
      PROVE  MovingTrainDrivesAll'
  <2>1. \A u \in Train : train'[u].isStopped = train[u].isStopped /\ train'[u].speed = train[u].speed
    BY <1>0, <1>5 DEF TimerExpires, TrainType
  <2> QED BY <1>0, <1>5, <2>1, ThrottlesUntouched DEF TimerExpires
<1>6. ASSUME NEW t \in Train, TimerHandler(t)
      PROVE  MovingTrainDrivesAll'
  <2> DEFINE s == [train[t] EXCEPT !.queued = FALSE]
  <2>1. s \in TrainType /\ Sound(s) /\ s.isStopped = train[t].isStopped /\ s.speed = train[t].speed
    BY <1>0 DEF TrainType, Sound
  <2>2. UpdateSpeed(t, s, decoder) /\ UNCHANGED <<vehicles, recomposed>>
    BY <1>6 DEF TimerHandler
  <2> HIDE DEF s
  <2> QED BY <1>0, <2>1, <2>2, UpdateSpeedDrivesAll
<1>7. ASSUME NEW t \in Train, Composing(t)
      PROVE  MovingTrainDrivesAll'
  <2> SUFFICES ASSUME NEW u \in Train, ~train'[u].isStopped, NEW v \in PoweredIn(u)' \ recomposed'
               PROVE  decoder'[v].throttle = train'[u].speed
    BY DEF MovingTrainDrivesAll
  <2>1. /\ train' = train /\ decoder' = decoder /\ train[t].isStopped
        /\ recomposed \subseteq recomposed'
        /\ u # t => vehicles'[u] = vehicles[u]
    BY <1>0, <1>7, ComposingFrame
  <2>2. u # t
    BY <2>1
  <2> QED BY <1>0, <2>1, <2>2 DEF MovingTrainDrivesAll, PoweredIn
<1> QED BY <1>1, <1>2, <1>3, <1>4, <1>5, <1>6, <1>7 DEF DrivingNext, Driving, TimerStep

\* Init establishes DrivingInv and every driving step keeps it.
LEMMA DrivingInvIsInductive ==
  /\ Init => DrivingInv
  /\ DrivingInv /\ [DrivingNext]_vars => DrivingInv'
<1>1. Init => DrivingInv
  BY IdleInvIsInductive DEF Init, DrivingInv, MovingTrainDrivesAll, NewTrain
<1>2. ASSUME DrivingInv, DrivingNext
      PROVE  DrivingInv'
  <2>1. IdleInv'
    BY <1>2, IdleInvIsInductive DEF DrivingInv
  <2> QED BY <1>2, <2>1, DrivingNextDrivesAll DEF DrivingInv, IdleInv
<1>3. ASSUME DrivingInv, UNCHANGED vars
      PROVE  DrivingInv'
  BY <1>3, IdleInvIsInductive DEF vars, DrivingInv, MovingTrainDrivesAll, PoweredIn
<1> QED BY <1>1, <1>2, <1>3

(***************************************************************************)
(* While trains are driven through Train only, a moving train has every    *)
(* one of its powered vehicles at its own speed, except those that were    *)
(* put into or taken out of a train that was active: no other train and no *)
(* late handler has set one of them.                                       *)
(***************************************************************************)
THEOREM MovingTrainsDriveAll == DrivingSpec => []MovingTrainDrivesAll
<1>1. DrivingInv => MovingTrainDrivesAll
  BY DEF DrivingInv
<1> QED BY <1>1, DrivingInvIsInductive, PTL DEF DrivingSpec
=============================================================================
