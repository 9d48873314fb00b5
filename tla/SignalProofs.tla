---------------------------- MODULE SignalProofs ----------------------------
(***************************************************************************)
(* Proofs about Signals, for every layout and every set of output maps:    *)
(* aspects are current, and positions and aspects agree with what the bus  *)
(* said last.                                                              *)
(***************************************************************************)
EXTENDS Signals, SequenceTheorems, TLAPS

-----------------------------------------------------------------------------
(* Types *)

\* What matches is an item of the map.
LEMMA MatchIsItem ==
  ASSUME NEW t \in Tile, NEW f
  PROVE  Match(t, f) \in Shown(t) \cup {NoMatch}
<1> DEFINE agreeing == {k \in DOMAIN Items[t] : Agrees(t, Items[t][k], f)}
           full == {k \in agreeing : ~LeavesOpen(t, Items[t][k])}
           best == IF full = {} THEN agreeing ELSE full
           first == {k \in best : \A j \in best : k <= j}
<1>1. first \subseteq DOMAIN Items[t]
  OBVIOUS
<1>2. Match(t, f) = IF first = {} THEN NoMatch ELSE Items[t][CHOOSE k \in first : TRUE]
  BY DEF Match
<1> HIDE DEF first
<1> QED
  BY <1>1, <1>2 DEF Shown

\* An evaluation sets an aspect that the signal has.
\* The item that matches agrees with the outputs.
LEMMA MatchAgrees ==
  ASSUME NEW t \in Tile, NEW f, Match(t, f) # NoMatch
  PROVE  Match(t, f) \in Shown(t) /\ Agrees(t, Match(t, f), f)
<1> DEFINE agreeing == {k \in DOMAIN Items[t] : Agrees(t, Items[t][k], f)}
           full == {k \in agreeing : ~LeavesOpen(t, Items[t][k])}
           best == IF full = {} THEN agreeing ELSE full
           first == {k \in best : \A j \in best : k <= j}
<1>1. Match(t, f) = IF first = {} THEN NoMatch ELSE Items[t][CHOOSE k \in first : TRUE]
  BY Zenon DEF Match
<1>2. first \subseteq agreeing
  OBVIOUS
<1> HIDE DEF first
<1>3. PICK k \in agreeing : Match(t, f) = Items[t][k]
  BY <1>1, <1>2
<1> QED
  BY <1>3 DEF Shown

LEMMA EvaluatedIsAspect ==
  ASSUME NEW s \in Signal
  PROVE  Evaluated(s) \in Shown(s)
<1>1. Shown(s) = Aspects(s)
  BY LayoutAssumption
<1>2. determineAspect(s) \in Aspects(s)
  <2> DEFINE entered == \E b \in Ahead[s] : \E k \in DOMAIN b : Enters(s, b, k)
             beyond == \E b \in Ahead[s] : \E k \in DOMAIN b :
                         /\ Enters(s, b, k)
                         /\ s \in ThreeAspect =>
                              \E m \in DOMAIN b : IsNextAfter(b, k, m) /\ ClearBeyond(b, k, m)
  <2>1. CASE ~entered
    BY <2>1 DEF determineAspect, Aspects
  <2>2. CASE entered /\ beyond
    BY <2>2, Zenon DEF determineAspect, Aspects
  <2>3. CASE entered /\ ~beyond
    <3>1. s \in ThreeAspect
      BY <2>3
    <3>2. determineAspect(s) = "ProceedReducedSpeed"
      BY <2>3, Zenon DEF determineAspect
    <3> QED
      BY <3>1, <3>2 DEF Aspects
  <2> QED
    BY <2>1, <2>2, <2>3
<1>3. Evaluated(s) \in Aspects(s)
  BY <1>2 DEF Evaluated, Aspects
<1> QED
  BY <1>1, <1>3

LEMMA TypeInit == Init => TypeOK
<1> SUFFICES ASSUME Init PROVE TypeOK
  OBVIOUS
<1>1. \A t \in Tile : shown[t] \in Shown(t) \cup {Unknown}
  BY DEF Init
<1>2. shown \in [Tile -> (UNION {Shown(t) : t \in Tile}) \cup {Unknown}]
  BY DEF Init
<1>3. job \in Job
  BY DEF Init, NoJob, Job
<1>4. commands \in Seq(Command) /\ events \in Seq(Command)
  BY DEF Init
<1>5. inputs \in 0..MaxInputs
  BY LayoutAssumption DEF Init
<1>6. /\ reserved \in [Signal -> Path \cup {NoPath}]
      /\ values \in [Output -> Value \cup {Undefined}]
      /\ overruled \in [Signal -> {"no", "user", "bus"}]
  BY DEF Init
<1>7. /\ block \in [Block -> BlockState] /\ require \in [Signal -> {"Auto", "Yes", "No"}]
      /\ output \in [Output -> Value \cup {Undefined}]
  BY DEF Init
<1>8. run \in BOOLEAN /\ online \in BOOLEAN /\ granted \subseteq Path /\ unsent \subseteq Tile
  BY DEF Init
<1> QED
  BY <1>1, <1>2, <1>3, <1>4, <1>5, <1>6, <1>7, <1>8 DEF TypeOK

\* A tile that takes an item of its map has its type.
LEMMA ShownUpdated ==
  ASSUME TypeOK, NEW t \in Tile, NEW v \in Shown(t)
  PROVE  LET after == [shown EXCEPT ![t] = v]
         IN  /\ after \in [Tile -> (UNION {Shown(u) : u \in Tile}) \cup {Unknown}]
             /\ \A u \in Tile : after[u] \in Shown(u) \cup {Unknown}
BY DEF TypeOK

LEMMA ExecuteTypes ==
  ASSUME TypeOK, NEW t \in Tile, NEW v \in Shown(t), Execute(t, v)
  PROVE  /\ online' \in BOOLEAN /\ unsent' \subseteq Tile
         /\ commands' \in Seq(Command) /\ events' \in Seq(Command)
         /\ values' \in [Output -> Value \cup {Undefined}]
<1>1. Actions[t][v] \in Seq(Command)
  BY MapAssumption
<1>2. commands \o Actions[t][v] \in Seq(Command)
  BY <1>1 DEF TypeOK
<1> QED
  BY <1>2 DEF TypeOK, Execute

LEMMA WatchersAreSignals == \A kind, x : Watchers(kind, x) \subseteq Signal
  BY DEF Watchers

\* The parts of TypeOK that a tile's own step changes.
TileTypes ==
  /\ shown \in [Tile -> (UNION {Shown(t) : t \in Tile}) \cup {Unknown}]
  /\ \A t \in Tile : shown[t] \in Shown(t) \cup {Unknown}
  /\ job \in Job
  /\ online \in BOOLEAN
  /\ commands \in Seq(Command)
  /\ values \in [Output -> Value \cup {Undefined}]
  /\ events \in Seq(Command)
  /\ unsent \subseteq Tile

LEMMA PositionTypes ==
  ASSUME TypeOK, NEW x \in Turnout, NEW v \in Shown(x), NEW j \in Job, doSetPosition(x, v, j)
  PROVE  TileTypes'
<1>1. x \in Tile
  BY DEF Tile
<1>2. job' \in Job
  BY WatchersAreSignals DEF doSetPosition, Job
<1>3. shown' = [shown EXCEPT ![x] = v] /\ Execute(x, v)
  BY DEF doSetPosition
<1> QED
  BY <1>1, <1>2, <1>3, ShownUpdated, ExecuteTypes DEF TileTypes

LEMMA AspectTypes ==
  ASSUME TypeOK, NEW s \in Signal, NEW v \in Shown(s), NEW j \in Job, doSetAspect(s, v, j)
  PROVE  TileTypes'
<1>1. s \in Tile
  BY DEF Tile
<1>2. CASE shown[s] = v
  BY <1>2 DEF doSetAspect, TypeOK, TileTypes, kernelVars
<1>3. CASE shown[s] # v
  <2>1. job' \in Job
    BY <1>3, WatchersAreSignals DEF doSetAspect, Job
  <2>2. shown' = [shown EXCEPT ![s] = v] /\ Execute(s, v)
    BY <1>3 DEF doSetAspect
  <2> QED
    BY <1>1, <2>1, <2>2, ShownUpdated, ExecuteTypes DEF TileTypes
<1> QED
  BY <1>2, <1>3

LEMMA TypeStep == TypeOK /\ [Next]_vars => TypeOK'
<1> SUFFICES ASSUME TypeOK, [Next]_vars PROVE TypeOK'
  OBVIOUS
<1>0. NoJob \in Job
  BY DEF NoJob, Job
<1>1. ASSUME NEW b \in Block, NEW v \in BlockState, BlockChanges(b, v) PROVE TypeOK'
  <2>1. job' \in Job
    BY <1>1, <1>0, WatchersAreSignals DEF BlockChanges, Job
  <2>2. inputs' \in 0..MaxInputs
    BY <1>1, LayoutAssumption DEF BlockChanges, Begins, TypeOK
  <2> QED
    BY <1>1, <2>1, <2>2 DEF BlockChanges, TypeOK, kernelVars
<1>2. ASSUME NEW p \in Path, ReservePath(p) PROVE TypeOK'
  <2>1. job' \in Job
    BY <1>2, WatchersAreSignals, LayoutAssumption DEF ReservePath, Job
  <2>2. inputs' \in 0..MaxInputs
    BY <1>2, LayoutAssumption DEF ReservePath, Begins, TypeOK
  <2>3. block' \in [Block -> BlockState]
    BY <1>2 DEF ReservePath, TypeOK, BlockState
  <2> QED
    BY <1>2, <2>1, <2>2, <2>3 DEF ReservePath, TypeOK, kernelVars
<1>3. ASSUME NEW x \in Turnout, NEW v \in Shown(x), SetPosition(x, v) PROVE TypeOK'
  <2>1. TileTypes'
    BY <1>3, <1>0, PositionTypes DEF SetPosition
  <2>2. inputs' \in 0..MaxInputs
    BY <1>3, LayoutAssumption DEF SetPosition, Begins, TypeOK
  <2> QED
    BY <1>3, <2>1, <2>2 DEF SetPosition, TypeOK, TileTypes, layoutVars
<1>4. ASSUME NEW s \in Signal, NEW v \in Aspects(s), SetAspect(s, v) PROVE TypeOK'
  <2>1. TileTypes'
    BY <1>4, <1>0, AspectTypes, LayoutAssumption DEF SetAspect
  <2>2. inputs' \in 0..MaxInputs
    BY <1>4, LayoutAssumption DEF SetAspect, Begins, TypeOK
  <2> QED
    BY <1>4, <2>1, <2>2 DEF SetAspect, TypeOK, TileTypes, layoutVars
<1>5. ASSUME NEW s \in Signal, NEW v \in {"Auto", "Yes", "No"}, SetRequireReservation(s, v)
      PROVE  TypeOK'
  <2>1. inputs' \in 0..MaxInputs
    BY <1>5, LayoutAssumption DEF SetRequireReservation, Begins, TypeOK
  <2> QED
    BY <1>5, <2>1 DEF SetRequireReservation, TypeOK, kernelVars
<1>6. ASSUME Run \/ Stop PROVE TypeOK'
  <2>1. inputs' \in 0..MaxInputs
    BY <1>6, LayoutAssumption DEF Run, Stop, Begins, TypeOK
  <2>2. job' \in Job
    BY <1>6, <1>0 DEF Run, Stop, Job, TypeOK
  <2> QED
    BY <1>6, <2>1, <2>2 DEF Run, Stop, TypeOK, kernelVars
<1>7. ASSUME NEW s \in Signal, Evaluate(s) PROVE TypeOK'
  <2>1. [job EXCEPT !.due = @ \ {s}] \in Job
    BY DEF Job, TypeOK
  <2>2. TileTypes'
    BY <1>7, <2>1, AspectTypes, EvaluatedIsAspect DEF Evaluate
  <2> QED
    BY <1>7, <2>2 DEF Evaluate, TypeOK, TileTypes, layoutVars
<1>8. ASSUME NEW s \in Signal, ReserveSignal(s) PROVE TypeOK'
  <2>1. job.path \in Path \cup {NoPath}
    BY DEF TypeOK, Job
  <2>2. job' \in Job
    BY <1>8 DEF ReserveSignal, Job, TypeOK
  <2> QED
    BY <1>8, <2>1, <2>2 DEF ReserveSignal, TypeOK, kernelVars
<1>9. ASSUME NEW s \in Signal, MatchSignal(s) PROVE TypeOK'
  <2>1. s \in Tile
    BY DEF Tile
  <2>2. job' \in Job
    BY <1>9, WatchersAreSignals DEF MatchSignal, Job, TypeOK
  <2>3. /\ shown' \in [Tile -> (UNION {Shown(t) : t \in Tile}) \cup {Unknown}]
        /\ \A t \in Tile : shown'[t] \in Shown(t) \cup {Unknown}
    <3>1. CASE Match(s, output) = NoMatch
      BY <1>9, <3>1 DEF MatchSignal, TypeOK
    <3>2. CASE Match(s, output) # NoMatch
      BY <1>9, <2>1, <3>2, MatchIsItem, ShownUpdated DEF MatchSignal
    <3> QED
      BY <3>1, <3>2
  <2>4. overruled' \in [Signal -> {"no", "user", "bus"}] /\ unsent' \subseteq Tile
    BY <1>9 DEF MatchSignal, TypeOK
  <2> QED
    BY <1>9, <2>2, <2>3, <2>4 DEF MatchSignal, TypeOK, layoutVars, kernelVars
<1>10. ASSUME NEW x \in Turnout, MatchTurnout(x) PROVE TypeOK'
  <2>1. x \in Tile
    BY DEF Tile
  <2>2. job' \in Job
    BY <1>10, WatchersAreSignals DEF MatchTurnout, Job, TypeOK
  <2>3. /\ shown' \in [Tile -> (UNION {Shown(t) : t \in Tile}) \cup {Unknown}]
        /\ \A t \in Tile : shown'[t] \in Shown(t) \cup {Unknown}
    <3>1. CASE Match(x, output) = NoMatch
      BY <1>10, <3>1 DEF MatchTurnout, TypeOK
    <3>2. CASE Match(x, output) # NoMatch
      BY <1>10, <2>1, <3>2, MatchIsItem, ShownUpdated DEF MatchTurnout
    <3> QED
      BY <3>1, <3>2
  <2>4. unsent' \subseteq Tile
    BY <1>10 DEF MatchTurnout, TypeOK
  <2> QED
    BY <1>10, <2>2, <2>3, <2>4 DEF MatchTurnout, TypeOK, layoutVars, kernelVars
<1>11. ASSUME NEW x \in Turnout, NEW v \in Shown(x), ReserveTurnout(x, v) PROVE TypeOK'
  <2>1. [job EXCEPT !.turnouts = @ \ {<<x, v>>}] \in Job
    BY DEF Job, TypeOK
  <2>2. TileTypes'
    BY <1>11, <2>1, PositionTypes DEF ReserveTurnout
  <2> QED
    BY <1>11, <2>2 DEF ReserveTurnout, TypeOK, TileTypes, layoutVars
<1>12. ASSUME Reports PROVE TypeOK'
  <2>1. Head(events) \in Command /\ Tail(events) \in Seq(Command)
    BY <1>12 DEF Reports, TypeOK
  <2>2. job' \in Job
    BY <1>12, <1>0 DEF Reports, Job
  <2>3. output' \in [Output -> Value \cup {Undefined}]
    BY <1>12, <2>1 DEF Reports, TypeOK, Command
  <2> QED
    BY <1>12, <2>1, <2>2, <2>3 DEF Reports, TypeOK, layoutVars
<1>13. ASSUME GoesOnline PROVE TypeOK'
  BY <1>13 DEF GoesOnline, TypeOK, layoutVars
<1>14. ASSUME GoesOffline PROVE TypeOK'
  <2>1. inputs' \in 0..MaxInputs
    BY <1>14, LayoutAssumption DEF GoesOffline, Begins, TypeOK
  <2>2. commands' \in Seq(Command) /\ unsent' \subseteq Tile
    BY <1>14 DEF GoesOffline, TypeOK
  <2> QED
    BY <1>14, <2>1, <2>2 DEF GoesOffline, TypeOK, layoutVars
<1>15. ASSUME NEW c \in Command, Receive(c)
       PROVE  values' \in [Output -> Value \cup {Undefined}] /\ events' \in Seq(Command)
  <2>1. CASE values[c.output] = c.value
    BY <1>15, <2>1 DEF Receive, TypeOK
  <2>2. CASE values[c.output] # c.value
    <3>1. c.output \in Output /\ c.value \in Value
      BY DEF Command
    <3>2. values' = [values EXCEPT ![c.output] = c.value] /\ events' = Append(events, c)
      BY <1>15, <2>2 DEF Receive
    <3>3. values' \in [Output -> Value \cup {Undefined}]
      BY <3>1, <3>2 DEF TypeOK
    <3>4. events \in Seq(Command)
      BY DEF TypeOK
    <3> QED
      BY <3>2, <3>3, <3>4
  <2> QED
    BY <2>1, <2>2
<1>16. ASSUME Carries PROVE TypeOK'
  <2>1. Head(commands) \in Command /\ Tail(commands) \in Seq(Command)
    BY <1>16 DEF Carries, TypeOK
  <2>2. values' \in [Output -> Value \cup {Undefined}] /\ events' \in Seq(Command)
    BY <1>16, <2>1, <1>15 DEF Carries
  <2> QED
    BY <1>16, <2>1, <2>2 DEF Carries, TypeOK, layoutVars
<1>17. ASSUME NEW c \in Foreign, Handset(c) PROVE TypeOK'
  <2>1. c \in Command
    BY LayoutAssumption
  <2>2. values' \in [Output -> Value \cup {Undefined}] /\ events' \in Seq(Command)
    BY <1>17, <2>1, <1>15 DEF Handset
  <2>3. inputs' \in 0..MaxInputs
    BY <1>17, LayoutAssumption DEF Handset, TypeOK
  <2> QED
    BY <1>17, <2>2, <2>3 DEF Handset, TypeOK, layoutVars
<1>18. CASE UNCHANGED vars
  BY <1>18 DEF TypeOK, vars, layoutVars, kernelVars
<1> QED
  BY <1>1, <1>2, <1>3, <1>4, <1>5, <1>6, <1>7, <1>8, <1>9, <1>10, <1>11, <1>12, <1>13, <1>14,
     <1>16, <1>17, <1>18
  DEF Next, LayoutChanges, UserCommands, EventLoop, HandlerSteps

(***************************************************************************)
(* The variables keep their types, whatever the maps, the tree ahead of    *)
(* the signals and the paths are.                                          *)
(***************************************************************************)
THEOREM TypesAreKept == Spec => []TypeOK
  BY TypeInit, TypeStep, PTL DEF Spec

-----------------------------------------------------------------------------
(* Aspects *)

\* Nothing that the evaluation of signal s reads changes.
Unaffected(s) ==
  /\ \A b \in Ahead[s] : \A k \in DOMAIN b :
       /\ b[k].kind = "block" => block'[b[k].of] = block[b[k].of]
       /\ b[k].kind # "block" => shown'[b[k].of] = shown[b[k].of]
  /\ reserved'[s] = reserved[s] /\ require'[s] = require[s]
  /\ granted \subseteq granted'
  /\ \A p \in granted' \ granted : \A b \in Ahead[s] : \A k \in DOMAIN b :
       b[k].kind = "block" => b[k].of # PathInfo[p].to

LEMMA SameAspect ==
  ASSUME NEW s \in Signal, Unaffected(s)
  PROVE  Evaluated(s)' = Evaluated(s)
<1>0. \A b \in Ahead[s] : b \in Seq(Item)
  BY LayoutAssumption
<1>1. ASSUME NEW b \in Ahead[s], NEW k \in DOMAIN b PROVE Followed(b, k)' = Followed(b, k)
  <2>1. 1..k \subseteq DOMAIN b
    BY <1>0
  <2>2. \A j \in 1..k : b[j].kind = "turnout" => shown'[b[j].of] = shown[b[j].of]
    BY <2>1 DEF Unaffected
  <2> QED
    BY <2>2 DEF Followed
<1>2. requireReservation(s)' = requireReservation(s)
  BY DEF Unaffected, requireReservation
<1>3. ASSUME NEW b \in Ahead[s], NEW k \in DOMAIN b, b[k].kind = "block"
      PROVE  MayEnter(s, b[k].of)' = MayEnter(s, b[k].of)
  <2>1. block'[b[k].of] = block[b[k].of]
    BY <1>3 DEF Unaffected
  <2> QED
    BY <1>2, <2>1 DEF MayEnter, Unaffected
<1>4. ASSUME NEW b \in Ahead[s], NEW k \in DOMAIN b PROVE Enters(s, b, k)' = Enters(s, b, k)
  BY <1>1, <1>3 DEF Enters, IsNextBlock
<1>5. ASSUME NEW b \in Ahead[s], NEW k \in DOMAIN b, NEW m \in DOMAIN b
      PROVE  IsNextAfter(b, k, m)' = IsNextAfter(b, k, m)
  BY <1>1 DEF IsNextAfter
<1>6. ASSUME NEW b \in Ahead[s], NEW k \in DOMAIN b, NEW m \in DOMAIN b
      PROVE  ClearBeyond(b, k, m)' = ClearBeyond(b, k, m)
  <2>1. CASE b[m].kind = "block"
    <3>1. block'[b[m].of] = block[b[m].of]
      BY <2>1 DEF Unaffected
    <3>2. \A p \in granted' : PathInfo[p].to = b[m].of => p \in granted
      BY <2>1 DEF Unaffected
    <3>3. granted \subseteq granted'
      BY DEF Unaffected
    <3> QED
      BY <2>1, <3>1, <3>2, <3>3 DEF ClearBeyond
  <2>2. CASE b[m].kind # "block"
    BY <2>2 DEF ClearBeyond, Unaffected
  <2> QED
    BY <2>1, <2>2
<1> DEFINE entered == \E b \in Ahead[s] : \E k \in DOMAIN b : Enters(s, b, k)
           beyond == \E b \in Ahead[s] : \E k \in DOMAIN b :
                       /\ Enters(s, b, k)
                       /\ s \in ThreeAspect =>
                            \E m \in DOMAIN b : IsNextAfter(b, k, m) /\ ClearBeyond(b, k, m)
<1>7. entered' = entered
  BY <1>4
<1>8. beyond' = beyond
  BY <1>4, <1>5, <1>6, Zenon
<1>9. determineAspect(s) = CASE ~entered -> "Stop"
                             [] beyond -> "Proceed"
                             [] OTHER -> "ProceedReducedSpeed"
  BY Zenon DEF determineAspect
<1>10. determineAspect(s)' = CASE ~entered' -> "Stop"
                               [] beyond' -> "Proceed"
                               [] OTHER -> "ProceedReducedSpeed"
  BY Zenon DEF determineAspect
<1>11. determineAspect(s)' = determineAspect(s)
  <2> HIDE DEF entered, beyond
  <2> QED
    BY <1>7, <1>8, <1>9, <1>10
<1>12. reserved'[s] = reserved[s]
  BY DEF Unaffected
<1> QED
  BY <1>2, <1>11, <1>12 DEF Evaluated

\* A signal is due, or overruled, or shows what lies ahead.
UpToDate(s) == s \in job.due \/ overruled[s] # "no" \/ shown[s] = Evaluated(s)

CurrentInv == \A s \in Signal : UpToDate(s)

LEMMA UnaffectedIsUpToDate ==
  ASSUME NEW s \in Signal, UpToDate(s), Unaffected(s), s \in job.due => s \in job'.due,
         overruled'[s] = overruled[s], shown'[s] = shown[s]
  PROVE  UpToDate(s)'
  BY SameAspect DEF UpToDate

\* A block changes: the signals that do not watch it are unaffected.
LEMMA BlockFrame ==
  ASSUME TypeOK, NEW c \in Block, NEW v, block' = [block EXCEPT ![c] = v],
         UNCHANGED <<reserved, require, shown>>,
         granted \subseteq granted', \A p \in granted' \ granted : PathInfo[p].to = c,
         NEW s \in Signal, s \notin Watchers("block", c)
  PROVE  Unaffected(s)
<1>1. \A b \in Ahead[s] : \A k \in DOMAIN b : b[k].kind = "block" => b[k].of # c
  BY DEF Watchers
<1>2. \A b \in Ahead[s] : \A k \in DOMAIN b : b[k].kind = "block" => block'[b[k].of] = block[b[k].of]
  BY <1>1 DEF TypeOK
<1> QED
  BY <1>1, <1>2 DEF Unaffected

KindOf(t) == IF t \in Turnout THEN "turnout" ELSE "signal"

\* A turnout or a signal changes: the signals that do not watch it are unaffected.
LEMMA TileFrame ==
  ASSUME TypeOK, NEW t \in Tile, NEW v, shown' = [shown EXCEPT ![t] = v],
         UNCHANGED <<block, granted, reserved, require>>,
         NEW s \in Signal, s \notin Watchers(KindOf(t), t)
  PROVE  Unaffected(s)
<1>1. ASSUME NEW b \in Ahead[s], NEW k \in DOMAIN b, b[k].kind # "block" PROVE b[k].of # t
  <2>1. b[k] \in Item
    BY LayoutAssumption
  <2>2. \/ b[k].kind = "turnout" /\ b[k].of \in Turnout
        \/ b[k].kind = "signal" /\ b[k].of \in Signal
    BY <1>1, <2>1 DEF Item
  <2> QED
    BY <2>2, LayoutAssumption DEF Watchers, KindOf
<1>2. \A b \in Ahead[s] : \A k \in DOMAIN b : b[k].kind # "block" => shown'[b[k].of] = shown[b[k].of]
  BY <1>1 DEF TypeOK
<1> QED
  BY <1>2 DEF Unaffected

\* Setting a turnout makes the signals that watch it due.
LEMMA PositionKeeps ==
  ASSUME TypeOK, CurrentInv, NEW x \in Turnout, NEW v \in Shown(x), NEW j \in Job,
         doSetPosition(x, v, j), job.due \subseteq j.due,
         UNCHANGED <<block, granted, reserved, require, overruled>>
  PROVE  CurrentInv'
<1> SUFFICES ASSUME NEW s \in Signal PROVE UpToDate(s)'
  BY DEF CurrentInv
<1>1. x \in Tile /\ KindOf(x) = "turnout" /\ x # s
  BY LayoutAssumption DEF Tile, KindOf
<1>2. shown' = [shown EXCEPT ![x] = v] /\ shown'[s] = shown[s]
  BY <1>1 DEF doSetPosition, TypeOK
<1>3. job'.due = j.due \cup Watchers("turnout", x)
  BY DEF doSetPosition, Job
<1>4. CASE s \in Watchers("turnout", x)
  BY <1>3, <1>4 DEF UpToDate
<1>5. CASE s \notin Watchers("turnout", x)
  <2>1. Unaffected(s)
    BY <1>1, <1>2, <1>5, TileFrame
  <2> QED
    BY <1>2, <1>3, <2>1, UnaffectedIsUpToDate DEF CurrentInv
<1> QED
  BY <1>4, <1>5

\* Setting a signal makes the signals that watch it due.
LEMMA AspectKeepsOthers ==
  ASSUME TypeOK, CurrentInv, NEW s \in Signal, NEW v \in Shown(s), NEW j \in Job,
         doSetAspect(s, v, j), UNCHANGED <<block, granted, reserved, require>>,
         NEW r \in Signal, r # s, r \in job.due => r \in j.due, overruled'[r] = overruled[r]
  PROVE  UpToDate(r)'
<1>1. s \in Tile /\ KindOf(s) = "signal"
  BY LayoutAssumption DEF Tile, KindOf
<1>2. CASE shown[s] = v
  <2>1. shown' = shown /\ job' = j
    BY <1>2 DEF doSetAspect
  <2>2. Unaffected(r)
    BY <2>1 DEF Unaffected
  <2> QED
    BY <2>1, <2>2, UnaffectedIsUpToDate DEF CurrentInv
<1>3. CASE shown[s] # v
  <2>0. shown' = [shown EXCEPT ![s] = v]
    BY <1>3 DEF doSetAspect
  <2>1. shown'[r] = shown[r]
    BY <2>0 DEF TypeOK, Tile
  <2>2. job'.due = j.due \cup Watchers("signal", s)
    BY <1>3 DEF doSetAspect, Job
  <2>3. CASE r \in Watchers("signal", s)
    BY <2>2, <2>3 DEF UpToDate
  <2>4. CASE r \notin Watchers("signal", s)
    <3>1. Unaffected(r)
      BY <1>1, <2>0, <2>4, TileFrame
    <3> QED
      BY <2>1, <2>2, <3>1, UnaffectedIsUpToDate DEF CurrentInv
  <2> QED
    BY <2>3, <2>4
<1> QED
  BY <1>2, <1>3

LEMMA CurrentStep == TypeOK /\ CurrentInv /\ [Next]_vars => CurrentInv'
<1> SUFFICES ASSUME TypeOK, CurrentInv, [Next]_vars PROVE CurrentInv'
  OBVIOUS
<1>0. ASSUME UNCHANGED <<block, granted, reserved, require, shown, overruled>>,
             job.due \subseteq job'.due
      PROVE  CurrentInv'
  <2> SUFFICES ASSUME NEW s \in Signal PROVE UpToDate(s)'
    BY DEF CurrentInv
  <2>1. Unaffected(s)
    BY <1>0 DEF Unaffected
  <2> QED
    BY <1>0, <2>1, UnaffectedIsUpToDate DEF CurrentInv
<1>1. ASSUME NEW b \in Block, NEW v \in BlockState, BlockChanges(b, v) PROVE CurrentInv'
  <2> SUFFICES ASSUME NEW s \in Signal PROVE UpToDate(s)'
    BY DEF CurrentInv
  <2>1. job'.due = Watchers("block", b) /\ job.due = {}
    BY <1>1 DEF BlockChanges, Begins, Idle, NoJob
  <2>2. CASE s \in Watchers("block", b)
    BY <2>1, <2>2 DEF UpToDate
  <2>3. CASE s \notin Watchers("block", b)
    <3>1. Unaffected(s)
      BY <1>1, <2>3, BlockFrame DEF BlockChanges
    <3> QED
      BY <1>1, <2>1, <3>1, UnaffectedIsUpToDate DEF BlockChanges, CurrentInv
  <2> QED
    BY <2>2, <2>3
<1>2. ASSUME NEW p \in Path, ReservePath(p) PROVE CurrentInv'
  <2> SUFFICES ASSUME NEW s \in Signal PROVE UpToDate(s)'
    BY DEF CurrentInv
  <2> DEFINE to == PathInfo[p].to
  <2>0. to \in Block
    BY LayoutAssumption
  <2>1. job'.due = Watchers("block", to) /\ job.due = {}
    BY <1>2 DEF ReservePath, Begins, Idle
  <2>2. /\ block' = [block EXCEPT ![to] = "Reserved"] /\ granted' = granted \cup {p}
        /\ UNCHANGED <<reserved, require, shown, overruled>>
    BY <1>2 DEF ReservePath
  <2>3. CASE s \in Watchers("block", to)
    BY <2>1, <2>3 DEF UpToDate
  <2>4. CASE s \notin Watchers("block", to)
    <3>1. \A q \in granted' \ granted : PathInfo[q].to = to
      BY <2>2
    <3> HIDE DEF to
    <3>2. Unaffected(s)
      BY <2>0, <2>2, <2>4, <3>1, BlockFrame
    <3> QED
      BY <2>1, <2>2, <3>2, UnaffectedIsUpToDate DEF CurrentInv
  <2> QED
    BY <2>3, <2>4
<1>3. ASSUME NEW x \in Turnout, NEW v \in Shown(x), SetPosition(x, v) PROVE CurrentInv'
  <2>1. NoJob \in Job /\ job.due = {}
    BY <1>3 DEF NoJob, Job, SetPosition, Begins, Idle
  <2> QED
    BY <1>3, <2>1, PositionKeeps DEF SetPosition, layoutVars
<1>4. ASSUME NEW s \in Signal, NEW v \in Aspects(s), SetAspect(s, v) PROVE CurrentInv'
  <2> SUFFICES ASSUME NEW r \in Signal PROVE UpToDate(r)'
    BY DEF CurrentInv
  <2>1. NoJob \in Job /\ job.due = {} /\ v \in Shown(s)
    BY <1>4, LayoutAssumption DEF NoJob, Job, SetAspect, Begins, Idle
  <2>2. CASE r # s
    <3>1. overruled'[r] = overruled[r]
      BY <1>4, <2>2 DEF SetAspect, TypeOK
    <3> QED
      BY <1>4, <2>1, <2>2, <3>1, AspectKeepsOthers DEF SetAspect, layoutVars
  <2>3. CASE r = s /\ shown[s] = v
    <3>1. UNCHANGED <<block, granted, reserved, require, shown, overruled>>
      BY <1>4, <2>3 DEF SetAspect, doSetAspect, layoutVars
    <3>2. Unaffected(s)
      BY <3>1 DEF Unaffected
    <3> QED
      BY <2>1, <2>3, <3>1, <3>2, UnaffectedIsUpToDate DEF CurrentInv
  <2>4. CASE r = s /\ shown[s] # v
    <3>1. overruled'[r] = "user"
      BY <1>4, <2>4 DEF SetAspect, TypeOK
    <3> QED
      BY <3>1 DEF UpToDate
  <2> QED
    BY <2>2, <2>3, <2>4
<1>5. ASSUME NEW s \in Signal, NEW v \in {"Auto", "Yes", "No"}, SetRequireReservation(s, v)
      PROVE  CurrentInv'
  <2> SUFFICES ASSUME NEW r \in Signal PROVE UpToDate(r)'
    BY DEF CurrentInv
  <2>1. CASE r = s
    BY <1>5, <2>1 DEF SetRequireReservation, TypeOK, UpToDate
  <2>2. CASE r # s
    <3>1. Unaffected(r) /\ overruled'[r] = overruled[r]
      BY <1>5, <2>2 DEF SetRequireReservation, Unaffected, TypeOK
    <3> QED
      BY <1>5, <3>1, UnaffectedIsUpToDate DEF SetRequireReservation, CurrentInv
  <2> QED
    BY <2>1, <2>2
<1>6. ASSUME Run \/ Stop PROVE CurrentInv'
  <2>1. job.due = {}
    BY <1>6 DEF Run, Stop, Begins, Idle
  <2> QED
    BY <1>0, <1>6, <2>1 DEF Run, Stop
<1>7. ASSUME NEW s \in Signal, Evaluate(s) PROVE CurrentInv'
  <2> SUFFICES ASSUME NEW r \in Signal PROVE UpToDate(r)'
    BY DEF CurrentInv
  <2> DEFINE j == [job EXCEPT !.due = @ \ {s}]
             v == Evaluated(s)
  <2>1. j \in Job /\ j.due = job.due \ {s} /\ v \in Shown(s)
    BY EvaluatedIsAspect DEF Job, TypeOK
  <2>2. doSetAspect(s, v, j) /\ UNCHANGED <<block, granted, reserved, require>>
    BY <1>7 DEF Evaluate, layoutVars
  <2>3. overruled' = [overruled EXCEPT ![s] = "no"]
    BY <1>7 DEF Evaluate
  <2>4. CASE r # s
    <3>1. overruled'[r] = overruled[r]
      BY <2>3, <2>4 DEF TypeOK
    <3> HIDE DEF j, v
    <3> QED
      BY <2>1, <2>2, <2>4, <3>1, AspectKeepsOthers
  <2>5. CASE r = s /\ shown[s] = v
    <3>1. shown' = shown
      BY <2>2, <2>5 DEF doSetAspect
    <3>2. Unaffected(s)
      BY <2>2, <3>1 DEF Unaffected
    <3> QED
      BY <2>5, <3>1, <3>2, SameAspect DEF UpToDate
  <2>6. CASE r = s /\ shown[s] # v
    <3> HIDE DEF j, v
    <3>1. shown' = [shown EXCEPT ![s] = v] /\ job'.due = j.due \cup Watchers("signal", s)
      BY <2>1, <2>2, <2>6 DEF doSetAspect, Job
    <3>2. s \in Tile /\ KindOf(s) = "signal"
      BY LayoutAssumption DEF Tile, KindOf
    <3>3. CASE s \in Watchers("signal", s)
      BY <2>6, <3>1, <3>3 DEF UpToDate
    <3>4. CASE s \notin Watchers("signal", s)
      <4>1. Unaffected(s)
        BY <2>2, <3>1, <3>2, <3>4, TileFrame
      <4>2. Evaluated(s)' = v
        BY <4>1, SameAspect DEF v
      <4>3. shown'[s] = v
        BY <3>1, <3>2 DEF TypeOK
      <4> QED
        BY <2>6, <4>2, <4>3 DEF UpToDate
    <3> QED
      BY <3>3, <3>4
  <2> QED
    BY <2>4, <2>5, <2>6
<1>8. ASSUME NEW s \in Signal, ReserveSignal(s) PROVE CurrentInv'
  <2> SUFFICES ASSUME NEW r \in Signal PROVE UpToDate(r)'
    BY DEF CurrentInv
  <2>1. job.due = {} /\ job'.due = {s}
    BY <1>8 DEF ReserveSignal, TypeOK, Job
  <2>2. CASE r = s
    BY <2>1, <2>2 DEF UpToDate
  <2>3. CASE r # s
    <3>1. Unaffected(r)
      BY <1>8, <2>3 DEF ReserveSignal, Unaffected, TypeOK
    <3> QED
      BY <1>8, <2>1, <3>1, UnaffectedIsUpToDate DEF ReserveSignal, CurrentInv
  <2> QED
    BY <2>2, <2>3
<1>9. ASSUME NEW s \in Signal, MatchSignal(s) PROVE CurrentInv'
  <2> SUFFICES ASSUME NEW r \in Signal PROVE UpToDate(r)'
    BY DEF CurrentInv
  <2> DEFINE v == Match(s, output)
  <2>1. /\ job.due = {} /\ UNCHANGED <<block, granted, reserved, require>>
        /\ s \in Tile /\ r \in Tile /\ KindOf(s) = "signal"
    BY <1>9, LayoutAssumption DEF MatchSignal, layoutVars, Tile, KindOf
  <2>2. CASE v \in {NoMatch, shown[s]}
    <3>1. shown' = shown /\ overruled' = overruled
      <4>1. CASE v = NoMatch
        BY <1>9, <4>1 DEF MatchSignal
      <4>2. CASE v # NoMatch /\ v = shown[s]
        BY <1>9, <2>1, <4>2 DEF MatchSignal, TypeOK
      <4> QED
        BY <2>2, <4>1, <4>2
    <3> QED
      BY <1>0, <2>1, <3>1 DEF CurrentInv
  <2>3. CASE v \notin {NoMatch, shown[s]}
    <3>1. /\ shown' = [shown EXCEPT ![s] = v] /\ overruled' = [overruled EXCEPT ![s] = "bus"]
          /\ job'.due = Watchers("signal", s)
      BY <1>9, <2>3 DEF MatchSignal, TypeOK, Job
    <3>2. CASE r = s
      BY <3>1, <3>2 DEF UpToDate, TypeOK
    <3>3. CASE r # s /\ r \in Watchers("signal", s)
      BY <3>1, <3>3 DEF UpToDate
    <3>4. CASE r # s /\ r \notin Watchers("signal", s)
      <4> HIDE DEF v
      <4>1. Unaffected(r)
        BY <2>1, <3>1, <3>4, TileFrame
      <4>2. shown'[r] = shown[r] /\ overruled'[r] = overruled[r]
        BY <3>1, <3>4 DEF TypeOK
      <4> QED
        BY <2>1, <4>1, <4>2, UnaffectedIsUpToDate DEF CurrentInv
    <3> QED
      BY <3>2, <3>3, <3>4
  <2> QED
    BY <2>2, <2>3
<1>10. ASSUME NEW x \in Turnout, MatchTurnout(x) PROVE CurrentInv'
  <2> SUFFICES ASSUME NEW r \in Signal PROVE UpToDate(r)'
    BY DEF CurrentInv
  <2> DEFINE v == Match(x, output)
  <2>1. /\ job.due = {} /\ UNCHANGED <<block, granted, reserved, require, overruled>>
        /\ x \in Tile /\ r \in Tile /\ x # r /\ KindOf(x) = "turnout"
    BY <1>10, LayoutAssumption DEF MatchTurnout, layoutVars, Tile, KindOf
  <2>2. CASE v = NoMatch
    <3>1. shown' = shown
      BY <1>10, <2>2 DEF MatchTurnout
    <3> QED
      BY <1>0, <2>1, <3>1 DEF CurrentInv
  <2>3. CASE v # NoMatch
    <3>1. shown' = [shown EXCEPT ![x] = v] /\ job'.due = Watchers("turnout", x)
      BY <1>10, <2>3 DEF MatchTurnout, TypeOK, Job
    <3> HIDE DEF v
    <3>2. CASE r \in Watchers("turnout", x)
      BY <3>1, <3>2 DEF UpToDate
    <3>3. CASE r \notin Watchers("turnout", x)
      <4>1. Unaffected(r)
        BY <2>1, <3>1, <3>3, TileFrame
      <4>2. shown'[r] = shown[r]
        BY <2>1, <3>1 DEF TypeOK
      <4> QED
        BY <2>1, <4>1, <4>2, UnaffectedIsUpToDate DEF CurrentInv
    <3> QED
      BY <3>2, <3>3
  <2> QED
    BY <2>2, <2>3
<1>11. ASSUME NEW x \in Turnout, NEW v \in Shown(x), ReserveTurnout(x, v) PROVE CurrentInv'
  <2> DEFINE j == [job EXCEPT !.turnouts = @ \ {<<x, v>>}]
  <2>1. j \in Job /\ j.due = job.due
    BY DEF Job, TypeOK
  <2>2. doSetPosition(x, v, j) /\ UNCHANGED <<block, granted, reserved, require, overruled>>
    BY <1>11 DEF ReserveTurnout, layoutVars
  <2> HIDE DEF j
  <2> QED
    BY <2>1, <2>2, PositionKeeps
<1>12. ASSUME Reports PROVE CurrentInv'
  <2>1. job.due = {}
    BY <1>12 DEF Reports, Idle
  <2> QED
    BY <1>0, <1>12, <2>1 DEF Reports, layoutVars
<1>13. ASSUME GoesOnline \/ GoesOffline \/ Carries \/ \E c \in Foreign : Handset(c) PROVE CurrentInv'
  BY <1>0, <1>13 DEF GoesOnline, GoesOffline, Carries, Handset, layoutVars
<1>14. CASE UNCHANGED vars
  BY <1>0, <1>14 DEF vars, layoutVars
<1> QED
  BY <1>1, <1>2, <1>3, <1>4, <1>5, <1>6, <1>7, <1>8, <1>9, <1>10, <1>11, <1>12, <1>13, <1>14
  DEF Next, LayoutChanges, UserCommands, EventLoop, HandlerSteps

(***************************************************************************)
(* While no handler runs, each signal that was not overruled shows what    *)
(* lies ahead of it, for every layout: boardModified and the connections   *)
(* of findBlocks leave no change out.                                      *)
(***************************************************************************)
THEOREM AspectsAreCurrent == Spec => []AspectIsCurrent
<1>1. Init => CurrentInv
  BY DEF Init, CurrentInv, UpToDate, NoJob
<1>2. CurrentInv => AspectIsCurrent
  BY DEF CurrentInv, UpToDate, AspectIsCurrent, Idle
<1> QED
  BY <1>1, <1>2, TypeInit, TypeStep, CurrentStep, PTL DEF Spec

-----------------------------------------------------------------------------
(* What the bus said *)

\* What the kernel takes an output to have is what it told last, or what the output has.
ToldLast(o) ==
  \/ \E k \in DOMAIN events : /\ events[k].output = o /\ events[k].value = values[o]
                               /\ \A j \in DOMAIN events : j > k => events[j].output # o
  \/ /\ \A k \in DOMAIN events : events[k].output # o
     /\ output[o] = values[o]

ValuesInv == \A o \in Output : values[o] # Undefined => ToldLast(o)

\* Tile t is going to match its outputs.
Waiting(t) ==
  \/ t \in job.matches
  \/ \E k \in DOMAIN events : events[k].output \in Outputs[t]

\* A message is on its way that makes the kernel tell of an output of t.
ChangeComing(t) ==
  \E k \in DOMAIN commands : /\ commands[k].output \in Outputs[t]
                             /\ commands[k].value # values[commands[k].output]

IsTold(t) == Match(t, output) = NoMatch \/ (shown[t] \in Shown(t) /\ Agrees(t, shown[t], output))

Settles(t) == t \in unsent \/ Waiting(t) \/ ChangeComing(t) \/ IsTold(t)

TruthInv == \A t \in Tile : Settles(t)

BusInv == ValuesInv /\ TruthInv

\* A match depends on the outputs of the map only.
LEMMA AgreesDependsOnOutputs ==
  ASSUME NEW t \in Tile, NEW v \in Shown(t), NEW f, NEW g, \A o \in Outputs[t] : f[o] = g[o]
  PROVE  Agrees(t, v, f) = Agrees(t, v, g)
<1>1. \A i \in DOMAIN Actions[t][v] : Actions[t][v][i].output \in Outputs[t]
  BY MapAssumption
<1> QED
  BY <1>1 DEF Agrees

LEMMA MatchDependsOnOutputs ==
  ASSUME NEW t \in Tile, NEW f, NEW g, \A o \in Outputs[t] : f[o] = g[o]
  PROVE  Match(t, f) = Match(t, g)
<1>1. ASSUME NEW k \in DOMAIN Items[t] PROVE Agrees(t, Items[t][k], f) = Agrees(t, Items[t][k], g)
  <2>1. Items[t][k] \in Shown(t)
    BY DEF Shown
  <2> QED
    BY <2>1, AgreesDependsOnOutputs
<1> DEFINE agreeing(h) == {k \in DOMAIN Items[t] : Agrees(t, Items[t][k], h)}
           full(a) == {k \in a : ~LeavesOpen(t, Items[t][k])}
           best(a) == IF full(a) = {} THEN a ELSE full(a)
           first(a) == {k \in best(a) : \A j \in best(a) : k <= j}
           item(a) == IF first(a) = {} THEN NoMatch ELSE Items[t][CHOOSE k \in first(a) : TRUE]
<1>2. agreeing(f) = agreeing(g)
  BY <1>1
<1>3. Match(t, f) = item(agreeing(f)) /\ Match(t, g) = item(agreeing(g))
  BY Zenon DEF Match
<1> HIDE DEF agreeing, item
<1> QED
  BY <1>2, <1>3

\* Setting a tile: when nothing is going to change, the outputs are as its actions say.
LEMMA ExecuteSettles ==
  ASSUME TypeOK, ValuesInv, NEW t \in Tile, NEW v \in Shown(t), Execute(t, v),
         output' = output, shown'[t] = v, job.matches \subseteq job'.matches
  PROVE  Settles(t)'
<1>0. /\ Actions[t][v] \in Seq(Command) /\ commands \in Seq(Command)
      /\ output \in [Output -> Value \cup {Undefined}]
      /\ values' = values /\ events' = events
  BY MapAssumption DEF TypeOK, Execute
<1>1. CASE ~online
  BY <1>1 DEF Execute, Settles
<1>2. CASE online /\ \E k \in DOMAIN Actions[t][v] :
             Actions[t][v][k].value # values[Actions[t][v][k].output]
  <2>1. PICK k \in DOMAIN Actions[t][v] : Actions[t][v][k].value # values[Actions[t][v][k].output]
    BY <1>2
  <2>2. commands' = commands \o Actions[t][v]
    BY <1>2 DEF Execute
  <2>3. Len(commands) + k \in DOMAIN commands' /\ commands'[Len(commands) + k] = Actions[t][v][k]
    BY <1>0, <2>2
  <2>4. Actions[t][v][k].output \in Outputs[t]
    BY MapAssumption
  <2>5. ChangeComing(t)'
    BY <1>0, <2>1, <2>3, <2>4 DEF ChangeComing
  <2> QED
    BY <2>5 DEF Settles
<1>3. CASE \A k \in DOMAIN Actions[t][v] : Actions[t][v][k].value = values[Actions[t][v][k].output]
  <2>1. CASE Waiting(t)
    BY <1>0, <2>1 DEF Waiting, Settles
  <2>2. CASE ~Waiting(t)
    <3>1. ASSUME NEW k \in DOMAIN Actions[t][v] PROVE output[Actions[t][v][k].output] = Actions[t][v][k].value
      <4> DEFINE c == Actions[t][v][k]
      <4>1. c \in Command /\ c.output \in Outputs[t]
        BY <1>0, MapAssumption
      <4>2. c.output \in Output /\ c.value \in Value /\ c.value # Undefined
        BY <4>1, LayoutAssumption DEF Command
      <4>3. values[c.output] = c.value
        BY <1>3
      <4> HIDE DEF c
      <4>4. ToldLast(c.output)
        BY <4>2, <4>3 DEF ValuesInv
      <4>5. \A i \in DOMAIN events : events[i].output # c.output
        BY <2>2, <4>1 DEF Waiting
      <4>6. output[c.output] = c.value
        BY <4>3, <4>4, <4>5 DEF ToldLast
      <4> QED
        BY <4>6 DEF c
    <3>2. Agrees(t, v, output)
      BY <3>1 DEF Agrees
    <3>3. shown'[t] \in Shown(t) /\ Agrees(t, shown'[t], output')
      BY <3>2
    <3>4. IsTold(t)'
      BY <3>3 DEF IsTold
    <3> QED
      BY <3>4 DEF Settles
  <2> QED
    BY <2>1, <2>2
<1> QED
  BY <1>1, <1>2, <1>3

\* What a step of other tiles leaves of what settles t.
LEMMA OthersSettle ==
  ASSUME TypeOK, NEW t \in Tile, Settles(t), t \in unsent => t \in unsent',
         output' = output, shown'[t] = shown[t], t \in job.matches => t \in job'.matches,
         values' = values, events' = events,
         \/ commands' = commands
         \/ \E more \in Seq(Command) : commands' = commands \o more
  PROVE  Settles(t)'
<1>1. CASE t \in unsent
  BY <1>1 DEF Settles
<1>2. CASE Waiting(t)
  BY <1>2 DEF Waiting, Settles
<1>3. CASE ChangeComing(t)
  <2>1. commands \in Seq(Command)
    BY DEF TypeOK
  <2>2. PICK k \in DOMAIN commands : /\ commands[k].output \in Outputs[t]
                                     /\ commands[k].value # values[commands[k].output]
    BY <1>3 DEF ChangeComing
  <2>3. k \in DOMAIN commands' /\ commands'[k] = commands[k]
    <3>1. CASE commands' = commands
      BY <3>1
    <3>2. CASE \E more \in Seq(Command) : commands' = commands \o more
      BY <2>1, <3>2
    <3> QED
      BY <3>1, <3>2
  <2>4. ChangeComing(t)'
    BY <2>2, <2>3 DEF ChangeComing
  <2> QED
    BY <2>4 DEF Settles
<1>4. CASE IsTold(t)
  <2>1. /\ Match(t, output') = Match(t, output)
        /\ Agrees(t, shown'[t], output') = Agrees(t, shown[t], output)
    OBVIOUS
  <2>2. IsTold(t)'
    BY <1>4, <2>1 DEF IsTold
  <2> QED
    BY <2>2 DEF Settles
<1> QED
  BY <1>1, <1>2, <1>3, <1>4 DEF Settles

LEMMA SameToldLast ==
  ASSUME ValuesInv, UNCHANGED <<values, events, output>>
  PROVE  ValuesInv'
  BY DEF ValuesInv, ToldLast

\* A step that sends and shows nothing.
LEMMA SilentSteps ==
  ASSUME TypeOK, BusInv, UNCHANGED <<kernelVars, shown, output, unsent>>,
         job.matches \subseteq job'.matches
  PROVE  BusInv'
<1>1. ValuesInv'
  BY SameToldLast DEF BusInv, kernelVars
<1>2. ASSUME NEW t \in Tile PROVE Settles(t)'
  BY OthersSettle DEF BusInv, TruthInv, kernelVars
<1> QED
  BY <1>1, <1>2 DEF BusInv, TruthInv

\* A tile is set.
LEMMA SettingKeeps ==
  ASSUME TypeOK, BusInv, NEW t \in Tile, NEW v \in Shown(t), Execute(t, v),
         shown' = [shown EXCEPT ![t] = v], output' = output, job.matches \subseteq job'.matches
  PROVE  BusInv'
<1>0. values' = values /\ events' = events
  BY DEF Execute
<1>1. ValuesInv'
  BY <1>0, SameToldLast DEF BusInv
<1>2. shown'[t] = v
  BY DEF TypeOK
<1>3. Settles(t)'
  BY <1>2, ExecuteSettles DEF BusInv
<1>4. ASSUME NEW u \in Tile, u # t PROVE Settles(u)'
  <2>1. shown'[u] = shown[u] /\ (u \in unsent => u \in unsent')
    BY <1>4 DEF TypeOK, Execute
  <2>2. Actions[t][v] \in Seq(Command)
    BY MapAssumption
  <2>3. \/ commands' = commands
        \/ \E more \in Seq(Command) : commands' = commands \o more
    BY <2>2 DEF Execute
  <2>4. Settles(u)
    BY DEF BusInv, TruthInv
  <2> QED
    BY <1>0, <2>1, <2>3, <2>4, OthersSettle
<1> QED
  BY <1>1, <1>3, <1>4 DEF BusInv, TruthInv

\* The bus carries message c, the next of the kernel or one of a handset.
LEMMA ReceiveKeeps ==
  ASSUME TypeOK, BusInv, NEW c \in Command, Receive(c), UNCHANGED <<shown, output, job, unsent>>,
         \/ commands' = commands
         \/ commands # <<>> /\ c = Head(commands) /\ commands' = Tail(commands)
  PROVE  BusInv'
<1>0. /\ events \in Seq(Command) /\ commands \in Seq(Command)
      /\ c.output \in Output /\ values \in [Output -> Value \cup {Undefined}]
  BY DEF TypeOK, Command
<1>1. CASE values[c.output] = c.value
  <2>1. values' = values /\ events' = events
    BY <1>1 DEF Receive
  <2>2. ValuesInv'
    BY <2>1, SameToldLast DEF BusInv
  <2>3. ASSUME NEW t \in Tile PROVE Settles(t)'
    <3>1. CASE t \in unsent
      BY <3>1 DEF Settles
    <3>2. CASE Waiting(t)
      BY <2>1, <3>2 DEF Waiting, Settles
    <3>3. CASE IsTold(t)
      <4>1. IsTold(t)'
        BY <3>3 DEF IsTold
      <4> QED
        BY <4>1 DEF Settles
    <3>4. CASE ChangeComing(t)
      <4>1. PICK k \in DOMAIN commands : /\ commands[k].output \in Outputs[t]
                                         /\ commands[k].value # values[commands[k].output]
        BY <3>4 DEF ChangeComing
      <4>2. CASE commands' = commands
        BY <2>1, <3>4, <4>2 DEF ChangeComing, Settles
      <4>3. CASE commands # <<>> /\ c = Head(commands) /\ commands' = Tail(commands)
        <5>1. commands[1] = c
          BY <1>0, <4>3
        <5>2. k # 1
          BY <1>1, <4>1, <5>1
        <5>3. k - 1 \in DOMAIN commands' /\ commands'[k - 1] = commands[k]
          BY <1>0, <4>1, <4>3, <5>2
        <5>4. ChangeComing(t)'
          BY <2>1, <4>1, <5>3 DEF ChangeComing
        <5> QED
          BY <5>4 DEF Settles
      <4> QED
        BY <4>2, <4>3
    <3> QED
      BY <3>1, <3>2, <3>3, <3>4 DEF BusInv, TruthInv, Settles
  <2> QED
    BY <2>2, <2>3 DEF BusInv, TruthInv
<1>2. CASE values[c.output] # c.value
  <2>1. values' = [values EXCEPT ![c.output] = c.value] /\ events' = Append(events, c)
    BY <1>2 DEF Receive
  <2>2. /\ Len(events') = Len(events) + 1 /\ DOMAIN events' = 1..(Len(events) + 1)
        /\ events'[Len(events) + 1] = c
        /\ DOMAIN events = 1..Len(events) /\ Len(events) \in Nat
        /\ \A k \in DOMAIN events : events'[k] = events[k]
    BY <1>0, <2>1
  <2>3. ValuesInv'
    <3> SUFFICES ASSUME NEW o \in Output, values'[o] # Undefined PROVE ToldLast(o)'
      BY DEF ValuesInv
    <3>1. CASE o = c.output
      <4>1. values'[o] = c.value
        BY <1>0, <2>1, <3>1
      <4>2. \A j \in DOMAIN events' : ~(j > Len(events) + 1)
        BY <2>2
      <4> QED
        BY <2>2, <3>1, <4>1, <4>2 DEF ToldLast
    <3>2. CASE o # c.output
      <4>1. values'[o] = values[o]
        BY <1>0, <2>1, <3>2
      <4>2. ToldLast(o)
        BY <4>1 DEF BusInv, ValuesInv
      <4>3. \A j \in DOMAIN events' : j \notin DOMAIN events => events'[j].output # o
        BY <2>2, <3>2
      <4>4. CASE \E k \in DOMAIN events : /\ events[k].output = o /\ events[k].value = values[o]
                                          /\ \A j \in DOMAIN events : j > k => events[j].output # o
        <5>1. PICK k \in DOMAIN events : /\ events[k].output = o /\ events[k].value = values[o]
                                         /\ \A j \in DOMAIN events : j > k => events[j].output # o
          BY <4>4
        <5>2. k \in DOMAIN events' /\ events'[k] = events[k]
          BY <2>2
        <5>3. \A j \in DOMAIN events' : j > k => events'[j].output # o
          BY <2>2, <4>3, <5>1
        <5> QED
          BY <4>1, <5>1, <5>2, <5>3 DEF ToldLast
      <4>5. CASE (\A k \in DOMAIN events : events[k].output # o) /\ output[o] = values[o]
        <5>1. \A k \in DOMAIN events' : events'[k].output # o
          BY <2>2, <4>3, <4>5
        <5> QED
          BY <4>1, <4>5, <5>1 DEF ToldLast
      <4> QED
        BY <4>2, <4>4, <4>5 DEF ToldLast
    <3> QED
      BY <3>1, <3>2
  <2>4. ASSUME NEW t \in Tile PROVE Settles(t)'
    <3>1. CASE t \in unsent
      BY <3>1 DEF Settles
    <3>2. CASE c.output \in Outputs[t]
      BY <2>2, <3>2 DEF Waiting, Settles
    <3>3. CASE Waiting(t)
      <4>1. Waiting(t)'
        BY <2>2, <3>3 DEF Waiting
      <4> QED
        BY <4>1 DEF Settles
    <3>4. CASE IsTold(t)
      <4>1. IsTold(t)'
        BY <3>4 DEF IsTold
      <4> QED
        BY <4>1 DEF Settles
    <3>5. CASE ChangeComing(t) /\ c.output \notin Outputs[t]
      <4>1. PICK k \in DOMAIN commands : /\ commands[k].output \in Outputs[t]
                                         /\ commands[k].value # values[commands[k].output]
        BY <3>5 DEF ChangeComing
      <4>2. commands[k].output # c.output /\ commands[k].output \in Output
        BY <3>5, <4>1, LayoutAssumption
      <4>3. values'[commands[k].output] = values[commands[k].output]
        BY <1>0, <2>1, <4>2
      <4>4. CASE commands' = commands
        <5>1. ChangeComing(t)'
          BY <4>1, <4>3, <4>4 DEF ChangeComing
        <5> QED
          BY <5>1 DEF Settles
      <4>5. CASE commands # <<>> /\ c = Head(commands) /\ commands' = Tail(commands)
        <5>1. commands[1] = c
          BY <1>0, <4>5
        <5>2. k # 1
          BY <4>2, <5>1
        <5>3. k - 1 \in DOMAIN commands' /\ commands'[k - 1] = commands[k]
          BY <1>0, <4>1, <4>5, <5>2
        <5>4. ChangeComing(t)'
          BY <4>1, <4>3, <5>3 DEF ChangeComing
        <5> QED
          BY <5>4 DEF Settles
      <4> QED
        BY <4>4, <4>5
    <3> QED
      BY <3>1, <3>2, <3>3, <3>4, <3>5 DEF BusInv, TruthInv, Settles
  <2> QED
    BY <2>3, <2>4 DEF BusInv, TruthInv
<1> QED
  BY <1>1, <1>2

\* The event loop takes up an event.
LEMMA ReportsKeeps == TypeOK /\ BusInv /\ Reports => BusInv'
<1> SUFFICES ASSUME TypeOK, BusInv, Reports PROVE BusInv'
  OBVIOUS
<1> DEFINE e == Head(events)
<1>1. /\ e \in Command /\ events \in Seq(Command) /\ events # <<>> /\ events' = Tail(events)
      /\ output' = [output EXCEPT ![e.output] = e.value] /\ e.output \in Output
      /\ job'.matches = {t \in Tile : e.output \in Outputs[t]} /\ job.matches = {}
      /\ UNCHANGED <<shown, commands, values, unsent>>
  <2>1. events \in Seq(Command) /\ events # <<>> /\ events' = Tail(events)
    BY DEF Reports, TypeOK
  <2>2. e \in Command
    BY <2>1
  <2>3. e.output \in Output
    BY <2>2 DEF Command
  <2>4. job'.matches = {t \in Tile : e.output \in Outputs[t]} /\ job.matches = {}
    BY DEF Reports, NoJob, Idle
  <2> QED
    BY <2>1, <2>2, <2>3, <2>4 DEF Reports
<1>2. /\ DOMAIN events = 1..Len(events) /\ DOMAIN events' = 1..(Len(events) - 1)
      /\ Len(events) \in Nat /\ events[1] = e
      /\ \A k \in DOMAIN events' : events'[k] = events[k + 1]
  BY <1>1
<1>3. \A o \in Output : o # e.output => output'[o] = output[o]
  BY <1>1 DEF TypeOK
<1> HIDE DEF e
<1>4. ValuesInv'
  <2> SUFFICES ASSUME NEW o \in Output, values[o] # Undefined PROVE ToldLast(o)'
    BY <1>1 DEF ValuesInv
  <2>1. ToldLast(o)
    BY DEF BusInv, ValuesInv
  <2>2. CASE \E k \in DOMAIN events : /\ events[k].output = o /\ events[k].value = values[o]
                                      /\ \A j \in DOMAIN events : j > k => events[j].output # o
    <3>1. PICK k \in DOMAIN events : /\ events[k].output = o /\ events[k].value = values[o]
                                     /\ \A j \in DOMAIN events : j > k => events[j].output # o
      BY <2>2
    <3>2. CASE k = 1
      <4>1. output'[o] = values[o]
        BY <1>1, <1>2, <3>1, <3>2 DEF TypeOK
      <4>2. \A j \in DOMAIN events' : events'[j].output # o
        BY <1>2, <3>1, <3>2
      <4> QED
        BY <1>1, <4>1, <4>2 DEF ToldLast
    <3>3. CASE k # 1
      <4>1. k - 1 \in DOMAIN events' /\ events'[k - 1] = events[k]
        BY <1>2, <3>3
      <4>2. \A j \in DOMAIN events' : j > k - 1 => events'[j].output # o
        BY <1>2, <3>1
      <4> QED
        BY <1>1, <3>1, <4>1, <4>2 DEF ToldLast
    <3> QED
      BY <3>2, <3>3
  <2>3. CASE (\A k \in DOMAIN events : events[k].output # o) /\ output[o] = values[o]
    <3>1. o # e.output
      BY <1>1, <1>2, <2>3
    <3>2. \A k \in DOMAIN events' : events'[k].output # o
      BY <1>2, <2>3
    <3> QED
      BY <1>1, <1>3, <2>3, <3>1, <3>2 DEF ToldLast
  <2> QED
    BY <2>1, <2>2, <2>3 DEF ToldLast
<1>5. ASSUME NEW t \in Tile PROVE Settles(t)'
  <2>1. CASE t \in unsent
    BY <1>1, <2>1 DEF Settles
  <2>2. CASE e.output \in Outputs[t]
    BY <1>1, <2>2 DEF Waiting, Settles
  <2>3. CASE Waiting(t) /\ e.output \notin Outputs[t]
    <3>1. PICK k \in DOMAIN events : events[k].output \in Outputs[t]
      BY <1>1, <2>3 DEF Waiting
    <3>2. k - 1 \in DOMAIN events' /\ events'[k - 1] = events[k]
      BY <1>2, <2>3, <3>1
    <3>3. Waiting(t)'
      BY <3>1, <3>2 DEF Waiting
    <3> QED
      BY <3>3 DEF Settles
  <2>4. CASE ChangeComing(t)
    <3>1. ChangeComing(t)'
      BY <1>1, <2>4 DEF ChangeComing
    <3> QED
      BY <3>1 DEF Settles
  <2>5. CASE IsTold(t) /\ e.output \notin Outputs[t]
    <3>1. \A o \in Outputs[t] : output[o] = output'[o]
      BY <1>3, <2>5, LayoutAssumption
    <3>2. Match(t, output) = Match(t, output')
      BY <3>1, MatchDependsOnOutputs
    <3>3. Match(t, output)' = Match(t, output')
      OBVIOUS
    <3>4. ASSUME shown[t] \in Shown(t), Agrees(t, shown[t], output)
          PROVE  shown'[t] \in Shown(t) /\ Agrees(t, shown'[t], output')
      <4>1. Agrees(t, shown[t], output')
        BY <3>1, <3>4, AgreesDependsOnOutputs
      <4> QED
        BY <1>1, <3>4, <4>1
    <3>5. IsTold(t)'
      BY <2>5, <3>2, <3>3, <3>4 DEF IsTold
    <3> QED
      BY <3>5 DEF Settles
  <2> QED
    BY <2>1, <2>2, <2>3, <2>4, <2>5 DEF BusInv, TruthInv, Settles
<1> QED
  BY <1>4, <1>5 DEF BusInv, TruthInv

\* A tile matches its outputs.
LEMMA MatchingKeeps ==
  ASSUME TypeOK, BusInv, NEW t \in Tile, UNCHANGED <<output, kernelVars>>,
         shown' = IF Match(t, output) = NoMatch THEN shown ELSE [shown EXCEPT ![t] = Match(t, output)],
         unsent' = (IF Match(t, output) = NoMatch THEN unsent ELSE unsent \ {t}),
         job.matches \ {t} \subseteq job'.matches
  PROVE  BusInv'
<1>1. ValuesInv'
  BY SameToldLast DEF BusInv, kernelVars
<1>2. Settles(t)'
  <2>0. Match(t, output)' = Match(t, output')
    OBVIOUS
  <2>1. ASSUME Match(t, output) = NoMatch PROVE IsTold(t)'
    <3>1. Match(t, output') = NoMatch
      BY <2>1
    <3> QED
      BY <3>1, <2>0 DEF IsTold
  <2>2. ASSUME Match(t, output) # NoMatch PROVE IsTold(t)'
    <3>1. shown'[t] = Match(t, output)
      BY <2>2 DEF TypeOK
    <3>2. Match(t, output) \in Shown(t) /\ Agrees(t, Match(t, output), output)
      BY <2>2, MatchAgrees
    <3>3. shown'[t] \in Shown(t) /\ Agrees(t, shown'[t], output')
      BY <3>1, <3>2
    <3> QED
      BY <3>3 DEF IsTold
  <2>3. IsTold(t)'
    BY <2>1, <2>2
  <2> QED
    BY <2>3 DEF Settles
<1>3. ASSUME NEW u \in Tile, u # t PROVE Settles(u)'
  <2>1. shown'[u] = shown[u] /\ (u \in unsent => u \in unsent') /\ (u \in job.matches => u \in job'.matches)
    BY <1>3 DEF TypeOK
  <2>2. Settles(u)
    BY DEF BusInv, TruthInv
  <2> QED
    BY <2>1, <2>2, OthersSettle DEF kernelVars
<1> QED
  BY <1>1, <1>2, <1>3 DEF BusInv, TruthInv

LEMMA OnlineKeeps == TypeOK /\ BusInv /\ GoesOnline => BusInv'
<1> SUFFICES ASSUME TypeOK, BusInv, GoesOnline PROVE BusInv'
  OBVIOUS
<1>1. /\ values' = [o \in Output |-> Undefined]
      /\ UNCHANGED <<shown, output, job, commands, events, unsent>>
  BY DEF GoesOnline
<1>2. ValuesInv'
  BY <1>1 DEF ValuesInv
<1>3. ASSUME NEW t \in Tile PROVE Settles(t)'
  <2>1. CASE t \in unsent
    BY <1>1, <2>1 DEF Settles
  <2>2. CASE Waiting(t)
    BY <1>1, <2>2 DEF Waiting, Settles
  <2>3. CASE IsTold(t)
    <3>1. IsTold(t)'
      BY <1>1, <2>3 DEF IsTold
    <3> QED
      BY <3>1 DEF Settles
  <2>4. CASE ChangeComing(t)
    <3>1. PICK k \in DOMAIN commands : commands[k].output \in Outputs[t]
      BY <2>4 DEF ChangeComing
    <3>2. commands[k] \in Command
      BY DEF TypeOK
    <3>3. commands[k].value # values'[commands[k].output]
      BY <1>1, <3>2, LayoutAssumption DEF Command
    <3>4. ChangeComing(t)'
      BY <1>1, <3>1, <3>3 DEF ChangeComing
    <3> QED
      BY <3>4 DEF Settles
  <2> QED
    BY <2>1, <2>2, <2>3, <2>4 DEF BusInv, TruthInv, Settles
<1> QED
  BY <1>2, <1>3 DEF BusInv, TruthInv

LEMMA OfflineKeeps == TypeOK /\ BusInv /\ GoesOffline => BusInv'
<1> SUFFICES ASSUME TypeOK, BusInv, GoesOffline PROVE BusInv'
  OBVIOUS
<1>1. /\ UNCHANGED <<shown, output, job, values, events>>
      /\ unsent' = unsent \cup {t \in Tile : \E k \in DOMAIN commands : commands[k].output \in Outputs[t]}
  BY DEF GoesOffline
<1>2. ValuesInv'
  BY <1>1, SameToldLast DEF BusInv
<1>3. ASSUME NEW t \in Tile PROVE Settles(t)'
  <2>1. CASE t \in unsent
    BY <1>1, <2>1 DEF Settles
  <2>2. CASE Waiting(t)
    BY <1>1, <2>2 DEF Waiting, Settles
  <2>3. CASE IsTold(t)
    <3>1. IsTold(t)'
      BY <1>1, <2>3 DEF IsTold
    <3> QED
      BY <3>1 DEF Settles
  <2>4. CASE ChangeComing(t)
    BY <1>1, <2>4 DEF ChangeComing, Settles
  <2> QED
    BY <2>1, <2>2, <2>3, <2>4 DEF BusInv, TruthInv, Settles
<1> QED
  BY <1>2, <1>3 DEF BusInv, TruthInv

LEMMA BusStep == TypeOK /\ BusInv /\ [Next]_vars => BusInv'
<1> SUFFICES ASSUME TypeOK, BusInv, [Next]_vars PROVE BusInv'
  OBVIOUS
<1>1. ASSUME NEW x \in Turnout, NEW v \in Shown(x), NEW j \in Job, doSetPosition(x, v, j),
             output' = output, job.matches \subseteq j.matches
      PROVE  BusInv'
  <2>1. x \in Tile
    BY DEF Tile
  <2>2. job'.matches = j.matches
    BY <1>1 DEF doSetPosition, Job
  <2>3. Execute(x, v) /\ shown' = [shown EXCEPT ![x] = v]
    BY <1>1 DEF doSetPosition
  <2> QED
    BY <1>1, <2>1, <2>2, <2>3, SettingKeeps
<1>2. ASSUME NEW s \in Signal, NEW v \in Shown(s), NEW j \in Job, doSetAspect(s, v, j),
             output' = output, job.matches \subseteq j.matches
      PROVE  BusInv'
  <2>1. s \in Tile
    BY DEF Tile
  <2>2. CASE shown[s] = v
    <3>1. job' = j /\ UNCHANGED <<shown, kernelVars, unsent>>
      BY <1>2, <2>2 DEF doSetAspect
    <3> QED
      BY <1>2, <3>1, SilentSteps
  <2>3. CASE shown[s] # v
    <3>1. job'.matches = j.matches
      BY <1>2, <2>3 DEF doSetAspect, Job
    <3>2. Execute(s, v) /\ shown' = [shown EXCEPT ![s] = v]
      BY <1>2, <2>3 DEF doSetAspect
    <3> QED
      BY <1>2, <2>1, <3>1, <3>2, SettingKeeps
  <2> QED
    BY <2>2, <2>3
<1>3. NoJob \in Job
  BY DEF NoJob, Job
<1>4. ASSUME LayoutChanges PROVE BusInv'
  <2>1. UNCHANGED <<kernelVars, shown, output, unsent>> /\ job.matches = {}
    BY <1>4 DEF LayoutChanges, BlockChanges, ReservePath, Begins, Idle
  <2> QED
    BY <2>1, SilentSteps
<1>5. ASSUME NEW x \in Turnout, NEW v \in Shown(x), SetPosition(x, v) PROVE BusInv'
  <2>1. job.matches = {} /\ doSetPosition(x, v, NoJob) /\ output' = output
    BY <1>5 DEF SetPosition, Begins, Idle
  <2> QED
    BY <1>1, <1>3, <2>1
<1>6. ASSUME NEW s \in Signal, NEW v \in Aspects(s), SetAspect(s, v) PROVE BusInv'
  <2>1. job.matches = {} /\ doSetAspect(s, v, NoJob) /\ output' = output /\ v \in Shown(s)
    BY <1>6, LayoutAssumption DEF SetAspect, Begins, Idle
  <2> QED
    BY <1>2, <1>3, <2>1
<1>7. ASSUME Run \/ Stop \/ \E s \in Signal, v \in {"Auto", "Yes", "No"} : SetRequireReservation(s, v)
      PROVE  BusInv'
  <2>1. UNCHANGED <<kernelVars, shown, output, unsent>> /\ job.matches = {}
    BY <1>7 DEF Run, Stop, SetRequireReservation, Begins, Idle
  <2> QED
    BY <2>1, SilentSteps
<1>8. ASSUME NEW s \in Signal, Evaluate(s) PROVE BusInv'
  <2> DEFINE j == [job EXCEPT !.due = @ \ {s}]
  <2>1. j \in Job /\ j.matches = job.matches
    BY DEF Job, TypeOK
  <2>2. doSetAspect(s, Evaluated(s), j) /\ output' = output
    BY <1>8 DEF Evaluate
  <2> HIDE DEF j
  <2> QED
    BY <1>2, <2>1, <2>2, EvaluatedIsAspect
<1>9. ASSUME NEW s \in Signal, ReserveSignal(s) PROVE BusInv'
  <2>1. UNCHANGED <<kernelVars, shown, output, unsent>> /\ job'.matches = job.matches
    BY <1>9 DEF ReserveSignal, TypeOK, Job
  <2> QED
    BY <2>1, SilentSteps
<1>10. ASSUME NEW s \in Signal, MatchSignal(s) PROVE BusInv'
  <2>1. s \in Tile /\ job'.matches = job.matches \ {s}
    BY <1>10 DEF MatchSignal, TypeOK, Job, Tile
  <2> QED
    BY <1>10, <2>1, MatchingKeeps DEF MatchSignal
<1>11. ASSUME NEW x \in Turnout, MatchTurnout(x) PROVE BusInv'
  <2>1. x \in Tile /\ job'.matches = job.matches \ {x}
    BY <1>11 DEF MatchTurnout, TypeOK, Job, Tile
  <2> QED
    BY <1>11, <2>1, MatchingKeeps DEF MatchTurnout
<1>12. ASSUME NEW x \in Turnout, NEW v \in Shown(x), ReserveTurnout(x, v) PROVE BusInv'
  <2> DEFINE j == [job EXCEPT !.turnouts = @ \ {<<x, v>>}]
  <2>1. j \in Job /\ j.matches = job.matches
    BY DEF Job, TypeOK
  <2>2. doSetPosition(x, v, j) /\ output' = output
    BY <1>12 DEF ReserveTurnout
  <2> HIDE DEF j
  <2> QED
    BY <1>1, <2>1, <2>2
<1>13. ASSUME Carries PROVE BusInv'
  <2>1. Head(commands) \in Command
    BY <1>13 DEF Carries, TypeOK
  <2>2. Receive(Head(commands)) /\ commands # <<>> /\ commands' = Tail(commands)
        /\ UNCHANGED <<shown, output, job, unsent>>
    BY <1>13 DEF Carries
  <2> QED
    BY <2>1, <2>2, ReceiveKeeps
<1>14. ASSUME NEW c \in Foreign, Handset(c) PROVE BusInv'
  <2>1. c \in Command
    BY LayoutAssumption
  <2> QED
    BY <1>14, <2>1, ReceiveKeeps DEF Handset
<1>15. CASE UNCHANGED vars
  BY <1>15, SilentSteps DEF vars
<1> QED
  BY <1>4, <1>5, <1>6, <1>7, <1>8, <1>9, <1>10, <1>11, <1>12, <1>13, <1>14, <1>15,
     ReportsKeeps, OnlineKeeps, OfflineKeeps
  DEF Next, UserCommands, EventLoop, HandlerSteps

LEMMA BusInvHolds == Spec => []BusInv
<1>1. Init => BusInv
  BY DEF Init, BusInv, ValuesInv, TruthInv, Settles
<1> QED
  BY <1>1, TypeInit, TypeStep, BusStep, PTL DEF Spec

(***************************************************************************)
(* Once quiet, positions and aspects agree with what the bus said last,    *)
(* if any item of the map does, for every set of output maps, ambiguous    *)
(* ones and shared outputs included: connectOutputMap takes what the       *)
(* kernel tells in the order the bus carried it, and doSetPosition,        *)
(* doSetAspect and the kernel leave no command out that would change an    *)
(* output (ShownIsTrue).                                                   *)
(***************************************************************************)
THEOREM ShownStaysTrue == Spec => []ShownIsTrue
<1>1. BusInv => ShownIsTrue
  <2> SUFFICES ASSUME BusInv, Quiet, NEW t \in Tile \ unsent, \A o \in Outputs[t] : values[o] # Undefined,
                      Match(t, values) # NoMatch
               PROVE  Agrees(t, shown[t], values)
    BY DEF ShownIsTrue
  <2>1. ~Waiting(t) /\ ~ChangeComing(t)
    BY DEF Quiet, Idle, Waiting, ChangeComing
  <2>2. IsTold(t)
    BY <2>1 DEF BusInv, TruthInv, Settles
  <2>3. \A o \in Outputs[t] : output[o] = values[o]
    BY LayoutAssumption DEF Quiet, BusInv, ValuesInv, ToldLast
  <2>4. Match(t, output) = Match(t, values)
    BY <2>3, MatchDependsOnOutputs
  <2>5. shown[t] \in Shown(t) /\ Agrees(t, shown[t], output)
    BY <2>2, <2>4 DEF IsTold
  <2> QED
    BY <2>3, <2>5, AgreesDependsOnOutputs
<1> QED
  BY <1>1, BusInvHolds, PTL
=============================================================================
