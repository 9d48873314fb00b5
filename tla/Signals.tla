------------------------------- MODULE Signals -------------------------------
(***************************************************************************)
(* Turnouts and signals with output maps, on a LocoNet interface.  Setting *)
(* a turnout or a signal sends its actions to the kernel, which puts them  *)
(* on the bus one by one; what the bus carries, own messages and those of  *)
(* handsets, comes back through the event loop, and the tile then takes    *)
(* the position or aspect that matches.  A signal is evaluated when what   *)
(* lies ahead of it changes: the turnouts up to the next blocks, the state *)
(* of these blocks, the signals between them, and its reservation.         *)
(*                                                                         *)
(* The event loop runs one handler at a time, to its end; what the handler *)
(* has still to do is its job.  The kernel thread runs in between.         *)
(* Trains, sensors and the conditions they set for reservations are those  *)
(* of Interlocking: here blocks change as they like.  Direction controls   *)
(* and scripts on events are left out.                                     *)
(***************************************************************************)
EXTENDS Naturals, Sequences

CONSTANTS
  Block, Turnout, Signal, Output, Path,
  NoPath,
  PathInfo,     \* of a path: from, fromSide, to, toSide, turnouts, signals
  Ahead,        \* of a signal: the branches of its tree of items, see Item
  ThreeAspect,  \* the signals with a third aspect
  Items,        \* of a tile: the positions or aspects its output map has, in order
  Outputs,      \* of a tile: the outputs of its map
  Actions,      \* of a tile and item: the values it sends, in order; None is left out
  Value,        \* values of outputs
  Foreign,      \* messages for outputs that handsets put on the bus
  MaxInputs     \* bound: changes of blocks, commands, messages of handsets, failures

Tile == Turnout \cup Signal
Side == {"A", "B"}
BlockState == {"Unknown", "Free", "Reserved", "Occupied"}
Unknown == "Unknown"
NoMatch == "NoMatch"
Undefined == "Undefined"
Shown(t) == {Items[t][k] : k \in DOMAIN Items[t]}
Throw == {c \in Turnout \X STRING : c[2] \in Shown(c[1])}
Aspects(s) == {"Stop", "Proceed"} \cup IF s \in ThreeAspect THEN {"ProceedReducedSpeed"} ELSE {}

Command == [output : Output, value : Value]

\* at: the position of a turnout, the side by which a block is left.
Item == [kind : {"block"}, of : Block, at : Side]
          \cup [kind : {"signal"}, of : Signal, at : {Unknown}]
          \cup UNION {[kind : {"turnout"}, of : {x}, at : Shown(x)] : x \in Turnout}

(***************************************************************************)
(* The item that matches the outputs: OutputMap finds the first with every *)
(* output as its actions say, or else the first with those outputs as its  *)
(* actions say that have one.                                              *)
(***************************************************************************)
Agrees(t, v, f) == \A k \in DOMAIN Actions[t][v] : f[Actions[t][v][k].output] = Actions[t][v][k].value

LeavesOpen(t, v) == \E o \in Outputs[t] : \A k \in DOMAIN Actions[t][v] : Actions[t][v][k].output # o

Match(t, f) ==
  LET agreeing == {k \in DOMAIN Items[t] : Agrees(t, Items[t][k], f)}
      full == {k \in agreeing : ~LeavesOpen(t, Items[t][k])}
      best == IF full = {} THEN agreeing ELSE full
      first == {k \in best : \A j \in best : k <= j}
  IN  IF first = {} THEN NoMatch ELSE Items[t][CHOOSE k \in first : TRUE]

(***************************************************************************)
(* An item has one action for each output of its map, or None: see         *)
(* OutputMap::updateOutputActions.  What one item sends may match another  *)
(* one, as in the default map of a signal with three aspects.              *)
(***************************************************************************)
ASSUME LayoutAssumption ==
  /\ Turnout \cap Signal = {} /\ ThreeAspect \subseteq Signal
  /\ NoPath \notin Path /\ MaxInputs \in Nat
  /\ Undefined \notin Value /\ Foreign \subseteq Command
  /\ \A t \in Tile : /\ Items[t] \in Seq(STRING)
                     /\ Unknown \notin Shown(t) /\ NoMatch \notin Shown(t)
                     /\ Outputs[t] \subseteq Output
  /\ \A s \in Signal : Shown(s) = Aspects(s) /\ Ahead[s] \subseteq Seq(Item)
  /\ \A p \in Path : /\ PathInfo[p].from \in Block /\ PathInfo[p].to \in Block
                     /\ PathInfo[p].signals \subseteq Signal
                     /\ PathInfo[p].turnouts \subseteq Throw

ASSUME MapAssumption ==
  \A t \in Tile : \A v \in Shown(t) :
    /\ Actions[t][v] \in Seq(Command)
    /\ \A k \in DOMAIN Actions[t][v] : Actions[t][v][k].output \in Outputs[t]

-----------------------------------------------------------------------------
VARIABLES
  block,      \* BlockRailTile::state
  granted,    \* the paths that blocks have reserved
  reserved,   \* SignalRailTile::m_blockPath
  require,    \* SignalRailTile::requireReservation
  run,        \* does the world run
  shown,      \* TurnoutRailTile::position, SignalRailTile::aspect
  output,     \* PairOutput::value
  job,        \* what the handler that runs has still to do, see Job
  online,     \* has the interface a kernel
  commands,   \* messages for outputs on their way to the bus
  values,     \* m_outputValues of the kernel
  events,     \* what the kernel has posted to the event loop
  overruled,  \* history: who set a signal, or its requireReservation, since its last evaluation
  unsent,     \* history: tiles whose last actions did not get to the bus
  inputs      \* inputs so far

layoutVars == <<block, granted, reserved, require, run>>
kernelVars == <<online, commands, values, events>>
vars == <<layoutVars, shown, output, job, kernelVars, overruled, unsent, inputs>>

(***************************************************************************)
(* due: signals to evaluate, before anything else.  matches: tiles to      *)
(* match with the outputs.  turnouts, signals: those to reserve for path.  *)
(***************************************************************************)
Job == [due : SUBSET Signal, matches : SUBSET Tile, path : Path \cup {NoPath},
        turnouts : SUBSET Throw, signals : SUBSET Signal]

NoJob == [due |-> {}, matches |-> {}, path |-> NoPath, turnouts |-> {}, signals |-> {}]

Idle == job.due = {} /\ job.matches = {} /\ job.turnouts = {} /\ job.signals = {}
Quiet == Idle /\ commands = <<>> /\ events = <<>>

-----------------------------------------------------------------------------
(***************************************************************************)
(* What lies ahead of a signal                                             *)
(***************************************************************************)

\* Faulty variant of Watchers: findBlocks passes signals without connecting to them.
WatchersButOfSignals(kind, x) ==
  {s \in Signal : /\ kind # "signal"
                  /\ \E b \in Ahead[s] : \E k \in DOMAIN b : b[k].kind = kind /\ b[k].of = x}

\* The signals that findBlocks connects to a block, turnout or signal.
Watchers(kind, x) ==
  {s \in Signal : \E b \in Ahead[s] : \E k \in DOMAIN b : b[k].kind = kind /\ b[k].of = x}

\* The items of branch b are followed up to item k: TurnoutItem::next
Followed(b, k) == \A j \in 1..k : b[j].kind = "turnout" => shown[b[j].of] = b[j].at

\* nextBlock
IsNextBlock(b, k) ==
  /\ b[k].kind = "block" /\ Followed(b, k)
  /\ \A j \in 1..(k - 1) : b[j].kind # "block"

\* nextBlockOrSignal, of the items after item k
IsNextAfter(b, k, m) ==
  /\ k < m /\ b[m].kind \in {"block", "signal"} /\ Followed(b, m)
  /\ \A j \in (k + 1)..(m - 1) : b[j].kind \notin {"block", "signal"}

\* AbstractSignalPath::requireReservation: by itself, when a turnout comes before the next block
requireReservation(s) ==
  \/ require[s] = "Yes"
  \/ /\ require[s] = "Auto"
     /\ \E b \in Ahead[s] : \E k \in DOMAIN b : /\ b[k].kind = "turnout"
                                                /\ \A j \in 1..k : b[j].kind # "block"

\* May a train pass signal s into block b?
MayEnter(s, b) ==
  \/ ~requireReservation(s) /\ block[b] = "Free"
  \/ /\ block[b] = "Reserved"
     /\ reserved[s] # NoPath /\ PathInfo[reserved[s]].to = b

\* After the block at item k of branch b the way is clear up to item m.
ClearBeyond(b, k, m) ==
  \/ b[m].kind = "block" /\ block[b[m].of] = "Free"
  \/ /\ b[m].kind = "block" /\ block[b[m].of] = "Reserved"
     /\ \E p \in granted : /\ PathInfo[p].from = b[k].of /\ PathInfo[p].fromSide = b[k].at
                           /\ PathInfo[p].to = b[m].of
  \/ b[m].kind = "signal" /\ shown[b[m].of] \in {"ProceedReducedSpeed", "Proceed"}

Enters(s, b, k) == b \in Ahead[s] /\ k \in DOMAIN b /\ IsNextBlock(b, k) /\ MayEnter(s, b[k].of)

\* determineAspect of signals with two and with three aspects
determineAspect(s) ==
  CASE \A b \in Ahead[s] : \A k \in DOMAIN b : ~Enters(s, b, k) -> "Stop"
    [] \E b \in Ahead[s] : \E k \in DOMAIN b :
         /\ Enters(s, b, k)
         /\ s \in ThreeAspect =>
              \E m \in DOMAIN b : IsNextAfter(b, k, m) /\ ClearBeyond(b, k, m) -> "Proceed"
    [] OTHER -> "ProceedReducedSpeed"

\* What AbstractSignalPath::evaluate sets.
Evaluated(s) == IF reserved[s] = NoPath /\ requireReservation(s) THEN "Stop" ELSE determineAspect(s)

-----------------------------------------------------------------------------
(***************************************************************************)
(* Setting a tile                                                          *)
(***************************************************************************)

\* Faulty variant of Execute: the kernel takes an output to have its value once it is sent.
ExecuteAhead(t, v) ==
  /\ commands' = IF online THEN commands \o Actions[t][v] ELSE commands
  /\ unsent' = IF online THEN unsent \ {t} ELSE unsent \cup {t}
  /\ values' = [o \in Output |->
                  IF online /\ \E k \in DOMAIN Actions[t][v] : Actions[t][v][k].output = o
                    THEN (CHOOSE c \in Command : c.output = o /\ \E k \in DOMAIN Actions[t][v] :
                                                                  Actions[t][v][k] = c).value
                    ELSE values[o]]
  /\ UNCHANGED <<online, events>>

\* OutputMapItem::execute: without a kernel nothing is sent, and nobody is told.
Execute(t, v) ==
  /\ commands' = IF online THEN commands \o Actions[t][v] ELSE commands
  /\ unsent' = IF online THEN unsent \ {t} ELSE unsent \cup {t}
  /\ UNCHANGED <<online, values, events>>

\* TurnoutRailTile::doSetPosition; j is the job without what the signals have to do.
doSetPosition(x, v, j) ==
  /\ Execute(x, v)
  /\ shown' = [shown EXCEPT ![x] = v]
  /\ job' = [j EXCEPT !.due = @ \cup Watchers("turnout", x)]

\* SignalRailTile::doSetAspect
doSetAspect(s, v, j) ==
  IF shown[s] = v
    THEN job' = j /\ UNCHANGED <<shown, kernelVars, unsent>>
    ELSE /\ Execute(s, v)
         /\ shown' = [shown EXCEPT ![s] = v]
         /\ job' = [j EXCEPT !.due = @ \cup Watchers("signal", s)]

(***************************************************************************)
(* Handlers of the event loop                                              *)
(***************************************************************************)
Begins == Idle /\ inputs < MaxInputs /\ inputs' = inputs + 1

\* BlockRailTile::setState
BlockChanges(b, v) ==
  /\ Begins /\ v # block[b]
  /\ block' = [block EXCEPT ![b] = v]
  /\ job' = [NoJob EXCEPT !.due = Watchers("block", b)]
  /\ UNCHANGED <<granted, reserved, require, run, shown, output, kernelVars, overruled, unsent>>

SideFree(b, side) ==
  \A p \in granted : /\ <<b, side>> # <<PathInfo[p].from, PathInfo[p].fromSide>>
                     /\ <<b, side>> # <<PathInfo[p].to, PathInfo[p].toSide>>

(***************************************************************************)
(* BlockPath::reserve, up to its turnouts and signals.  A train is in the  *)
(* block it leaves from; that the same train is already in a block that is *)
(* not free, and turned to where it comes from, is left out.               *)
(***************************************************************************)
ReservePath(p) ==
  LET info == PathInfo[p]
  IN  /\ Begins
      /\ block[info.from] \in {"Reserved", "Occupied"} /\ SideFree(info.from, info.fromSide)
      /\ block[info.to] = "Free" /\ SideFree(info.to, info.toSide)
      /\ granted' = granted \cup {p}
      /\ block' = [block EXCEPT ![info.to] = "Reserved"]
      /\ job' = [due |-> Watchers("block", info.to), matches |-> {}, path |-> p,
                 turnouts |-> info.turnouts, signals |-> info.signals]
      /\ UNCHANGED <<reserved, require, run, shown, output, kernelVars, overruled, unsent>>

\* The user or a script sets a turnout or a signal.
SetPosition(x, v) ==
  /\ Begins
  /\ doSetPosition(x, v, NoJob)
  /\ UNCHANGED <<layoutVars, output, overruled>>

SetAspect(s, v) ==
  /\ Begins
  /\ doSetAspect(s, v, NoJob)
  /\ overruled' = IF shown[s] = v THEN overruled ELSE [overruled EXCEPT ![s] = "user"]
  /\ UNCHANGED <<layoutVars, output>>

\* The editor offers requireReservation while the world stands; nothing is evaluated.
SetRequireReservation(s, v) ==
  /\ Begins /\ ~run /\ v # require[s]
  /\ require' = [require EXCEPT ![s] = v]
  /\ overruled' = [overruled EXCEPT ![s] = "user"]
  /\ UNCHANGED <<block, granted, reserved, run, shown, output, job, kernelVars, unsent>>

\* SignalRailTile::worldEvent
Run ==
  /\ Begins /\ ~run
  /\ run' = TRUE
  /\ job' = [NoJob EXCEPT !.due = Signal]
  /\ UNCHANGED <<block, granted, reserved, require, shown, output, kernelVars, overruled, unsent>>

Stop ==
  /\ Begins /\ run
  /\ run' = FALSE
  /\ UNCHANGED <<block, granted, reserved, require, shown, output, job, kernelVars, overruled, unsent>>

\* Kernel::start
GoesOnline ==
  /\ Idle /\ ~online
  /\ online' = TRUE
  /\ values' = [o \in Output |-> Undefined]
  /\ UNCHANGED <<layoutVars, shown, output, job, commands, events, overruled, unsent, inputs>>

(***************************************************************************)
(* The kernel is destroyed with what it has not sent.  Its events are      *)
(* handled all the same: they read the controller from the kernel that is  *)
(* no more, and here that read returns what was there.                     *)
(***************************************************************************)
GoesOffline ==
  /\ Begins /\ online
  /\ online' = FALSE
  /\ commands' = <<>>
  /\ unsent' = unsent \cup {t \in Tile : \E k \in DOMAIN commands : commands[k].output \in Outputs[t]}
  /\ UNCHANGED <<layoutVars, shown, output, job, values, events, overruled>>

\* OutputController::updateOutputValue: each map with the output has to match its outputs.
Reports ==
  /\ Idle /\ events # <<>>
  /\ LET e == Head(events)
     IN  /\ output' = [output EXCEPT ![e.output] = e.value]
         /\ job' = [NoJob EXCEPT !.matches = {t \in Tile : e.output \in Outputs[t]}]
  /\ events' = Tail(events)
  /\ UNCHANGED <<layoutVars, shown, online, commands, values, overruled, unsent, inputs>>

(***************************************************************************)
(* Steps of a handler                                                      *)
(***************************************************************************)

\* AbstractSignalPath::evaluate
Evaluate(s) ==
  /\ s \in job.due
  /\ doSetAspect(s, Evaluated(s), [job EXCEPT !.due = @ \ {s}])
  /\ overruled' = [overruled EXCEPT ![s] = "no"]
  /\ UNCHANGED <<layoutVars, output, inputs>>

\* TurnoutRailTile::reserve
ReserveTurnout(x, v) ==
  /\ job.due = {} /\ <<x, v>> \in job.turnouts
  /\ doSetPosition(x, v, [job EXCEPT !.turnouts = @ \ {<<x, v>>}])
  /\ UNCHANGED <<layoutVars, output, overruled, inputs>>

\* SignalRailTile::reserve
ReserveSignal(s) ==
  /\ job.due = {} /\ job.turnouts = {} /\ s \in job.signals
  /\ reserved' = [reserved EXCEPT ![s] = job.path]
  /\ job' = [job EXCEPT !.signals = @ \ {s}, !.due = {s}]
  /\ UNCHANGED <<block, granted, require, run, shown, output, kernelVars, overruled, unsent, inputs>>

\* Faulty variant of MatchTurnout: what the bus told is sent again.
MatchTurnoutAndSend(x) ==
  LET v == Match(x, output)
      rest == [job EXCEPT !.matches = @ \ {x}]
  IN  /\ job.due = {} /\ x \in job.matches
      /\ IF v = NoMatch THEN job' = rest /\ UNCHANGED <<shown, kernelVars, unsent>>
                        ELSE doSetPosition(x, v, rest)
      /\ UNCHANGED <<layoutVars, output, overruled, inputs>>

\* The turnout's part of connectOutputMap.
MatchTurnout(x) ==
  LET v == Match(x, output)
  IN  /\ job.due = {} /\ x \in job.matches
      /\ job' = [job EXCEPT !.matches = @ \ {x},
                            !.due = IF v = NoMatch THEN {} ELSE Watchers("turnout", x)]
      /\ shown' = IF v = NoMatch THEN shown ELSE [shown EXCEPT ![x] = v]
      /\ unsent' = IF v = NoMatch THEN unsent ELSE unsent \ {x}
      /\ UNCHANGED <<layoutVars, output, kernelVars, overruled, inputs>>

(***************************************************************************)
(* The signal's part: a signal is evaluated again when what it is told is  *)
(* the aspect it has, and not when it is told another one.                 *)
(***************************************************************************)
MatchSignal(s) ==
  LET v == Match(s, output)
  IN  /\ job.due = {} /\ s \in job.matches
      /\ job' = [job EXCEPT !.matches = @ \ {s},
                            !.due = CASE v = NoMatch -> {}
                                      [] v = shown[s] -> {s}
                                      [] OTHER -> Watchers("signal", s)]
      /\ shown' = IF v = NoMatch THEN shown ELSE [shown EXCEPT ![s] = v]
      /\ overruled' = IF v \in {NoMatch, shown[s]} THEN overruled
                      ELSE [overruled EXCEPT ![s] = "bus"]
      /\ unsent' = IF v = NoMatch THEN unsent ELSE unsent \ {s}
      /\ UNCHANGED <<layoutVars, output, kernelVars, inputs>>

-----------------------------------------------------------------------------
(***************************************************************************)
(* The kernel thread                                                       *)
(***************************************************************************)

\* Kernel::receive of a message for an output that the bus carries.
Receive(c) ==
  IF values[c.output] = c.value
    THEN UNCHANGED <<values, events>>
    ELSE /\ values' = [values EXCEPT ![c.output] = c.value]
         /\ events' = Append(events, c)

\* The bus carries the next message of the kernel.
Carries ==
  /\ commands # <<>>
  /\ Receive(Head(commands))
  /\ commands' = Tail(commands)
  /\ UNCHANGED <<layoutVars, shown, output, job, online, overruled, unsent, inputs>>

\* The bus carries a message of a handset or another station.
Handset(c) ==
  /\ online /\ inputs < MaxInputs /\ inputs' = inputs + 1
  /\ Receive(c)
  /\ UNCHANGED <<layoutVars, shown, output, job, online, commands, overruled, unsent>>

-----------------------------------------------------------------------------
\* A world that has been loaded: boardModified evaluates every signal.
Init ==
  /\ block \in [Block -> BlockState]
  /\ granted = {}
  /\ reserved = [s \in Signal |-> NoPath]
  /\ require \in [Signal -> {"Auto", "Yes", "No"}]
  /\ run = FALSE
  /\ shown \in {f \in [Tile -> (UNION {Shown(t) : t \in Tile}) \cup {Unknown}] :
                  \A t \in Tile : f[t] \in Shown(t) \cup {Unknown}}
  /\ output \in [Output -> Value \cup {Undefined}]
  /\ job = [NoJob EXCEPT !.due = Signal]
  /\ online = FALSE
  /\ commands = <<>>
  /\ values = [o \in Output |-> Undefined]
  /\ events = <<>>
  /\ overruled = [s \in Signal |-> "no"]
  /\ unsent = Tile
  /\ inputs = 0

LayoutChanges ==
  \/ \E b \in Block, v \in BlockState : BlockChanges(b, v)
  \/ \E p \in Path : ReservePath(p)

UserCommands ==
  \/ \E x \in Turnout : \E v \in Shown(x) : SetPosition(x, v)
  \/ \E s \in Signal : \E v \in Aspects(s) : SetAspect(s, v)
  \/ \E s \in Signal, v \in {"Auto", "Yes", "No"} : SetRequireReservation(s, v)
  \/ Run \/ Stop

HandlerSteps ==
  \/ \E s \in Signal : Evaluate(s) \/ ReserveSignal(s) \/ MatchSignal(s)
  \/ \E x \in Turnout : MatchTurnout(x) \/ \E v \in Shown(x) : ReserveTurnout(x, v)

EventLoop == HandlerSteps \/ Reports

Next ==
  \/ LayoutChanges \/ UserCommands \/ EventLoop
  \/ GoesOnline \/ GoesOffline
  \/ Carries \/ \E c \in Foreign : Handset(c)

Spec == Init /\ [][Next]_vars

\* While the event loop has work or the kernel messages, one of the two goes on.
Fairness == WF_vars(EventLoop \/ Carries)

-----------------------------------------------------------------------------
(***************************************************************************)
(* Properties                                                              *)
(***************************************************************************)

\* The variables have their types.
TypeOK ==
  /\ block \in [Block -> BlockState]
  /\ granted \subseteq Path
  /\ reserved \in [Signal -> Path \cup {NoPath}]
  /\ require \in [Signal -> {"Auto", "Yes", "No"}]
  /\ run \in BOOLEAN
  /\ shown \in [Tile -> (UNION {Shown(t) : t \in Tile}) \cup {Unknown}]
  /\ \A t \in Tile : shown[t] \in Shown(t) \cup {Unknown}
  /\ output \in [Output -> Value \cup {Undefined}]
  /\ job \in Job
  /\ online \in BOOLEAN
  /\ commands \in Seq(Command)
  /\ values \in [Output -> Value \cup {Undefined}]
  /\ events \in Seq(Command)
  /\ overruled \in [Signal -> {"no", "user", "bus"}]
  /\ unsent \subseteq Tile
  /\ inputs \in 0..MaxInputs

(***************************************************************************)
(* While no handler runs, a signal shows what lies ahead of it now, unless *)
(* the user or the bus set it since it was last evaluated:                 *)
(* AbstractSignalPath connects to everything that determineAspect reads,   *)
(* or what it does not connect to changes only together with something     *)
(* that it does.                                                           *)
(***************************************************************************)
AspectIsCurrent ==
  Idle => \A s \in Signal : overruled[s] = "no" => shown[s] = Evaluated(s)

(***************************************************************************)
(* When nothing is on its way, a turnout or signal whose last actions got  *)
(* to the bus shows what agrees with the outputs as the bus last set them, *)
(* if any of its items does: echoes of older commands and messages of      *)
(* handsets never leave it behind what was sent last (connectOutputMap,    *)
(* Kernel::receive), also when its map has several items that agree.       *)
(***************************************************************************)
ShownIsTrue ==
  Quiet => \A t \in Tile \ unsent :
             (\A o \in Outputs[t] : values[o] # Undefined) /\ Match(t, values) # NoMatch
               => Agrees(t, shown[t], values)

(***************************************************************************)
(* Evaluations, commands, echoes and matches do not set each other off for *)
(* ever: doSetPosition and doSetAspect do not send what the bus told.      *)
(***************************************************************************)
FeedbackDies == <>[]Quiet

(***************************************************************************)
(* SignalRailTile::connectOutputMap: "This corrects accidental             *)
(* modifications of aspect done by the user with an handset or command     *)
(* station."  When all is quiet no signal has an aspect that the bus gave  *)
(* it and that is not that of what lies ahead.                             *)
(***************************************************************************)
HandsetIsCorrected ==
  Quiet => \A s \in Signal : overruled[s] = "bus" => shown[s] = Evaluated(s)
=============================================================================
