----------------------------- MODULE WorldPower -----------------------------
(***************************************************************************)
(* Power and emergency stop of a world and of its LocoNet interfaces.      *)
(* World::event changes the state of the world and tells every interface;  *)
(* an interface posts calls to the thread of its kernel, which puts        *)
(* messages on the bus and, when the bus has carried a message that        *)
(* changes what it knows, calls back through the event loop: then the      *)
(* interface changes the world.                                            *)
(*                                                                         *)
(* A kernel sends its messages of high priority in order, which is what    *)
(* LocoNetKernel is shown to do; here a queue holds them, the first being  *)
(* on its way.  The event loop runs one handler at a time.                 *)
(***************************************************************************)
EXTENDS Naturals, Sequences, FiniteSets

CONSTANTS
  Interface,    \* the LocoNet interfaces of the world
  ScriptCalls,  \* what on_event handlers of scripts may call of the world
  MaxInputs     \* bound: calls of the user, messages of other devices and failures

\* The world's methods that change power and run, and those that scripts can call.
Event == {"PowerOff", "PowerOn", "Stop", "Run"}
ScriptCallable == {"PowerOff", "Stop"}

ASSUME WorldAssumption ==
  /\ ScriptCalls \subseteq ScriptCallable
  /\ MaxInputs \in Nat

VARIABLES
  world,        \* World::state: is it online, has it power, does it run
  status,       \* InterfaceStatus::state of each interface
  kernel,       \* the kernel of each interface, see Kernel
  station,      \* does the command station of an interface give power
  events,       \* what kernels have posted to the event loop
  switchedOff,  \* history: did the user switch the power off last, and when
  ranOn,        \* history: the interfaces that were online when `run` put the power of the world
                \* on, until the world asks them for power or for none
  inputs        \* inputs so far

vars == <<world, status, kernel, station, events, switchedOff, ranOn, inputs>>

World == [online : BOOLEAN, power : BOOLEAN, run : BOOLEAN]
InterfaceState == {"Offline", "Initializing", "Online", "Error"}

(***************************************************************************)
(* power: m_globalPower.  stop: m_emergencyStop.  posted: calls posted to  *)
(* the thread.  queue: messages of high priority.                          *)
(***************************************************************************)
TriState == {"Undefined", "True", "False"}
Call == {"start", "on", "off", "stop", "resume"}
Message == {"GPON", "GPOFF", "IDLE"}

Kernel == [live : BOOLEAN, power : TriState, stop : TriState,
           posted : Seq(Call), queue : Seq(Message)]

NoKernel == [live |-> FALSE, power |-> "Undefined", stop |-> "Undefined",
             posted |-> <<>>, queue |-> <<>>]

NewKernel == [NoKernel EXCEPT !.live = TRUE, !.posted = <<"start">>]

\* live: the kernel that posted the event still exists.
What == {"started", "powerOn", "powerOff", "idle", "error"}
Callback == [interface : Interface, live : BOOLEAN, what : What]

Elements(s) == {s[k] : k \in 1..Len(s)}

-----------------------------------------------------------------------------
(***************************************************************************)
(* World events                                                            *)
(***************************************************************************)

\* The state of the world, in World::event.
After(w, e) ==
  CASE e = "PowerOff" -> [w EXCEPT !.power = FALSE, !.run = FALSE]
    [] e = "PowerOn" -> [w EXCEPT !.power = TRUE]
    [] e = "Stop" -> [w EXCEPT !.run = FALSE]
    [] e = "Run" -> [w EXCEPT !.power = TRUE, !.run = TRUE]

\* Faulty variant of Calls: the world runs and the kernel is not resumed.
CallsForPower(e, w) ==
  CASE e = "PowerOff" -> <<"off">>
    [] e = "PowerOn" -> <<"on">>
    [] e = "Stop" -> <<"stop">>
    [] e = "Run" -> <<>>

\* What LocoNetInterface::worldEvent posts to its kernel, w being the state after the event.
Calls(e, w) ==
  CASE e = "PowerOff" -> <<"off">>
    [] e = "PowerOn" -> IF w.run THEN <<"on", "resume">> ELSE <<"on">>
    [] e = "Stop" -> <<"stop">>
    [] e = "Run" -> IF w.power THEN <<"resume">> ELSE <<>>

\* `run` puts the power of the world on and posts no "on": the interfaces are not told of it.
NotTold(e) ==
  CASE e = "Stop" \/ (e = "Run" /\ world.power) -> ranOn
    [] e = "Run" /\ ~world.power -> {i \in Interface : status[i] = "Online"}
    [] OTHER -> {}

post(k, calls) == IF k.live THEN [k EXCEPT !.posted = @ \o calls] ELSE k

(***************************************************************************)
(* World::event: the world changes and its on_event handlers run before    *)
(* the interfaces are told.  A script may call the world from a handler:   *)
(* the interfaces are told of that event first.  (Bound: handlers that run *)
(* for the event of a script make no call.)                                *)
(***************************************************************************)
event(e) ==
  LET w == After(world, e)
  IN \/ /\ world' = w
        /\ kernel' = [i \in Interface |-> post(kernel[i], Calls(e, w))]
        /\ ranOn' = NotTold(e)
     \/ \E c \in ScriptCalls :
          /\ world' = After(w, c)
          /\ kernel' = [i \in Interface |-> post(kernel[i], Calls(c, After(w, c)) \o Calls(e, w))]
          /\ ranOn' = IF c = "PowerOff" THEN {} ELSE NotTold(e)

Input == inputs < MaxInputs /\ inputs' = inputs + 1

\* Nothing is on its way that switches the power on.
NothingRises ==
  /\ \A i \in Interface : "on" \notin Elements(kernel[i].posted) /\ "GPON" \notin Elements(kernel[i].queue)
  /\ \A c \in Elements(events) : c.what # "powerOn"

(***************************************************************************)
(* Methods of the world that the user calls                                *)
(***************************************************************************)
PowerOn == Input /\ event("PowerOn") /\ switchedOff' = "no"

PowerOff ==
  /\ Input /\ event("PowerOff")
  /\ switchedOff' = IF NothingRises THEN "atRest" ELSE "whileRising"

Stop == Input /\ event("Stop") /\ UNCHANGED switchedOff

\* By the user, or by Traintastic::loadWorld before any interface is up.
Run == Input /\ event("Run") /\ switchedOff' = "no"

UserCalls ==
  /\ PowerOn \/ PowerOff \/ Stop \/ Run
  /\ UNCHANGED <<status, station, events>>

-----------------------------------------------------------------------------
(***************************************************************************)
(* Interfaces                                                              *)
(***************************************************************************)

\* LocoNetInterface::setOnline for some interfaces; those that have a kernel keep it.
Opened(opening) ==
  /\ kernel' = [i \in Interface |-> IF i \in opening /\ ~kernel[i].live THEN NewKernel ELSE kernel[i]]
  /\ status' = [i \in Interface |->
                  IF i \in opening /\ ~kernel[i].live THEN "Initializing" ELSE status[i]]

\* What the kernels of closing interfaces have posted is still in the event loop.
Orphaned(closing, callbacks) ==
  [k \in 1..Len(callbacks) |->
     IF callbacks[k].interface \in closing THEN [callbacks[k] EXCEPT !.live = FALSE] ELSE callbacks[k]]

\* LocoNetInterface::setOnline(false): stops and destroys the kernel.
Closed(closing, callbacks) ==
  /\ kernel' = [i \in Interface |-> IF i \in closing THEN NoKernel ELSE kernel[i]]
  /\ events' = Orphaned(closing, callbacks)

\* World::online: every interface tries to get online.
GoOnline ==
  /\ Input /\ world' = [world EXCEPT !.online = TRUE]
  /\ Opened(Interface)
  /\ UNCHANGED <<station, events, switchedOff, ranOn>>

\* World::offline.
GoOffline ==
  /\ Input /\ world' = [world EXCEPT !.online = FALSE]
  /\ Closed(Interface, events)
  /\ status' = [i \in Interface |-> "Offline"]
  /\ UNCHANGED <<station, switchedOff, ranOn>>

\* Interface::online, of one interface.
ToggleOnline(i) ==
  /\ Input /\ world.online
  /\ \/ ~kernel[i].live /\ Opened({i}) /\ UNCHANGED events
     \/ /\ kernel[i].live /\ Closed({i}, events)
        /\ status' = [status EXCEPT ![i] = "Offline"]
  /\ UNCHANGED <<world, station, switchedOff, ranOn>>

-----------------------------------------------------------------------------
(***************************************************************************)
(* The kernel thread                                                       *)
(***************************************************************************)
Callbacks(i, whats) == [k \in 1..Len(whats) |-> [interface |-> i, live |-> TRUE, what |-> whats[k]]]

\* Faulty variant of RunsStart: a device that cannot be opened is only logged.
RunsStartSilently(i, k) ==
  /\ events' = events \o Callbacks(i, <<"started">>) \/ UNCHANGED events
  /\ kernel' = [kernel EXCEPT ![i] = k]

\* Kernel::start opens the device, which may fail.
RunsStart(i, k) ==
  /\ events' = events \o Callbacks(i, <<"started">>) \/ events' = events \o Callbacks(i, <<"error">>)
  /\ kernel' = [kernel EXCEPT ![i] = k]

\* Faulty variant of RunsPower: a bus nothing is known of is left alone.
RunsPowerOfKnown(i, k, known, message) ==
  /\ kernel' = [kernel EXCEPT ![i] =
                  IF k.power \in {known, "Undefined"} THEN k ELSE [k EXCEPT !.queue = Append(@, message)]]
  /\ UNCHANGED events

\* Kernel::setPowerOn sends a message unless the bus is known to be in that state.
RunsPower(i, k, known, message) ==
  /\ kernel' = [kernel EXCEPT ![i] =
                  IF k.power = known THEN k ELSE [k EXCEPT !.queue = Append(@, message)]]
  /\ UNCHANGED events

RunsEmergencyStop(i, k) ==
  /\ kernel' = [kernel EXCEPT ![i] =
                  IF k.stop = "True" THEN k ELSE [k EXCEPT !.queue = Append(@, "IDLE")]]
  /\ UNCHANGED events

RunsResume(i, k) ==
  /\ kernel' = [kernel EXCEPT ![i] = [k EXCEPT !.stop = "False"]]
  /\ UNCHANGED events

KernelRuns(i) ==
  /\ kernel[i].live /\ kernel[i].posted # <<>>
  /\ LET call == Head(kernel[i].posted)
         k == [kernel[i] EXCEPT !.posted = Tail(@)]
     IN \/ call = "start" /\ RunsStart(i, k)
        \/ call = "on" /\ RunsPower(i, k, "True", "GPON")
        \/ call = "off" /\ RunsPower(i, k, "False", "GPOFF")
        \/ call = "stop" /\ RunsEmergencyStop(i, k)
        \/ call = "resume" /\ RunsResume(i, k)
  /\ UNCHANGED <<world, status, station, switchedOff, ranOn, inputs>>

\* Kernel::receive of one of the messages that change what the kernel knows of the bus.
received(k, message) ==
  CASE message = "GPON" -> [k EXCEPT !.power = "True"]
    [] message = "GPOFF" -> [k EXCEPT !.power = "False"]
    [] message = "IDLE" -> [k EXCEPT !.stop = "True"]

\* It calls back when that is a change.
CallbacksOf(k, message) ==
  CASE message = "GPON" /\ k.power # "True" -> <<"powerOn">>
    [] message = "GPOFF" /\ k.power # "False" -> <<"powerOff">>
    [] message = "IDLE" /\ k.stop # "True" -> <<"idle">>
    [] OTHER -> <<>>

\* The bus carries a message: the station obeys it and the kernel, in state k, receives it.
Carried(i, k, message) ==
  /\ station' = [station EXCEPT ![i] = (message = "GPON") \/ (message = "IDLE" /\ @)]
  /\ kernel' = [kernel EXCEPT ![i] = IF k.live THEN received(k, message) ELSE k]
  /\ events' = IF k.live THEN events \o Callbacks(i, CallbacksOf(k, message)) ELSE events

\* The message that the kernel has sent.
BusCarries(i) ==
  /\ kernel[i].queue # <<>>
  /\ Carried(i, [kernel[i] EXCEPT !.queue = Tail(@)], Head(kernel[i].queue))
  /\ UNCHANGED <<world, status, switchedOff, ranOn, inputs>>

\* A message of another device, or of the station itself.
OtherDevice(i) ==
  /\ Input
  /\ \E message \in Message :
       /\ Carried(i, kernel[i], message)
       /\ switchedOff' = IF message = "GPON" THEN "no" ELSE switchedOff
  /\ UNCHANGED <<world, status, ranOn>>

\* A device that fails, or an answer that does not come.
Fails(i) ==
  /\ Input /\ kernel[i].live /\ "start" \notin Elements(kernel[i].posted)
  /\ events' = events \o Callbacks(i, <<"error">>)
  /\ UNCHANGED <<world, status, kernel, station, switchedOff, ranOn>>

-----------------------------------------------------------------------------
(***************************************************************************)
(* Callbacks in the event loop                                             *)
(***************************************************************************)
\* Faulty variant of OnStarted: only a power that is on is sent to the bus.
OnStartedPowered(i) ==
  /\ status' = [status EXCEPT ![i] = "Online"]
  /\ kernel' = [kernel EXCEPT ![i] =
       post(@, IF world.power THEN <<"on", IF world.run THEN "resume" ELSE "stop">> ELSE <<"stop">>)]
  /\ events' = Tail(events) /\ ranOn' = ranOn \ {i}
  /\ UNCHANGED world

\* Faulty variant of OnError: the kernel is left behind.
OnErrorKeepsKernel(i) ==
  /\ status' = [status EXCEPT ![i] = "Error"]
  /\ events' = Tail(events)
  /\ UNCHANGED <<world, kernel, ranOn>>

\* m_onStarted: the bus is brought to the state of the world.
OnStarted(i) ==
  /\ status' = [status EXCEPT ![i] = "Online"]
  /\ kernel' = [kernel EXCEPT ![i] =
       post(@, <<IF world.power THEN "on" ELSE "off", IF world.run THEN "resume" ELSE "stop">>)]
  /\ events' = Tail(events) /\ ranOn' = ranOn \ {i}
  /\ UNCHANGED world

\* m_onError: the interface goes offline.
OnError(i) ==
  /\ status' = [status EXCEPT ![i] = "Error"]
  /\ Closed({i}, Tail(events))
  /\ UNCHANGED <<world, ranOn>>

\* m_onGlobalPowerChanged and m_onIdle: the world follows, unless it is there already.
WorldFollows(e, there) ==
  /\ IF there THEN UNCHANGED <<world, kernel, ranOn>> ELSE event(e)
  /\ events' = Tail(events)
  /\ UNCHANGED status

Called(i, what) ==
  \/ what = "started" /\ OnStarted(i)
  \/ what = "error" /\ OnError(i)
  \/ what = "powerOn" /\ WorldFollows("PowerOn", world.power)
  \/ what = "powerOff" /\ WorldFollows("PowerOff", ~world.power)
  \/ what = "idle" /\ WorldFollows("Stop", ~world.run)

\* The callback of a kernel that exists.
CallbackRuns ==
  /\ events # <<>> /\ Head(events).live
  /\ Called(Head(events).interface, Head(events).what)
  /\ UNCHANGED <<station, switchedOff, inputs>>

(***************************************************************************)
(* The callback of a kernel that has been destroyed reads a kernel that is *)
(* no more: it may find no function to call, or the one that was there.    *)
(* That the server ends is left out.                                       *)
(***************************************************************************)
OrphanRuns ==
  /\ events # <<>> /\ ~Head(events).live
  /\ LET i == Head(events).interface
         what == Head(events).what
     IN \/ events' = Tail(events) /\ UNCHANGED <<world, status, kernel, ranOn>>
        \/ (what = "started" => kernel[i].live) /\ Called(i, what)
  /\ UNCHANGED <<station, switchedOff, inputs>>

-----------------------------------------------------------------------------
Init ==
  /\ world = [online |-> FALSE, power |-> FALSE, run |-> FALSE]
  /\ status = [i \in Interface |-> "Offline"]
  /\ kernel = [i \in Interface |-> NoKernel]
  /\ station \in [Interface -> BOOLEAN]
  /\ events = <<>> /\ switchedOff = "no" /\ ranOn = {} /\ inputs = 0

Next ==
  \/ UserCalls
  \/ GoOnline \/ GoOffline
  \/ \E i \in Interface :
       ToggleOnline(i) \/ KernelRuns(i) \/ BusCarries(i) \/ OtherDevice(i) \/ Fails(i)
  \/ CallbackRuns \/ OrphanRuns

Spec == Init /\ [][Next]_vars

-----------------------------------------------------------------------------
\* The status tells whether an interface has a kernel.
StatusTellsKernel ==
  \A i \in Interface : kernel[i].live <=> status[i] \in {"Initializing", "Online"}

\* The status tells whether there is a kernel, and live callbacks have one.
StateOK ==
  /\ world \in World
  /\ status \in [Interface -> InterfaceState]
  /\ kernel \in [Interface -> Kernel]
  /\ station \in [Interface -> BOOLEAN]
  /\ events \in Seq(Callback)
  /\ switchedOff \in {"no", "atRest", "whileRising"}
  /\ inputs \in 0..MaxInputs
  /\ StatusTellsKernel
  /\ \A c \in Elements(events) : c.live => kernel[c.interface].live

\* Types, and what StateOK says of interfaces and callbacks.
TypeOK == StateOK /\ ranOn \subseteq Interface

\* Nothing is on its way between the world and interface i, which is in use.
Settled(i) ==
  /\ status[i] = "Online" /\ events = <<>>
  /\ kernel[i].posted = <<>> /\ kernel[i].queue = <<>>

\* Once all has settled, the kernel knows what the station does, and the station gives power
\* exactly when the world has it; only after `run` put the power of the world on, and nobody
\* asked for power since, may a station be without the power the world has.
PowerAgrees ==
  \A i \in Interface : Settled(i) =>
    /\ (kernel[i].power = "True") = station[i]
    /\ station[i] = world.power \/ (world.power /\ i \in ranOn)

\* Once all has settled, a world that runs has resumed its kernels: they send speeds.
RunAgrees ==
  \A i \in Interface : Settled(i) /\ world.run => kernel[i].stop = "False"

\* A power off that finds nothing on its way to switch it on is obeyed by every station,
\* until somebody asks for power again.
PowerOffIsObeyed ==
  switchedOff = "atRest" => ~world.power /\ \A i \in Interface : Settled(i) => ~station[i]

-----------------------------------------------------------------------------
(***************************************************************************)
(* The io contexts run what is ready, and the bus carries what is sent.    *)
(***************************************************************************)
Fairness ==
  /\ \A i \in Interface : WF_vars(KernelRuns(i)) /\ WF_vars(BusCarries(i))
  /\ WF_vars(CallbackRuns) /\ WF_vars(OrphanRuns)

FairSpec == Spec /\ Fairness

\* The stations in use do lose their power after such a power off.
PowerOffArrives ==
  switchedOff = "atRest" ~>
    (switchedOff # "atRest" \/ \A i \in Interface : status[i] = "Online" => ~station[i])

\* An interface does not stay between offline and online.
StartEnds == \A i \in Interface : status[i] = "Initializing" ~> status[i] # "Initializing"
=============================================================================
