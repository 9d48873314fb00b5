---------------------------- MODULE LocoNetKernel ---------------------------
(***************************************************************************)
(* The LocoNet kernel: it puts one message at a time on the bus, waits for *)
(* its echo and, when the message asks for one, for its answer; meanwhile  *)
(* messages wait in three queues, by priority.  It keeps which slot of the *)
(* command station holds which locomotive, and keeps the speeds of a       *)
(* locomotive whose slot it does not know until the station names one.     *)
(*                                                                         *)
(* The event loop thread posts its calls to the kernel thread, so that     *)
(* they run after what has been received in between.  Every handler of the *)
(* kernel thread runs to its end.  Functions, directions, inputs, outputs, *)
(* the fast clock and listen only mode are left out.                       *)
(***************************************************************************)
EXTENDS Naturals, Sequences

CONSTANTS
  Address,      \* locomotive addresses
  NoAddress,    \* no address: of a message without one, of a slot that is free
  Slots,        \* number of slots of the command station
  Speed,        \* speeds, as numbers on the bus
  QueueLimit,   \* messages a queue takes; the code limits their bytes
  MaxInputs,    \* bound: calls and messages of other throttles a kernel gets
  MaxAsked      \* bound: requests the station has yet to answer

\* LocoSlot::invalidSpeed
NoSpeed == 255

ASSUME KernelAssumption ==
  /\ NoAddress \notin Address
  /\ Speed \subseteq Nat /\ 0 \in Speed /\ NoSpeed \notin Speed
  /\ Slots \in Nat /\ QueueLimit \in Nat /\ MaxInputs \in Nat /\ MaxAsked \in Nat
  /\ QueueLimit > 0 /\ QueueLimit >= Slots

Slot == 1..Slots
NoSlot == 0

\* SPEED_STOP is 0 and SPEED_ESTOP 1.
SpeedMin == 2

High == 0
Normal == 1
Low == 2
Priority == High..Low

-----------------------------------------------------------------------------
(***************************************************************************)
(* Messages, with the fields that tell them apart.  NO_FREE_SLOT and       *)
(* NO_SUCH_SLOT are the long acknowledges that refuse LOCO_ADR and         *)
(* RQ_SL_DATA; the LNCV messages are peer transfers.                       *)
(***************************************************************************)
Message ==
  [op : {"IDLE", "LOCO_SPD", "LOCO_ADR", "RQ_SL_DATA", "LNCV_START", "LNCV_STOP",
         "SL_RD_DATA", "NO_FREE_SLOT", "NO_SUCH_SLOT", "LNCV_RESPONSE"},
   slot : Slot \cup {NoSlot}, address : Address \cup {NoAddress}, speed : Speed]

Plain(op) == [op |-> op, slot |-> NoSlot, address |-> NoAddress, speed |-> 0]
Idle == Plain("IDLE")
LNCVStart == Plain("LNCV_START")
LNCVStop == Plain("LNCV_STOP")
LocoSpd(s, v) == [op |-> "LOCO_SPD", slot |-> s, address |-> NoAddress, speed |-> v]
LocoAdr(a) == [op |-> "LOCO_ADR", slot |-> NoSlot, address |-> a, speed |-> 0]
RequestSlotData(s) == [op |-> "RQ_SL_DATA", slot |-> s, address |-> NoAddress, speed |-> 0]
SlotReadData(s, a) == [op |-> "SL_RD_DATA", slot |-> s, address |-> a, speed |-> 0]

hasResponse(m) == m.op \in {"LOCO_ADR", "RQ_SL_DATA", "LNCV_START"}

\* Faulty variant of isValidResponse: the slot data of any address answers a request for a slot.
ResponseOfAnyAddress(request, response) ==
  CASE request.op = "RQ_SL_DATA" ->
         \/ response.op = "NO_SUCH_SLOT"
         \/ response.op = "SL_RD_DATA" /\ response.slot = request.slot
    [] request.op = "LOCO_ADR" -> response.op \in {"NO_FREE_SLOT", "SL_RD_DATA"}
    [] request.op = "LNCV_START" -> response.op = "LNCV_RESPONSE"
    [] OTHER -> FALSE

isValidResponse(request, response) ==
  CASE request.op = "RQ_SL_DATA" ->
         \/ response.op = "NO_SUCH_SLOT"
         \/ response.op = "SL_RD_DATA" /\ response.slot = request.slot
    [] request.op = "LOCO_ADR" ->
         \/ response.op = "NO_FREE_SLOT"
         \/ response.op = "SL_RD_DATA" /\ response.address = request.address
    [] request.op = "LNCV_START" -> response.op = "LNCV_RESPONSE"
    [] OTHER -> FALSE

\* What the station may answer to a request.
Answer(request) ==
  CASE request.op = "RQ_SL_DATA" ->
         {SlotReadData(request.slot, a) : a \in Address \cup {NoAddress}} \cup {Plain("NO_SUCH_SLOT")}
    [] request.op = "LOCO_ADR" ->
         {SlotReadData(s, request.address) : s \in Slot} \cup {Plain("NO_FREE_SLOT")}
    [] OTHER -> {Plain("LNCV_RESPONSE")}

-----------------------------------------------------------------------------
VARIABLES
  link,           \* the queues and what the kernel waits for, see Link
  asked,          \* requests on the bus that the station has yet to answer
  slots,          \* m_slots: is there an entry, its address, the last speed seen
  addressToSlot,  \* m_addressToSlot, NoSlot where it has no entry
  pending,        \* m_pendingSlotMessages: their speeds
  refused,        \* history: addresses of which the request for a slot was refused or never sent
  emergencyStop,  \* m_emergencyStop
  lncvActive,     \* m_lncvActive
  posted,         \* calls posted to the kernel thread
  inputs,         \* calls and messages of other throttles so far
  mode            \* "failing": online, with an error on its way to the event loop

locos == <<slots, addressToSlot, pending, refused>>
vars == <<link, asked, locos, emergencyStop, lncvActive, posted, inputs, mode>>

(***************************************************************************)
(* queue: m_sendQueue.  priority: m_sentMessagePriority.  echo, response:  *)
(* the message sent last waits for them.  armed: the response timer runs;  *)
(* expired: its handler is ready to run, too late to cancel.  wire: what   *)
(* has been sent and not been echoed.  sent, a history variable: how often *)
(* the message at the front of the queue has been sent, 2 for more.        *)
(***************************************************************************)
SendQueue == {q \in Seq(Message) : Len(q) <= QueueLimit}

Link == [queue : [Priority -> SendQueue], priority : Priority, echo : BOOLEAN,
         response : BOOLEAN, armed : BOOLEAN, expired : BOOLEAN, wire : Seq(Message), sent : 0..2]

IdleLink == [queue |-> [p \in Priority |-> <<>>], priority |-> High, echo |-> FALSE,
             response |-> FALSE, armed |-> FALSE, expired |-> FALSE, wire |-> <<>>, sent |-> 0]

LocoSlot == [known : BOOLEAN, address : Address \cup {NoAddress}, speed : Speed \cup {NoSpeed}]

Absent == [known |-> FALSE, address |-> NoAddress, speed |-> NoSpeed]

Call ==
  [call : {"speed"}, address : Address, speed : Speed]
    \cup [call : {"stop", "resume", "lncvStart", "lncvStop"}, address : {NoAddress}, speed : {0}]

-----------------------------------------------------------------------------
(***************************************************************************)
(* The link                                                                *)
(***************************************************************************)
lastSentMessage(l) == Head(l.queue[l.priority])

\* Faulty variant of Highest: the other way round.
Lowest(l) ==
  CHOOSE p \in Priority : l.queue[p] # <<>> /\ \A q \in Priority : q > p => l.queue[q] = <<>>

\* The queue that sendNextMessage takes a message from.
Highest(l) ==
  CHOOSE p \in Priority : l.queue[p] # <<>> /\ \A q \in Priority : q < p => l.queue[q] = <<>>

\* Faulty variant of sendNextMessage: where the message came from is not kept.
sendNextUnmarked(l) ==
  IF \A p \in Priority : l.queue[p] = <<>>
  THEN l
  ELSE LET m == Head(l.queue[Highest(l)])
       IN [l EXCEPT !.echo = TRUE, !.response = hasResponse(m), !.armed = @ \/ hasResponse(m),
                    !.wire = Append(@, m), !.sent = IF @ = 0 THEN 1 ELSE 2]

sendNextMessage(l) ==
  IF \A p \in Priority : l.queue[p] = <<>>
  THEN l
  ELSE LET p == Highest(l)
           m == Head(l.queue[p])
       IN [l EXCEPT !.priority = p, !.echo = TRUE, !.response = hasResponse(m),
                    !.armed = @ \/ hasResponse(m), !.wire = Append(@, m),
                    !.sent = IF @ = 0 THEN 1 ELSE 2]

pop(l) == [l EXCEPT !.queue[l.priority] = Tail(@), !.sent = 0]

\* Faulty variant of append: the queue does not know its limit.
appendAlways(queue, messages) == queue \o messages

\* SendQueue::append of some messages: what does not fit is dropped.
append(queue, messages) ==
  LET all == queue \o messages
  IN SubSeq(all, 1, IF Len(all) <= QueueLimit THEN Len(all) ELSE QueueLimit)

\* Kernel::send of some messages of one priority.
send(l, messages, p) ==
  LET l2 == [l EXCEPT !.queue[p] = append(@, messages)]
  IN IF l.echo \/ l.response THEN l2 ELSE sendNextMessage(l2)

\* Whether the message at the front is the one that was sent is not looked at.
isEcho(l, m) == l.echo /\ l.queue[l.priority] # <<>> /\ m = lastSentMessage(l)

isResponse(l, m) ==
  ~isEcho(l, m) /\ l.response /\ isValidResponse(lastSentMessage(l), m)

\* Faulty variant of received: after an answer the next message is not sent.
receivedOnly(l, m, messages) ==
  LET echoed == [l EXCEPT !.echo = FALSE]
      l2 == IF ~isEcho(l, m) THEN l
            ELSE IF l.response THEN echoed ELSE sendNextMessage(pop(echoed))
      l3 == send(l2, messages, Normal)
  IN IF isResponse(l, m) THEN pop([l3 EXCEPT !.response = FALSE, !.armed = FALSE]) ELSE l3

(***************************************************************************)
(* Kernel::receive: the echo of a message that asks for nothing, and the   *)
(* answer to one that does, make room for the next.  In between the        *)
(* message is handled, for which the kernel may send some messages itself. *)
(* An answer is taken before the echo too: when nothing else waits then,   *)
(* m_waitingForEcho stays set for a message that is gone, see Stalled.     *)
(***************************************************************************)
received(l, m, messages) ==
  LET echoed == [l EXCEPT !.echo = FALSE]
      l2 == IF ~isEcho(l, m) THEN l
            ELSE IF l.response THEN echoed ELSE sendNextMessage(pop(echoed))
      l3 == send(l2, messages, Normal)
  IN IF isResponse(l, m)
     THEN sendNextMessage(pop([l3 EXCEPT !.response = FALSE, !.armed = FALSE]))
     ELSE l3

-----------------------------------------------------------------------------
(***************************************************************************)
(* Receiving message m, with the link as it is then, l.  What kind of      *)
(* message it is tells what else changes.                                  *)
(***************************************************************************)

\* OPC_IDLE
ReceiveIdle(l, m) ==
  /\ m.op = "IDLE"
  /\ link' = received(l, m, <<>>)
  /\ emergencyStop' = "True"
  /\ UNCHANGED <<locos, lncvActive>>

\* OPC_LOCO_SPD: the speed of a slot; of a slot without address the data is
\* requested, twice when there was no entry for it.
ReceiveSpeed(l, m) ==
  /\ m.op = "LOCO_SPD"
  /\ LET s == m.slot
         request == RequestSlotData(s)
     IN IF slots[s].address = NoAddress
        THEN /\ slots' = [slots EXCEPT ![s].known = TRUE]
             /\ link' = received(l, m, IF slots[s].known THEN <<request>> ELSE <<request, request>>)
        ELSE /\ slots' = [slots EXCEPT ![s].speed = m.speed]
             /\ link' = received(l, m, <<>>)
  /\ UNCHANGED <<addressToSlot, pending, refused, emergencyStop, lncvActive>>

\* OPC_SL_RD_DATA of a free slot: Kernel::clearLocoSlot.
ReceiveFreeSlot(l, m) ==
  /\ m.op = "SL_RD_DATA" /\ m.address = NoAddress
  /\ link' = received(l, m, <<>>)
  /\ slots' = [slots EXCEPT ![m.slot] = Absent]
  /\ \/ \E a \in Address :
          addressToSlot[a] = m.slot /\ addressToSlot' = [addressToSlot EXCEPT ![a] = NoSlot]
     \/ (\A a \in Address : addressToSlot[a] # m.slot) /\ UNCHANGED addressToSlot
  /\ UNCHANGED <<pending, refused, emergencyStop, lncvActive>>

\* Faulty variant of Mapped: the address that the slot had stays mapped to it.
MappedTwice(s, a) ==
  IF slots[s].address = a THEN addressToSlot ELSE [addressToSlot EXCEPT ![a] = s]

\* m_addressToSlot after slot s has been read to hold address a.
Mapped(s, a) ==
  LET old == slots[s].address
  IN IF old = NoAddress THEN [addressToSlot EXCEPT ![a] = s]
     ELSE IF old # a /\ addressToSlot[old] = s THEN [addressToSlot EXCEPT ![old] = NoSlot]
     ELSE addressToSlot

\* The speeds that were waiting for a slot of address a, now with slot s.
PendingFor(s, a) == [i \in 1..Len(pending[a]) |-> LocoSpd(s, pending[a][i])]

\* OPC_SL_RD_DATA of a slot in use.
ReceiveSlotData(l, m) ==
  /\ m.op = "SL_RD_DATA" /\ m.address # NoAddress
  /\ LET s == m.slot
         a == m.address
     IN /\ link' = received(l, m, PendingFor(s, a))
        /\ addressToSlot' = Mapped(s, a)
        /\ slots' = [slots EXCEPT ![s] =
             [known |-> TRUE, address |-> a, speed |-> IF @.address = a THEN @.speed ELSE NoSpeed]]
        /\ pending' = [pending EXCEPT ![a] = <<>>]
        /\ refused' = refused \ {a}
  /\ UNCHANGED <<emergencyStop, lncvActive>>

\* OPC_LONG_ACK that refuses: it is logged.  The speeds that wait for the slot keep waiting.
ReceiveRefusal(l, m) ==
  /\ m.op \in {"NO_FREE_SLOT", "NO_SUCH_SLOT"}
  /\ link' = received(l, m, <<>>)
  /\ refused' = IF isResponse(l, m) /\ m.op = "NO_FREE_SLOT"
                THEN refused \cup {lastSentMessage(l).address} ELSE refused
  /\ UNCHANGED <<slots, addressToSlot, pending, emergencyStop, lncvActive>>

\* OPC_PEER_XFER that answers to LNCVStart.
ReceiveLNCVResponse(l, m) ==
  /\ m.op = "LNCV_RESPONSE"
  /\ link' = received(l, m, <<>>)
  /\ lncvActive' = (lncvActive \/ isResponse(l, m))
  /\ UNCHANGED <<locos, emergencyStop>>

\* A message that the kernel does not act upon.
ReceiveOther(l, m) ==
  /\ m.op \in {"LOCO_ADR", "RQ_SL_DATA", "LNCV_START", "LNCV_STOP"}
  /\ link' = received(l, m, <<>>)
  /\ refused' = IF isEcho(l, m) /\ l.sent = 0 /\ m.op = "LOCO_ADR"
                THEN refused \cup {m.address} ELSE refused
  /\ UNCHANGED <<slots, addressToSlot, pending, emergencyStop, lncvActive>>

receive(l, m) ==
  \/ ReceiveIdle(l, m)
  \/ ReceiveSpeed(l, m)
  \/ ReceiveFreeSlot(l, m)
  \/ ReceiveSlotData(l, m)
  \/ ReceiveRefusal(l, m)
  \/ ReceiveLNCVResponse(l, m)
  \/ ReceiveOther(l, m)

-----------------------------------------------------------------------------
(***************************************************************************)
(* The bus: echoes, answers of the station, messages of other throttles    *)
(***************************************************************************)

Input == inputs < MaxInputs /\ inputs' = inputs + 1

\* The bus carries the kernel's message, so that the kernel receives it.
Echo ==
  /\ mode # "offline" /\ link.wire # <<>>
  /\ LET m == Head(link.wire)
     IN /\ receive([link EXCEPT !.wire = Tail(@)], m)
        /\ asked' = IF hasResponse(m) THEN Append(asked, m) ELSE asked
  /\ UNCHANGED <<posted, inputs, mode>>

StationAnswers ==
  /\ mode # "offline" /\ asked # <<>>
  /\ \E m \in Answer(Head(asked)) : receive(link, m)
  /\ asked' = Tail(asked)
  /\ UNCHANGED <<posted, inputs, mode>>

\* The station does not answer, or the answer is damaged.
AnswerLost ==
  /\ mode # "offline" /\ asked # <<>>
  /\ asked' = Tail(asked)
  /\ UNCHANGED <<link, locos, emergencyStop, lncvActive, posted, inputs, mode>>

(***************************************************************************)
(* Another throttle drives a locomotive, stops all of them, asks for slots *)
(* and has them answered or refused, or gets the station to give a slot to *)
(* another address or to free it.                                          *)
(***************************************************************************)
OthersMessage ==
  {LocoSpd(s, v) : s \in Slot, v \in Speed} \cup {LocoAdr(a) : a \in Address}
    \cup {SlotReadData(s, a) : s \in Slot, a \in Address \cup {NoAddress}}
    \cup {RequestSlotData(s) : s \in Slot}
    \cup {Idle, Plain("NO_FREE_SLOT"), Plain("NO_SUCH_SLOT"), Plain("LNCV_RESPONSE")}

OtherThrottle ==
  /\ mode # "offline" /\ Input
  /\ \E m \in OthersMessage : receive(link, m)
  /\ UNCHANGED <<asked, posted, mode>>

-----------------------------------------------------------------------------
(***************************************************************************)
(* The response timer                                                      *)
(***************************************************************************)

\* An echo is under way for a fraction of the time-out only.
ResponseTimerExpires ==
  /\ mode # "offline" /\ link.armed /\ link.wire = <<>> /\ Len(asked) < MaxAsked
  /\ link' = [link EXCEPT !.armed = FALSE, !.expired = TRUE]
  /\ UNCHANGED <<asked, locos, emergencyStop, lncvActive, posted, inputs, mode>>

\* The last message sent is LNCVStart, of a session that has not been stopped.
ProgrammingStarts ==
  lncvActive /\ link.queue[link.priority] # <<>> /\ lastSentMessage(link) = LNCVStart

\* Faulty variant of waitingForResponseTimerExpired: a time-out is logged and nothing else.
TimerExpiryIsLogged ==
  /\ mode # "offline" /\ link.expired
  /\ link' = [link EXCEPT !.expired = FALSE]
  /\ UNCHANGED <<asked, locos, emergencyStop, lncvActive, posted, inputs, mode>>

\* LNCVStart is sent again; without an answer to another message the interface fails.
waitingForResponseTimerExpired ==
  /\ mode # "offline" /\ link.expired
  /\ LET l == [link EXCEPT !.expired = FALSE]
     IN \/ ProgrammingStarts /\ link' = sendNextMessage(l) /\ UNCHANGED mode
        \/ ~ProgrammingStarts /\ link' = l /\ mode' = "failing"
  /\ UNCHANGED <<asked, locos, emergencyStop, lncvActive, posted, inputs>>

-----------------------------------------------------------------------------
(***************************************************************************)
(* Calls of the event loop thread                                          *)
(***************************************************************************)
Post(call, a, v) ==
  /\ mode # "offline" /\ Input
  /\ posted' = Append(posted, [call |-> call, address |-> a, speed |-> v])
  /\ UNCHANGED <<link, asked, locos, emergencyStop, lncvActive, mode>>

\* Kernel::decoderChanged looks at m_emergencyStop from the event loop thread.
decoderChanged(a, v) ==
  /\ emergencyStop = "False" \/ v < SpeedMin
  /\ Post("speed", a, v)

EventLoop ==
  \/ \E a \in Address, v \in Speed : decoderChanged(a, v)
  \/ \E call \in {"stop", "resume", "lncvStart", "lncvStop"} : Post(call, NoAddress, 0)

\* The kernel thread runs the first call.
Runs(call) ==
  /\ mode # "offline" /\ posted # <<>> /\ Head(posted).call = call
  /\ posted' = Tail(posted)
  /\ UNCHANGED <<asked, inputs, mode>>

\* Kernel::send to an address of which the slot is known: the speed that the
\* slot has been seen with is not sent.
SendToSlot(a, v) ==
  LET s == addressToSlot[a]
  IN /\ s # NoSlot
     /\ link' = IF v >= SpeedMin /\ slots[s].speed = v THEN link ELSE send(link, <<LocoSpd(s, v)>>, Normal)
     /\ UNCHANGED locos

\* Kernel::send to an address without slot: the first speed asks for one.
SendWhenSlot(a, v) ==
  /\ addressToSlot[a] = NoSlot
  /\ pending' = [pending EXCEPT ![a] = Append(@, v)]
  /\ IF pending[a] = <<>>
     THEN /\ link' = send(link, <<LocoAdr(a)>>, High)
          /\ refused' = IF Len(link.queue[High]) < QueueLimit THEN refused ELSE refused \cup {a}
     ELSE UNCHANGED <<link, refused>>
  /\ UNCHANGED <<slots, addressToSlot>>

RunSpeed ==
  /\ Runs("speed")
  /\ LET c == Head(posted)
     IN SendToSlot(c.address, c.speed) \/ SendWhenSlot(c.address, c.speed)
  /\ UNCHANGED <<emergencyStop, lncvActive>>

RunEmergencyStop ==
  /\ Runs("stop")
  /\ link' = IF emergencyStop = "True" THEN link ELSE send(link, <<Idle>>, High)
  /\ UNCHANGED <<locos, emergencyStop, lncvActive>>

RunResume ==
  /\ Runs("resume")
  /\ emergencyStop' = "False"
  /\ UNCHANGED <<link, locos, lncvActive>>

RunLNCVStart ==
  /\ Runs("lncvStart")
  /\ link' = IF lncvActive THEN link ELSE send(link, <<LNCVStart>>, High)
  /\ lncvActive' = TRUE
  /\ UNCHANGED <<locos, emergencyStop>>

RunLNCVStop ==
  /\ Runs("lncvStop")
  /\ link' = IF lncvActive THEN send(link, <<LNCVStop>>, High) ELSE link
  /\ lncvActive' = FALSE
  /\ UNCHANGED <<locos, emergencyStop>>

-----------------------------------------------------------------------------
(***************************************************************************)
(* The interface goes online with a new kernel, which asks for the data of *)
(* every slot, and goes offline: when the user wants it, or after an error.*)
(***************************************************************************)
Init ==
  /\ link = IdleLink /\ mode = "offline"
  /\ asked = <<>> /\ posted = <<>> /\ inputs = 0
  /\ slots = [s \in Slot |-> Absent]
  /\ addressToSlot = [a \in Address |-> NoSlot]
  /\ pending = [a \in Address |-> <<>>]
  /\ refused = {}
  /\ emergencyStop = "Undefined" /\ lncvActive = FALSE

\* The state of a kernel that is new.
Reset ==
  /\ asked' = <<>> /\ posted' = <<>> /\ inputs' = 0
  /\ slots' = [s \in Slot |-> Absent]
  /\ addressToSlot' = [a \in Address |-> NoSlot]
  /\ pending' = [a \in Address |-> <<>>]
  /\ refused' = {}
  /\ emergencyStop' = "Undefined" /\ lncvActive' = FALSE

start ==
  /\ mode = "offline" /\ mode' = "online"
  /\ link' = send(IdleLink, [s \in Slot |-> RequestSlotData(s)], Low)
  /\ Reset

stop ==
  /\ mode # "offline" /\ mode' = "offline"
  /\ link' = IdleLink
  /\ Reset

Next ==
  \/ Echo \/ StationAnswers \/ AnswerLost \/ OtherThrottle
  \/ ResponseTimerExpires \/ waitingForResponseTimerExpired
  \/ EventLoop
  \/ RunSpeed \/ RunEmergencyStop \/ RunResume \/ RunLNCVStart \/ RunLNCVStop
  \/ start \/ stop

Spec == Init /\ [][Next]_vars

-----------------------------------------------------------------------------
TypeOK ==
  /\ link \in Link
  /\ asked \in Seq(Message)
  /\ slots \in [Slot -> LocoSlot]
  /\ addressToSlot \in [Address -> Slot \cup {NoSlot}]
  /\ pending \in [Address -> Seq(Speed)]
  /\ refused \in SUBSET Address
  /\ emergencyStop \in {"Undefined", "True", "False"}
  /\ lncvActive \in BOOLEAN
  /\ posted \in Seq(Call)
  /\ inputs \in 0..MaxInputs
  /\ mode \in {"offline", "online", "failing"}

(***************************************************************************)
(* A message was answered before its echo while nothing else was to be     *)
(* sent.  The kernel waits for the echo of a message it has popped and     *)
(* sends nothing more, until what it receives equals a message that waits. *)
(***************************************************************************)
Stalled == link.echo /\ link.sent = 0

(***************************************************************************)
(* Whatever the kernel waits for is about the message at the front of the  *)
(* queue it was taken from: what it pops later is what it has sent.  Only  *)
(* a stalled kernel waits for something else, and only for an echo.        *)
(***************************************************************************)
LastSentIsFront ==
  /\ (link.echo \/ link.response) /\ ~Stalled =>
       link.queue[link.priority] # <<>> /\ link.sent > 0
  /\ link.echo /\ ~Stalled =>
       link.wire # <<>> /\ link.wire[Len(link.wire)] = lastSentMessage(link)
  /\ link.response => ~Stalled /\ hasResponse(lastSentMessage(link))

\* No message waits in a queue of a kernel that waits for nothing.
NeverIdleWithWork ==
  (\E p \in Priority : link.queue[p] # <<>>) => link.echo \/ link.response

\* A speed is sent to the slot that has the locomotive, as far as the bus has told.
MappingIsTrue ==
  \A a \in Address : addressToSlot[a] # NoSlot => slots[addressToSlot[a]].address = a

\* A speed that waits for a slot waits for a request that is still to be answered, or that
\* the station has refused or the queue dropped.
PendingIsRequested ==
  \A a \in Address : pending[a] # <<>> =>
    a \in refused \/ \E i \in 1..Len(link.queue[High]) : link.queue[High][i] = LocoAdr(a)

(***************************************************************************)
(* The link keeps the promise of MessageLink: while it has not stalled     *)
(* nothing accepted is lost or overtaken, and nothing but LNCV_START is    *)
(* sent again.                                                             *)
(***************************************************************************)
Nothing == Low + 1
Stuck == Low + 2
Promise == INSTANCE MessageLink WITH
  Repeatable <- {LNCVStart},
  None <- Nothing,
  waiting <- link.queue,
  flight <- IF link.sent > 0 THEN link.priority ELSE IF link.echo THEN Stuck ELSE Nothing,
  again <- link.sent > 1

ImplementsLink == Promise!Spec

-----------------------------------------------------------------------------
(***************************************************************************)
(* Fairness: the bus carries what is sent and the station answers, if it   *)
(* does; the timer expires; the io context runs the handlers that are      *)
(* ready.  Nothing is assumed of the user and of other throttles.          *)
(***************************************************************************)
KernelRuns ==
  RunSpeed \/ RunEmergencyStop \/ RunResume \/ RunLNCVStart \/ RunLNCVStop

Fairness ==
  /\ WF_vars(Echo) /\ WF_vars(StationAnswers \/ AnswerLost)
  /\ WF_vars(ResponseTimerExpires) /\ WF_vars(waitingForResponseTimerExpired)
  /\ WF_vars(KernelRuns)

FairSpec == Spec /\ Fairness

\* The response timer sends LNCVStart again.
Repeats == waitingForResponseTimerExpired /\ ProgrammingStarts

(***************************************************************************)
(* An emergency stop that is queued is put on the bus, unless LNCVStart is *)
(* sent again for ever, the link has stalled, or the interface fails or    *)
(* goes offline.                                                           *)
(***************************************************************************)
EmergencyStopIsSent ==
  \/ []<><<Repeats>>_vars
  \/ (\E i \in 1..Len(link.queue[High]) : link.queue[High][i] = Idle)
       ~> (mode # "online" \/ Stalled \/ \E i \in 1..Len(link.wire) : link.wire[i] = Idle)
=============================================================================
