---------------------------- MODULE LocoNetProofs ---------------------------
(***************************************************************************)
(* Proofs about LocoNetKernel, for every number of locomotives and slots,  *)
(* every limit of the queues and whatever the station leaves unanswered.   *)
(***************************************************************************)
EXTENDS LocoNetKernel, SequenceTheorems, TLAPS

-----------------------------------------------------------------------------
(* Lemmas about the queues *)

\* Queue new is queue old with messages behind it.
Grown(old, new) ==
  /\ Len(old) <= Len(new)
  /\ SubSeq(new, 1, Len(old)) = old

\* Equal messages at equal places: the queue has grown.
LEMMA GrownFromElements ==
  ASSUME NEW S, NEW q \in Seq(S), NEW r \in Seq(S), Len(q) <= Len(r),
         \A i \in 1 .. Len(q) : r[i] = q[i]
  PROVE  Grown(q, r)
<1>0. Len(q) \in Nat /\ Len(r) \in Nat
  BY LenProperties
<1>1. \A i \in 1 .. Len(q) : r[i] \in S
  BY ElementOfSeq
<1>2. /\ SubSeq(r, 1, Len(q)) \in Seq(S)
      /\ Len(SubSeq(r, 1, Len(q))) = IF 1 <= Len(q) THEN Len(q) - 1 + 1 ELSE 0
      /\ \A i \in 1 .. Len(q) - 1 + 1 : SubSeq(r, 1, Len(q))[i] = r[1 + i - 1]
  BY <1>0, <1>1, SubSeqProperties
<1>3. Len(SubSeq(r, 1, Len(q))) = Len(q)
  BY <1>0, <1>2
<1>4. ASSUME NEW i \in 1 .. Len(q)
      PROVE  SubSeq(r, 1, Len(q))[i] = q[i]
  <2>1. i \in 1 .. Len(q) - 1 + 1 /\ 1 + i - 1 = i
    BY <1>0
  <2> QED
    BY <1>2, <2>1
<1>5. SubSeq(r, 1, Len(q)) = q
  BY <1>2, <1>3, <1>4, SeqEqual
<1> QED
  BY <1>5 DEF Grown

(***************************************************************************)
(* What SendQueue::append keeps: the messages that waited, their order,    *)
(* and the limit of the queue.                                             *)
(***************************************************************************)
LEMMA AppendGrows ==
  ASSUME NEW S, NEW q \in Seq(S), Len(q) <= QueueLimit, NEW messages \in Seq(S)
  PROVE  /\ append(q, messages) \in Seq(S)
         /\ Len(append(q, messages)) <= QueueLimit
         /\ Grown(q, append(q, messages))
<1> DEFINE all == q \o messages
           n == IF Len(all) <= QueueLimit THEN Len(all) ELSE QueueLimit
<1>1. /\ all \in Seq(S) /\ Len(all) = Len(q) + Len(messages)
      /\ \A i \in 1 .. Len(q) : all[i] = q[i]
  <2>1. Len(q) \in Nat /\ Len(messages) \in Nat
    BY LenProperties
  <2>2. \A i \in 1 .. Len(q) : i \in 1 .. Len(q) + Len(messages)
    BY <2>1
  <2> QED
    BY <2>1, <2>2, ConcatProperties
<1>2. n \in Nat /\ n <= Len(all) /\ Len(q) <= n /\ n <= QueueLimit
  BY <1>1, LenProperties, KernelAssumption
<1>3. append(q, messages) = SubSeq(all, 1, n)
  BY DEF append
<1> HIDE DEF n, all
<1>4. /\ SubSeq(all, 1, n) \in Seq(S) /\ Len(SubSeq(all, 1, n)) = n
      /\ \A i \in 1 .. n : SubSeq(all, 1, n)[i] = all[i]
  <2>1. \A i \in 1 .. n : all[i] \in S
    BY <1>1, <1>2, ElementOfSeq, LenProperties
  <2>2. /\ SubSeq(all, 1, n) \in Seq(S)
        /\ Len(SubSeq(all, 1, n)) = IF 1 <= n THEN n - 1 + 1 ELSE 0
        /\ \A i \in 1 .. n - 1 + 1 : SubSeq(all, 1, n)[i] = all[1 + i - 1]
    BY <2>1, <1>2, SubSeqProperties
  <2> QED
    BY <2>2, <1>2
<1>5. \A i \in 1 .. Len(q) : SubSeq(all, 1, n)[i] = q[i]
  BY <1>1, <1>2, <1>4, LenProperties
<1>6. Grown(q, SubSeq(all, 1, n))
  BY <1>2, <1>4, <1>5, GrownFromElements
<1> QED
  BY <1>2, <1>3, <1>4, <1>6

\* A queue that has grown has the same messages at the same places.
LEMMA GrownKeeps ==
  ASSUME NEW S, NEW q \in Seq(S), NEW r \in Seq(S), Grown(q, r)
  PROVE  /\ \A i \in 1 .. Len(q) : i \in 1 .. Len(r) /\ r[i] = q[i]
         /\ q # <<>> => r # <<>> /\ Head(r) = Head(q) /\ Grown(Tail(q), Tail(r))
<1>0. Len(q) \in Nat /\ Len(r) \in Nat /\ Len(q) <= Len(r)
  BY LenProperties DEF Grown
<1>1. \A i \in 1 .. Len(q) : r[i] \in S
  BY <1>0, ElementOfSeq
<1>2. /\ Len(SubSeq(r, 1, Len(q))) = IF 1 <= Len(q) THEN Len(q) - 1 + 1 ELSE 0
      /\ \A i \in 1 .. Len(q) - 1 + 1 : SubSeq(r, 1, Len(q))[i] = r[1 + i - 1]
  BY <1>0, <1>1, SubSeqProperties
<1>3. \A i \in 1 .. Len(q) : i \in 1 .. Len(r) /\ r[i] = q[i]
  BY <1>0, <1>2 DEF Grown
<1>4. ASSUME q # <<>>
      PROVE  r # <<>> /\ Head(r) = Head(q) /\ Grown(Tail(q), Tail(r))
  <2>1. Len(q) >= 1 /\ r # <<>>
    BY <1>0, <1>4, EmptySeq
  <2>2. Head(r) = r[1] /\ Head(q) = q[1]
    OBVIOUS
  <2>3. /\ Tail(q) \in Seq(S) /\ Len(Tail(q)) = Len(q) - 1
        /\ \A i \in 1 .. Len(Tail(q)) : Tail(q)[i] = q[i + 1]
    BY <1>4, HeadTailProperties
  <2>4. /\ Tail(r) \in Seq(S) /\ Len(Tail(r)) = Len(r) - 1
        /\ \A i \in 1 .. Len(Tail(r)) : Tail(r)[i] = r[i + 1]
    BY <2>1, HeadTailProperties
  <2>5. \A i \in 1 .. Len(Tail(q)) : Tail(r)[i] = Tail(q)[i]
    <3> TAKE i \in 1 .. Len(Tail(q))
    <3>1. i \in 1 .. Len(Tail(r)) /\ i + 1 \in 1 .. Len(q)
      BY <1>0, <2>1, <2>3, <2>4
    <3> QED
      BY <3>1, <2>3, <2>4, <1>3
  <2>6. Len(Tail(q)) <= Len(Tail(r))
    BY <1>0, <2>1, <2>3, <2>4
  <2>7. Grown(Tail(q), Tail(r))
    BY <2>3, <2>4, <2>5, <2>6, GrownFromElements
  <2> QED
    BY <1>0, <1>3, <2>1, <2>2, <2>7
<1> QED
  BY <1>3, <1>4

\* A queue to which nothing is added has grown.
LEMMA GrownSelf ==
  ASSUME NEW S, NEW q \in Seq(S)
  PROVE  Grown(q, q)
BY SubSeqFull, LenProperties DEF Grown

-----------------------------------------------------------------------------
(* The invariant of the link *)

\* What the kernel sends itself, and at which priority.
OwnOperation(p) ==
  IF p = High THEN {"IDLE", "LOCO_ADR", "LNCV_START", "LNCV_STOP"} ELSE {"LOCO_SPD", "RQ_SL_DATA"}

Own(p) ==
  {m \in Message : m.op \in OwnOperation(p) /\ (m.op = "LOCO_ADR" => m.address \in Address)}

OwnMessage == {m \in Message : m.op \in OwnOperation(High) \cup OwnOperation(Low)}

\* The shape of a link: only messages of the kernel itself are in its queues and on the wire.
OwnLink(l) ==
  /\ l \in Link
  /\ \A p \in Priority : l.queue[p] \in Seq(Own(p))
  /\ l.wire \in Seq(OwnMessage)

Waits(l) == l.echo \/ l.response

\* What the link waits for concerns the front of the queue it sent from, if that was sent.
FrontOK(l) ==
  /\ l.sent > 0 => Waits(l) /\ l.queue[l.priority] # <<>>
  /\ l.response => l.sent > 0 /\ hasResponse(lastSentMessage(l))
  /\ l.sent > 0 /\ l.echo /\ hasResponse(lastSentMessage(l)) => l.response

EchoOK(l) ==
  l.sent > 0 /\ l.echo => l.wire # <<>> /\ l.wire[Len(l.wire)] = lastSentMessage(l)

\* A link that waits for nothing has nothing to send.
BusyOK(l) == (\E p \in Priority : l.queue[p] # <<>>) => Waits(l)

Good(l) == OwnLink(l) /\ FrontOK(l) /\ EchoOK(l) /\ BusyOK(l)

\* What MessageLink sees of a link.
Flight(l) == IF l.sent > 0 THEN l.priority ELSE IF l.echo THEN Stuck ELSE Nothing

\* Messages have joined the queues of a link.
AllGrown(old, new) == \A p \in Priority : Grown(old[p], new[p])

LEMMA LinkFields ==
  ASSUME NEW l, OwnLink(l)
  PROVE  /\ l.queue \in [Priority -> SendQueue]
         /\ \A p \in Priority : /\ l.queue[p] \in Seq(Own(p)) /\ l.queue[p] \in Seq(Message)
                                /\ Len(l.queue[p]) <= QueueLimit
         /\ l.priority \in Priority /\ l.priority \in Int /\ l.priority # Nothing
         /\ l.echo \in BOOLEAN /\ l.response \in BOOLEAN
         /\ l.armed \in BOOLEAN /\ l.expired \in BOOLEAN
         /\ l.sent \in 0..2 /\ l.sent \in Nat
         /\ l.wire \in Seq(OwnMessage) /\ l.wire \in Seq(Message)
<1>1. l.queue \in [Priority -> SendQueue] /\ l.wire \in Seq(OwnMessage) /\ l.wire \in Seq(Message)
  BY DEF OwnLink, Link
<1>2. \A p \in Priority : l.queue[p] \in Seq(Own(p)) /\ l.queue[p] \in Seq(Message) /\ Len(l.queue[p]) <= QueueLimit
  BY <1>1 DEF OwnLink, SendQueue
<1>3. /\ l.priority \in Priority
      /\ l.echo \in BOOLEAN /\ l.response \in BOOLEAN
      /\ l.armed \in BOOLEAN /\ l.expired \in BOOLEAN /\ l.sent \in 0..2
  BY DEF OwnLink, Link
<1>4. l.priority \in Int /\ l.priority # Nothing
  BY <1>3 DEF Priority, High, Low, Nothing
<1> QED
  BY <1>1, <1>2, <1>3, <1>4

(***************************************************************************)
(* sendNextMessage takes a message of the highest priority that has one.   *)
(***************************************************************************)
LEMMA HighestHasWork ==
  ASSUME NEW l, \E p \in Priority : l.queue[p] # <<>>
  PROVE  /\ Highest(l) \in Priority
         /\ l.queue[Highest(l)] # <<>>
         /\ \A q \in Priority : q < Highest(l) => l.queue[q] = <<>>
<1> DEFINE H(p) == l.queue[p] # <<>> /\ \A q \in Priority : q < p => l.queue[q] = <<>>
<1>1. Priority = {High, Normal, Low} /\ High = 0 /\ Normal = 1 /\ Low = 2
  BY DEF Priority, High, Normal, Low
<1>2. \E p \in Priority : H(p)
  <2>1. CASE l.queue[High] # <<>>
    <3>1. H(High)
      BY <1>1, <2>1
    <3> QED
      BY <1>1, <3>1
  <2>2. CASE l.queue[High] = <<>> /\ l.queue[Normal] # <<>>
    <3>1. H(Normal)
      BY <1>1, <2>2
    <3> QED
      BY <1>1, <3>1
  <2>3. CASE l.queue[High] = <<>> /\ l.queue[Normal] = <<>> /\ l.queue[Low] # <<>>
    <3>1. H(Low)
      BY <1>1, <2>3
    <3> QED
      BY <1>1, <3>1
  <2> QED
    BY <1>1, <2>1, <2>2, <2>3
<1>3. Highest(l) = CHOOSE p \in Priority : H(p)
  BY DEF Highest
<1> HIDE DEF H
<1>4. Highest(l) \in Priority /\ H(Highest(l))
  BY <1>2, <1>3
<1> QED
  BY <1>4 DEF H

(***************************************************************************)
(* With a message to send, sendNextMessage leaves a link that waits for    *)
(* what it sent, whatever the link waited for before.                      *)
(***************************************************************************)
LEMMA SendNextSends ==
  ASSUME NEW l, OwnLink(l), \E p \in Priority : l.queue[p] # <<>>
  PROVE  /\ Good(sendNextMessage(l))
         /\ sendNextMessage(l).queue = l.queue
         /\ sendNextMessage(l).expired = l.expired
         /\ sendNextMessage(l).echo = TRUE
         /\ sendNextMessage(l).priority = Highest(l)
         /\ sendNextMessage(l).sent = IF l.sent = 0 THEN 1 ELSE 2
<1> DEFINE p == Highest(l)
           m == Head(l.queue[p])
           n == sendNextMessage(l)
<1>1. p \in Priority /\ l.queue[p] # <<>>
  BY HighestHasWork
<1>2. m \in Own(p) /\ m \in OwnMessage /\ m \in Message
  <2>1. l.queue[p] \in Seq(Own(p))
    BY <1>1, LinkFields
  <2>2. m \in Own(p)
    BY <1>1, <2>1, HeadTailProperties
  <2> QED
    BY <1>1, <2>2 DEF Own, OwnMessage, OwnOperation, High, Low
<1>3. n = [l EXCEPT !.priority = p, !.echo = TRUE, !.response = hasResponse(m),
                    !.armed = @ \/ hasResponse(m), !.wire = Append(@, m),
                    !.sent = IF @ = 0 THEN 1 ELSE 2]
  BY DEF sendNextMessage
<1> HIDE DEF p, m, n
<1>4. hasResponse(m) \in BOOLEAN
  BY DEF hasResponse
<1>5. /\ Append(l.wire, m) \in Seq(OwnMessage) /\ Append(l.wire, m) # <<>>
      /\ Append(l.wire, m)[Len(Append(l.wire, m))] = m
  BY <1>2, LinkFields, AppendProperties
<1>6. Append(l.wire, m) \in Seq(Message)
  BY <1>2, LinkFields, AppendProperties
<1>7. l.armed \/ hasResponse(m) \in BOOLEAN
  BY <1>4, LinkFields
<1>8. /\ n.queue = l.queue /\ n.priority = p /\ n.echo = TRUE
      /\ n.response = hasResponse(m) /\ n.wire = Append(l.wire, m) /\ n.expired = l.expired
      /\ n.sent = (IF l.sent = 0 THEN 1 ELSE 2)
  BY <1>3 DEF OwnLink, Link
<1>a. (IF l.sent = 0 THEN 1 ELSE 2) \in 0..2
  OBVIOUS
<1>9. n \in Link
  BY <1>1, <1>3, <1>4, <1>6, <1>7, <1>a DEF OwnLink, Link
<1>10. OwnLink(n)
  BY <1>5, <1>8, <1>9 DEF OwnLink
<1>11. lastSentMessage(n) = m
  BY <1>8 DEF lastSentMessage, m
<1>12. FrontOK(n) /\ EchoOK(n) /\ BusyOK(n)
  BY <1>1, <1>5, <1>8, <1>11 DEF FrontOK, EchoOK, BusyOK, Waits
<1> QED
  BY <1>8, <1>10, <1>12 DEF Good, n, p

\* Without a message to send nothing happens.
LEMMA SendNextIdles ==
  ASSUME NEW l, \A p \in Priority : l.queue[p] = <<>>
  PROVE  sendNextMessage(l) = l
BY DEF sendNextMessage

\* What has been sent makes room: nothing else changes.
LEMMA PopShape ==
  ASSUME NEW l, OwnLink(l), l.queue[l.priority] # <<>>
  PROVE  /\ OwnLink(pop(l))
         /\ pop(l).queue = [l.queue EXCEPT ![l.priority] = Tail(@)]
         /\ pop(l).echo = l.echo /\ pop(l).response = l.response
         /\ pop(l).priority = l.priority /\ pop(l).expired = l.expired
         /\ pop(l).wire = l.wire /\ pop(l).sent = 0
<1> DEFINE p == l.priority
           q == [l.queue EXCEPT ![p] = Tail(@)]
<1>1. p \in Priority /\ l.queue \in [Priority -> SendQueue]
  BY LinkFields
<1>2. /\ Tail(l.queue[p]) \in Seq(Own(p)) /\ Len(Tail(l.queue[p])) = Len(l.queue[p]) - 1
  BY <1>1, LinkFields, HeadTailProperties
<1>3. Tail(l.queue[p]) \in SendQueue
  <2>1. Tail(l.queue[p]) \in Seq(Message)
    BY <1>1, LinkFields, HeadTailProperties
  <2>2. Len(l.queue[p]) <= QueueLimit /\ Len(l.queue[p]) \in Nat
    BY <1>1, LinkFields, LenProperties
  <2> QED
    BY <1>2, <2>1, <2>2, KernelAssumption DEF SendQueue
<1>4. pop(l) = [l EXCEPT !.queue = q, !.sent = 0]
  BY DEF pop, OwnLink, Link
<1>5. q \in [Priority -> SendQueue]
  BY <1>1, <1>3
<1>6. \A r \in Priority : q[r] \in Seq(Own(r))
  BY <1>1, <1>2, LinkFields
<1> HIDE DEF q
<1>7. /\ pop(l).queue = q /\ pop(l).echo = l.echo /\ pop(l).response = l.response
      /\ pop(l).priority = l.priority /\ pop(l).expired = l.expired /\ pop(l).wire = l.wire
      /\ pop(l).sent = 0
  BY <1>4 DEF OwnLink, Link
<1>8. pop(l) \in Link
  <2>1. 0 \in 0..2
    OBVIOUS
  <2> QED
    BY <1>4, <1>5, <2>1 DEF OwnLink, Link
<1> QED
  BY <1>6, <1>7, <1>8 DEF OwnLink, q

-----------------------------------------------------------------------------
(* Sending and receiving *)

\* Promise!Turn.
TurnOf(queues) ==
  IF \A p \in Priority : queues[p] = <<>>
  THEN Nothing
  ELSE CHOOSE p \in Priority :
         queues[p] # <<>> /\ \A q \in Priority : q < p => queues[q] = <<>>

LEMMA SendNextTurns ==
  ASSUME NEW l, OwnLink(l), ~l.response, l.sent = 0
  PROVE  /\ Good(sendNextMessage(l))
         /\ sendNextMessage(l).queue = l.queue
         /\ sendNextMessage(l).expired = l.expired
         /\ sendNextMessage(l).sent \in 0..1
         /\ ~l.echo => Flight(sendNextMessage(l)) = TurnOf(l.queue)
         /\ \/ Flight(sendNextMessage(l)) = TurnOf(l.queue)
            \/ Flight(sendNextMessage(l)) = Stuck /\ TurnOf(l.queue) = Nothing
<1>1. CASE \A p \in Priority : l.queue[p] = <<>>
  <2>1. sendNextMessage(l) = l
    BY <1>1, SendNextIdles
  <2>2. Good(l)
    BY <1>1 DEF Good, FrontOK, EchoOK, BusyOK, Waits
  <2> QED
    BY <1>1, <2>1, <2>2 DEF Flight, TurnOf
<1>2. CASE \E p \in Priority : l.queue[p] # <<>>
  <2>1. TurnOf(l.queue) = Highest(l)
    BY <1>2 DEF TurnOf, Highest
  <2>2. sendNextMessage(l).sent = 1 /\ sendNextMessage(l).priority = Highest(l)
    BY <1>2, SendNextSends
  <2>3. Flight(sendNextMessage(l)) = Highest(l)
    BY <2>2 DEF Flight
  <2>4. sendNextMessage(l).sent \in 0..1
    BY <2>2
  <2> QED
    BY <1>2, <2>1, <2>3, <2>4, SendNextSends
<1> QED
  BY <1>1, <1>2

(***************************************************************************)
(* Kernel::send: the messages join their queue, and the link sends if it   *)
(* waited for nothing.                                                     *)
(***************************************************************************)
LEMMA SendKeeps ==
  ASSUME NEW l, Good(l), NEW p \in Priority, NEW messages \in Seq(Own(p))
  PROVE  /\ Good(send(l, messages, p))
         /\ AllGrown(l.queue, send(l, messages, p).queue)
         /\ send(l, messages, p).expired = l.expired
         /\ Waits(l) => /\ send(l, messages, p).echo = l.echo
                        /\ send(l, messages, p).response = l.response
                        /\ send(l, messages, p).priority = l.priority
                        /\ send(l, messages, p).sent = l.sent
         /\ ~Waits(l) => /\ Flight(send(l, messages, p)) = TurnOf(send(l, messages, p).queue)
                         /\ send(l, messages, p).sent \in 0..1
<1> DEFINE q == [l.queue EXCEPT ![p] = append(@, messages)]
           n == [l EXCEPT !.queue[p] = append(@, messages)]
           s == send(l, messages, p)
<1>0. OwnLink(l) /\ l.queue \in [Priority -> SendQueue]
  BY LinkFields DEF Good
<1>1. /\ append(l.queue[p], messages) \in Seq(Own(p))
      /\ Len(append(l.queue[p], messages)) <= QueueLimit
      /\ Grown(l.queue[p], append(l.queue[p], messages))
  BY <1>0, LinkFields, AppendGrows
<1>2. append(l.queue[p], messages) \in SendQueue
  <2>1. append(l.queue[p], messages) \in Seq(Message)
    BY <1>1, SeqMonotonic DEF Own
  <2> QED
    BY <1>1, <2>1 DEF SendQueue
<1>3. q \in [Priority -> SendQueue] /\ (\A r \in Priority : q[r] \in Seq(Own(r)))
  BY <1>0, <1>1, <1>2, LinkFields
<1>4. AllGrown(l.queue, q)
  <2>1. \A r \in Priority : Grown(l.queue[r], l.queue[r])
    BY <1>0, LinkFields, GrownSelf
  <2> QED
    BY <1>0, <1>1, <2>1 DEF AllGrown
<1>5. n = [l EXCEPT !.queue = q]
  BY <1>0 DEF OwnLink, Link
<1>6. s = IF Waits(l) THEN n ELSE sendNextMessage(n)
  BY DEF send, Waits
<1> HIDE DEF q, n, s
<1>7. /\ n.queue = q /\ n.priority = l.priority /\ n.echo = l.echo /\ n.response = l.response
      /\ n.expired = l.expired /\ n.wire = l.wire /\ n.sent = l.sent
  BY <1>0, <1>5 DEF OwnLink, Link
<1>8. n \in Link
  BY <1>0, <1>3, <1>5 DEF OwnLink, Link
<1>9. OwnLink(n)
  BY <1>0, <1>3, <1>7, <1>8 DEF OwnLink
<1>10. CASE Waits(l)
  <2>1. ASSUME l.sent > 0
        PROVE  q[l.priority] # <<>> /\ lastSentMessage(n) = lastSentMessage(l)
    <3>1. l.priority \in Priority /\ l.queue[l.priority] # <<>>
      BY <1>0, <2>1, LinkFields DEF Good, FrontOK
    <3>2. /\ l.queue[l.priority] \in Seq(Message) /\ q[l.priority] \in Seq(Message)
          /\ Grown(l.queue[l.priority], q[l.priority])
      BY <3>1, <1>0, <1>3, <1>4, LinkFields DEF AllGrown, SendQueue
    <3>3. q[l.priority] # <<>> /\ Head(q[l.priority]) = Head(l.queue[l.priority])
      BY <3>1, <3>2, GrownKeeps
    <3> QED
      BY <1>7, <3>3 DEF lastSentMessage
  <2>2. FrontOK(l) /\ EchoOK(l)
    BY DEF Good
  <2>3. FrontOK(n)
    BY <1>7, <1>10, <2>1, <2>2 DEF FrontOK, Waits
  <2>4. EchoOK(n) /\ BusyOK(n)
    BY <1>7, <1>10, <2>1, <2>2 DEF EchoOK, BusyOK, Waits
  <2>5. Good(n)
    BY <1>9, <2>3, <2>4 DEF Good
  <2>6. s = n
    BY <1>6, <1>10
  <2>7. Good(s) /\ s.queue = q /\ AllGrown(l.queue, s.queue) /\ s.expired = l.expired
    BY <1>4, <1>7, <2>5, <2>6
  <2>8. s.echo = l.echo /\ s.response = l.response /\ s.priority = l.priority /\ s.sent = l.sent
    BY <1>7, <2>6
  <2> QED
    BY <1>10, <2>7, <2>8 DEF s, q
<1>11. CASE ~Waits(l)
  <2>1. ~n.response /\ ~n.echo /\ n.sent = 0
    BY <1>0, <1>7, <1>11, LinkFields DEF Waits, Good, FrontOK
  <2>2. /\ Good(sendNextMessage(n)) /\ sendNextMessage(n).queue = n.queue
        /\ sendNextMessage(n).expired = n.expired /\ Flight(sendNextMessage(n)) = TurnOf(n.queue)
        /\ sendNextMessage(n).sent \in 0..1
    BY <1>9, <2>1, SendNextTurns
  <2>3. s = sendNextMessage(n)
    BY <1>6, <1>11
  <2>5. Good(s) /\ s.queue = q /\ AllGrown(l.queue, s.queue) /\ s.expired = l.expired
        /\ Flight(s) = TurnOf(s.queue) /\ s.sent \in 0..1
    BY <1>4, <1>7, <2>2, <2>3
  <2> QED
    BY <1>11, <2>5 DEF s, q
<1> QED
  BY <1>10, <1>11

\* A link that waits for nothing turns to what it is sent.
LEMMA SendStarts ==
  ASSUME NEW l, Good(l), NEW p \in Priority, NEW messages \in Seq(Own(p)), ~Waits(l)
  PROVE  /\ Flight(send(l, messages, p)) = TurnOf(send(l, messages, p).queue)
         /\ send(l, messages, p).sent \in 0..1
BY SendKeeps

\* Queues that have grown twice have grown.
LEMMA AllGrownTwice ==
  ASSUME NEW a \in [Priority -> Seq(Message)], NEW b \in [Priority -> Seq(Message)],
         NEW c \in [Priority -> Seq(Message)], AllGrown(a, b), AllGrown(b, c)
  PROVE  AllGrown(a, c)
<1> SUFFICES ASSUME NEW p \in Priority PROVE Grown(a[p], c[p])
  BY DEF AllGrown
<1>1. Grown(a[p], b[p]) /\ Grown(b[p], c[p])
  BY DEF AllGrown
<1>2. a[p] \in Seq(Message) /\ b[p] \in Seq(Message) /\ c[p] \in Seq(Message)
  OBVIOUS
<1>3. Len(a[p]) <= Len(c[p])
  BY <1>1, <1>2, LenProperties DEF Grown
<1>4. \A i \in 1 .. Len(a[p]) : c[p][i] = a[p][i]
  BY <1>1, <1>2, GrownKeeps
<1> QED
  BY <1>2, <1>3, <1>4, GrownFromElements

\* The link stays with what it waits for, or starts with what has come.
Accepted(l, r) ==
  /\ AllGrown(l.queue, r.queue)
  /\ Waits(l) => Flight(r) = Flight(l) /\ r.sent = l.sent
  /\ ~Waits(l) => Flight(r) = TurnOf(r.queue) /\ r.sent \in 0..1

Rest(l) == [l.queue EXCEPT ![l.priority] = Tail(@)]

LEMMA SendAccepts ==
  ASSUME NEW l, Good(l), NEW p \in Priority, NEW messages \in Seq(Own(p))
  PROVE  Accepted(l, send(l, messages, p))
<1> DEFINE s == send(l, messages, p)
<1>1. AllGrown(l.queue, s.queue)
  BY SendKeeps
<1>2. ASSUME Waits(l) PROVE Flight(s) = Flight(l) /\ s.sent = l.sent
  <2>1. s.echo = l.echo /\ s.response = l.response /\ s.priority = l.priority /\ s.sent = l.sent
    BY <1>2, SendKeeps
  <2> HIDE DEF s
  <2> QED
    BY <2>1 DEF Flight
<1>3. ASSUME ~Waits(l) PROVE Flight(s) = TurnOf(s.queue) /\ s.sent \in 0..1
  BY <1>3, SendStarts
<1> QED
  BY <1>1, <1>2, <1>3 DEF Accepted

\* The link drops the message it waited for and turns to the next, or gets stuck.
Completed(l, r) ==
  /\ Waits(l) /\ l.queue[l.priority] # <<>>
  /\ AllGrown(Rest(l), r.queue)
  /\ r.sent \in 0..1
  /\ \/ Flight(r) = TurnOf(r.queue)
     \/ Flight(r) = TurnOf(Rest(l)) /\ Flight(r) # Nothing
     \/ l.sent > 0 /\ Flight(r) = Stuck /\ TurnOf(r.queue) = Nothing

\* Message m ends the waiting of a link.
Ends(l, m) == isResponse(l, m) \/ (isEcho(l, m) /\ ~l.response)

\* The cases of received.
LEMMA ReceivedCases ==
  ASSUME NEW l, NEW m, NEW messages
  PROVE  /\ isResponse(l, m) =>
              received(l, m, messages) =
                sendNextMessage(pop([send(l, messages, Normal) EXCEPT !.response = FALSE, !.armed = FALSE]))
         /\ isEcho(l, m) /\ l.response =>
              received(l, m, messages) = send([l EXCEPT !.echo = FALSE], messages, Normal)
         /\ isEcho(l, m) /\ ~l.response =>
              received(l, m, messages) =
                send(sendNextMessage(pop([l EXCEPT !.echo = FALSE])), messages, Normal)
         /\ ~isEcho(l, m) /\ ~isResponse(l, m) =>
              received(l, m, messages) = send(l, messages, Normal)
BY DEF received, isResponse

LEMMA AnswerKeeps ==
  ASSUME NEW l, Good(l), NEW m, isResponse(l, m), NEW messages \in Seq(Own(Normal))
  PROVE  /\ Good(received(l, m, messages))
         /\ received(l, m, messages).expired = l.expired
         /\ Completed(l, received(l, m, messages))
<1> DEFINE l3 == send(l, messages, Normal)
           a == [l3 EXCEPT !.response = FALSE, !.armed = FALSE]
           r == received(l, m, messages)
<1>1. r = sendNextMessage(pop(a))
  BY ReceivedCases
<1>2. Waits(l) /\ l.response /\ l.sent > 0 /\ l.queue[l.priority] # <<>> /\ OwnLink(l)
  BY DEF Good, FrontOK, isResponse, Waits
<1>3. Normal \in Priority
  BY DEF Normal, Priority, High, Low
<1>4. /\ Good(l3) /\ AllGrown(l.queue, l3.queue) /\ l3.expired = l.expired
      /\ l3.echo = l.echo /\ l3.priority = l.priority
  BY <1>2, <1>3, SendKeeps
<1> HIDE DEF l3, r
<1>5. OwnLink(l3)
  BY <1>4 DEF Good
<1>6. /\ a.queue = l3.queue /\ a.priority = l.priority /\ a.echo = l.echo /\ a.response = FALSE
      /\ a.expired = l.expired /\ a.wire = l3.wire
  BY <1>4, <1>5 DEF OwnLink, Link
<1>7. a \in Link
  BY <1>5 DEF OwnLink, Link
<1>8. OwnLink(a)
  BY <1>5, <1>6, <1>7 DEF OwnLink
<1> HIDE DEF a
<1>9. l.priority \in Priority
  BY <1>2, LinkFields
<1>10. \A p \in Priority : /\ l.queue[p] \in Seq(Message) /\ l3.queue[p] \in Seq(Message)
                           /\ Grown(l.queue[p], l3.queue[p])
  BY <1>2, <1>4, <1>5, LinkFields DEF AllGrown
<1>11. l3.queue[l.priority] # <<>> /\ Grown(Tail(l.queue[l.priority]), Tail(l3.queue[l.priority]))
  BY <1>2, <1>9, <1>10, GrownKeeps
<1>12. /\ OwnLink(pop(a)) /\ pop(a).queue = [l3.queue EXCEPT ![l.priority] = Tail(@)]
       /\ ~pop(a).response /\ pop(a).expired = l.expired /\ pop(a).sent = 0
  <2>1. a.queue[a.priority] # <<>>
    BY <1>6, <1>11
  <2>2. /\ OwnLink(pop(a)) /\ pop(a).queue = [a.queue EXCEPT ![a.priority] = Tail(@)]
        /\ pop(a).response = a.response /\ pop(a).expired = a.expired /\ pop(a).sent = 0
    BY <1>8, <2>1, PopShape
  <2> QED
    BY <1>6, <2>2
<1>13. /\ Good(r) /\ r.queue = [l3.queue EXCEPT ![l.priority] = Tail(@)] /\ r.expired = l.expired
       /\ r.sent \in 0..1
       /\ Flight(r) = TurnOf(r.queue) \/ (Flight(r) = Stuck /\ TurnOf(r.queue) = Nothing)
  BY <1>1, <1>12, SendNextTurns
<1>14. l.queue \in [Priority -> SendQueue] /\ l3.queue \in [Priority -> SendQueue]
  BY <1>2, <1>5, LinkFields
<1>15. AllGrown(Rest(l), r.queue)
  BY <1>10, <1>11, <1>13, <1>14 DEF AllGrown, Rest
<1> QED
  BY <1>2, <1>13, <1>15 DEF Completed, r

LEMMA EchoKeeps ==
  ASSUME NEW l, OwnLink(l), FrontOK(l), NEW m, isEcho(l, m), NEW messages \in Seq(Own(Normal))
  PROVE  /\ Good(received(l, m, messages))
         /\ received(l, m, messages).expired = l.expired
         /\ l.response => Accepted(l, received(l, m, messages))
         /\ ~l.response => Completed(l, received(l, m, messages))
<1> DEFINE e == [l EXCEPT !.echo = FALSE]
           r == received(l, m, messages)
<1>1. Waits(l) /\ l.echo /\ l.queue[l.priority] # <<>>
  BY DEF isEcho, Waits
<1>2. Normal \in Priority
  BY DEF Normal, Priority, High, Low
<1>3. /\ e.queue = l.queue /\ e.priority = l.priority /\ e.echo = FALSE /\ e.response = l.response
      /\ e.expired = l.expired /\ e.wire = l.wire /\ e.sent = l.sent
  BY DEF OwnLink, Link
<1>4. e \in Link
  BY DEF OwnLink, Link
<1>5. OwnLink(e)
  BY <1>3, <1>4 DEF OwnLink
<1> HIDE DEF e, r
<1>6. CASE l.response
  <2>1. r = send(e, messages, Normal)
    BY <1>6, ReceivedCases DEF e, r
  <2>2. Good(e) /\ Waits(e)
    BY <1>1, <1>3, <1>5, <1>6 DEF Good, FrontOK, EchoOK, BusyOK, Waits, lastSentMessage
  <2> DEFINE s == send(e, messages, Normal)
  <2>3. /\ Good(s) /\ AllGrown(e.queue, s.queue) /\ s.expired = e.expired
        /\ s.echo = e.echo /\ s.response = e.response /\ s.priority = e.priority /\ s.sent = e.sent
    BY <1>2, <2>2, SendKeeps
  <2> HIDE DEF s
  <2>5. r = s
    BY <2>1 DEF s
  <2>6. /\ Good(r) /\ AllGrown(l.queue, r.queue) /\ r.expired = l.expired
        /\ r.response = l.response /\ r.priority = l.priority /\ r.sent = l.sent
    BY <1>3, <2>3, <2>5
  <2>4. Flight(r) = Flight(l)
    BY <1>6, <2>6 DEF Flight, FrontOK
  <2> QED
    BY <1>1, <1>6, <2>4, <2>6 DEF Accepted, r
<1>7. CASE ~l.response
  <2> DEFINE n == sendNextMessage(pop(e))
  <2>1. r = send(n, messages, Normal)
    BY <1>7, ReceivedCases DEF e, r
  <2>2. /\ OwnLink(pop(e)) /\ pop(e).queue = Rest(l) /\ pop(e).expired = l.expired
        /\ pop(e).echo = FALSE /\ pop(e).response = l.response /\ pop(e).sent = 0
    BY <1>1, <1>3, <1>5, PopShape DEF Rest
  <2>3. /\ Good(n) /\ n.queue = Rest(l) /\ n.expired = l.expired /\ Flight(n) = TurnOf(Rest(l))
        /\ n.sent \in 0..1
    BY <1>7, <2>2, SendNextTurns
  <2> HIDE DEF n
  <2> DEFINE s == send(n, messages, Normal)
  <2>a. /\ Good(s) /\ AllGrown(n.queue, s.queue) /\ s.expired = n.expired
    BY <1>2, <2>3, SendKeeps
  <2>c. Waits(n) => s.echo = n.echo /\ s.sent = n.sent /\ s.priority = n.priority
    <3>1. SUFFICES ASSUME Waits(n) PROVE s.echo = n.echo /\ s.sent = n.sent /\ s.priority = n.priority
      OBVIOUS
    <3> QED
      BY <1>2, <2>3, <3>1, SendKeeps
  <2>d. ~Waits(n) => Flight(s) = TurnOf(s.queue) /\ s.sent \in 0..1
    <3>1. SUFFICES ASSUME ~Waits(n) PROVE Flight(s) = TurnOf(s.queue) /\ s.sent \in 0..1
      OBVIOUS
    <3> QED
      BY <1>2, <2>3, <3>1, SendStarts
  <2> HIDE DEF s
  <2>b. r = s
    BY <2>1 DEF s
  <2>4. /\ Good(r) /\ AllGrown(Rest(l), r.queue) /\ r.expired = l.expired
    BY <2>3, <2>a, <2>b
  <2>5. CASE Waits(n)
    <3>1. r.echo = n.echo /\ r.sent = n.sent /\ r.priority = n.priority
      BY <2>5, <2>b, <2>c
    <3>2. Flight(r) = Flight(n) /\ r.sent \in 0..1
      BY <2>3, <3>1 DEF Flight
    <3>3. Flight(n) # Nothing
      <4>1. n.sent > 0 \/ n.echo
        BY <2>3, <2>5 DEF Good, FrontOK, Waits
      <4>2. n.priority # Nothing /\ Stuck # Nothing
        BY <2>3, LinkFields DEF Good, Stuck, Nothing, Low
      <4> QED
        BY <4>1, <4>2 DEF Flight
    <3> QED
      BY <1>1, <1>7, <2>3, <2>4, <3>2, <3>3 DEF Completed, r
  <2>6. CASE ~Waits(n)
    <3>1. Flight(r) = TurnOf(r.queue) /\ r.sent \in 0..1
      BY <2>6, <2>b, <2>d
    <3> QED
      BY <1>1, <1>7, <2>4, <3>1 DEF Completed, r
  <2> QED
    BY <2>5, <2>6
<1> QED
  BY <1>6, <1>7

(***************************************************************************)
(* Kernel::receive keeps the link in order, whatever is received: when the *)
(* message ends the waiting the next one is sent, and what the kernel      *)
(* sends meanwhile joins the queues.                                       *)
(***************************************************************************)
LEMMA ReceivedKeeps ==
  ASSUME NEW l, OwnLink(l), FrontOK(l), BusyOK(l), NEW m,
         ~isEcho(l, m) => EchoOK(l), NEW messages \in Seq(Own(Normal))
  PROVE  /\ Good(received(l, m, messages))
         /\ received(l, m, messages).expired = l.expired
         /\ Ends(l, m) => Completed(l, received(l, m, messages))
         /\ ~Ends(l, m) => Accepted(l, received(l, m, messages))
<1>1. CASE isResponse(l, m)
  <2>1. Good(l)
    BY <1>1 DEF Good, isResponse
  <2> QED
    BY <1>1, <2>1, AnswerKeeps DEF Ends
<1>2. CASE isEcho(l, m)
  BY <1>2, EchoKeeps DEF Ends, isResponse
<1>3. CASE ~isResponse(l, m) /\ ~isEcho(l, m)
  <2>1. received(l, m, messages) = send(l, messages, Normal)
    BY <1>3, ReceivedCases
  <2>2. Good(l) /\ Normal \in Priority
    BY <1>3 DEF Good, Normal, Priority, High, Low
  <2>3. Accepted(l, send(l, messages, Normal))
    BY <2>2, SendAccepts
  <2>4. Good(send(l, messages, Normal)) /\ send(l, messages, Normal).expired = l.expired
    BY <2>2, SendKeeps
  <2> QED
    BY <1>3, <2>1, <2>3, <2>4 DEF Ends
<1> QED
  BY <1>1, <1>2, <1>3

-----------------------------------------------------------------------------
(* The invariant of the kernel *)

LocosOK ==
  /\ slots \in [Slot -> LocoSlot]
  /\ addressToSlot \in [Address -> Slot \cup {NoSlot}]
  /\ pending \in [Address -> Seq(Speed)]
  /\ refused \in SUBSET Address

OthersOK ==
  /\ asked \in Seq(Message)
  /\ emergencyStop \in {"Undefined", "True", "False"}
  /\ lncvActive \in BOOLEAN
  /\ posted \in Seq(Call)
  /\ inputs \in 0..MaxInputs
  /\ mode \in {"offline", "online", "failing"}

LinkOK ==
  /\ Good(link)
  /\ mode = "offline" => link = IdleLink

IInv == LinkOK /\ LocosOK /\ OthersOK

LEMMA IInvImpliesTypeOK ==
  ASSUME IInv
  PROVE  TypeOK
BY DEF IInv, LinkOK, LocosOK, OthersOK, TypeOK, Good, OwnLink

LEMMA IInvImpliesFront ==
  ASSUME IInv
  PROVE  LastSentIsFront /\ NeverIdleWithWork
<1>1. OwnLink(link) /\ FrontOK(link) /\ EchoOK(link) /\ BusyOK(link)
  BY DEF IInv, LinkOK, Good
<1>2. link.sent \in Nat
  BY <1>1, LinkFields
<1>3. (link.echo \/ link.response) /\ ~Stalled => link.sent > 0
  BY <1>1, <1>2 DEF FrontOK, Stalled
<1> QED
  BY <1>1, <1>2, <1>3
  DEF FrontOK, EchoOK, BusyOK, Waits, Stalled, LastSentIsFront, NeverIdleWithWork

\* The messages the kernel sends.
LEMMA OwnMessages ==
  /\ Idle \in Own(High) /\ LNCVStart \in Own(High) /\ LNCVStop \in Own(High)
  /\ \A a \in Address : LocoAdr(a) \in Own(High)
  /\ \A s \in Slot \cup {NoSlot}, v \in Speed : LocoSpd(s, v) \in Own(Normal)
  /\ \A s \in Slot \cup {NoSlot} : RequestSlotData(s) \in Own(Normal) /\ RequestSlotData(s) \in Own(Low)
<1>1. 0 \in Speed
  BY KernelAssumption
<1>2. OwnOperation(High) = {"IDLE", "LOCO_ADR", "LNCV_START", "LNCV_STOP"}
  BY DEF OwnOperation
<1>3. OwnOperation(Normal) = {"LOCO_SPD", "RQ_SL_DATA"} /\ OwnOperation(Low) = {"LOCO_SPD", "RQ_SL_DATA"}
  BY DEF OwnOperation, High, Normal, Low
<1> QED
  BY <1>1, <1>2, <1>3
  DEF Own, Message, Plain, Idle, LNCVStart, LNCVStop, LocoAdr, LocoSpd, RequestSlotData

LEMMA InitialLink == Good(IdleLink) /\ IdleLink \in Link
<1>1. <<>> \in Seq(OwnMessage) /\ <<>> \in Seq(Message) /\ (\A p : <<>> \in Seq(Own(p)))
  OBVIOUS
<1>2. <<>> \in SendQueue
  <2>1. Len(<<>>) = 0
    OBVIOUS
  <2> QED
    BY <1>1, <2>1, KernelAssumption DEF SendQueue
<1>3. IdleLink \in Link
  BY <1>1, <1>2 DEF IdleLink, Link, Priority, High, Low
<1>4. /\ IdleLink.echo = FALSE /\ IdleLink.response = FALSE /\ IdleLink.wire = <<>>
      /\ IdleLink.sent = 0
      /\ \A p \in Priority : IdleLink.queue[p] = <<>>
  BY DEF IdleLink
<1>5. ~(IdleLink.sent > 0)
  BY <1>4
<1>6. FrontOK(IdleLink) /\ EchoOK(IdleLink) /\ BusyOK(IdleLink)
  BY <1>4, <1>5 DEF FrontOK, EchoOK, BusyOK
<1> QED
  BY <1>1, <1>3, <1>4, <1>6 DEF Good, OwnLink

-----------------------------------------------------------------------------
(* Steps of the link *)

\* MessageLink sees nothing.
Unmoved == link'.queue = link.queue /\ Flight(link') = Flight(link) /\ link'.sent = link.sent

\* LNCVStart is sent again.
Repeated ==
  /\ link'.queue = link.queue
  /\ link.sent > 0 /\ link'.sent = 2
  /\ link'.priority = link.priority /\ lastSentMessage(link) = LNCVStart

\* A link that was stuck sends LNCVStart.
WentOn ==
  /\ link'.queue = link.queue
  /\ link.sent = 0 /\ link.echo
  /\ link'.sent = 1 /\ Flight(link') = TurnOf(link'.queue)

\* What a step makes of the link, as MessageLink sees it.
LinkStep ==
  \/ Unmoved
  \/ Repeated
  \/ WentOn
  \/ Accepted(link, link')
  \/ Completed(link, link')
  \/ link' = IdleLink

\* The speeds that wait for a slot can be sent to it.
LEMMA PendingMessages ==
  ASSUME LocosOK, NEW a \in Address, NEW s \in Slot \cup {NoSlot}
  PROVE  PendingFor(s, a) \in Seq(Own(Normal))
<1>1. pending[a] \in Seq(Speed)
  BY DEF LocosOK
<1>2. Len(pending[a]) \in Nat /\ \A i \in 1 .. Len(pending[a]) : pending[a][i] \in Speed
  BY <1>1, LenProperties, ElementOfSeq
<1>3. \A i \in 1 .. Len(pending[a]) : LocoSpd(s, pending[a][i]) \in Own(Normal)
  BY <1>2, OwnMessages
<1> QED
  BY <1>2, <1>3 DEF PendingFor

LEMMA ReceiveReceives ==
  ASSUME LocosOK, NEW l, NEW m \in Message, receive(l, m)
  PROVE  \E messages \in Seq(Own(Normal)) : link' = received(l, m, messages)
<1>1. <<>> \in Seq(Own(Normal))
  OBVIOUS
<1>2. CASE ReceiveSpeed(l, m)
  <2>1. RequestSlotData(m.slot) \in Own(Normal)
    BY OwnMessages DEF Message
  <2>2. /\ <<RequestSlotData(m.slot)>> \in Seq(Own(Normal))
        /\ <<RequestSlotData(m.slot), RequestSlotData(m.slot)>> \in Seq(Own(Normal))
    BY <2>1
  <2>3. \/ link' = received(l, m, <<>>)
        \/ link' = received(l, m, <<RequestSlotData(m.slot)>>)
        \/ link' = received(l, m, <<RequestSlotData(m.slot), RequestSlotData(m.slot)>>)
    BY <1>2 DEF ReceiveSpeed
  <2> QED
    BY <1>1, <2>2, <2>3
<1>3. CASE ReceiveSlotData(l, m)
  <2>1. m.address \in Address /\ m.slot \in Slot \cup {NoSlot}
    BY <1>3 DEF ReceiveSlotData, Message
  <2>2. PendingFor(m.slot, m.address) \in Seq(Own(Normal))
    BY <2>1, PendingMessages
  <2>3. link' = received(l, m, PendingFor(m.slot, m.address))
    BY <1>3 DEF ReceiveSlotData
  <2> QED
    BY <2>2, <2>3
<1>4. ASSUME link' = received(l, m, <<>>)
      PROVE  \E messages \in Seq(Own(Normal)) : link' = received(l, m, messages)
  BY <1>1, <1>4
<1>5. \/ ReceiveSpeed(l, m) \/ ReceiveSlotData(l, m) \/ link' = received(l, m, <<>>)
  BY DEF receive, ReceiveIdle, ReceiveFreeSlot, ReceiveRefusal, ReceiveLNCVResponse, ReceiveOther
<1> QED
  BY <1>2, <1>3, <1>4, <1>5

\* Echo: the link without the message that is echoed.
LEMMA EchoedLink ==
  ASSUME LinkOK, link.wire # <<>>
  PROVE  LET l == [link EXCEPT !.wire = Tail(@)]
             m == Head(link.wire)
         IN /\ OwnLink(l) /\ FrontOK(l) /\ BusyOK(l)
            /\ ~isEcho(l, m) => EchoOK(l)
            /\ ~isResponse(l, m)
            /\ m \in OwnMessage /\ m \in Message
            /\ l.queue = link.queue /\ l.expired = link.expired /\ Flight(l) = Flight(link)
            /\ l.priority = link.priority /\ l.sent = link.sent /\ (Waits(l) <=> Waits(link))
<1> DEFINE l == [link EXCEPT !.wire = Tail(@)]
           m == Head(link.wire)
<1>1. OwnLink(link) /\ FrontOK(link) /\ BusyOK(link) /\ EchoOK(link)
  BY DEF LinkOK, Good
<1>2. /\ link.wire \in Seq(OwnMessage) /\ Tail(link.wire) \in Seq(OwnMessage) /\ m \in OwnMessage
      /\ Tail(link.wire) \in Seq(Message)
  <2>1. link.wire \in Seq(OwnMessage) /\ link.wire \in Seq(Message)
    BY <1>1, LinkFields
  <2> QED
    BY <2>1, HeadTailProperties
<1>3. /\ l.queue = link.queue /\ l.priority = link.priority /\ l.echo = link.echo
      /\ l.response = link.response /\ l.expired = link.expired /\ l.wire = Tail(link.wire)
      /\ l.sent = link.sent
  BY <1>1 DEF OwnLink, Link
<1>4. l \in Link
  BY <1>1, <1>2 DEF OwnLink, Link
<1>5. m \in Message
  BY <1>2 DEF OwnMessage
<1> HIDE DEF l, m
<1>6. OwnLink(l)
  BY <1>1, <1>2, <1>3, <1>4 DEF OwnLink
<1>7. lastSentMessage(l) = lastSentMessage(link)
  BY <1>3 DEF lastSentMessage
<1>8. FrontOK(l) /\ BusyOK(l) /\ Flight(l) = Flight(link) /\ (Waits(l) <=> Waits(link))
  BY <1>1, <1>3, <1>7 DEF FrontOK, BusyOK, Waits, Flight
<1>9. ASSUME ~isEcho(l, m), l.sent > 0, l.echo
      PROVE  l.wire # <<>> /\ l.wire[Len(l.wire)] = lastSentMessage(l)
  <2>1. link.wire[Len(link.wire)] = lastSentMessage(link) /\ m # lastSentMessage(link)
    BY <1>1, <1>3, <1>7, <1>9 DEF EchoOK, FrontOK, isEcho
  <2>2. Len(link.wire) \in Nat /\ Len(link.wire) # 1 /\ Len(link.wire) # 0
    BY <1>2, <2>1, EmptySeq, LenProperties DEF m
  <2>3. /\ Len(Tail(link.wire)) = Len(link.wire) - 1
        /\ \A i \in 1 .. Len(Tail(link.wire)) : Tail(link.wire)[i] = link.wire[i + 1]
    BY <1>2, HeadTailProperties
  <2>4. Len(Tail(link.wire)) \in 1 .. Len(Tail(link.wire)) /\ Len(Tail(link.wire)) + 1 = Len(link.wire)
    <3> DEFINE n == Len(link.wire)
               k == Len(Tail(link.wire))
    <3>1. n \in Nat /\ n # 0 /\ n # 1 /\ k = n - 1
      BY <2>2, <2>3
    <3> HIDE DEF n, k
    <3>2. k \in 1 .. k /\ k + 1 = n
      BY <3>1
    <3> QED
      BY <3>2 DEF n, k
  <2>5. Tail(link.wire)[Len(Tail(link.wire))] = link.wire[Len(link.wire)]
    BY <2>3, <2>4
  <2>6. Tail(link.wire) # <<>>
    <3>1. Len(<<>>) = 0
      BY EmptySeq
    <3>2. ASSUME Tail(link.wire) = <<>> PROVE FALSE
      <4>1. Len(Tail(link.wire)) = 0
        BY <3>1, <3>2
      <4>2. 0 \in 1 .. 0
        BY <2>4, <4>1
      <4> QED
        BY <4>2
    <3> QED
      BY <3>2
  <2> QED
    BY <1>3, <1>7, <2>1, <2>5, <2>6
<1>10. m.op \notin {"SL_RD_DATA", "NO_FREE_SLOT", "NO_SUCH_SLOT", "LNCV_RESPONSE"}
  BY <1>2 DEF OwnMessage, OwnOperation, High, Low
<1>11. ~isResponse(l, m)
  BY <1>10 DEF isResponse, isValidResponse
<1>12. ~isEcho(l, m) => EchoOK(l)
  BY <1>9 DEF EchoOK
<1> QED
  BY <1>2, <1>3, <1>5, <1>6, <1>8, <1>11, <1>12 DEF l, m

LEMMA ReceiveKeepsLink ==
  ASSUME LocosOK, NEW l, OwnLink(l), FrontOK(l), BusyOK(l), NEW m \in Message,
         ~isEcho(l, m) => EchoOK(l), receive(l, m)
  PROVE  /\ Good(link')
         /\ Ends(l, m) => Completed(l, link')
         /\ ~Ends(l, m) => Accepted(l, link')
<1>1. PICK messages \in Seq(Own(Normal)) : link' = received(l, m, messages)
  BY ReceiveReceives
<1> DEFINE r == received(l, m, messages)
<1>2. Good(r) /\ (Ends(l, m) => Completed(l, r)) /\ (~Ends(l, m) => Accepted(l, r))
  BY ReceivedKeeps
<1> HIDE DEF r
<1>3. link' = r
  BY <1>1 DEF r
<1> QED
  BY <1>2, <1>3

\* What the station answers and what other throttles send are messages.
LEMMA AnswersAreMessages ==
  ASSUME NEW request \in Message, NEW m \in Answer(request)
  PROVE  m \in Message
<1>1. 0 \in Speed
  BY KernelAssumption
<1>2. \A s \in Slot \cup {NoSlot}, a \in Address \cup {NoAddress} : SlotReadData(s, a) \in Message
  BY <1>1 DEF SlotReadData, Message
<1>3. Plain("NO_SUCH_SLOT") \in Message /\ Plain("NO_FREE_SLOT") \in Message /\ Plain("LNCV_RESPONSE") \in Message
  BY <1>1 DEF Plain, Message
<1>4. request.slot \in Slot \cup {NoSlot} /\ request.address \in Address \cup {NoAddress}
  BY DEF Message
<1> QED
  BY <1>2, <1>3, <1>4 DEF Answer

LEMMA OthersAreMessages ==
  ASSUME NEW m \in OthersMessage
  PROVE  m \in Message
<1>1. 0 \in Speed
  BY KernelAssumption
<1>2. \A s \in Slot, a \in Address \cup {NoAddress} : SlotReadData(s, a) \in Message
  BY <1>1 DEF SlotReadData, Message
<1>3. \A s \in Slot, v \in Speed : LocoSpd(s, v) \in Message
  BY DEF LocoSpd, Message
<1>4. /\ Idle \in Message /\ Plain("NO_FREE_SLOT") \in Message
      /\ Plain("NO_SUCH_SLOT") \in Message /\ Plain("LNCV_RESPONSE") \in Message
  BY <1>1 DEF Idle, Plain, Message
<1>5. /\ \A a \in Address : LocoAdr(a) \in Message
      /\ \A s \in Slot : RequestSlotData(s) \in Message
  BY <1>1 DEF LocoAdr, RequestSlotData, Message
<1> QED
  BY <1>2, <1>3, <1>4, <1>5 DEF OthersMessage

(***************************************************************************)
(* A step that receives a message: the link may drop what it waited for,   *)
(* and only when the message ends that wait.                               *)
(***************************************************************************)
Receives(m) ==
  \E l : /\ receive(l, m)
         /\ m \in Message
         /\ lastSentMessage(l) = lastSentMessage(link)
         /\ l.queue = link.queue /\ l.echo = link.echo /\ l.response = link.response
         /\ l.priority = link.priority /\ l.sent = link.sent
         /\ FrontOK(l) /\ OwnLink(l)
         /\ Ends(l, m) => Completed(link, link')
         /\ ~Ends(l, m) => Accepted(link, link')

LEMMA BusStep ==
  ASSUME IInv, Echo \/ StationAnswers \/ OtherThrottle
  PROVE  /\ Good(link')
         /\ mode # "offline" /\ mode' = mode
         /\ \E m : Receives(m)
<1>1. LocosOK /\ LinkOK /\ OwnLink(link) /\ FrontOK(link) /\ BusyOK(link) /\ EchoOK(link)
  BY DEF IInv, LinkOK, Good
<1>2. mode # "offline" /\ mode' = mode
  BY DEF Echo, StationAnswers, OtherThrottle
<1>3. ASSUME NEW m \in Message, receive(link, m)
      PROVE  Good(link') /\ Receives(m)
  <2>2. /\ Good(link') /\ (Ends(link, m) => Completed(link, link'))
        /\ (~Ends(link, m) => Accepted(link, link'))
    BY <1>1, <1>3, ReceiveKeepsLink
  <2> QED
    BY <1>1, <1>3, <2>2 DEF Receives
<1>4. CASE Echo
  <2> DEFINE l == [link EXCEPT !.wire = Tail(@)]
             m == Head(link.wire)
  <2>1. link.wire # <<>> /\ receive(l, m)
    BY <1>4 DEF Echo
  <2>2. /\ OwnLink(l) /\ FrontOK(l) /\ BusyOK(l) /\ (~isEcho(l, m) => EchoOK(l))
        /\ ~isResponse(l, m) /\ m \in Message
        /\ l.queue = link.queue /\ Flight(l) = Flight(link)
        /\ l.priority = link.priority /\ l.sent = link.sent /\ (Waits(l) <=> Waits(link))
    BY <1>1, <2>1, EchoedLink
  <2>3. l.echo = link.echo /\ l.response = link.response
    BY <1>1 DEF OwnLink, Link
  <2> HIDE DEF l, m
  <2>4. Good(link') /\ (Ends(l, m) => Completed(l, link')) /\ (~Ends(l, m) => Accepted(l, link'))
    BY <1>1, <2>1, <2>2, ReceiveKeepsLink
  <2>5. Completed(l, link') => Completed(link, link')
    BY <2>2 DEF Completed, Rest
  <2>6. Accepted(l, link') => Accepted(link, link')
    BY <2>2 DEF Accepted
  <2>7. lastSentMessage(l) = lastSentMessage(link)
    BY <2>2 DEF lastSentMessage
  <2>8. Receives(m)
    BY <2>1, <2>2, <2>3, <2>4, <2>5, <2>6, <2>7 DEF Receives
  <2> QED
    BY <1>2, <2>4, <2>8
<1>5. CASE StationAnswers
  <2>1. asked \in Seq(Message) /\ asked # <<>>
    BY <1>5 DEF IInv, OthersOK, StationAnswers
  <2>2. Head(asked) \in Message
    BY <2>1, HeadTailProperties
  <2>3. PICK m \in Answer(Head(asked)) : receive(link, m)
    BY <1>5 DEF StationAnswers
  <2>4. m \in Message
    BY <2>2, AnswersAreMessages
  <2> QED
    BY <1>2, <1>3, <2>3, <2>4
<1>6. CASE OtherThrottle
  <2>1. PICK m \in OthersMessage : receive(link, m)
    BY <1>6 DEF OtherThrottle
  <2>2. m \in Message
    BY OthersAreMessages
  <2> QED
    BY <1>2, <1>3, <2>1, <2>2
<1> QED
  BY <1>4, <1>5, <1>6

\* The timer and its handler: LNCVStart is sent again, at its own turn.
LEMMA TimerStep ==
  ASSUME IInv, ResponseTimerExpires \/ waitingForResponseTimerExpired
  PROVE  /\ Good(link')
         /\ mode # "offline" /\ mode' # "offline"
         /\ Unmoved \/ Repeated \/ WentOn
<1>1. LinkOK /\ Good(link) /\ OwnLink(link)
  BY DEF IInv, LinkOK, Good
<1> DEFINE Same(l) == /\ l.queue = link.queue /\ l.priority = link.priority /\ l.echo = link.echo
                      /\ l.response = link.response /\ l.wire = link.wire /\ l.sent = link.sent
<1>2. ASSUME NEW l, l \in Link, Same(l)
      PROVE  Good(l) /\ OwnLink(l) /\ Flight(l) = Flight(link) /\ lastSentMessage(l) = lastSentMessage(link)
  BY <1>1, <1>2 DEF Good, OwnLink, FrontOK, EchoOK, BusyOK, Waits, Flight, lastSentMessage
<1>3. CASE ResponseTimerExpires
  <2>1. link' = [link EXCEPT !.armed = FALSE, !.expired = TRUE] /\ mode # "offline" /\ mode' = mode
    BY <1>3 DEF ResponseTimerExpires
  <2>2. link' \in Link /\ Same(link')
    BY <1>1, <2>1 DEF OwnLink, Link
  <2> QED
    BY <1>2, <2>1, <2>2 DEF Unmoved
<1>4. CASE waitingForResponseTimerExpired
  <2> DEFINE l == [link EXCEPT !.expired = FALSE]
  <2>1. /\ mode # "offline"
        /\ \/ ProgrammingStarts /\ link' = sendNextMessage(l) /\ mode' = mode
           \/ link' = l /\ mode' = "failing"
    BY <1>4 DEF waitingForResponseTimerExpired
  <2>2. l \in Link /\ Same(l)
    BY <1>1 DEF OwnLink, Link
  <2>3. Good(l) /\ OwnLink(l) /\ Flight(l) = Flight(link) /\ lastSentMessage(l) = lastSentMessage(link)
    <3> HIDE DEF l
    <3> QED
      BY <1>2, <2>2
  <2>4. l.queue = link.queue /\ l.priority = link.priority /\ l.sent = link.sent /\ l.echo = link.echo
    BY <2>2
  <2> HIDE DEF l
  <2>5. CASE link' = l /\ mode' = "failing"
    BY <2>1, <2>3, <2>4, <2>5 DEF Unmoved
  <2>6. CASE ProgrammingStarts /\ link' = sendNextMessage(l) /\ mode' = mode
    <3>1. l.priority \in Priority /\ l.queue[l.priority] # <<>> /\ lastSentMessage(l) = LNCVStart
      BY <1>1, <2>3, <2>4, <2>6, LinkFields DEF ProgrammingStarts
    <3>2. LNCVStart \in Own(l.priority)
      <4>1. l.queue[l.priority] \in Seq(Own(l.priority))
        BY <2>3, <3>1, LinkFields
      <4> QED
        BY <3>1, <4>1, HeadTailProperties DEF lastSentMessage
    <3>3. l.priority = High
      BY <3>2 DEF Own, OwnOperation, LNCVStart, Plain
    <3>4. Waits(l)
      BY <2>3, <3>1 DEF Good, BusyOK
    <3>5. /\ Good(link') /\ link'.queue = l.queue
          /\ link'.echo = TRUE /\ link'.priority = Highest(l)
          /\ link'.sent = IF l.sent = 0 THEN 1 ELSE 2
      BY <2>3, <2>6, <3>1, SendNextSends
    <3>6. Highest(l) = High
      <4>1. /\ Highest(l) \in Priority
            /\ \A q \in Priority : q < Highest(l) => l.queue[q] = <<>>
        BY <3>1, HighestHasWork
      <4>2. High \in Priority /\ (High < Highest(l) \/ Highest(l) = High)
        BY <4>1 DEF Priority, High, Low
      <4> QED
        BY <3>1, <3>3, <4>1, <4>2
    <3>7. l.sent \in Nat
      BY <2>3, LinkFields
    <3>8. CASE l.sent > 0
      <4>1. Repeated
        BY <2>3, <2>4, <3>1, <3>3, <3>5, <3>6, <3>8 DEF Repeated
      <4> QED
        BY <2>1, <2>6, <3>5, <4>1
    <3>9. CASE l.sent = 0
      <4>1. l.echo
        BY <2>3, <3>4, <3>9 DEF Good, FrontOK, Waits
      <4>2. TurnOf(l.queue) = Highest(l)
        BY <3>1 DEF TurnOf, Highest
      <4>3. WentOn
        BY <2>4, <3>5, <3>9, <4>1, <4>2 DEF WentOn, Flight
      <4> QED
        BY <2>1, <2>6, <3>5, <4>3
    <3> QED
      BY <3>7, <3>8, <3>9
  <2> QED
    BY <2>1, <2>5, <2>6
<1> QED
  BY <1>3, <1>4

(***************************************************************************)
(* A call that the kernel thread runs sends at most one message, of the    *)
(* kernel itself.                                                          *)
(***************************************************************************)
Sent(p, m) == p \in Priority /\ m \in Own(p) /\ link' = send(link, <<m>>, p)

LEMMA CallSends ==
  ASSUME IInv, RunSpeed \/ RunEmergencyStop \/ RunResume \/ RunLNCVStart \/ RunLNCVStop
  PROVE  link' = link \/ \E p, m : Sent(p, m)
<1>1. High \in Priority /\ Normal \in Priority
  BY DEF Priority, High, Normal, Low
<1>2. CASE RunSpeed
  <2> DEFINE c == Head(posted)
  <2>1. posted \in Seq(Call) /\ posted # <<>> /\ c.call = "speed"
    BY <1>2 DEF RunSpeed, Runs, IInv, OthersOK
  <2>2. c \in Call
    BY <2>1, HeadTailProperties
  <2>3. c.address \in Address /\ c.speed \in Speed
    BY <2>1, <2>2 DEF Call
  <2> HIDE DEF c
  <2>4. addressToSlot[c.address] \in Slot \cup {NoSlot}
    BY <2>3 DEF IInv, LocosOK
  <2>5. LocoSpd(addressToSlot[c.address], c.speed) \in Own(Normal) /\ LocoAdr(c.address) \in Own(High)
    BY <2>3, <2>4, OwnMessages
  <2>6. CASE SendToSlot(c.address, c.speed)
    <3>1. \/ link' = link
          \/ link' = send(link, <<LocoSpd(addressToSlot[c.address], c.speed)>>, Normal)
      BY <2>6 DEF SendToSlot
    <3> QED
      BY <1>1, <2>5, <3>1 DEF Sent
  <2>7. CASE SendWhenSlot(c.address, c.speed)
    <3>1. link' = link \/ link' = send(link, <<LocoAdr(c.address)>>, High)
      BY <2>7 DEF SendWhenSlot
    <3> QED
      BY <1>1, <2>5, <3>1 DEF Sent
  <2>8. SendToSlot(c.address, c.speed) \/ SendWhenSlot(c.address, c.speed)
    BY <1>2 DEF RunSpeed, c
  <2> QED
    BY <2>6, <2>7, <2>8
<1>3. CASE RunEmergencyStop
  <2>1. link' = link \/ link' = send(link, <<Idle>>, High)
    BY <1>3 DEF RunEmergencyStop
  <2> QED
    BY <1>1, <2>1, OwnMessages DEF Sent
<1>4. CASE RunResume
  BY <1>4 DEF RunResume
<1>5. CASE RunLNCVStart
  <2>1. link' = link \/ link' = send(link, <<LNCVStart>>, High)
    BY <1>5 DEF RunLNCVStart
  <2> QED
    BY <1>1, <2>1, OwnMessages DEF Sent
<1>6. CASE RunLNCVStop
  <2>1. link' = link \/ link' = send(link, <<LNCVStop>>, High)
    BY <1>6 DEF RunLNCVStop
  <2> QED
    BY <1>1, <2>1, OwnMessages DEF Sent
<1> QED
  BY <1>2, <1>3, <1>4, <1>5, <1>6

LEMMA CallStep ==
  ASSUME IInv, RunSpeed \/ RunEmergencyStop \/ RunResume \/ RunLNCVStart \/ RunLNCVStop
  PROVE  /\ Good(link')
         /\ mode # "offline" /\ mode' = mode
         /\ link' = link \/ Accepted(link, link')
<1>1. Good(link)
  BY DEF IInv, LinkOK
<1>2. mode # "offline" /\ mode' = mode
  BY DEF RunSpeed, RunEmergencyStop, RunResume, RunLNCVStart, RunLNCVStop, Runs
<1>3. CASE link' = link
  BY <1>1, <1>2, <1>3
<1>4. CASE \E p, m : Sent(p, m)
  <2>1. PICK p, m : Sent(p, m)
    BY <1>4
  <2>2. p \in Priority /\ <<m>> \in Seq(Own(p)) /\ link' = send(link, <<m>>, p)
    BY <2>1 DEF Sent
  <2> DEFINE s == send(link, <<m>>, p)
  <2>3. Good(s) /\ Accepted(link, s)
    BY <1>1, <2>2, SendKeeps, SendAccepts
  <2> HIDE DEF s
  <2>4. link' = s
    BY <2>2 DEF s
  <2> QED
    BY <1>2, <2>3, <2>4
<1> QED
  BY <1>3, <1>4, CallSends

LEMMA SlotRequests == [s \in Slot |-> RequestSlotData(s)] \in Seq(Own(Low))
<1>1. \A s \in Slot : RequestSlotData(s) \in Own(Low)
  BY OwnMessages
<1>2. Slots \in Nat /\ Slot = 1 .. Slots
  BY KernelAssumption DEF Slot
<1> QED
  BY <1>1, <1>2

LEMMA StartStep ==
  ASSUME IInv, start
  PROVE  Good(link') /\ Accepted(link, link') /\ mode' = "online"
<1>1. link = IdleLink /\ mode' = "online" /\ Low \in Priority
  BY DEF IInv, LinkOK, start, Priority, High, Low
<1> DEFINE s == send(link, [i \in Slot |-> RequestSlotData(i)], Low)
<1>2. link' = s
  BY <1>1 DEF start
<1>3. Good(s) /\ Accepted(link, s)
  BY <1>1, SlotRequests, InitialLink, SendKeeps, SendAccepts
<1> HIDE DEF s
<1> QED
  BY <1>1, <1>2, <1>3

-----------------------------------------------------------------------------
(* The invariant is kept *)

\* The steps that leave the link alone.
Elsewhere == AnswerLost \/ EventLoop

LEMMA ElsewhereStep ==
  ASSUME Elsewhere
  PROVE  UNCHANGED <<link, locos>> /\ mode' = mode /\ mode # "offline"
BY DEF Elsewhere, AnswerLost, EventLoop, decoderChanged, Post

LEMMA LinkIsKept ==
  ASSUME IInv, [Next]_vars
  PROVE  LinkOK' /\ LinkStep
<1>1. Good(link) /\ LinkOK
  BY DEF IInv, LinkOK
<1>2. CASE Echo \/ StationAnswers \/ OtherThrottle
  <2>1. /\ Good(link') /\ mode' # "offline" /\ \E m : Receives(m)
    BY <1>2, BusStep
  <2>2. Completed(link, link') \/ Accepted(link, link')
    BY <2>1 DEF Receives
  <2> QED
    BY <2>1, <2>2 DEF LinkOK, LinkStep
<1>3. CASE ResponseTimerExpires \/ waitingForResponseTimerExpired
  BY <1>3, TimerStep DEF LinkOK, LinkStep
<1>4. CASE RunSpeed \/ RunEmergencyStop \/ RunResume \/ RunLNCVStart \/ RunLNCVStop
  <2>1. Good(link') /\ mode' # "offline"
    BY <1>4, CallStep
  <2>2. link' = link \/ Accepted(link, link')
    BY <1>4, CallStep
  <2> QED
    BY <2>1, <2>2 DEF LinkOK, LinkStep, Unmoved
<1>5. CASE start
  BY <1>5, StartStep DEF LinkOK, LinkStep
<1>6. CASE stop
  BY <1>6, InitialLink DEF stop, LinkOK, LinkStep
<1>7. CASE Elsewhere
  BY <1>1, <1>7, ElsewhereStep DEF LinkOK, LinkStep, Unmoved
<1>8. CASE UNCHANGED vars
  BY <1>1, <1>8 DEF vars, LinkOK, LinkStep, Unmoved
<1> QED
  BY <1>2, <1>3, <1>4, <1>5, <1>6, <1>7, <1>8 DEF Next, Elsewhere

\* Receiving keeps the types of what is known of the locomotives.
LEMMA ReceiveKeepsTypes ==
  ASSUME LocosOK, OthersOK, NEW l, NEW m \in Message, receive(l, m),
         FrontOK(l), OwnLink(l)
  PROVE  LocosOK' /\ emergencyStop' \in {"Undefined", "True", "False"} /\ lncvActive' \in BOOLEAN
<1>1. CASE UNCHANGED locos
  <2>1. emergencyStop' \in {"Undefined", "True", "False"}
    BY <1>1 DEF receive, ReceiveIdle, ReceiveSpeed, ReceiveFreeSlot, ReceiveSlotData, ReceiveRefusal,
        ReceiveLNCVResponse, ReceiveOther, OthersOK
  <2>2. lncvActive' \in BOOLEAN
    BY DEF receive, ReceiveIdle, ReceiveSpeed, ReceiveFreeSlot, ReceiveSlotData, ReceiveRefusal,
        ReceiveLNCVResponse, ReceiveOther, OthersOK
  <2> QED
    BY <1>1, <2>1, <2>2 DEF locos, LocosOK
<1>2. CASE ReceiveSpeed(l, m)
  <2>1. m.speed \in Speed
    BY DEF Message
  <2>2. \/ slots' = [slots EXCEPT ![m.slot].known = TRUE]
        \/ slots' = [slots EXCEPT ![m.slot].speed = m.speed]
    BY <1>2 DEF ReceiveSpeed
  <2>3. slots' \in [Slot -> LocoSlot]
    <3>1. ASSUME m.slot \in Slot
          PROVE  /\ [slots[m.slot] EXCEPT !.known = TRUE] \in LocoSlot
                 /\ [slots[m.slot] EXCEPT !.speed = m.speed] \in LocoSlot
      <4>1. slots[m.slot] \in LocoSlot
        BY <3>1 DEF LocosOK
      <4> QED
        BY <2>1, <4>1 DEF LocoSlot
    <3>2. \/ slots' = [slots EXCEPT ![m.slot] = [slots[m.slot] EXCEPT !.known = TRUE]]
          \/ slots' = [slots EXCEPT ![m.slot] = [slots[m.slot] EXCEPT !.speed = m.speed]]
      BY <2>2 DEF LocosOK
    <3> QED
      BY <3>1, <3>2 DEF LocosOK
  <2>4. UNCHANGED <<addressToSlot, pending, refused, emergencyStop, lncvActive>>
    BY <1>2 DEF ReceiveSpeed
  <2> QED
    BY <2>3, <2>4 DEF LocosOK, OthersOK
<1>3. CASE ReceiveFreeSlot(l, m)
  <2>1. slots' = [slots EXCEPT ![m.slot] = Absent] /\ UNCHANGED <<pending, refused, emergencyStop, lncvActive>>
    BY <1>3 DEF ReceiveFreeSlot
  <2>2. Absent \in LocoSlot
    BY DEF Absent, LocoSlot
  <2>3. slots' \in [Slot -> LocoSlot]
    BY <2>1, <2>2 DEF LocosOK
  <2>4. addressToSlot' = addressToSlot \/ \E a \in Address : addressToSlot' = [addressToSlot EXCEPT ![a] = NoSlot]
    BY <1>3 DEF ReceiveFreeSlot
  <2>5. addressToSlot' \in [Address -> Slot \cup {NoSlot}]
    BY <2>4 DEF LocosOK
  <2> QED
    BY <2>1, <2>3, <2>5 DEF LocosOK, OthersOK
<1>4. CASE ReceiveSlotData(l, m)
  <2>1. m.address \in Address /\ m.slot \in Slot \cup {NoSlot}
    BY <1>4 DEF ReceiveSlotData, Message
  <2>2. /\ addressToSlot' = Mapped(m.slot, m.address)
        /\ pending' = [pending EXCEPT ![m.address] = <<>>]
        /\ refused' = refused \ {m.address}
        /\ UNCHANGED <<emergencyStop, lncvActive>>
    BY <1>4 DEF ReceiveSlotData
  <2>3. slots' \in [Slot -> LocoSlot]
    <3>1. slots' = [slots EXCEPT ![m.slot] =
             [known |-> TRUE, address |-> m.address, speed |-> IF @.address = m.address THEN @.speed ELSE NoSpeed]]
      BY <1>4 DEF ReceiveSlotData
    <3>2. ASSUME m.slot \in Slot
          PROVE  [known |-> TRUE, address |-> m.address,
                  speed |-> IF slots[m.slot].address = m.address THEN slots[m.slot].speed ELSE NoSpeed] \in LocoSlot
      BY <2>1, <3>2 DEF LocosOK, LocoSlot
    <3> QED
      BY <3>1, <3>2 DEF LocosOK
  <2>4. addressToSlot' \in [Address -> Slot \cup {NoSlot}]
    BY <2>1, <2>2 DEF Mapped, LocosOK
  <2>5. pending' \in [Address -> Seq(Speed)]
    <3>1. <<>> \in Seq(Speed)
      OBVIOUS
    <3> QED
      BY <2>2, <3>1 DEF LocosOK
  <2> QED
    BY <2>2, <2>3, <2>4, <2>5 DEF LocosOK, OthersOK
<1>5. CASE ReceiveRefusal(l, m)
  <2>1. /\ \/ refused' = refused
           \/ /\ isResponse(l, m) /\ m.op = "NO_FREE_SLOT"
              /\ refused' = refused \cup {lastSentMessage(l).address}
        /\ UNCHANGED <<slots, addressToSlot, pending, emergencyStop, lncvActive>>
    BY <1>5 DEF ReceiveRefusal
  <2>2. ASSUME isResponse(l, m), m.op = "NO_FREE_SLOT"
        PROVE  lastSentMessage(l).address \in Address
    <3>1. l.response /\ isValidResponse(lastSentMessage(l), m)
      BY <2>2 DEF isResponse
    <3>2. lastSentMessage(l) \in Own(l.priority)
      <4>1. l.queue[l.priority] # <<>> /\ l.queue[l.priority] \in Seq(Own(l.priority))
        BY <3>1, LinkFields DEF FrontOK, Waits
      <4> QED
        BY <4>1, HeadTailProperties DEF lastSentMessage
    <3>3. lastSentMessage(l).op = "LOCO_ADR"
      BY <2>2, <3>1 DEF isValidResponse
    <3> QED
      BY <3>2, <3>3 DEF Own
  <2> QED
    BY <2>1, <2>2 DEF LocosOK, OthersOK
<1>6. CASE ReceiveOther(l, m)
  <2>1. /\ \/ refused' = refused
           \/ isEcho(l, m) /\ m.op = "LOCO_ADR" /\ refused' = refused \cup {m.address}
        /\ UNCHANGED <<slots, addressToSlot, pending, emergencyStop, lncvActive>>
    BY <1>6 DEF ReceiveOther
  <2>2. ASSUME isEcho(l, m), m.op = "LOCO_ADR"
        PROVE  m.address \in Address
    <3>1. l.queue[l.priority] # <<>> /\ l.queue[l.priority] \in Seq(Own(l.priority))
      BY <2>2, LinkFields DEF isEcho
    <3>2. m \in Own(l.priority)
      BY <2>2, <3>1, HeadTailProperties DEF isEcho, lastSentMessage
    <3> QED
      BY <2>2, <3>2 DEF Own
  <2> QED
    BY <2>1, <2>2 DEF LocosOK, OthersOK
<1> QED
  BY <1>1, <1>2, <1>3, <1>4, <1>5, <1>6
  DEF receive, ReceiveIdle, ReceiveLNCVResponse

\* What is asked of the station, posted and counted keeps its type.
LEMMA CountsAreKept ==
  ASSUME IInv, [Next]_vars
  PROVE  /\ asked' \in Seq(Message)
         /\ posted' \in Seq(Call)
         /\ inputs' \in 0 .. MaxInputs
         /\ mode' \in {"offline", "online", "failing"}
<1>1. OthersOK /\ LinkOK /\ OwnLink(link) /\ MaxInputs \in Nat
  BY KernelAssumption DEF IInv, LinkOK, Good
<1>2. asked' \in Seq(Message)
  <2>1. CASE Echo
    <3>1. link.wire # <<>>
      BY <2>1 DEF Echo
    <3>2. Head(link.wire) \in Message
      BY <1>1, <3>1, LinkFields, HeadTailProperties
    <3>3. asked' = asked \/ asked' = Append(asked, Head(link.wire))
      BY <2>1 DEF Echo
    <3> QED
      BY <1>1, <3>2, <3>3, AppendProperties DEF OthersOK
  <2>2. CASE StationAnswers \/ AnswerLost
    <3>1. asked # <<>> /\ asked' = Tail(asked)
      BY <2>2 DEF StationAnswers, AnswerLost
    <3> QED
      BY <1>1, <3>1, HeadTailProperties DEF OthersOK
  <2>3. CASE asked' = asked \/ asked' = <<>>
    <3>1. <<>> \in Seq(Message) /\ asked \in Seq(Message)
      BY <1>1 DEF OthersOK
    <3> QED
      BY <2>3, <3>1
  <2>4. CASE OtherThrottle \/ ResponseTimerExpires \/ waitingForResponseTimerExpired \/ EventLoop \/ UNCHANGED vars
    <3>1. asked' = asked
      BY <2>4 DEF OtherThrottle, ResponseTimerExpires, waitingForResponseTimerExpired, EventLoop, decoderChanged, Post, vars
    <3> QED
      BY <2>3, <3>1
  <2>5. CASE RunSpeed \/ RunEmergencyStop \/ RunResume \/ RunLNCVStart \/ RunLNCVStop
    <3>1. asked' = asked
      BY <2>5 DEF RunSpeed, RunEmergencyStop, RunResume, RunLNCVStart, RunLNCVStop, Runs
    <3> QED
      BY <2>3, <3>1
  <2>6. CASE start \/ stop
    BY <2>3, <2>6 DEF start, stop, Reset
  <2> QED
    BY <2>1, <2>2, <2>4, <2>5, <2>6 DEF Next
<1>3. posted' \in Seq(Call)
  <2>1. CASE EventLoop
    <3>1. 0 \in Speed
      BY KernelAssumption
    <3>2. PICK c \in Call : posted' = Append(posted, c)
      <4>1. CASE \E a \in Address, v \in Speed : decoderChanged(a, v)
        <5>1. PICK a \in Address, v \in Speed : decoderChanged(a, v)
          BY <4>1
        <5>2. [call |-> "speed", address |-> a, speed |-> v] \in Call
          BY DEF Call
        <5> QED
          BY <5>1, <5>2 DEF decoderChanged, Post
      <4>2. CASE \E call \in {"stop", "resume", "lncvStart", "lncvStop"} : Post(call, NoAddress, 0)
        <5>1. PICK call \in {"stop", "resume", "lncvStart", "lncvStop"} : Post(call, NoAddress, 0)
          BY <4>2
        <5>2. [call |-> call, address |-> NoAddress, speed |-> 0] \in Call
          BY DEF Call
        <5> QED
          BY <5>1, <5>2 DEF Post
      <4> QED
        BY <2>1, <4>1, <4>2 DEF EventLoop
    <3> QED
      BY <1>1, <3>2, AppendProperties DEF OthersOK
  <2>2. CASE RunSpeed \/ RunEmergencyStop \/ RunResume \/ RunLNCVStart \/ RunLNCVStop
    <3>1. posted # <<>> /\ posted' = Tail(posted)
      BY <2>2 DEF RunSpeed, RunEmergencyStop, RunResume, RunLNCVStart, RunLNCVStop, Runs
    <3> QED
      BY <1>1, <3>1, HeadTailProperties DEF OthersOK
  <2>3. CASE posted' = posted \/ posted' = <<>>
    <3>1. <<>> \in Seq(Call) /\ posted \in Seq(Call)
      BY <1>1 DEF OthersOK
    <3> QED
      BY <2>3, <3>1
  <2>4. CASE Echo \/ StationAnswers \/ AnswerLost \/ OtherThrottle \/ UNCHANGED vars
    <3>1. posted' = posted
      BY <2>4 DEF Echo, StationAnswers, AnswerLost, OtherThrottle, vars
    <3> QED
      BY <2>3, <3>1
  <2>5. CASE ResponseTimerExpires \/ waitingForResponseTimerExpired
    <3>1. posted' = posted
      BY <2>5 DEF ResponseTimerExpires, waitingForResponseTimerExpired
    <3> QED
      BY <2>3, <3>1
  <2>6. CASE start \/ stop
    BY <2>3, <2>6 DEF start, stop, Reset
  <2> QED
    BY <2>1, <2>2, <2>4, <2>5, <2>6 DEF Next
<1>4. inputs' = inputs \/ inputs' = 0 \/ (inputs < MaxInputs /\ inputs' = inputs + 1)
  BY DEF Next, Echo, StationAnswers, AnswerLost, OtherThrottle, Input, ResponseTimerExpires,
     waitingForResponseTimerExpired, EventLoop, decoderChanged, Post,
     RunSpeed, RunEmergencyStop, RunResume, RunLNCVStart, RunLNCVStop, Runs, start, stop, Reset, vars
<1>5. inputs' \in 0 .. MaxInputs
  BY <1>1, <1>4 DEF OthersOK
<1>6. mode' \in {"offline", "online", "failing"}
  BY <1>1 DEF OthersOK, Next, Echo, StationAnswers, AnswerLost, OtherThrottle, ResponseTimerExpires,
     waitingForResponseTimerExpired, EventLoop, decoderChanged, Post,
     RunSpeed, RunEmergencyStop, RunResume, RunLNCVStart, RunLNCVStop, Runs, start, stop, vars
<1> QED
  BY <1>2, <1>3, <1>5, <1>6

\* The speed that is posted.
LEMMA PostedSpeed ==
  ASSUME OthersOK, RunSpeed
  PROVE  Head(posted).address \in Address /\ Head(posted).speed \in Speed
<1>1. posted \in Seq(Call) /\ posted # <<>> /\ Head(posted).call = "speed"
  BY DEF RunSpeed, Runs, OthersOK
<1>2. Head(posted) \in Call
  BY <1>1, HeadTailProperties
<1> QED
  BY <1>1, <1>2 DEF Call

LEMMA LocosAreKept ==
  ASSUME IInv, [Next]_vars
  PROVE  LocosOK' /\ emergencyStop' \in {"Undefined", "True", "False"} /\ lncvActive' \in BOOLEAN
<1>1. OthersOK /\ LocosOK
  BY DEF IInv
<1>2. CASE Echo \/ StationAnswers \/ OtherThrottle
  <2>1. PICK m : Receives(m)
    BY <1>2, BusStep
  <2> QED
    BY <1>1, <2>1, ReceiveKeepsTypes DEF Receives
<1>3. CASE RunSpeed
  <2> DEFINE c == Head(posted)
  <2>1. c.address \in Address /\ c.speed \in Speed
    BY <1>1, <1>3, PostedSpeed
  <2>2. /\ SendToSlot(c.address, c.speed) \/ SendWhenSlot(c.address, c.speed)
        /\ UNCHANGED <<emergencyStop, lncvActive>>
    BY <1>3 DEF RunSpeed
  <2> HIDE DEF c
  <2>3. pending[c.address] \in Seq(Speed)
    BY <1>1, <2>1 DEF LocosOK
  <2>4. Append(pending[c.address], c.speed) \in Seq(Speed)
    BY <2>1, <2>3, AppendProperties
  <2>5. CASE SendToSlot(c.address, c.speed)
    BY <1>1, <2>2, <2>5 DEF SendToSlot, locos, LocosOK, OthersOK
  <2>6. CASE SendWhenSlot(c.address, c.speed)
    <3>1. /\ pending' = [pending EXCEPT ![c.address] = Append(@, c.speed)]
          /\ refused' = refused \/ refused' = refused \cup {c.address}
          /\ UNCHANGED <<slots, addressToSlot>>
      BY <2>6 DEF SendWhenSlot
    <3>2. pending' \in [Address -> Seq(Speed)]
      BY <1>1, <2>4, <3>1 DEF LocosOK
    <3> QED
      BY <1>1, <2>1, <2>2, <3>1, <3>2 DEF LocosOK, OthersOK
  <2> QED
    BY <2>2, <2>5, <2>6
<1>4. CASE RunEmergencyStop \/ RunResume \/ RunLNCVStart \/ RunLNCVStop
  BY <1>1, <1>4 DEF RunEmergencyStop, RunResume, RunLNCVStart, RunLNCVStop, locos, LocosOK, OthersOK
<1>5. CASE start \/ stop
  <2>1. Absent \in LocoSlot /\ <<>> \in Seq(Speed) /\ NoSlot \in Slot \cup {NoSlot}
    BY DEF Absent, LocoSlot
  <2>2. /\ slots' = [s \in Slot |-> Absent] /\ addressToSlot' = [a \in Address |-> NoSlot]
        /\ pending' = [a \in Address |-> <<>>] /\ refused' = {}
        /\ emergencyStop' = "Undefined" /\ lncvActive' = FALSE
    BY <1>5 DEF start, stop, Reset
  <2> QED
    BY <2>1, <2>2 DEF LocosOK
<1>6. CASE UNCHANGED <<locos, emergencyStop, lncvActive>>
  BY <1>1, <1>6 DEF locos, LocosOK, OthersOK
<1> QED
  BY <1>2, <1>3, <1>4, <1>5, <1>6 DEF Next, AnswerLost, ResponseTimerExpires, waitingForResponseTimerExpired,
     EventLoop, decoderChanged, Post, vars

LEMMA IInvStarts ==
  ASSUME Init
  PROVE  IInv
<1>1. LinkOK
  BY InitialLink DEF Init, LinkOK
<1>2. Absent \in LocoSlot /\ <<>> \in Seq(Speed) /\ <<>> \in Seq(Message) /\ <<>> \in Seq(Call)
  BY DEF Absent, LocoSlot
<1>3. LocosOK
  BY <1>2 DEF Init, LocosOK
<1>4. OthersOK
  <2>1. 0 \in 0 .. MaxInputs
    BY KernelAssumption
  <2>2. asked = <<>> /\ posted = <<>> /\ inputs = 0 /\ mode = "offline" /\ emergencyStop = "Undefined" /\ lncvActive = FALSE
    BY DEF Init
  <2> QED
    BY <1>2, <2>1, <2>2 DEF OthersOK
<1> QED
  BY <1>1, <1>3, <1>4 DEF IInv

LEMMA IInvIsKept ==
  ASSUME IInv, [Next]_vars
  PROVE  IInv'
BY LinkIsKept, CountsAreKept, LocosAreKept DEF IInv, OthersOK

LEMMA AlwaysIInv == Spec => []IInv
BY IInvStarts, IInvIsKept, PTL DEF Spec

(***************************************************************************)
(* Types are kept, and no queue is longer than its limit, whatever the     *)
(* station answers and others send.                                        *)
(***************************************************************************)
THEOREM TypesAreKept == Spec => []TypeOK
BY AlwaysIInv, IInvImpliesTypeOK, PTL

(***************************************************************************)
(* What the kernel pops when an echo or an answer comes is the message it  *)
(* has sent: nothing gets in front of it meanwhile.                        *)
(***************************************************************************)
THEOREM LastSentIsKept == Spec => []LastSentIsFront
BY AlwaysIInv, IInvImpliesFront, PTL

(***************************************************************************)
(* The link never stops with messages in a queue, as long as answers come  *)
(* after echoes: there is always an event that makes it go on.             *)
(***************************************************************************)
THEOREM LinkNeverStalls == Spec => []NeverIdleWithWork
BY AlwaysIInv, IInvImpliesFront, PTL

-----------------------------------------------------------------------------
(* The link implements MessageLink *)

LEMMA QueuesHaveTheirType ==
  ASSUME NEW l, OwnLink(l)
  PROVE  l.queue \in [Priority -> Seq(Message)]
<1>1. l.queue \in [Priority -> SendQueue]
  BY LinkFields
<1> QED
  BY <1>1 DEF SendQueue

LEMMA PromiseStarts ==
  ASSUME Init
  PROVE  Promise!Init
<1>1. link = IdleLink
  BY DEF Init
<1>2. link.queue = [p \in Priority |-> <<>>] /\ link.echo = FALSE /\ link.sent = 0
  BY <1>1 DEF IdleLink
<1> QED
  BY <1>2 DEF Promise!Init

LEMMA PromiseStep ==
  ASSUME IInv, [Next]_vars
  PROVE  [Promise!Next]_Promise!vars
<1>1. LinkStep /\ IInv'
  BY LinkIsKept, IInvIsKept
<1>2. link'.queue \in [Priority -> Seq(Message)] /\ link.queue \in [Priority -> Seq(Message)]
  <2>1. OwnLink(link) /\ OwnLink(link')
    BY <1>1 DEF IInv, LinkOK, Good
  <2> QED
    BY <2>1, QueuesHaveTheirType
<1>3. \A q : Promise!Turn(q) = TurnOf(q)
  BY DEF Promise!Turn, TurnOf
<1>4. \A old : AllGrown(old, link'.queue) => Promise!Accepts(old)
  BY <1>2 DEF AllGrown, Grown, Promise!Accepts
<1> DEFINE flight == IF link.sent > 0 THEN link.priority ELSE IF link.echo THEN Stuck ELSE Nothing
           again == link.sent > 1
<1>5. flight = Flight(link) /\ flight' = Flight(link')
  BY DEF Flight
<1>6. /\ link.sent \in Nat /\ link'.sent \in Nat /\ link.priority \in Priority
      /\ link.sent > 0 => Flight(link) = link.priority /\ link.priority # Nothing
      /\ link.sent = 0 /\ link.echo => Flight(link) = Stuck
      /\ Stuck # Nothing
      /\ Waits(link) => link.sent > 0 \/ link.echo
      /\ ~Waits(link) => link.sent = 0 /\ Flight(link) = Nothing
  <2>1. OwnLink(link) /\ OwnLink(link') /\ FrontOK(link)
    BY <1>1 DEF IInv, LinkOK, Good
  <2>2. /\ link.sent \in Nat /\ link'.sent \in Nat /\ link.priority \in Priority
        /\ link.priority # Nothing
    BY <2>1, LinkFields
  <2> QED
    BY <2>1, <2>2 DEF Flight, FrontOK, Waits, Stuck, Nothing, Low
<1>7. CASE Unmoved
  BY <1>5, <1>7 DEF Unmoved, Promise!vars
<1>8. CASE Accepted(link, link')
  <2>1. Promise!Accepts(link.queue)
    BY <1>4, <1>8 DEF Accepted
  <2>2. CASE Waits(link)
    <3>1. flight # Nothing
      BY <1>5, <1>6, <2>2
    <3>2. flight' = flight /\ again' = again
      BY <1>5, <1>8, <2>2 DEF Accepted
    <3> QED
      BY <2>1, <3>1, <3>2 DEF Promise!Next, Promise!Accept
  <2>3. CASE ~Waits(link)
    <3>1. flight = Nothing
      BY <1>5, <1>6, <2>3
    <3>2. flight' = Promise!Turn(link'.queue) /\ again' = FALSE
      BY <1>3, <1>5, <1>8, <2>3 DEF Accepted
    <3>3. Promise!StartsNext(link.queue)
      BY <3>2 DEF Promise!StartsNext
    <3> QED
      BY <2>1, <3>1, <3>3 DEF Promise!Next, Promise!Accept
  <2> QED
    BY <2>2, <2>3
<1>9. CASE Completed(link, link')
  <2>1. /\ Promise!Without(link.priority) = Rest(link)
        /\ Promise!Accepts(Rest(link)) /\ again' = FALSE /\ link.queue[link.priority] # <<>>
    BY <1>4, <1>9 DEF Completed, Rest, Promise!Without
  <2>2. (flight = link.priority /\ link.sent > 0) \/ (flight = Stuck /\ link.sent = 0)
    <3>1. link.sent > 0 \/ (link.sent = 0 /\ link.echo)
      BY <1>6, <1>9 DEF Completed
    <3> QED
      BY <3>1
  <2>3. CASE flight' = Promise!Turn(link'.queue) \/ (flight' = Promise!Turn(Rest(link)) /\ flight' # Nothing)
    <3>1. Promise!StartsNext(Rest(link))
      BY <2>1, <2>3 DEF Promise!StartsNext
    <3>2. CASE flight = link.priority
      BY <1>6, <2>1, <3>1, <3>2 DEF Promise!Next, Promise!Complete
    <3>3. CASE flight = Stuck
      BY <1>6, <2>1, <3>1, <3>3 DEF Promise!Next, Promise!Lose
    <3> QED
      BY <2>2, <3>2, <3>3
  <2>4. CASE link.sent > 0 /\ flight' = Stuck /\ Promise!Turn(link'.queue) = Nothing
    <3>1. flight = link.priority
      BY <2>2, <2>4
    <3>2. flight \in Priority /\ Promise!Accepts(Promise!Without(flight))
      BY <1>6, <2>1, <3>1
    <3> QED
      BY <2>1, <2>4, <3>2 DEF Promise!Next, Promise!GetStuck
  <2> QED
    BY <1>3, <1>5, <1>9, <2>3, <2>4 DEF Completed
<1>10. CASE link' = IdleLink
  <2>1. link'.queue = [p \in Priority |-> <<>>] /\ link'.echo = FALSE /\ link'.sent = 0
    BY <1>10 DEF IdleLink
  <2> QED
    BY <2>1 DEF Promise!Next, Promise!Close
<1>11. CASE Repeated
  <2>1. flight = link.priority /\ flight' = flight /\ again' = TRUE
    BY <1>11 DEF Repeated
  <2>2. Head(link.queue[flight]) = LNCVStart
    BY <1>11, <2>1 DEF Repeated, lastSentMessage
  <2> QED
    BY <1>6, <1>11, <2>1, <2>2 DEF Repeated, Promise!Next, Promise!Repeat
<1>12. CASE WentOn
  <2>1. flight = Stuck /\ again' = FALSE /\ flight' = Promise!Turn(link'.queue)
    BY <1>3, <1>5, <1>6, <1>12 DEF WentOn
  <2>2. Promise!StartsNext(link.queue)
    BY <2>1 DEF Promise!StartsNext
  <2> QED
    BY <1>12, <2>1, <2>2 DEF WentOn, Promise!Next, Promise!GoOn
<1> QED
  BY <1>1, <1>7, <1>8, <1>9, <1>10, <1>11, <1>12 DEF LinkStep

(***************************************************************************)
(* The link keeps the promise of MessageLink: until it gets stuck, what it *)
(* accepts is sent, one message at a time, in order, a higher priority     *)
(* first, and nothing but LNCVStart is sent again.                         *)
(***************************************************************************)
THEOREM LinkKeepsItsPromise == Spec => ImplementsLink
<1>1. Init => Promise!Init
  BY PromiseStarts
<1>2. IInv /\ [Next]_vars => [Promise!Next]_Promise!vars
  BY PromiseStep
<1> QED
  BY <1>1, <1>2, AlwaysIInv, PTL DEF Spec, ImplementsLink, Promise!Spec

-----------------------------------------------------------------------------
(* Slots and the speeds that wait for them *)

LEMMA MappingThroughReceive ==
  ASSUME LocosOK, MappingIsTrue, NEW l, NEW m \in Message, receive(l, m)
  PROVE  MappingIsTrue'
<1> SUFFICES ASSUME NEW b \in Address, addressToSlot'[b] # NoSlot
             PROVE  slots'[addressToSlot'[b]].address = b
  BY DEF MappingIsTrue
<1>0. /\ slots \in [Slot -> LocoSlot] /\ addressToSlot \in [Address -> Slot \cup {NoSlot}]
      /\ NoAddress \notin Address
      /\ \A c \in Address : addressToSlot[c] # NoSlot =>
           addressToSlot[c] \in Slot /\ slots[addressToSlot[c]].address = c
  BY KernelAssumption DEF LocosOK, MappingIsTrue
<1>1. CASE slots' = slots /\ addressToSlot' = addressToSlot
  BY <1>0, <1>1
<1>2. CASE ReceiveSpeed(l, m)
  <2>1. /\ addressToSlot' = addressToSlot
        /\ \/ slots' = [slots EXCEPT ![m.slot].known = TRUE]
           \/ slots' = [slots EXCEPT ![m.slot].speed = m.speed]
    BY <1>2 DEF ReceiveSpeed
  <2>2. \A s \in Slot : slots'[s].address = slots[s].address
    BY <1>0, <2>1 DEF LocoSlot
  <2> QED
    BY <1>0, <2>1, <2>2
<1>3. CASE ReceiveFreeSlot(l, m)
  <2>1. slots' = [slots EXCEPT ![m.slot] = Absent]
    BY <1>3 DEF ReceiveFreeSlot
  <2>2. CASE \E a \in Address : addressToSlot[a] = m.slot /\ addressToSlot' = [addressToSlot EXCEPT ![a] = NoSlot]
    <3>1. PICK a \in Address : addressToSlot[a] = m.slot /\ addressToSlot' = [addressToSlot EXCEPT ![a] = NoSlot]
      BY <2>2
    <3>2. b # a /\ addressToSlot'[b] = addressToSlot[b]
      BY <1>0, <3>1
    <3>3. addressToSlot[b] # m.slot
      BY <1>0, <3>1, <3>2
    <3> QED
      BY <1>0, <2>1, <3>2, <3>3
  <2>3. CASE (\A a \in Address : addressToSlot[a] # m.slot) /\ addressToSlot' = addressToSlot
    BY <1>0, <2>1, <2>3
  <2> QED
    BY <1>3, <2>2, <2>3 DEF ReceiveFreeSlot
<1>4. CASE ReceiveSlotData(l, m)
  <2> DEFINE s == m.slot
             a == m.address
             old == slots[s].address
  <2>1. a \in Address /\ s \in Slot \cup {NoSlot}
    BY <1>4 DEF ReceiveSlotData, Message
  <2>2. /\ addressToSlot' = Mapped(s, a)
        /\ slots' = [slots EXCEPT ![s] =
             [known |-> TRUE, address |-> a, speed |-> IF @.address = a THEN @.speed ELSE NoSpeed]]
    BY <1>4 DEF ReceiveSlotData
  <2>3. /\ \A t \in Slot : t # s => slots'[t] = slots[t]
        /\ s \in Slot => slots'[s].address = a
    BY <1>0, <2>2
  <2>4. /\ old = NoAddress => addressToSlot' = [addressToSlot EXCEPT ![a] = s]
        /\ old # NoAddress /\ old # a /\ addressToSlot[old] = s =>
             addressToSlot' = [addressToSlot EXCEPT ![old] = NoSlot]
        /\ old # NoAddress /\ ~(old # a /\ addressToSlot[old] = s) => addressToSlot' = addressToSlot
    BY <2>2 DEF Mapped
  <2> HIDE DEF s, a
  <2>5. CASE old = NoAddress
    <3>1. CASE b = a
      <4>1. addressToSlot'[b] = s /\ s \in Slot
        BY <1>0, <2>1, <2>4, <2>5, <3>1
      <4> QED
        BY <2>3, <3>1, <4>1
    <3>2. CASE b # a
      <4>1. addressToSlot'[b] = addressToSlot[b]
        BY <1>0, <2>4, <2>5, <3>2
      <4>2. addressToSlot[b] \in Slot /\ slots[addressToSlot[b]].address = b
        BY <1>0, <4>1
      <4>3. addressToSlot[b] # s
        BY <1>0, <2>5, <4>2
      <4> QED
        BY <2>3, <4>1, <4>2, <4>3
    <3> QED
      BY <3>1, <3>2
  <2>6. CASE old # NoAddress /\ old # a /\ addressToSlot[old] = s
    <3>1. addressToSlot'[b] = addressToSlot[b] /\ b # old
      BY <1>0, <2>4, <2>6
    <3>2. addressToSlot[b] \in Slot /\ slots[addressToSlot[b]].address = b
      BY <1>0, <3>1
    <3>3. addressToSlot[b] # s
      BY <3>1, <3>2
    <3> QED
      BY <2>3, <3>1, <3>2, <3>3
  <2>7. CASE old # NoAddress /\ ~(old # a /\ addressToSlot[old] = s)
    <3>1. addressToSlot'[b] = addressToSlot[b]
      BY <2>4, <2>7
    <3>2. addressToSlot[b] \in Slot /\ slots[addressToSlot[b]].address = b
      BY <1>0, <3>1
    <3>3. CASE addressToSlot[b] = s
      <4>1. old = b
        BY <3>2, <3>3
      <4>2. old = a
        BY <2>7, <3>3, <4>1
      <4> QED
        BY <2>3, <3>1, <3>2, <3>3, <4>1, <4>2
    <3> QED
      BY <2>3, <3>1, <3>2, <3>3
  <2> QED
    BY <2>5, <2>6, <2>7
<1>5. receive(l, m) => \/ slots' = slots /\ addressToSlot' = addressToSlot
                       \/ ReceiveSpeed(l, m) \/ ReceiveFreeSlot(l, m) \/ ReceiveSlotData(l, m)
  BY DEF receive, ReceiveIdle, ReceiveRefusal, ReceiveLNCVResponse, ReceiveOther, locos
<1> QED
  BY <1>1, <1>2, <1>3, <1>4, <1>5

\* Steps other than of the bus and of a new kernel leave the mapping alone.
LEMMA MappingIsKept ==
  ASSUME IInv, MappingIsTrue, [Next]_vars
  PROVE  MappingIsTrue'
<1>1. CASE Echo \/ StationAnswers \/ OtherThrottle
  <2>1. PICK m : Receives(m)
    BY <1>1, BusStep
  <2> QED
    BY <2>1, MappingThroughReceive DEF Receives, IInv
<1>2. CASE start \/ stop
  <2>1. addressToSlot' = [a \in Address |-> NoSlot]
    BY <1>2 DEF start, stop, Reset
  <2> QED
    BY <2>1 DEF MappingIsTrue
<1>3. CASE RunSpeed
  <2>1. UNCHANGED <<slots, addressToSlot>>
    BY <1>3 DEF RunSpeed, SendToSlot, SendWhenSlot, locos
  <2> QED
    BY <2>1 DEF MappingIsTrue
<1>4. CASE UNCHANGED locos
  BY <1>4 DEF MappingIsTrue, locos
<1> QED
  BY <1>1, <1>2, <1>3, <1>4 DEF Next, AnswerLost, ResponseTimerExpires, waitingForResponseTimerExpired,
     EventLoop, decoderChanged, Post, RunEmergencyStop, RunResume, RunLNCVStart, RunLNCVStop, vars

(***************************************************************************)
(* A speed is sent to the slot that holds the locomotive: m_addressToSlot  *)
(* never names a slot that the bus has since said to hold another.         *)
(***************************************************************************)
THEOREM MappingStaysTrue == Spec => []MappingIsTrue
<1>1. Init => MappingIsTrue
  BY DEF Init, MappingIsTrue
<1>2. IInv /\ MappingIsTrue /\ [Next]_vars => MappingIsTrue'
  BY MappingIsKept
<1> QED
  BY <1>1, <1>2, AlwaysIInv, PTL DEF Spec

\* The request for a slot for locomotive a is still to be answered.
Requested(l, a) == \E i \in 1 .. Len(l.queue[High]) : l.queue[High][i] = LocoAdr(a)

\* Only the message sent last is dropped.
LEMMA RequestStays ==
  ASSUME NEW l, OwnLink(l), NEW r, OwnLink(r), NEW a, Requested(l, a),
         Accepted(l, r) \/ (Completed(l, r) /\ lastSentMessage(l) # LocoAdr(a))
  PROVE  Requested(r, a)
<1>1. PICK i \in 1 .. Len(l.queue[High]) : l.queue[High][i] = LocoAdr(a)
  BY DEF Requested
<1>2. High \in Priority /\ l.priority \in Priority
  BY LinkFields DEF Priority, High, Low
<1>3. l.queue[High] \in Seq(Message) /\ r.queue[High] \in Seq(Message)
  BY <1>2, LinkFields
<1>4. ASSUME Grown(l.queue[High], r.queue[High]) PROVE Requested(r, a)
  <2>1. i \in 1 .. Len(r.queue[High]) /\ r.queue[High][i] = LocoAdr(a)
    BY <1>1, <1>3, <1>4, GrownKeeps
  <2> QED
    BY <2>1 DEF Requested
<1>5. CASE Accepted(l, r)
  BY <1>2, <1>4, <1>5 DEF Accepted, AllGrown
<1>6. CASE Completed(l, r) /\ lastSentMessage(l) # LocoAdr(a)
  <2>1. Grown(Rest(l)[High], r.queue[High])
    BY <1>2, <1>6 DEF Completed, AllGrown
  <2>2. l.queue \in [Priority -> SendQueue]
    BY LinkFields
  <2>3. CASE l.priority # High
    <3>1. Rest(l)[High] = l.queue[High]
      BY <1>2, <2>2, <2>3 DEF Rest
    <3> QED
      BY <1>4, <2>1, <3>1
  <2>4. CASE l.priority = High
    <3>1. Rest(l)[High] = Tail(l.queue[High]) /\ l.queue[High] # <<>>
      BY <1>2, <1>6, <2>2, <2>4 DEF Rest, Completed
    <3>2. i # 1
      BY <1>1, <1>6, <2>4 DEF lastSentMessage
    <3>3. /\ Tail(l.queue[High]) \in Seq(Message) /\ Len(Tail(l.queue[High])) = Len(l.queue[High]) - 1
          /\ \A j \in 1 .. Len(Tail(l.queue[High])) : Tail(l.queue[High])[j] = l.queue[High][j + 1]
      BY <1>3, <3>1, HeadTailProperties
    <3>4. Len(l.queue[High]) \in Nat
      BY <1>3, LenProperties
    <3>5. i - 1 \in 1 .. Len(l.queue[High]) - 1 /\ (i - 1) + 1 = i
      BY <3>2, <3>4
    <3>6. i - 1 \in 1 .. Len(Tail(l.queue[High]))
      BY <3>3, <3>5
    <3>7. Tail(l.queue[High])[i - 1] = LocoAdr(a)
      BY <1>1, <3>3, <3>5, <3>6
    <3>8. i - 1 \in 1 .. Len(r.queue[High]) /\ r.queue[High][i - 1] = LocoAdr(a)
      <4> DEFINE t == Tail(l.queue[High])
                 k == i - 1
      <4>1. t \in Seq(Message) /\ Grown(t, r.queue[High]) /\ k \in 1 .. Len(t) /\ t[k] = LocoAdr(a)
        BY <2>1, <3>1, <3>3, <3>6, <3>7
      <4> HIDE DEF t, k
      <4>2. k \in 1 .. Len(r.queue[High]) /\ r.queue[High][k] = t[k]
        BY <1>3, <4>1, GrownKeeps
      <4> QED
        BY <4>1, <4>2 DEF k
    <3> QED
      BY <3>8 DEF Requested
  <2> QED
    BY <2>3, <2>4
<1> QED
  BY <1>5, <1>6

LEMMA PendingThroughReceive ==
  ASSUME IInv, IInv', PendingIsRequested, NEW m, Receives(m)
  PROVE  PendingIsRequested'
<1> SUFFICES ASSUME NEW a \in Address, pending'[a] # <<>>, a \notin refused'
             PROVE  Requested(link', a)
  BY DEF PendingIsRequested, Requested
<1>1. PICK l : /\ receive(l, m) /\ m \in Message
               /\ lastSentMessage(l) = lastSentMessage(link)
               /\ l.queue = link.queue /\ l.echo = link.echo /\ l.response = link.response
               /\ l.priority = link.priority /\ l.sent = link.sent
               /\ FrontOK(l) /\ OwnLink(l)
               /\ Ends(l, m) => Completed(link, link')
               /\ ~Ends(l, m) => Accepted(link, link')
  BY DEF Receives
<1>2. OwnLink(link) /\ OwnLink(link') /\ pending \in [Address -> Seq(Speed)]
  BY DEF IInv, LinkOK, Good, LocosOK
<1>3. /\ \/ pending' = pending
         \/ m.op = "SL_RD_DATA" /\ m.address \in Address /\ pending' = [pending EXCEPT ![m.address] = <<>>]
      /\ \/ refused \subseteq refused'
         \/ m.op = "SL_RD_DATA" /\ m.address \in Address /\ refused' = refused \ {m.address}
            /\ pending' = [pending EXCEPT ![m.address] = <<>>]
  BY <1>1 DEF receive, ReceiveIdle, ReceiveSpeed, ReceiveFreeSlot, ReceiveSlotData, ReceiveRefusal,
     ReceiveLNCVResponse, ReceiveOther, locos, Message
<1>4. pending[a] # <<>> /\ a \notin refused
  <2>1. CASE pending' = pending /\ refused \subseteq refused'
    BY <2>1
  <2>2. CASE m.address \in Address /\ pending' = [pending EXCEPT ![m.address] = <<>>]
    <3>1. a # m.address
      BY <1>2, <2>2
    <3> QED
      BY <1>2, <1>3, <2>2, <3>1
  <2> QED
    BY <1>3, <2>1, <2>2
<1>5. Requested(link, a)
  BY <1>4 DEF PendingIsRequested, Requested
<1>6. ASSUME Ends(l, m) PROVE lastSentMessage(link) # LocoAdr(a)
  <2>1. SUFFICES ASSUME lastSentMessage(l) = LocoAdr(a) PROVE FALSE
    BY <1>1
  <2>2. hasResponse(lastSentMessage(l))
    BY <2>1 DEF hasResponse, LocoAdr
  <2>3. isResponse(l, m)
    <3>1. SUFFICES ASSUME isEcho(l, m), ~l.response PROVE FALSE
      BY <1>6 DEF Ends
    <3>2. l.sent \in Nat /\ ~(l.sent > 0)
      BY <1>1, <2>2, <3>1, LinkFields DEF FrontOK, isEcho
    <3>3. m = LocoAdr(a) /\ l.sent = 0
      BY <2>1, <3>1, <3>2 DEF isEcho
    <3>4. m.op = "LOCO_ADR" /\ m.address = a
      BY <3>3 DEF LocoAdr
    <3>5. refused' = refused \cup {a}
      BY <1>1, <3>1, <3>3, <3>4 DEF receive, ReceiveIdle, ReceiveSpeed, ReceiveFreeSlot, ReceiveSlotData,
         ReceiveRefusal, ReceiveLNCVResponse, ReceiveOther
    <3> QED
      BY <3>5
  <2>4. m.op = "NO_FREE_SLOT" \/ (m.op = "SL_RD_DATA" /\ m.address = a)
    BY <2>1, <2>3 DEF isResponse, isValidResponse, LocoAdr
  <2>5. CASE m.op = "NO_FREE_SLOT"
    <3>1. refused' = refused \cup {a}
      BY <1>1, <2>1, <2>3, <2>5 DEF receive, ReceiveIdle, ReceiveSpeed, ReceiveFreeSlot, ReceiveSlotData,
         ReceiveRefusal, ReceiveLNCVResponse, ReceiveOther, LocoAdr
    <3> QED
      BY <3>1
  <2>6. CASE m.op = "SL_RD_DATA" /\ m.address = a
    <3>1. a # NoAddress
      BY KernelAssumption
    <3>2. pending' = [pending EXCEPT ![a] = <<>>]
      BY <1>1, <2>6, <3>1 DEF receive, ReceiveIdle, ReceiveSpeed, ReceiveFreeSlot, ReceiveSlotData,
         ReceiveRefusal, ReceiveLNCVResponse, ReceiveOther
    <3> QED
      BY <1>2, <3>2
  <2> QED
    BY <2>4, <2>5, <2>6
<1> QED
  BY <1>1, <1>2, <1>5, <1>6, RequestStays

\* The first speed for a locomotive without slot asks for one.
LEMMA PendingThroughSpeed ==
  ASSUME IInv, IInv', PendingIsRequested, RunSpeed
  PROVE  PendingIsRequested'
<1> SUFFICES ASSUME NEW a \in Address, pending'[a] # <<>>, a \notin refused'
             PROVE  Requested(link', a)
  BY DEF PendingIsRequested, Requested
<1> DEFINE c == Head(posted)
<1>1. /\ OwnLink(link) /\ OwnLink(link') /\ Good(link) /\ pending \in [Address -> Seq(Speed)]
      /\ c.address \in Address
  BY PostedSpeed DEF IInv, LinkOK, Good, LocosOK
<1>2. link' = link \/ Accepted(link, link')
  BY CallStep
<1>3. SendToSlot(c.address, c.speed) \/ SendWhenSlot(c.address, c.speed)
  BY DEF RunSpeed
<1> HIDE DEF c
<1>4. ASSUME pending[a] # <<>>, a \notin refused
      PROVE  Requested(link', a)
  <2>1. Requested(link, a)
    BY <1>4 DEF PendingIsRequested, Requested
  <2> QED
    BY <1>1, <1>2, <2>1, RequestStays
<1>5. CASE SendToSlot(c.address, c.speed)
  <2>1. pending' = pending /\ refused' = refused
    BY <1>5 DEF SendToSlot, locos
  <2> QED
    BY <1>4, <2>1
<1>6. CASE SendWhenSlot(c.address, c.speed)
  <2>1. /\ pending' = [pending EXCEPT ![c.address] = Append(@, c.speed)]
        /\ refused \subseteq refused'
    BY <1>6 DEF SendWhenSlot
  <2>2. CASE a # c.address \/ pending[a] # <<>>
    BY <1>1, <1>4, <2>1, <2>2
  <2>3. CASE a = c.address /\ pending[a] = <<>>
    <3>1. /\ link' = send(link, <<LocoAdr(a)>>, High)
          /\ Len(link.queue[High]) < QueueLimit
      BY <1>6, <2>3 DEF SendWhenSlot
    <3>2. link'.queue[High] = append(link.queue[High], <<LocoAdr(a)>>)
      <4>1. High \in Priority /\ link.queue \in [Priority -> SendQueue]
        BY <1>1, LinkFields DEF Priority, High, Low
      <4> DEFINE n == [link EXCEPT !.queue[High] = append(@, <<LocoAdr(a)>>)]
      <4>2. link' = IF link.echo \/ link.response THEN n ELSE sendNextMessage(n)
        BY <3>1 DEF send
      <4>3. n.queue[High] = append(link.queue[High], <<LocoAdr(a)>>)
        BY <1>1, <4>1 DEF OwnLink, Link
      <4> HIDE DEF n
      <4>4. sendNextMessage(n).queue = n.queue \/ sendNextMessage(n) = n
        BY DEF sendNextMessage
      <4> QED
        BY <4>2, <4>3, <4>4
    <3> DEFINE q == link.queue[High]
    <3>3. q \in Seq(Message) /\ <<LocoAdr(a)>> \in Seq(Message) /\ Len(<<LocoAdr(a)>>) = 1
      <4>1. High \in Priority
        BY DEF Priority, High, Low
      <4>2. LocoAdr(a) \in Message
        BY OwnMessages DEF Own
      <4> QED
        BY <1>1, <4>1, <4>2, LinkFields
    <3> HIDE DEF q
    <3>4. /\ q \o <<LocoAdr(a)>> \in Seq(Message) /\ Len(q \o <<LocoAdr(a)>>) = Len(q) + 1
          /\ \A i \in 1 .. Len(q) + 1 : (q \o <<LocoAdr(a)>>)[i] = IF i <= Len(q) THEN q[i] ELSE <<LocoAdr(a)>>[i - Len(q)]
      BY <3>3, ConcatProperties
    <3>5. Len(q) \in Nat /\ Len(q) < QueueLimit /\ QueueLimit \in Nat
      BY <3>1, <3>3, LenProperties, KernelAssumption DEF q
    <3>6. append(q, <<LocoAdr(a)>>) = q \o <<LocoAdr(a)>>
      <4>1. Len(q \o <<LocoAdr(a)>>) <= QueueLimit
        BY <3>4, <3>5
      <4>2. append(q, <<LocoAdr(a)>>) = SubSeq(q \o <<LocoAdr(a)>>, 1, Len(q \o <<LocoAdr(a)>>))
        BY <4>1 DEF append
      <4> QED
        BY <3>4, <4>2, SubSeqFull
    <3>7. Len(q) + 1 \in 1 .. Len(q \o <<LocoAdr(a)>>) /\ (q \o <<LocoAdr(a)>>)[Len(q) + 1] = LocoAdr(a)
      BY <3>4, <3>5
    <3> QED
      BY <3>2, <3>6, <3>7 DEF Requested, q
  <2> QED
    BY <2>2, <2>3
<1> QED
  BY <1>3, <1>5, <1>6

LEMMA PendingIsKept ==
  ASSUME IInv, IInv', PendingIsRequested, [Next]_vars
  PROVE  PendingIsRequested'
<1>1. CASE Echo \/ StationAnswers \/ OtherThrottle
  <2>1. PICK m : Receives(m)
    BY <1>1, BusStep
  <2> QED
    BY <2>1, PendingThroughReceive
<1>2. CASE RunSpeed
  BY <1>2, PendingThroughSpeed
<1>3. CASE start \/ stop
  <2>1. pending' = [a \in Address |-> <<>>]
    BY <1>3 DEF start, stop, Reset
  <2> QED
    BY <2>1 DEF PendingIsRequested
<1>4. ASSUME UNCHANGED <<pending, refused>>, link'.queue = link.queue \/ Accepted(link, link')
      PROVE  PendingIsRequested'
  <2> SUFFICES ASSUME NEW a \in Address, pending[a] # <<>>, a \notin refused
               PROVE  Requested(link', a)
    BY <1>4 DEF PendingIsRequested, Requested
  <2>1. Requested(link, a) /\ OwnLink(link) /\ OwnLink(link')
    BY DEF PendingIsRequested, Requested, IInv, LinkOK, Good
  <2>2. CASE link'.queue = link.queue
    BY <2>1, <2>2 DEF Requested
  <2>3. CASE Accepted(link, link')
    BY <2>1, <2>3, RequestStays
  <2> QED
    BY <1>4, <2>2, <2>3
<1>5. CASE ResponseTimerExpires \/ waitingForResponseTimerExpired
  <2>1. UNCHANGED <<pending, refused>>
    BY <1>5 DEF ResponseTimerExpires, waitingForResponseTimerExpired, locos
  <2>2. link'.queue = link.queue
    BY <1>5, TimerStep DEF Unmoved, Repeated, WentOn
  <2> QED
    BY <1>4, <2>1, <2>2
<1>6. CASE RunEmergencyStop \/ RunResume \/ RunLNCVStart \/ RunLNCVStop
  <2>1. UNCHANGED <<pending, refused>>
    BY <1>6 DEF RunEmergencyStop, RunResume, RunLNCVStart, RunLNCVStop, locos
  <2>2. link' = link \/ Accepted(link, link')
    BY <1>6, CallStep
  <2> QED
    BY <1>4, <2>1, <2>2
<1>7. CASE Elsewhere \/ UNCHANGED vars
  <2>1. UNCHANGED <<pending, refused, link>>
    BY <1>7, ElsewhereStep DEF locos, vars
  <2> QED
    BY <1>4, <2>1
<1> QED
  BY <1>1, <1>2, <1>3, <1>5, <1>6, <1>7 DEF Next, Elsewhere

(***************************************************************************)
(* Speeds that wait for a slot wait for a request that will be answered,   *)
(* or one that the station refused or that was never sent: those wait for  *)
(* another throttle to make the slot known.                                *)
(***************************************************************************)
THEOREM PendingStaysRequested == Spec => []PendingIsRequested
<1>1. Init => PendingIsRequested
  BY DEF Init, PendingIsRequested
<1>2. IInv /\ IInv' /\ PendingIsRequested /\ [Next]_vars => PendingIsRequested'
  BY PendingIsKept
<1> QED
  BY <1>1, <1>2, AlwaysIInv, PTL DEF Spec

=============================================================================
