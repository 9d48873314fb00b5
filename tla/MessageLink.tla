----------------------------- MODULE MessageLink ----------------------------
(***************************************************************************)
(* What the link of a kernel promises to those who send messages: every    *)
(* message it accepts is sent, one at a time, those of one priority in the *)
(* order in which they were accepted, and no message while one of a higher *)
(* priority was waiting when its turn came.  Each is sent once, but those  *)
(* that may be repeated may be sent again until they are answered.         *)
(*                                                                         *)
(* With nothing to send the link may get stuck.  It then accepts messages  *)
(* and sends none, may lose the first of a queue, and may go on.           *)
(***************************************************************************)
EXTENDS Naturals, Sequences

CONSTANTS
  Message,
  Repeatable,   \* messages that may be sent more than once
  Priority,     \* priorities, the lowest number first
  None,         \* no priority: nothing is being sent
  Stuck         \* no priority either: nothing is being sent, whatever waits

VARIABLES
  waiting,    \* waiting[p]: messages of priority p, the one being sent included
  flight,     \* the priority of the message being sent
  again       \* the message being sent was sent more than once

vars == <<waiting, flight, again>>

\* The priority of which a message is sent next.
Turn(queues) ==
  IF \A p \in Priority : queues[p] = <<>>
  THEN None
  ELSE CHOOSE p \in Priority :
         queues[p] # <<>> /\ \A q \in Priority : q < p => queues[q] = <<>>

Init ==
  /\ waiting = [p \in Priority |-> <<>>]
  /\ flight = None
  /\ again = FALSE

\* Any messages join the queues, each behind those that wait already.
Accepts(old) ==
  /\ waiting' \in [Priority -> Seq(Message)]
  /\ \A p \in Priority :
       /\ Len(old[p]) <= Len(waiting'[p])
       /\ SubSeq(waiting'[p], 1, Len(old[p])) = old[p]

\* The next message is sent; of those accepted in this step it may be one or not.
StartsNext(old) ==
  /\ flight' = Turn(waiting') \/ (flight' = Turn(old) /\ flight' # None)
  /\ again' = FALSE

\* Messages are accepted; when none was being sent, one is now.
Accept ==
  /\ Accepts(waiting)
  /\ IF flight = None THEN StartsNext(waiting) ELSE UNCHANGED <<flight, again>>

\* The queues without the first message of priority p.
Without(p) == [waiting EXCEPT ![p] = Tail(@)]

\* The message being sent has been, and makes room for the next.
Complete ==
  /\ flight \in Priority
  /\ Accepts(Without(flight)) /\ StartsNext(Without(flight))

\* The message being sent is sent again.
Repeat ==
  /\ flight \in Priority /\ Head(waiting[flight]) \in Repeatable
  /\ again' = TRUE
  /\ UNCHANGED <<waiting, flight>>

\* The message being sent has been, nothing else waits, and the link gets stuck.
GetStuck ==
  /\ flight \in Priority
  /\ Accepts(Without(flight)) /\ Turn(waiting') = None
  /\ flight' = Stuck /\ again' = FALSE

\* A message is taken for sent, and the link goes on.
Lose ==
  /\ flight = Stuck
  /\ \E p \in Priority :
       waiting[p] # <<>> /\ Accepts(Without(p)) /\ StartsNext(Without(p))

GoOn ==
  /\ flight = Stuck
  /\ StartsNext(waiting) /\ UNCHANGED waiting

\* The link is closed, with what waits.
Close ==
  /\ waiting' = [p \in Priority |-> <<>>]
  /\ flight' = None /\ again' = FALSE

Next == Accept \/ Complete \/ Repeat \/ GetStuck \/ Lose \/ GoOn \/ Close

Spec == Init /\ [][Next]_vars
=============================================================================
