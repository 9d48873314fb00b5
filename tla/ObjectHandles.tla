---------------------------- MODULE ObjectHandles ----------------------------
(***************************************************************************)
(* Which objects of the server a client holds.  A session of the server    *)
(* lists each object it has sent under a handle and describes it once;     *)
(* later it only names the handle.  Both sides count the messages that     *)
(* name a handle.  When the client drops an object it asks for its release *)
(* with its count, and the session forgets the handle if its own count is  *)
(* the same.  The socket keeps the order of messages, each way.            *)
(*                                                                         *)
(* What objects contain is left out.  The stamp of a message is history:   *)
(* the count of its handle in the session when it was sent.                *)
(***************************************************************************)
EXTENDS Naturals, Sequences

CONSTANTS
  Object,     \* objects of the server that clients ask for
  Tile,       \* objects that come with an event of another one: active tiles
  Boards,     \* the objects that send such events
  MaxHandle,  \* bound: handles a session gives out
  MaxInputs   \* bound: requests, cancellations excepted, and notifications

ASSUME ObjectHandlesAssumption ==
  /\ Tile \subseteq Object /\ Boards \subseteq Object /\ Tile \cap Boards = {}
  /\ MaxHandle \in Nat /\ MaxInputs \in Nat

VARIABLES
  handleOf,    \* session: handleOf[o], m_handles; 0 for an object that is not listed
  counter,     \* session: counter[h], the handle counter; 0 for a handle that is not listed
  nextHandle,  \* session: the next handle to give out
  used,        \* client: the handles of the objects somebody holds, m_objects
  releasing,   \* client: those of dropped objects that are kept, m_requestForRelease
  count,       \* client: count[h], m_handleCounter
  waiting,     \* client: the requests that have a callback, m_requestCallback
  dead,        \* client: the handles of objects that were told they are destroyed
  unread,      \* history: handles of objects in messages the client has not read
  toServer, toClient,  \* the messages on the wire
  inputs       \* number of requests and notifications so far

session == <<handleOf, counter, nextHandle>>
client == <<used, releasing, count, waiting, dead, unread>>
vars == <<handleOf, counter, nextHandle, used, releasing, count, waiting, dead, unread,
          toServer, toClient, inputs>>

Handle == 1 .. MaxHandle
NoHandle == 0
Request == 1 .. MaxInputs
NoRequest == 0

Gets == [what : {"get"}, object : Object, request : Request]
Releases == [what : {"release"}, handle : Handle, count : Nat]

(***************************************************************************)
(* A message to the client names its source, the object it is about, and   *)
(* may carry an object, which is described if it is new to the session:    *)
(*   "object"   the response to a request; it has no source                *)
(*   "event"    ObjectEventFired, InputMonitor..., BoardTileDataChanged    *)
(*   "changed"  ObjectPropertyChanged, ObjectAttributeChanged              *)
(*   "released", "destroyed"                                               *)
(***************************************************************************)
What == {"object", "event", "changed", "released", "destroyed"}

ToClient ==
  [what : What, request : Request \cup {NoRequest},
   source : Handle \cup {NoHandle}, sourceStamp : Nat,
   handle : Handle \cup {NoHandle}, stamp : Nat, described : BOOLEAN]

Listed(o) == handleOf[o] # NoHandle
Known == used \cup releasing
Input == inputs < MaxInputs /\ inputs' = inputs + 1

\* A message about the listed object h, which counts for h and carries no object.
About(what, h) ==
  [what |-> what, request |-> NoRequest, source |-> h, sourceStamp |-> counter[h] + 1,
   handle |-> NoHandle, stamp |-> 0, described |-> FALSE]

-----------------------------------------------------------------------------
(* Client: requests and the life of its objects *)

\* GetObject, ObjectGetObjectPropertyObject, a method that returns an object, ...
Ask(o) ==
  /\ Input
  /\ waiting' = waiting \cup {inputs'}
  /\ toServer' = Append(toServer, [what |-> "get", object |-> o, request |-> inputs'])
  /\ UNCHANGED <<used, releasing, count, dead, unread, toClient>> /\ UNCHANGED session

\* cancelRequest, by the destructor of the widget or object that asked.
Cancel(r) ==
  /\ r \in waiting
  /\ waiting' = waiting \ {r}
  /\ UNCHANGED <<used, releasing, count, dead, unread, toServer, toClient, inputs>>
  /\ UNCHANGED session

\* Faulty variant of Drop: the object is not kept until its release is granted.
DropsForGood(h) ==
  /\ h \in used
  /\ used' = used \ {h}
  /\ toServer' = Append(toServer, [what |-> "release", handle |-> h, count |-> count[h]])
  /\ UNCHANGED <<releasing, count, waiting, dead, unread, toClient, inputs>> /\ UNCHANGED session

\* The last one who holds the object lets it go.
Drop(h) ==
  /\ h \in used
  /\ used' = used \ {h}
  /\ releasing' = releasing \cup {h}
  /\ toServer' = Append(toServer, [what |-> "release", handle |-> h, count |-> count[h]])
  /\ UNCHANGED <<count, waiting, dead, unread, toClient, inputs>> /\ UNCHANGED session

-----------------------------------------------------------------------------
(* Server: Session *)

\* The handle object o is written under.
HandleFor(o) == IF Listed(o) THEN handleOf[o] ELSE nextHandle

\* Faulty variant of WriteObject: a handle counts when it is given out, not when it is named.
WriteObjectOnce(o, counted) ==
  /\ HandleFor(o) \in Handle
  /\ handleOf' = [handleOf EXCEPT ![o] = HandleFor(o)]
  /\ counter' = IF Listed(o) THEN counter ELSE [counter EXCEPT ![nextHandle] = 1]
  /\ nextHandle' = IF Listed(o) THEN nextHandle ELSE nextHandle + 1

\* writeObject: o is listed if it is not yet; the handles hs have counted for the message.
WriteObject(o, counted) ==
  /\ HandleFor(o) \in Handle
  /\ handleOf' = [handleOf EXCEPT ![o] = HandleFor(o)]
  /\ counter' = [h \in Handle |-> IF h \in counted THEN counter[h] + 1 ELSE counter[h]]
  /\ nextHandle' = IF Listed(o) THEN nextHandle ELSE nextHandle + 1

\* No object has the id that is asked for.
RefusesGet ==
  /\ toServer # <<>> /\ Head(toServer).what = "get"
  /\ ~Listed(Head(toServer).object)
  /\ toClient' = Append(toClient,
       [what |-> "object", request |-> Head(toServer).request, source |-> NoHandle,
        sourceStamp |-> 0, handle |-> NoHandle, stamp |-> 0, described |-> FALSE])
  /\ toServer' = Tail(toServer)
  /\ UNCHANGED inputs /\ UNCHANGED client /\ UNCHANGED session

AnswersGet ==
  /\ toServer # <<>> /\ Head(toServer).what = "get"
  /\ LET m == Head(toServer)
         h == HandleFor(m.object)
     IN  /\ WriteObject(m.object, {h})
         /\ toClient' = Append(toClient,
              [what |-> "object", request |-> m.request, source |-> NoHandle, sourceStamp |-> 0,
               handle |-> h, stamp |-> counter[h] + 1, described |-> ~Listed(m.object)])
  /\ toServer' = Tail(toServer)
  /\ UNCHANGED inputs /\ UNCHANGED client

\* The handle is taken out of the list.
Forget(h) ==
  /\ handleOf' = [o \in Object |-> IF handleOf[o] = h THEN NoHandle ELSE handleOf[o]]
  /\ counter' = [counter EXCEPT ![h] = 0]
  /\ UNCHANGED nextHandle

\* Faulty variant of ReceivesRelease: the counts are not compared.
ReleasesAlways ==
  /\ toServer # <<>> /\ Head(toServer).what = "release"
  /\ Forget(Head(toServer).handle)
  /\ toClient' = Append(toClient,
       [About("released", Head(toServer).handle) EXCEPT !.sourceStamp = 0])
  /\ toServer' = Tail(toServer)
  /\ UNCHANGED inputs /\ UNCHANGED client

\* Faulty variant of ReceivesRelease: the client is not told.
ReleasesSilently ==
  /\ toServer # <<>> /\ Head(toServer).what = "release"
  /\ LET m == Head(toServer)
     IN  IF m.count = counter[m.handle]
           THEN Forget(m.handle) ELSE UNCHANGED session
  /\ toServer' = Tail(toServer)
  /\ UNCHANGED <<toClient, inputs>> /\ UNCHANGED client

ReceivesRelease ==
  /\ toServer # <<>> /\ Head(toServer).what = "release"
  /\ LET m == Head(toServer)
     IN  IF m.count = counter[m.handle]
           THEN /\ Forget(m.handle)
                /\ toClient' = Append(toClient,
                     [About("released", m.handle) EXCEPT !.sourceStamp = 0])
           ELSE UNCHANGED toClient /\ UNCHANGED session
  /\ toServer' = Tail(toServer)
  /\ UNCHANGED inputs /\ UNCHANGED client

\* A property, an attribute or an input changes, or an event is fired.
Notify(o, what) ==
  /\ Input /\ Listed(o)
  /\ counter' = [counter EXCEPT ![handleOf[o]] = @ + 1]
  /\ toClient' = Append(toClient, About(what, handleOf[o]))
  /\ UNCHANGED <<handleOf, nextHandle, toServer>> /\ UNCHANGED client

\* boardTileDataChanged, with an active tile t.
TileChanged(b, t) ==
  /\ Input /\ Listed(b)
  /\ LET h == HandleFor(t)
     IN  /\ WriteObject(t, {handleOf[b], h})
         /\ toClient' = Append(toClient,
              [About("event", handleOf[b]) EXCEPT
                 !.handle = h, !.stamp = counter[h] + 1, !.described = ~Listed(t)])
  /\ UNCHANGED toServer /\ UNCHANGED client

\* objectDestroying; later another object may have the same id.
Destroy(o) ==
  /\ Input /\ Listed(o)
  /\ Forget(handleOf[o])
  /\ toClient' = Append(toClient, [About("destroyed", handleOf[o]) EXCEPT !.sourceStamp = 0])
  /\ UNCHANGED toServer /\ UNCHANGED client

-----------------------------------------------------------------------------
(* Client: Connection::processMessage *)

\* A message that carries an object is read up to it.
ReadsObject(m) ==
  m.handle # NoHandle /\ (m.request \in waiting \/ m.source \in used)

\* The handles that count for message m: its source if it is held, and its object.
CountedIn(m) ==
  {h \in Handle : \/ m.what = "event" /\ h = m.source /\ h \in used
                  \/ ReadsObject(m) /\ h = m.handle}

\* Faulty variant of ReadsMessage: an object that is used again is still to be released.
ReadsAndKeeps ==
  /\ toClient # <<>> /\ Head(toClient).what \in {"object", "event"}
  /\ LET m == Head(toClient)
     IN  /\ count' = [h \in Handle |->
                        IF h \notin CountedIn(m) THEN count[h]
                        ELSE IF h \in Known THEN count[h] + 1 ELSE 1]
         /\ used' = IF ReadsObject(m) THEN used \cup {m.handle} ELSE used
         /\ waiting' = waiting \ {m.request}
         /\ unread' = IF m.handle # NoHandle /\ ~ReadsObject(m) THEN unread \cup {m.handle}
                                                               ELSE unread
  /\ toClient' = Tail(toClient)
  /\ UNCHANGED <<releasing, dead, toServer, inputs>> /\ UNCHANGED session

\* Responses and events: an object that is held or kept for release is used again.
ReadsMessage ==
  /\ toClient # <<>> /\ Head(toClient).what \in {"object", "event"}
  /\ LET m == Head(toClient)
     IN  /\ count' = [h \in Handle |->
                        IF h \notin CountedIn(m) THEN count[h]
                        ELSE IF h \in Known THEN count[h] + 1 ELSE 1]
         /\ used' = IF ReadsObject(m) THEN used \cup {m.handle} ELSE used
         /\ releasing' = IF ReadsObject(m) THEN releasing \ {m.handle} ELSE releasing
         /\ waiting' = waiting \ {m.request}
         /\ unread' = IF m.handle # NoHandle /\ ~ReadsObject(m) THEN unread \cup {m.handle}
                                                               ELSE unread
  /\ toClient' = Tail(toClient)
  /\ UNCHANGED <<dead, toServer, inputs>> /\ UNCHANGED session

\* Nothing is counted for a change.
ReadsChange ==
  /\ toClient # <<>> /\ Head(toClient).what = "changed"
  /\ toClient' = Tail(toClient)
  /\ UNCHANGED <<toServer, inputs>> /\ UNCHANGED client /\ UNCHANGED session

ReadsReleased ==
  /\ toClient # <<>> /\ Head(toClient).what = "released"
  /\ LET h == Head(toClient).source
     IN  /\ count' = [count EXCEPT ![h] = 0]
         /\ releasing' = releasing \ {h}
  /\ toClient' = Tail(toClient)
  /\ UNCHANGED <<used, waiting, dead, unread, toServer, inputs>> /\ UNCHANGED session

ReadsDestroyed ==
  /\ toClient # <<>> /\ Head(toClient).what = "destroyed"
  /\ dead' = dead \cup ({Head(toClient).source} \cap used)
  /\ toClient' = Tail(toClient)
  /\ UNCHANGED <<used, releasing, count, waiting, unread, toServer, inputs>> /\ UNCHANGED session

-----------------------------------------------------------------------------
Init ==
  /\ handleOf = [o \in Object |-> NoHandle]
  /\ counter = [h \in Handle |-> 0]
  /\ nextHandle = 1
  /\ used = {} /\ releasing = {} /\ waiting = {} /\ dead = {} /\ unread = {}
  /\ count = [h \in Handle |-> 0]
  /\ toServer = <<>> /\ toClient = <<>>
  /\ inputs = 0

ClientActs ==
  \/ \E o \in Object : Ask(o)
  \/ \E r \in Request : Cancel(r)
  \/ \E h \in Handle : Drop(h)

ServerActs ==
  \/ \E o \in Object, what \in {"changed", "event"} : Notify(o, what)
  \/ \E b \in Boards, t \in Tile : TileChanged(b, t)
  \/ \E o \in Object : Destroy(o)

ServerReads == RefusesGet \/ AnswersGet \/ ReceivesRelease
ClientReads == ReadsMessage \/ ReadsChange \/ ReadsReleased \/ ReadsDestroyed

Next == ClientActs \/ ServerActs \/ ServerReads \/ ClientReads

\* Both event loops go on reading what has arrived.
Fairness == WF_vars(ServerReads) /\ WF_vars(ClientReads)

Spec == Init /\ [][Next]_vars
FairSpec == Spec /\ Fairness

-----------------------------------------------------------------------------
(* Properties *)

\* Every variable has its type; an object is not both held and to be released.
TypeOK ==
  /\ handleOf \in [Object -> Handle \cup {NoHandle}]
  /\ counter \in [Handle -> Nat]
  /\ nextHandle \in 1 .. MaxHandle + 1
  /\ used \subseteq Handle /\ releasing \subseteq Handle /\ used \cap releasing = {}
  /\ dead \subseteq Handle /\ unread \subseteq Handle
  /\ count \in [Handle -> Nat]
  /\ waiting \subseteq Request
  /\ toServer \in Seq(Gets \cup Releases)
  /\ toClient \in Seq(ToClient)
  /\ inputs \in 0 .. MaxInputs

(***************************************************************************)
(* "client counter value must match server counter value, to make sure no  *)
(* handles are on the wire" (Session, ReleaseObject): once a release is    *)
(* granted the client does not hold the object, whatever requests and      *)
(* events were under way, and no other message names its handle.           *)
(***************************************************************************)
ReleaseIsFinal ==
  \A i \in DOMAIN toClient : toClient[i].what = "released" =>
    /\ toClient[i].source \notin used
    /\ \A j \in DOMAIN toClient \ {i} :
         toClient[i].source \notin {toClient[j].source, toClient[j].handle}

\* A message of this kind about h is on its way to the client.
OnWire(what, h) == \E i \in DOMAIN toClient : toClient[i].what = what /\ toClient[i].source = h

(***************************************************************************)
(* An object that a client holds, and was not told is destroyed, is listed *)
(* by the session under its handle: what the client asks of it arrives.    *)
(***************************************************************************)
HeldIsListed ==
  \A h \in used \ dead :
    \/ \E o \in Object : handleOf[o] = h
    \/ OnWire("destroyed", h)

(***************************************************************************)
(* The client never has to make an object of a handle only, as long as it  *)
(* has read every message that carried that object.                        *)
(***************************************************************************)
NamedIsDescribed ==
  \A i \in DOMAIN toClient :
    LET h == toClient[i].handle
    IN  h = NoHandle \/ toClient[i].described \/ h \in Known \cup unread
        \/ \E j \in 1 .. i - 1 : toClient[j].handle = h /\ toClient[j].described

(***************************************************************************)
(* A dropped object whose counts agree gets its release, or is used again, *)
(* unless the session sends another message that counts for it or that it  *)
(* is destroyed.  This is about requests with equal counts only: one that  *)
(* the session refuses is not repeated.                                    *)
(***************************************************************************)
ReleaseIsHonoured ==
  \A h \in Handle :
    h \in releasing /\ count[h] = counter[h]
      ~> h \notin releasing \/ counter[h] > count[h] \/ OnWire("destroyed", h)
=============================================================================
