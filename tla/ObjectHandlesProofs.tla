------------------------ MODULE ObjectHandlesProofs ------------------------
(***************************************************************************)
(* Why a granted release is final.  The messages that count for a handle   *)
(* reach the client in the order of their stamps, and each is above what   *)
(* the client has counted and at most what the session has.  A client that *)
(* asks for the release of h with the count of the session has therefore   *)
(* read every message about h, and used none of them since.                *)
(***************************************************************************)
EXTENDS ObjectHandles, SequenceTheorems, TLAPS

\* Message m counts for h, under stamp s.
Counts(m, h, s) ==
  \/ m.what \in {"event", "changed"} /\ m.source = h /\ m.sourceStamp = s
  \/ m.handle = h /\ m.stamp = s

\* What a message of each kind has.
Shaped ==
  \A i \in DOMAIN toClient :
    /\ toClient[i].what = "object" <=> toClient[i].source = NoHandle
    /\ toClient[i].handle # NoHandle => toClient[i].what \in {"object", "event"}

\* The session lists an object under one handle, which has a count.
Listing ==
  /\ \A o \in Object : Listed(o) => handleOf[o] < nextHandle /\ counter[handleOf[o]] > 0
  /\ \A o, p \in Object : Listed(o) /\ handleOf[o] = handleOf[p] => o = p
  /\ \A h \in Handle : counter[h] > 0 => \E o \in Object : handleOf[o] = h

\* The client counts no more than the session, and every object it knows.
Counting ==
  /\ \A h \in Handle : counter[h] > 0 => count[h] <= counter[h]
  /\ \A h \in Known : count[h] > 0
  /\ \A h \in Handle : count[h] > 0 => h < nextHandle

\* Messages under way have not been counted by the client, and were by the session.
Stamped ==
  \A i \in DOMAIN toClient, h \in Handle, s \in Nat : Counts(toClient[i], h, s) =>
    /\ count[h] < s
    /\ counter[h] > 0 => s <= counter[h]
    /\ h < nextHandle
    /\ counter[h] > 0
       \/ \E j \in DOMAIN toClient :
            j > i /\ toClient[j].what = "destroyed" /\ toClient[j].source = h

\* The messages about a handle are in the order of their stamps.
Ordered ==
  \A i, j \in DOMAIN toClient, h \in Handle, s, t \in Nat :
    i < j /\ Counts(toClient[i], h, s) /\ Counts(toClient[j], h, t) => s < t

\* A request for release with the present count is of an object that is not held.
RequestIsTrue(m) ==
  m.what = "release" =>
    /\ m.count > 0 /\ m.handle < nextHandle
    /\ counter[m.handle] > 0 =>
         /\ m.handle \in Known /\ m.count <= count[m.handle]
         /\ m.count = count[m.handle] => m.handle \notin used

Requested == \A i \in DOMAIN toServer : RequestIsTrue(toServer[i])

\* A handle that was released or destroyed is not listed.
Ended ==
  \A i \in DOMAIN toClient : toClient[i].what \in {"released", "destroyed"} =>
    counter[toClient[i].source] = 0 /\ toClient[i].source < nextHandle

\* A listed object has been described to the client.
Described ==
  \A h \in Handle : counter[h] > 0 =>
    \/ h \in Known \cup unread
    \/ \E i \in DOMAIN toClient : toClient[i].handle = h /\ toClient[i].described

HeldHasCount == \A h \in used \ dead : counter[h] > 0 \/ OnWire("destroyed", h)

IInv ==
  /\ TypeOK /\ Shaped /\ Listing /\ Counting /\ Stamped /\ Ordered /\ Requested /\ Ended
  /\ Described /\ HeldHasCount /\ ReleaseIsFinal /\ NamedIsDescribed
-----------------------------------------------------------------------------
(* Positions in a channel *)

LEMMA Appended ==
  ASSUME NEW S, NEW q \in Seq(S), NEW m \in S
  PROVE  /\ Append(q, m) \in Seq(S)
         /\ Len(q) \in Nat
         /\ DOMAIN q = 1 .. Len(q)
         /\ DOMAIN Append(q, m) = 1 .. Len(q) + 1
         /\ \A i \in 1 .. Len(q) : Append(q, m)[i] = q[i]
         /\ Append(q, m)[Len(q) + 1] = m
<1>1. Len(q) \in Nat /\ DOMAIN q = 1 .. Len(q)
  BY LenProperties
<1>2. /\ Append(q, m) \in Seq(S) /\ Len(Append(q, m)) = Len(q) + 1
      /\ \A i \in 1 .. Len(q) : Append(q, m)[i] = q[i]
      /\ Append(q, m)[Len(q) + 1] = m
  BY AppendProperties
<1>3. DOMAIN Append(q, m) = 1 .. Len(Append(q, m))
  BY <1>2, LenProperties
<1> QED
  BY <1>1, <1>2, <1>3

LEMMA Shortened ==
  ASSUME NEW S, NEW q \in Seq(S), q # <<>>
  PROVE  /\ Tail(q) \in Seq(S)
         /\ Len(q) \in Nat /\ Len(q) >= 1
         /\ DOMAIN q = 1 .. Len(q)
         /\ DOMAIN Tail(q) = 1 .. Len(q) - 1
         /\ \A i \in 1 .. Len(q) - 1 : Tail(q)[i] = q[i + 1]
         /\ Head(q) = q[1] /\ Head(q) \in S
<1>1. Len(q) \in Nat /\ Len(q) # 0 /\ DOMAIN q = 1 .. Len(q)
  BY LenProperties, EmptySeq
<1>2. 1 \in 1 .. Len(q)
  BY <1>1
<1>3. q[1] \in S
  BY <1>2, ElementOfSeq
<1>4. /\ Head(q) = q[1] /\ Tail(q) \in Seq(S) /\ Len(Tail(q)) = Len(q) - 1
      /\ \A i \in 1 .. Len(Tail(q)) : Tail(q)[i] = q[i + 1]
  BY HeadTailProperties
<1>5. DOMAIN Tail(q) = 1 .. Len(Tail(q))
  BY <1>4, LenProperties
<1> QED
  BY <1>1, <1>3, <1>4, <1>5

\* What the type of a channel says of the message at a position.
LEMMA MessageFields ==
  ASSUME NEW q \in Seq(ToClient), NEW i \in DOMAIN q
  PROVE  /\ q[i].what \in What
         /\ q[i].source \in Handle \cup {NoHandle} /\ q[i].sourceStamp \in Nat
         /\ q[i].handle \in Handle \cup {NoHandle} /\ q[i].stamp \in Nat
         /\ q[i].described \in BOOLEAN
<1>1. i \in 1 .. Len(q)
  BY LenProperties
<1>2. q[i] \in ToClient
  BY <1>1, ElementOfSeq
<1> QED
  BY <1>2 DEF ToClient

-----------------------------------------------------------------------------
(* The session sends a message that counts *)

(***************************************************************************)
(* Every message the session sends while it lists its object, except       *)
(* "released" and "destroyed", keeps what holds of the messages under way. *)
(***************************************************************************)
LEMMA SendKeeps ==
  ASSUME IInv, NEW m \in ToClient,
         toClient' = Append(toClient, m), UNCHANGED client,
         counter' \in [Handle -> Nat], nextHandle' \in Nat, nextHandle <= nextHandle',
         m.what \in {"object", "event", "changed"},
         m.what = "object" <=> m.source = NoHandle,
         m.handle # NoHandle => m.what \in {"object", "event"},
         \A h \in Handle : counter[h] > 0 => counter[h] <= counter'[h],
         \A h \in Handle : counter[h] = 0 /\ counter'[h] > 0 =>
           h >= nextHandle /\ m.handle = h /\ m.described,
         \A h \in Handle, s \in Nat : Counts(m, h, s) =>
           /\ counter'[h] = counter[h] + 1 /\ s = counter[h] + 1
           /\ h < nextHandle' /\ (counter[h] > 0 \/ h >= nextHandle),
         m.handle # NoHandle /\ ~m.described => counter[m.handle] > 0
  PROVE  /\ Shaped' /\ Counting' /\ Stamped' /\ Ordered' /\ Ended'
         /\ Described' /\ HeldHasCount' /\ ReleaseIsFinal' /\ NamedIsDescribed'
<1> DEFINE q == toClient
           r == toClient'
           n == Len(q)
<1>q. q \in Seq(ToClient)
  BY DEF IInv, TypeOK
<1>r. /\ r \in Seq(ToClient) /\ n \in Nat /\ DOMAIN q = 1 .. n /\ DOMAIN r = 1 .. n + 1
      /\ \A i \in 1 .. n : r[i] = q[i]
      /\ r[n + 1] = m
  BY <1>q, Appended
<1>f. \A i \in 1 .. n :
        /\ q[i].what \in What
        /\ q[i].source \in Handle \cup {NoHandle} /\ q[i].sourceStamp \in Nat
        /\ q[i].handle \in Handle \cup {NoHandle} /\ q[i].stamp \in Nat
  BY <1>q, <1>r, MessageFields
<1>m. /\ m.source \in Handle \cup {NoHandle} /\ m.sourceStamp \in Nat
      /\ m.handle \in Handle \cup {NoHandle} /\ m.stamp \in Nat
  BY DEF ToClient
<1>t. /\ counter \in [Handle -> Nat] /\ count \in [Handle -> Nat] /\ nextHandle \in Nat
      /\ Handle \subseteq Nat /\ NoHandle \notin Handle
      /\ used \subseteq Handle /\ releasing \subseteq Handle
  BY DEF IInv, TypeOK, Handle, NoHandle
<1>u. /\ used' = used /\ releasing' = releasing /\ count' = count
      /\ dead' = dead /\ unread' = unread
  BY DEF client
<1>g. \A h \in Handle :
        /\ h \in Nat /\ counter[h] \in Nat /\ counter'[h] \in Nat /\ count[h] \in Nat
        /\ h < nextHandle => h < nextHandle'
        /\ h < nextHandle /\ counter[h] = 0 => counter'[h] = 0
        /\ counter[h] > 0 => counter'[h] > 0
  <2> TAKE h \in Handle
  <2>1. h \in Nat /\ counter[h] \in Nat /\ counter'[h] \in Nat /\ count[h] \in Nat
    BY <1>t
  <2>2. counter[h] = 0 /\ counter'[h] > 0 => h >= nextHandle
    OBVIOUS
  <2> QED
    BY <1>t, <2>1, <2>2
<1>l. \A i \in 1 .. n + 1 : i \in 1 .. n \/ i = n + 1
  BY <1>r
<1> HIDE DEF q, r, n
<1>1. Shaped'
  <2>1. \A i \in 1 .. n : /\ q[i].what = "object" <=> q[i].source = NoHandle
                          /\ q[i].handle # NoHandle => q[i].what \in {"object", "event"}
    BY <1>r DEF IInv, Shaped, q
  <2>2. \A i \in 1 .. n + 1 : /\ r[i].what = "object" <=> r[i].source = NoHandle
                              /\ r[i].handle # NoHandle => r[i].what \in {"object", "event"}
    BY <1>l, <1>r, <2>1
  <2> QED
    BY <1>r, <2>2 DEF Shaped, r, NoHandle
<1>2. Counting'
  <2>1. \A h \in Handle : counter[h] = 0 /\ counter'[h] > 0 => count[h] = 0
    BY <1>t DEF IInv, Counting
  <2>2. \A h \in Handle : counter'[h] > 0 => count[h] <= counter'[h]
    BY <1>t, <2>1 DEF IInv, Counting
  <2>3. \A h \in Handle : count[h] > 0 => h < nextHandle'
    BY <1>t DEF IInv, Counting
  <2> QED
    BY <1>u, <2>2, <2>3 DEF IInv, Counting, Known, Handle
<1>s. \A i \in 1 .. n, h \in Handle, s \in Nat : Counts(q[i], h, s) =>
        /\ count[h] < s /\ h < nextHandle
        /\ counter[h] > 0 => s <= counter[h]
        /\ counter[h] > 0
           \/ \E j \in 1 .. n : j > i /\ q[j].what = "destroyed" /\ q[j].source = h
  BY <1>r DEF IInv, Stamped, q
<1>3. Stamped'
  <2>1. ASSUME NEW i \in 1 .. n, NEW h \in Handle, NEW s \in Nat, Counts(q[i], h, s)
        PROVE  /\ count[h] < s /\ h < nextHandle'
               /\ counter'[h] > 0 => s <= counter'[h]
               /\ counter'[h] > 0
                  \/ \E j \in 1 .. n + 1 : j > i /\ r[j].what = "destroyed" /\ r[j].source = h
    <3>1. count[h] < s /\ h < nextHandle'
      BY <1>s, <1>g, <2>1
    <3>2. CASE counter[h] > 0
      <4>1. s <= counter[h] /\ counter[h] <= counter'[h]
        BY <1>s, <2>1, <3>2
      <4> QED
        BY <1>g, <3>1, <3>2, <4>1
    <3>3. CASE counter[h] = 0
      <4>1. counter'[h] = 0
        BY <1>s, <1>g, <2>1, <3>3
      <4>2. PICK j \in 1 .. n : j > i /\ q[j].what = "destroyed" /\ q[j].source = h
        BY <1>s, <1>g, <2>1, <3>3
      <4>3. j \in 1 .. n + 1 /\ r[j] = q[j]
        BY <1>r
      <4> QED
        BY <3>1, <4>1, <4>2, <4>3
    <3> QED
      BY <1>g, <3>2, <3>3
  <2>2. ASSUME NEW h \in Handle, NEW s \in Nat, Counts(m, h, s)
        PROVE  /\ count[h] < s /\ h < nextHandle'
               /\ counter'[h] > 0 => s <= counter'[h]
               /\ counter'[h] > 0
    <3>1. s = counter[h] + 1 /\ counter'[h] = counter[h] + 1 /\ h < nextHandle'
      BY <2>2
    <3>2. count[h] <= counter[h]
      BY <1>t, <2>2 DEF IInv, Counting
    <3> QED
      BY <1>t, <3>1, <3>2
  <2>3. \A i \in 1 .. n + 1, h \in Handle, s \in Nat : Counts(r[i], h, s) =>
          /\ count[h] < s
          /\ counter'[h] > 0 => s <= counter'[h]
          /\ h < nextHandle'
          /\ counter'[h] > 0
             \/ \E j \in 1 .. n + 1 : j > i /\ r[j].what = "destroyed" /\ r[j].source = h
    <3> TAKE i \in 1 .. n + 1, h \in Handle, s \in Nat
    <3>1. CASE i \in 1 .. n
      <4>1. r[i] = q[i]
        BY <1>r, <3>1
      <4> QED
        BY <2>1, <3>1, <4>1
    <3>2. CASE i = n + 1
      <4>1. r[i] = m
        BY <1>r, <3>2
      <4> QED
        BY <2>2, <4>1
    <3> QED
      BY <1>l, <3>1, <3>2
  <2>4. \A i \in DOMAIN r, h \in Handle, s \in Nat : Counts(r[i], h, s) =>
          /\ count[h] < s
          /\ counter'[h] > 0 => s <= counter'[h]
          /\ h < nextHandle'
          /\ counter'[h] > 0
             \/ \E j \in DOMAIN r : j > i /\ r[j].what = "destroyed" /\ r[j].source = h
    <3>1. DOMAIN r = 1 .. n + 1
      BY <1>r
    <3> TAKE i \in DOMAIN r, h \in Handle, s \in Nat
    <3> HAVE Counts(r[i], h, s)
    <3>2. /\ count[h] < s
          /\ counter'[h] > 0 => s <= counter'[h]
          /\ h < nextHandle'
          /\ counter'[h] > 0
             \/ \E j \in 1 .. n + 1 : j > i /\ r[j].what = "destroyed" /\ r[j].source = h
      BY <2>3, <3>1
    <3> QED
      BY <3>1, <3>2
  <2>5. \A i \in DOMAIN r, h \in Handle, s \in Nat : Counts(r[i], h, s) =>
          /\ count'[h] < s
          /\ counter'[h] > 0 => s <= counter'[h]
          /\ h < nextHandle'
          /\ counter'[h] > 0
             \/ \E j \in DOMAIN r : j > i /\ r[j].what = "destroyed" /\ r[j].source = h
    BY <1>u, <2>4
  <2> QED
    BY <2>5 DEF Stamped, Counts, r, Handle
<1>4. Ordered'
  <2>1. \A i, j \in 1 .. n, h \in Handle, s, t \in Nat :
          i < j /\ Counts(q[i], h, s) /\ Counts(q[j], h, t) => s < t
    BY <1>r DEF IInv, Ordered, q
  <2>2. \A i \in 1 .. n, h \in Handle, s, t \in Nat :
          Counts(q[i], h, s) /\ Counts(m, h, t) => s < t
    <3> TAKE i \in 1 .. n, h \in Handle, s, t \in Nat
    <3> HAVE Counts(q[i], h, s) /\ Counts(m, h, t)
    <3>1. h < nextHandle /\ (counter[h] > 0 => s <= counter[h])
      BY <1>s
    <3>2. t = counter[h] + 1 /\ (counter[h] > 0 \/ h >= nextHandle)
      OBVIOUS
    <3> QED
      BY <1>t, <3>1, <3>2
  <2>3. \A i, j \in 1 .. n + 1, h \in Handle, s, t \in Nat :
          i < j /\ Counts(r[i], h, s) /\ Counts(r[j], h, t) => s < t
    <3> TAKE i, j \in 1 .. n + 1, h \in Handle, s, t \in Nat
    <3> HAVE i < j /\ Counts(r[i], h, s) /\ Counts(r[j], h, t)
    <3>1. i \in 1 .. n /\ r[i] = q[i]
      BY <1>r
    <3>2. CASE j \in 1 .. n
      <4>1. r[j] = q[j]
        BY <1>r, <3>2
      <4> QED
        BY <2>1, <3>1, <3>2, <4>1
    <3>3. CASE j = n + 1
      <4>1. r[j] = m
        BY <1>r, <3>3
      <4> QED
        BY <2>2, <3>1, <4>1
    <3> QED
      BY <1>l, <3>2, <3>3
  <2> QED
    BY <1>r, <2>3 DEF Ordered, Counts, r, Handle
<1>e. \A i \in 1 .. n : q[i].what \in {"released", "destroyed"} =>
        /\ q[i].source \in Handle /\ counter[q[i].source] = 0 /\ q[i].source < nextHandle
  BY <1>f, <1>r DEF IInv, Ended, Shaped, q
<1>5. Ended'
  <2>1. \A i \in 1 .. n : q[i].what \in {"released", "destroyed"} =>
          counter'[q[i].source] = 0 /\ q[i].source < nextHandle'
    BY <1>e, <1>g
  <2>2. \A i \in 1 .. n + 1 : r[i].what \in {"released", "destroyed"} =>
          counter'[r[i].source] = 0 /\ r[i].source < nextHandle'
    BY <1>l, <1>r, <2>1
  <2> QED
    BY <1>r, <2>2 DEF Ended, r
<1>6. Described'
  <2> SUFFICES ASSUME NEW h \in Handle, counter'[h] > 0
               PROVE  \/ h \in used \cup releasing \cup unread
                      \/ \E i \in 1 .. n + 1 : r[i].handle = h /\ r[i].described
    BY <1>r, <1>u DEF Described, Known, r, Handle
  <2>1. CASE counter[h] = 0
    <3>1. r[n + 1].handle = h /\ r[n + 1].described /\ n + 1 \in 1 .. n + 1
      BY <1>r, <2>1
    <3> QED
      BY <3>1
  <2>2. CASE counter[h] > 0
    <3>1. \/ h \in used \cup releasing \cup unread
          \/ \E i \in 1 .. n : q[i].handle = h /\ q[i].described
      BY <1>r, <2>2 DEF IInv, Described, Known, q
    <3> QED
      BY <1>r, <3>1
  <2> QED
    BY <1>t, <2>1, <2>2
<1>7. HeldHasCount'
  <2> SUFFICES ASSUME NEW h \in used \ dead
               PROVE  counter'[h] > 0 \/ \E i \in 1 .. n + 1 : r[i].what = "destroyed" /\ r[i].source = h
    BY <1>r, <1>u DEF HeldHasCount, OnWire, r
  <2>1. \/ counter[h] > 0
        \/ \E i \in 1 .. n : q[i].what = "destroyed" /\ q[i].source = h
    BY <1>r DEF IInv, HeldHasCount, OnWire, q
  <2>2. \A i \in 1 .. n : i \in 1 .. n + 1 /\ r[i] = q[i]
    BY <1>r
  <2>3. CASE counter[h] > 0
    BY <1>g, <1>t, <2>3
  <2> QED
    BY <2>1, <2>2, <2>3
<1>8. ReleaseIsFinal'
  <2> SUFFICES ASSUME NEW i \in 1 .. n + 1, r[i].what = "released"
               PROVE  /\ r[i].source \notin used
                      /\ \A j \in 1 .. n + 1 : j # i => r[i].source # r[j].source /\ r[i].source # r[j].handle
    BY <1>r, <1>u DEF ReleaseIsFinal, r
  <2>1. i \in 1 .. n /\ r[i] = q[i]
    BY <1>l, <1>r
  <2> DEFINE h == q[i].source
  <2>2. h \in Handle /\ counter[h] = 0 /\ h < nextHandle
    BY <1>e, <2>1
  <2>3. /\ h \notin used
        /\ \A j \in 1 .. n : j # i => h # q[j].source /\ h # q[j].handle
    BY <1>r, <2>1 DEF IInv, ReleaseIsFinal, q
  <2>4. ~Counts(m, h, m.sourceStamp) /\ ~Counts(m, h, m.stamp)
    <3> HIDE DEF h
    <3>1. ~(counter[h] > 0) /\ ~(h >= nextHandle)
      BY <1>g, <1>t, <2>2
    <3> QED
      BY <1>m, <2>2, <3>1
  <2>5. h # m.source /\ h # m.handle
    BY <1>t, <2>2, <2>4 DEF Counts
  <2>6. ASSUME NEW j \in 1 .. n + 1, j # i
        PROVE  h # r[j].source /\ h # r[j].handle
    BY <1>l, <1>r, <2>3, <2>5, <2>6
  <2> QED
    BY <2>1, <2>3, <2>6
<1>9. NamedIsDescribed'
  <2> SUFFICES ASSUME NEW i \in 1 .. n + 1, r[i].handle # NoHandle, ~r[i].described,
                      r[i].handle \notin used \cup releasing \cup unread
               PROVE  \E j \in 1 .. i - 1 : r[j].handle = r[i].handle /\ r[j].described
    BY <1>r, <1>u DEF NamedIsDescribed, Known, r, NoHandle
  <2>1. CASE i \in 1 .. n
    <3>1. r[i] = q[i]
      BY <1>r, <2>1
    <3>2. \E j \in 1 .. i - 1 : q[j].handle = q[i].handle /\ q[j].described
      BY <1>r, <2>1, <3>1 DEF IInv, NamedIsDescribed, Known, q
    <3>3. \A j \in 1 .. i - 1 : r[j] = q[j]
      BY <1>r, <2>1
    <3> QED
      BY <3>1, <3>2, <3>3
  <2>2. CASE i = n + 1
    <3>1. r[i] = m
      BY <1>r, <2>2
    <3>2. m.handle \in Handle /\ counter[m.handle] > 0
      BY <1>m, <3>1
    <3>3. \E j \in 1 .. n : q[j].handle = m.handle /\ q[j].described
      BY <1>r, <3>1, <3>2 DEF IInv, Described, Known, q
    <3>4. 1 .. i - 1 = 1 .. n
      BY <1>r, <2>2
    <3> QED
      BY <1>r, <3>1, <3>3, <3>4
  <2> QED
    BY <1>l, <2>1, <2>2
<1> QED
  BY <1>1, <1>2, <1>3, <1>4, <1>5, <1>6, <1>7, <1>8, <1>9

-----------------------------------------------------------------------------
(* The session forgets a handle *)

LEMMA EndKeeps ==
  ASSUME IInv, NEW m \in ToClient, NEW g \in Handle,
         toClient' = Append(toClient, m), UNCHANGED client,
         Forget(g), counter[g] > 0,
         m.what \in {"released", "destroyed"}, m.source = g, m.handle = NoHandle,
         m.what = "released" => g \notin used /\ counter[g] <= count[g]
  PROVE  /\ Shaped' /\ Listing' /\ Counting' /\ Stamped' /\ Ordered' /\ Ended'
         /\ Described' /\ HeldHasCount' /\ ReleaseIsFinal' /\ NamedIsDescribed'
<1> DEFINE q == toClient
           r == toClient'
           n == Len(q)
<1>q. q \in Seq(ToClient)
  BY DEF IInv, TypeOK
<1>r. /\ r \in Seq(ToClient) /\ n \in Nat /\ DOMAIN q = 1 .. n /\ DOMAIN r = 1 .. n + 1
      /\ \A i \in 1 .. n : r[i] = q[i]
      /\ r[n + 1] = m
  BY <1>q, Appended
<1>f. \A i \in 1 .. n :
        /\ q[i].what \in What
        /\ q[i].source \in Handle \cup {NoHandle} /\ q[i].sourceStamp \in Nat
        /\ q[i].handle \in Handle \cup {NoHandle} /\ q[i].stamp \in Nat
  BY <1>q, <1>r, MessageFields
<1>t. /\ handleOf \in [Object -> Handle \cup {NoHandle}]
      /\ counter \in [Handle -> Nat] /\ count \in [Handle -> Nat] /\ nextHandle \in Nat
      /\ Handle \subseteq Nat /\ NoHandle \notin Handle
      /\ used \subseteq Handle /\ releasing \subseteq Handle
  BY DEF IInv, TypeOK, Handle, NoHandle
<1>u. /\ used' = used /\ releasing' = releasing /\ count' = count
      /\ dead' = dead /\ unread' = unread
  BY DEF client
<1>c. /\ nextHandle' = nextHandle
      /\ counter' \in [Handle -> Nat] /\ counter'[g] = 0
      /\ \A h \in Handle : h # g => counter'[h] = counter[h]
      /\ \A o \in Object : handleOf'[o] = IF handleOf[o] = g THEN NoHandle ELSE handleOf[o]
  BY <1>t DEF Forget
<1>n. g < nextHandle /\ g # NoHandle
  <2>1. PICK o \in Object : handleOf[o] = g
    BY DEF IInv, Listing
  <2> QED
    BY <1>t, <2>1 DEF IInv, Listing, Listed
<1>l. \A i \in 1 .. n + 1 : i \in 1 .. n \/ i = n + 1
  BY <1>r
<1>m. \A h \in Handle, s \in Nat : ~Counts(m, h, s)
  BY <1>t DEF Counts
<1>k. \A h \in Handle : counter'[h] > 0 => h # g /\ counter[h] > 0
  BY <1>c
<1> HIDE DEF q, r, n
<1>s. \A i \in 1 .. n, h \in Handle, s \in Nat : Counts(q[i], h, s) =>
        /\ count[h] < s /\ h < nextHandle
        /\ counter[h] > 0 => s <= counter[h]
        /\ counter[h] > 0
           \/ \E j \in 1 .. n : j > i /\ q[j].what = "destroyed" /\ q[j].source = h
  BY <1>r DEF IInv, Stamped, q
<1>e. \A i \in 1 .. n : q[i].what \in {"released", "destroyed"} =>
        /\ q[i].source \in Handle /\ counter[q[i].source] = 0 /\ q[i].source < nextHandle
  BY <1>f, <1>r DEF IInv, Ended, Shaped, q
<1>p. \A i \in 1 .. n : /\ q[i].what = "object" <=> q[i].source = NoHandle
                        /\ q[i].handle # NoHandle => q[i].what \in {"object", "event"}
  BY <1>r DEF IInv, Shaped, q
\* When the release is granted no message under way counts for g.
<1>w. ASSUME m.what = "released", NEW i \in 1 .. n, NEW s \in Nat PROVE ~Counts(q[i], g, s)
  <2>1. Counts(q[i], g, s) => count[g] < s /\ s <= counter[g]
    BY <1>s
  <2>2. counter[g] <= count[g] /\ counter[g] \in Nat /\ count[g] \in Nat
    BY <1>t, <1>w
  <2> QED
    BY <2>1, <2>2
<1>1. Shaped'
  <2>1. \A i \in 1 .. n + 1 : /\ r[i].what = "object" <=> r[i].source = NoHandle
                              /\ r[i].handle # NoHandle => r[i].what \in {"object", "event"}
    BY <1>l, <1>n, <1>p, <1>r
  <2> QED
    BY <1>r, <2>1 DEF Shaped, r, NoHandle
<1>2. Listing'
  <2>1. \A o \in Object : handleOf'[o] # NoHandle => handleOf'[o] = handleOf[o] /\ handleOf[o] # g
    BY <1>c
  <2>2. \A o \in Object : handleOf'[o] # NoHandle =>
          handleOf'[o] < nextHandle' /\ counter'[handleOf'[o]] > 0
    <3> TAKE o \in Object
    <3> HAVE handleOf'[o] # NoHandle
    <3>1. handleOf'[o] = handleOf[o] /\ handleOf[o] # g /\ handleOf[o] \in Handle
      BY <1>t, <2>1
    <3>2. handleOf[o] < nextHandle /\ counter[handleOf[o]] > 0
      BY <2>1 DEF IInv, Listing, Listed
    <3> QED
      BY <1>c, <3>1, <3>2
  <2>3. \A o, p \in Object : handleOf'[o] # NoHandle /\ handleOf'[o] = handleOf'[p] => o = p
    BY <2>1 DEF IInv, Listing, Listed
  <2>4. \A h \in Handle : counter'[h] > 0 => \E o \in Object : handleOf'[o] = h
    BY <1>c, <1>k DEF IInv, Listing
  <2> QED
    BY <2>2, <2>3, <2>4 DEF Listing, Listed, Handle, NoHandle
<1>3. Counting'
  <2>1. \A h \in Handle : counter'[h] > 0 => count[h] <= counter'[h]
    BY <1>c, <1>k DEF IInv, Counting
  <2> QED
    BY <1>c, <1>u, <2>1 DEF IInv, Counting, Known, Handle
<1>4. Stamped'
  <2>1. ASSUME NEW i \in 1 .. n, NEW h \in Handle, NEW s \in Nat, Counts(q[i], h, s)
        PROVE  /\ count[h] < s /\ h < nextHandle'
               /\ counter'[h] > 0 => s <= counter'[h]
               /\ counter'[h] > 0
                  \/ \E j \in 1 .. n + 1 : j > i /\ r[j].what = "destroyed" /\ r[j].source = h
    <3>1. count[h] < s /\ h < nextHandle'
      BY <1>c, <1>s, <2>1
    <3>2. CASE h = g
      <4>1. m.what = "destroyed"
        BY <1>w, <2>1, <3>2
      <4>2. n + 1 \in 1 .. n + 1 /\ n + 1 > i /\ r[n + 1] = m
        BY <1>r
      <4>3. ~(counter'[h] > 0)
        BY <1>c, <3>2
      <4> QED
        BY <3>1, <3>2, <4>1, <4>2, <4>3
    <3>3. CASE h # g
      <4>1. counter'[h] = counter[h]
        BY <1>c, <3>3
      <4>2. \A j \in 1 .. n : j \in 1 .. n + 1 /\ r[j] = q[j]
        BY <1>r
      <4> QED
        BY <1>s, <2>1, <3>1, <4>1, <4>2
    <3> QED
      BY <3>2, <3>3
  <2>2. ASSUME NEW i \in DOMAIN r, NEW h \in Handle, NEW s \in Nat, Counts(r[i], h, s)
        PROVE  /\ count'[h] < s
               /\ counter'[h] > 0 => s <= counter'[h]
               /\ h < nextHandle'
               /\ counter'[h] > 0
                  \/ \E j \in DOMAIN r : j > i /\ r[j].what = "destroyed" /\ r[j].source = h
    <3>1. DOMAIN r = 1 .. n + 1
      BY <1>r
    <3>2. i # n + 1
      BY <1>m, <1>r, <2>2
    <3>3. i \in 1 .. n /\ r[i] = q[i]
      BY <1>l, <1>r, <3>1, <3>2
    <3> QED
      BY <1>u, <2>1, <2>2, <3>1, <3>3
  <2> QED
    BY <2>2 DEF Stamped, Counts, r, Handle
<1>5. Ordered'
  <2>1. \A i, j \in 1 .. n, h \in Handle, s, t \in Nat :
          i < j /\ Counts(q[i], h, s) /\ Counts(q[j], h, t) => s < t
    BY <1>r DEF IInv, Ordered, q
  <2>2. \A i \in 1 .. n + 1, h \in Handle, s \in Nat :
          Counts(r[i], h, s) => i \in 1 .. n /\ r[i] = q[i]
    BY <1>l, <1>m, <1>r
  <2>3. \A i, j \in 1 .. n + 1, h \in Handle, s, t \in Nat :
          i < j /\ Counts(r[i], h, s) /\ Counts(r[j], h, t) => s < t
    <3> TAKE i, j \in 1 .. n + 1, h \in Handle, s, t \in Nat
    <3> HAVE i < j /\ Counts(r[i], h, s) /\ Counts(r[j], h, t)
    <3>1. i \in 1 .. n /\ r[i] = q[i] /\ j \in 1 .. n /\ r[j] = q[j]
      BY <2>2
    <3>2. Counts(q[i], h, s) /\ Counts(q[j], h, t)
      BY <3>1
    <3> QED
      BY <2>1, <3>1, <3>2
  <2> QED
    BY <1>r, <2>3 DEF Ordered, Counts, r, Handle
<1>6. Ended'
  <2>1. \A i \in 1 .. n : q[i].what \in {"released", "destroyed"} =>
          counter'[q[i].source] = 0 /\ q[i].source < nextHandle'
    BY <1>c, <1>e
  <2>2. \A i \in 1 .. n + 1 : r[i].what \in {"released", "destroyed"} =>
          counter'[r[i].source] = 0 /\ r[i].source < nextHandle'
    BY <1>c, <1>l, <1>n, <1>r, <2>1
  <2> QED
    BY <1>r, <2>2 DEF Ended, r
<1>7. Described'
  <2> SUFFICES ASSUME NEW h \in Handle, counter'[h] > 0
               PROVE  \/ h \in used \cup releasing \cup unread
                      \/ \E i \in 1 .. n + 1 : r[i].handle = h /\ r[i].described
    BY <1>r, <1>u DEF Described, Known, r, Handle
  <2>1. \/ h \in used \cup releasing \cup unread
        \/ \E i \in 1 .. n : q[i].handle = h /\ q[i].described
    BY <1>k, <1>r DEF IInv, Described, Known, q
  <2> QED
    BY <1>r, <2>1
<1>8. HeldHasCount'
  <2> SUFFICES ASSUME NEW h \in used \ dead
               PROVE  counter'[h] > 0 \/ \E i \in 1 .. n + 1 : r[i].what = "destroyed" /\ r[i].source = h
    BY <1>r, <1>u DEF HeldHasCount, OnWire, r
  <2>1. CASE h = g
    <3>1. m.what = "destroyed"
      BY <2>1
    <3>2. n + 1 \in 1 .. n + 1 /\ r[n + 1] = m
      BY <1>r
    <3> QED
      BY <2>1, <3>1, <3>2
  <2>2. CASE h # g
    <3>1. \/ counter[h] > 0
          \/ \E i \in 1 .. n : q[i].what = "destroyed" /\ q[i].source = h
      BY <1>r DEF IInv, HeldHasCount, OnWire, q
    <3>2. \A i \in 1 .. n : i \in 1 .. n + 1 /\ r[i] = q[i]
      BY <1>r
    <3>3. counter'[h] = counter[h]
      BY <1>c, <1>t, <2>2
    <3> QED
      BY <3>1, <3>2, <3>3
  <2> QED
    BY <2>1, <2>2
<1>9. ReleaseIsFinal'
  <2> SUFFICES ASSUME NEW i \in 1 .. n + 1, r[i].what = "released"
               PROVE  /\ r[i].source \notin used
                      /\ \A j \in 1 .. n + 1 : j # i => r[i].source # r[j].source /\ r[i].source # r[j].handle
    BY <1>r, <1>u DEF ReleaseIsFinal, r
  <2>1. CASE i = n + 1
    <3>1. r[i] = m /\ m.what = "released" /\ g \notin used
      BY <1>r, <2>1
    <3>2. ASSUME NEW j \in 1 .. n PROVE g # q[j].source /\ g # q[j].handle
      <4>1. ~Counts(q[j], g, q[j].sourceStamp) /\ ~Counts(q[j], g, q[j].stamp)
        BY <1>f, <1>w, <3>1
      <4>2. q[j].source = g => q[j].what \notin {"object", "released", "destroyed"}
        BY <1>e, <1>n, <1>p
      <4> QED
        BY <1>f, <4>1, <4>2 DEF Counts, What
    <3> QED
      BY <1>l, <1>r, <2>1, <3>1, <3>2
  <2>2. CASE i \in 1 .. n
    <3>1. r[i] = q[i]
      BY <1>r, <2>2
    <3>2. q[i].source \in Handle /\ counter[q[i].source] = 0
      BY <1>e, <2>2, <3>1
    <3>3. q[i].source # g /\ q[i].source # NoHandle
      BY <1>t, <3>2
    <3>4. /\ q[i].source \notin used
          /\ \A j \in 1 .. n : j # i => q[i].source # q[j].source /\ q[i].source # q[j].handle
      BY <1>r, <2>2, <3>1 DEF IInv, ReleaseIsFinal, q
    <3>5. ASSUME NEW j \in 1 .. n + 1, j # i
          PROVE  q[i].source # r[j].source /\ q[i].source # r[j].handle
      BY <1>l, <1>r, <3>3, <3>4, <3>5
    <3> QED
      BY <3>1, <3>4, <3>5
  <2> QED
    BY <1>l, <2>1, <2>2
<1>10. NamedIsDescribed'
  <2> SUFFICES ASSUME NEW i \in 1 .. n + 1, r[i].handle # NoHandle, ~r[i].described,
                      r[i].handle \notin used \cup releasing \cup unread
               PROVE  \E j \in 1 .. i - 1 : r[j].handle = r[i].handle /\ r[j].described
    BY <1>r, <1>u DEF NamedIsDescribed, Known, r, NoHandle
  <2>1. i \in 1 .. n /\ r[i] = q[i]
    BY <1>l, <1>r
  <2>2. \E j \in 1 .. i - 1 : q[j].handle = q[i].handle /\ q[j].described
    BY <1>r, <2>1 DEF IInv, NamedIsDescribed, Known, q
  <2>3. \A j \in 1 .. i - 1 : r[j] = q[j]
    BY <1>r, <2>1
  <2> QED
    BY <2>1, <2>2, <2>3
<1> QED
  BY <1>1, <1>2, <1>3, <1>4, <1>5, <1>6, <1>7, <1>8, <1>9, <1>10

-----------------------------------------------------------------------------
(* The client reads a message *)

(***************************************************************************)
(* What has to hold of the client after it has read the first message for  *)
(* the invariant to be kept, whatever kind of message it is.               *)
(***************************************************************************)
LEMMA ReadKeeps ==
  ASSUME IInv, toClient # <<>>, toClient' = Tail(toClient), UNCHANGED session,
         count' \in [Handle -> Nat], used' \subseteq Handle, releasing' \subseteq Handle,
         \A h \in Handle : \/ count'[h] <= count[h]
                          \/ \E s \in Nat : Counts(Head(toClient), h, s) /\ count'[h] <= s,
         \A h \in used' : h \in used \/ Head(toClient).handle = h,
         \A h \in used' \cup releasing' : count'[h] > 0,
         \A h \in Handle : h \in used \cup releasing \cup unread \/ Head(toClient).handle = h =>
           \/ h \in used' \cup releasing' \cup unread'
           \/ Head(toClient).what = "released" /\ Head(toClient).source = h,
         dead \subseteq dead',
         \A h \in used' : Head(toClient).what = "destroyed" /\ Head(toClient).source = h => h \in dead'
  PROVE  /\ Shaped' /\ Listing' /\ Counting' /\ Stamped' /\ Ordered' /\ Ended'
         /\ Described' /\ HeldHasCount' /\ ReleaseIsFinal' /\ NamedIsDescribed'
<1> DEFINE q == toClient
           r == toClient'
           n == Len(q)
           m == q[1]
<1>q. q \in Seq(ToClient)
  BY DEF IInv, TypeOK
<1>r. /\ r \in Seq(ToClient) /\ n \in Nat /\ n >= 1
      /\ DOMAIN q = 1 .. n /\ DOMAIN r = 1 .. n - 1
      /\ \A i \in 1 .. n - 1 : r[i] = q[i + 1]
      /\ m = Head(toClient)
  BY <1>q, Shortened
<1>f. \A i \in 1 .. n :
        /\ q[i].what \in What
        /\ q[i].source \in Handle \cup {NoHandle} /\ q[i].sourceStamp \in Nat
        /\ q[i].handle \in Handle \cup {NoHandle} /\ q[i].stamp \in Nat
  BY <1>q, <1>r, MessageFields
<1>t. /\ counter \in [Handle -> Nat] /\ count \in [Handle -> Nat] /\ nextHandle \in Nat
      /\ Handle \subseteq Nat /\ NoHandle \notin Handle
      /\ used \subseteq Handle /\ releasing \subseteq Handle
  BY DEF IInv, TypeOK, Handle, NoHandle
<1>u. handleOf' = handleOf /\ counter' = counter /\ nextHandle' = nextHandle
  BY DEF session
<1>i. \A i \in 1 .. n - 1 : i + 1 \in 1 .. n /\ r[i] = q[i + 1] /\ i + 1 > 1
  BY <1>r
<1>1n. 1 \in 1 .. n
  BY <1>r
<1>k. /\ \A h \in Handle : \/ count'[h] <= count[h]
                          \/ \E s \in Nat : Counts(m, h, s) /\ count'[h] <= s
      /\ \A h \in used' : h \in used \/ m.handle = h
      /\ \A h \in Handle : h \in used \cup releasing \cup unread \/ m.handle = h =>
           \/ h \in used' \cup releasing' \cup unread'
           \/ m.what = "released" /\ m.source = h
      /\ \A h \in used' : m.what = "destroyed" /\ m.source = h => h \in dead'
  BY <1>r
<1>D. DOMAIN q = 1 .. n
  BY <1>r
<1> HIDE DEF q, r, n, m
<1>s. \A i \in 1 .. n, h \in Handle, s \in Nat : Counts(q[i], h, s) =>
        /\ count[h] < s /\ h < nextHandle
        /\ counter[h] > 0 => s <= counter[h]
        /\ counter[h] > 0
           \/ \E j \in 1 .. n : j > i /\ q[j].what = "destroyed" /\ q[j].source = h
  BY <1>D DEF IInv, Stamped, q
<1>o. \A i, j \in 1 .. n, h \in Handle, s, t \in Nat :
        i < j /\ Counts(q[i], h, s) /\ Counts(q[j], h, t) => s < t
  BY <1>r DEF IInv, Ordered, q
<1>e. \A i \in 1 .. n : q[i].what \in {"released", "destroyed"} =>
        /\ q[i].source \in Handle /\ counter[q[i].source] = 0 /\ q[i].source < nextHandle
  BY <1>f, <1>r DEF IInv, Ended, Shaped, q
<1>x. \A i \in 1 .. n : q[i].what = "released" =>
        /\ q[i].source \notin used
        /\ \A j \in 1 .. n : j # i => q[i].source # q[j].source /\ q[i].source # q[j].handle
  BY <1>D DEF IInv, ReleaseIsFinal, q
<1>y. \A i \in 1 .. n :
        q[i].handle = NoHandle \/ q[i].described \/ q[i].handle \in used \cup releasing \cup unread
        \/ \E j \in 1 .. i - 1 : q[j].handle = q[i].handle /\ q[j].described
  BY <1>D DEF IInv, NamedIsDescribed, Known, q
<1>1. Shaped'
  <2>1. \A i \in 1 .. n : /\ q[i].what = "object" <=> q[i].source = NoHandle
                          /\ q[i].handle # NoHandle => q[i].what \in {"object", "event"}
    BY <1>r DEF IInv, Shaped, q
  <2>2. \A i \in 1 .. n - 1 : /\ r[i].what = "object" <=> r[i].source = NoHandle
                              /\ r[i].handle # NoHandle => r[i].what \in {"object", "event"}
    BY <1>i, <2>1
  <2> QED
    BY <1>r, <2>2 DEF Shaped, r, NoHandle
<1>2. Listing'
  BY <1>u DEF IInv, Listing, Listed, Handle, NoHandle
\* The count of the message that is read.
<1>h. \A h \in Handle, s \in Nat : Counts(m, h, s) =>
        h < nextHandle /\ (counter[h] > 0 => s <= counter[h])
  BY <1>1n, <1>s DEF m
<1>3. Counting'
  <2>1. ASSUME NEW h \in Handle, counter[h] > 0 PROVE count'[h] <= counter[h]
    <3>1. CASE count'[h] <= count[h]
      <4>1. count[h] <= counter[h]
        BY <2>1 DEF IInv, Counting
      <4> QED
        BY <1>t, <3>1, <4>1
    <3>2. CASE \E s \in Nat : Counts(m, h, s) /\ count'[h] <= s
      <4>1. PICK s \in Nat : Counts(m, h, s) /\ count'[h] <= s
        BY <3>2
      <4>2. s <= counter[h]
        BY <1>h, <2>1, <4>1
      <4> QED
        BY <1>t, <4>1, <4>2
    <3> QED
      BY <1>k, <3>1, <3>2
  <2>2. ASSUME NEW h \in Handle, count'[h] > 0 PROVE h < nextHandle
    <3>1. CASE count'[h] <= count[h]
      <4>1. count[h] > 0
        BY <1>t, <2>2, <3>1
      <4> QED
        BY <4>1 DEF IInv, Counting
    <3>2. CASE \E s \in Nat : Counts(m, h, s) /\ count'[h] <= s
      BY <1>h, <3>2
    <3> QED
      BY <1>k, <3>1, <3>2
  <2> QED
    BY <1>u, <2>1, <2>2 DEF Counting, Known, Handle
<1>4. Stamped'
  <2>1. ASSUME NEW i \in 1 .. n - 1, NEW h \in Handle, NEW s \in Nat, Counts(r[i], h, s)
        PROVE  /\ count'[h] < s
               /\ counter[h] > 0 => s <= counter[h]
               /\ h < nextHandle
               /\ counter[h] > 0
                  \/ \E j \in 1 .. n - 1 : j > i /\ r[j].what = "destroyed" /\ r[j].source = h
    <3>1. i + 1 \in 1 .. n /\ Counts(q[i + 1], h, s) /\ 1 < i + 1
      BY <1>i, <2>1
    <3>2. /\ count[h] < s /\ h < nextHandle
          /\ counter[h] > 0 => s <= counter[h]
          /\ counter[h] > 0
             \/ \E j \in 1 .. n : j > i + 1 /\ q[j].what = "destroyed" /\ q[j].source = h
      BY <1>s, <3>1
    <3>3. count'[h] < s
      <4>1. CASE count'[h] <= count[h]
        BY <1>t, <3>2, <4>1
      <4>2. CASE \E t \in Nat : Counts(m, h, t) /\ count'[h] <= t
        <5>1. PICK t \in Nat : Counts(m, h, t) /\ count'[h] <= t
          BY <4>2
        <5>2. t < s
          BY <1>1n, <1>o, <3>1, <5>1 DEF m
        <5>3. count'[h] \in Nat
          OBVIOUS
        <5> QED
          BY <5>1, <5>2, <5>3
      <4> QED
        BY <1>k, <4>1, <4>2
    <3>4. ASSUME NEW j \in 1 .. n, j > i + 1, q[j].what = "destroyed", q[j].source = h
          PROVE  \E k \in 1 .. n - 1 : k > i /\ r[k].what = "destroyed" /\ r[k].source = h
      <4>1. j - 1 \in 1 .. n - 1 /\ j - 1 > i /\ j - 1 + 1 = j
        BY <1>r, <3>4
      <4>2. r[j - 1] = q[j]
        BY <1>i, <4>1
      <4> QED
        BY <3>4, <4>1, <4>2
    <3> QED
      BY <3>2, <3>3, <3>4
  <2>2. ASSUME NEW i \in DOMAIN r, NEW h \in Handle, NEW s \in Nat, Counts(r[i], h, s)
        PROVE  /\ count'[h] < s
               /\ counter'[h] > 0 => s <= counter'[h]
               /\ h < nextHandle'
               /\ counter'[h] > 0
                  \/ \E j \in DOMAIN r : j > i /\ r[j].what = "destroyed" /\ r[j].source = h
    <3>1. DOMAIN r = 1 .. n - 1
      BY <1>r
    <3> QED
      BY <1>u, <2>1, <2>2, <3>1
  <2> QED
    BY <2>2 DEF Stamped, Counts, r, Handle
<1>5. Ordered'
  <2>1. \A i, j \in 1 .. n - 1, h \in Handle, s, t \in Nat :
          i < j /\ Counts(r[i], h, s) /\ Counts(r[j], h, t) => s < t
    <3> TAKE i, j \in 1 .. n - 1, h \in Handle, s, t \in Nat
    <3> HAVE i < j /\ Counts(r[i], h, s) /\ Counts(r[j], h, t)
    <3>1. /\ i + 1 \in 1 .. n /\ j + 1 \in 1 .. n /\ i + 1 < j + 1
          /\ Counts(q[i + 1], h, s) /\ Counts(q[j + 1], h, t)
      BY <1>i
    <3> QED
      BY <1>o, <3>1
  <2> QED
    BY <1>r, <2>1 DEF Ordered, Counts, r, Handle
<1>6. Ended'
  <2>1. \A i \in 1 .. n - 1 : r[i].what \in {"released", "destroyed"} =>
          counter'[r[i].source] = 0 /\ r[i].source < nextHandle'
    BY <1>e, <1>i, <1>u
  <2> QED
    BY <1>r, <2>1 DEF Ended, r
\* The object of the message that is read stays known.
<1>d. \A h \in Handle : counter[h] > 0 /\ (h \in used \cup releasing \cup unread \/ m.handle = h) =>
        h \in used' \cup releasing' \cup unread'
  <2>1. \A h \in Handle : m.what = "released" /\ m.source = h => counter[h] = 0
    BY <1>1n, <1>e DEF m
  <2> QED
    BY <1>k, <2>1
<1>7. Described'
  <2> SUFFICES ASSUME NEW h \in Handle, counter[h] > 0
               PROVE  \/ h \in used' \cup releasing' \cup unread'
                      \/ \E i \in 1 .. n - 1 : r[i].handle = h /\ r[i].described
    BY <1>r, <1>u DEF Described, Known, r, Handle
  <2>1. \/ h \in used \cup releasing \cup unread
        \/ \E i \in 1 .. n : q[i].handle = h /\ q[i].described
    BY <1>r DEF IInv, Described, Known, q
  <2>2. ASSUME NEW i \in 1 .. n, q[i].handle = h, q[i].described
        PROVE  m.handle = h \/ \E j \in 1 .. n - 1 : r[j].handle = h /\ r[j].described
    <3>1. CASE i = 1
      BY <2>2, <3>1 DEF m
    <3>2. CASE i # 1
      <4>1. i - 1 \in 1 .. n - 1 /\ i - 1 + 1 = i
        BY <1>r, <3>2
      <4>2. r[i - 1] = q[i]
        BY <1>i, <4>1
      <4> QED
        BY <2>2, <4>1, <4>2
    <3> QED
      BY <3>1, <3>2
  <2> QED
    BY <1>d, <2>1, <2>2
<1>8. HeldHasCount'
  <2> SUFFICES ASSUME NEW h \in used' \ dead'
               PROVE  counter[h] > 0 \/ \E i \in 1 .. n - 1 : r[i].what = "destroyed" /\ r[i].source = h
    BY <1>r, <1>u DEF HeldHasCount, OnWire, r
  <2>0. h \in Handle
    OBVIOUS
  <2>1. ASSUME NEW j \in 1 .. n, j > 1, q[j].what = "destroyed", q[j].source = h
        PROVE  \E i \in 1 .. n - 1 : r[i].what = "destroyed" /\ r[i].source = h
    <3>1. j - 1 \in 1 .. n - 1 /\ j - 1 + 1 = j
      BY <1>r, <2>1
    <3>2. r[j - 1] = q[j]
      BY <1>i, <3>1
    <3> QED
      BY <2>1, <3>1, <3>2
  <2>2. CASE h \in used
    <3>1. h \in used \ dead
      BY <2>2
    <3>2. \/ counter[h] > 0
          \/ \E j \in 1 .. n : q[j].what = "destroyed" /\ q[j].source = h
      BY <1>r, <3>1 DEF IInv, HeldHasCount, OnWire, q
    <3>3. \A j \in 1 .. n : q[j].what = "destroyed" /\ q[j].source = h => j # 1
      BY <1>k DEF m
    <3>4. \A j \in 1 .. n : j # 1 => j > 1
      BY <1>r
    <3> QED
      BY <2>1, <3>2, <3>3, <3>4
  <2>3. CASE h \notin used
    <3>1. m.handle = h
      BY <1>k, <2>3
    <3>2. Counts(q[1], h, q[1].stamp) /\ q[1].stamp \in Nat
      BY <1>1n, <1>f, <3>1 DEF Counts, m
    <3>3. counter[h] > 0 \/ \E j \in 1 .. n : j > 1 /\ q[j].what = "destroyed" /\ q[j].source = h
      BY <1>1n, <1>s, <2>0, <3>2
    <3> QED
      BY <2>1, <3>3
  <2> QED
    BY <2>2, <2>3
<1>9. ReleaseIsFinal'
  <2> SUFFICES ASSUME NEW i \in 1 .. n - 1, r[i].what = "released"
               PROVE  /\ r[i].source \notin used'
                      /\ \A j \in 1 .. n - 1 : j # i => r[i].source # r[j].source /\ r[i].source # r[j].handle
    BY <1>r DEF ReleaseIsFinal, r
  <2>1. i + 1 \in 1 .. n /\ r[i] = q[i + 1] /\ 1 # i + 1
    BY <1>i
  <2>2. /\ r[i].source \notin used
        /\ \A j \in 1 .. n : j # i + 1 => r[i].source # q[j].source /\ r[i].source # q[j].handle
    BY <1>x, <2>1
  <2>3. r[i].source # m.handle
    BY <1>1n, <2>1, <2>2 DEF m
  <2>4. ASSUME NEW j \in 1 .. n - 1, j # i
        PROVE  r[i].source # r[j].source /\ r[i].source # r[j].handle
    <3>1. j + 1 \in 1 .. n /\ r[j] = q[j + 1] /\ j + 1 # i + 1
      BY <1>i, <2>4
    <3> QED
      BY <2>2, <3>1
  <2> QED
    BY <1>k, <2>2, <2>3, <2>4
<1>10. NamedIsDescribed'
  <2> SUFFICES ASSUME NEW i \in 1 .. n - 1, r[i].handle # NoHandle, ~r[i].described,
                      r[i].handle \notin used' \cup releasing' \cup unread'
               PROVE  \E j \in 1 .. i - 1 : r[j].handle = r[i].handle /\ r[j].described
    BY <1>r DEF NamedIsDescribed, Known, r, NoHandle
  <2> DEFINE h == r[i].handle
  <2>1. i + 1 \in 1 .. n /\ r[i] = q[i + 1] /\ 1 # i + 1
    BY <1>i
  <2>2. h \in Handle
    BY <1>f, <2>1
  \* The handle was not released by the message that is read, since that is the last about it.
  <2>3. ~(m.what = "released" /\ m.source = h)
    <3>1. m.what = "released" => m.source # q[i + 1].handle
      BY <1>1n, <1>x, <2>1 DEF m
    <3> QED
      BY <2>1, <3>1
  <2>4. h \notin used \cup releasing \cup unread /\ m.handle # h
    BY <1>k, <2>2, <2>3
  <2>5. PICK j \in 1 .. i + 1 - 1 : q[j].handle = h /\ q[j].described
    BY <1>y, <2>1, <2>4
  <2>6. j # 1
    BY <2>4, <2>5 DEF m
  <2>7. j - 1 \in 1 .. i - 1 /\ j - 1 \in 1 .. n - 1 /\ j - 1 + 1 = j
    BY <1>r, <2>6
  <2>8. r[j - 1] = q[j]
    BY <1>i, <2>7
  <2> QED
    BY <2>5, <2>7, <2>8
<1> QED
  BY <1>1, <1>2, <1>3, <1>4, <1>5, <1>6, <1>7, <1>8, <1>9, <1>10

-----------------------------------------------------------------------------
(* Requests, and steps that send the client nothing *)

LEMMA RequestsKept ==
  ASSUME IInv,
         \/ toServer' = toServer
         \/ toServer # <<>> /\ toServer' = Tail(toServer)
         \/ \E m \in Gets \cup Releases : toServer' = Append(toServer, m) /\ RequestIsTrue(m)',
         \A m \in Gets \cup Releases : RequestIsTrue(m) => RequestIsTrue(m)'
  PROVE  Requested' /\ toServer' \in Seq(Gets \cup Releases)
<1> DEFINE T == Gets \cup Releases
<1>1. toServer \in Seq(T) /\ DOMAIN toServer = 1 .. Len(toServer) /\ Len(toServer) \in Nat
  BY LenProperties DEF IInv, TypeOK
<1>2. \A i \in 1 .. Len(toServer) : toServer[i] \in T /\ RequestIsTrue(toServer[i])
  BY <1>1, ElementOfSeq DEF IInv, Requested
<1>3. toServer' \in Seq(T) /\ \A i \in DOMAIN toServer' : toServer'[i] \in T
  <2>1. toServer' \in Seq(T)
    BY <1>1, Appended, Shortened
  <2>2. DOMAIN toServer' = 1 .. Len(toServer')
    BY <2>1, LenProperties
  <2> QED
    BY <2>1, <2>2, ElementOfSeq
<1>k. \A m \in T : RequestIsTrue(m) => RequestIsTrue(m)'
  OBVIOUS
<1> HIDE DEF T
<1>4. ASSUME NEW i \in DOMAIN toServer', NEW x, x = toServer'[i]
      PROVE  x \in T /\ RequestIsTrue(x)'
  <2>1. CASE toServer' = toServer
    <3>1. x \in T /\ RequestIsTrue(x)
      BY <1>1, <1>2, <1>4, <2>1
    <3> QED
      BY <1>k, <3>1
  <2>2. CASE toServer # <<>> /\ toServer' = Tail(toServer)
    <3>1. i \in 1 .. Len(toServer) - 1 /\ x = toServer[i + 1]
      BY <1>1, <1>4, <2>2, Shortened
    <3>2. x \in T /\ RequestIsTrue(x)
      BY <1>1, <1>2, <3>1
    <3> QED
      BY <1>k, <3>2
  <2>3. ASSUME NEW m \in T, toServer' = Append(toServer, m), RequestIsTrue(m)'
        PROVE  x \in T /\ RequestIsTrue(x)'
    <3>0. /\ \A k \in 1 .. Len(toServer) : toServer'[k] = toServer[k]
          /\ toServer'[Len(toServer) + 1] = m
          /\ DOMAIN toServer' = 1 .. Len(toServer) + 1
      <4>1. /\ \A k \in 1 .. Len(toServer) : Append(toServer, m)[k] = toServer[k]
            /\ Append(toServer, m)[Len(toServer) + 1] = m
            /\ DOMAIN Append(toServer, m) = 1 .. Len(toServer) + 1
        BY <1>1, Appended
      <4> QED
        BY <2>3, <4>1
    <3>1. CASE i \in 1 .. Len(toServer)
      <4>1. x = toServer[i]
        BY <1>4, <3>0, <3>1
      <4>2. x \in T /\ RequestIsTrue(x)
        BY <1>2, <3>1, <4>1
      <4> QED
        BY <1>k, <4>2
    <3>2. CASE i = Len(toServer) + 1
      <4>1. x = m
        BY <1>4, <3>0, <3>2
      <4> QED
        BY <2>3, <4>1
    <3>3. i \in 1 .. Len(toServer) + 1
      BY <1>4, <3>0
    <3> QED
      BY <1>1, <3>1, <3>2, <3>3
  <2> QED
    BY <2>1, <2>2, <2>3 DEF T
<1>5. \A i \in DOMAIN toServer' : RequestIsTrue(toServer[i])'
  BY <1>4 DEF RequestIsTrue
<1> QED
  BY <1>3, <1>5 DEF Requested, RequestIsTrue, T

LEMMA QuietKeeps ==
  ASSUME IInv, UNCHANGED session, UNCHANGED <<count, dead, unread, toClient>>,
         used' \subseteq used, used' \cup releasing' = used \cup releasing
  PROVE  /\ Shaped' /\ Listing' /\ Counting' /\ Stamped' /\ Ordered' /\ Ended'
         /\ Described' /\ HeldHasCount' /\ ReleaseIsFinal' /\ NamedIsDescribed'
<1>u. /\ handleOf' = handleOf /\ counter' = counter /\ nextHandle' = nextHandle
      /\ count' = count /\ dead' = dead /\ unread' = unread /\ toClient' = toClient
      /\ Known' = Known
  BY DEF session, Known
<1>1. Shaped'
  BY <1>u DEF IInv, Shaped, NoHandle
<1>2. Listing'
  BY <1>u DEF IInv, Listing, Listed, Handle, NoHandle
<1>3. Counting'
  BY <1>u DEF IInv, Counting, Handle
<1>4. Stamped'
  BY <1>u DEF IInv, Stamped, Counts, Handle
<1>5. Ordered'
  BY <1>u DEF IInv, Ordered, Counts, Handle
<1>6. Ended'
  BY <1>u DEF IInv, Ended
<1>7. Described'
  BY <1>u DEF IInv, Described, Handle
<1>8. HeldHasCount'
  <2>1. \A h \in used' \ dead' : h \in used \ dead
    BY <1>u
  <2> QED
    BY <1>u, <2>1 DEF IInv, HeldHasCount, OnWire
<1>9. ReleaseIsFinal'
  BY <1>u DEF IInv, ReleaseIsFinal
<1>10. NamedIsDescribed'
  BY <1>u DEF IInv, NamedIsDescribed, NoHandle
<1> QED
  BY <1>1, <1>2, <1>3, <1>4, <1>5, <1>6, <1>7, <1>8, <1>9, <1>10

-----------------------------------------------------------------------------
(* The actions of the client *)

LEMMA Types ==
  ASSUME TypeOK
  PROVE  /\ Handle \subseteq Nat /\ NoHandle \notin Handle /\ NoHandle \in Nat
         /\ \A h \in Handle : h > 0
         /\ handleOf \in [Object -> Handle \cup {NoHandle}]
         /\ counter \in [Handle -> Nat] /\ count \in [Handle -> Nat]
         /\ nextHandle \in Nat /\ inputs \in Nat /\ MaxInputs \in Nat /\ MaxHandle \in Nat
         /\ toServer \in Seq(Gets \cup Releases) /\ toClient \in Seq(ToClient)
BY ObjectHandlesAssumption DEF TypeOK, Handle, NoHandle

\* What the type of a request says of it.
LEMMA RequestFields ==
  ASSUME NEW m \in Gets \cup Releases
  PROVE  /\ m.what = "get" => m \in Gets /\ m.object \in Object /\ m.request \in Request
         /\ m.what = "release" => m \in Releases /\ m.handle \in Handle /\ m.count \in Nat
BY DEF Gets, Releases

LEMMA ClientActsKeep ==
  ASSUME IInv, ClientActs
  PROVE  IInv'
<1>t. TypeOK
  BY DEF IInv
<1>1. ASSUME NEW o \in Object, Ask(o) PROVE IInv'
  <2>0. PICK m : m = [what |-> "get", object |-> o, request |-> inputs']
    OBVIOUS
  <2>1. /\ UNCHANGED session /\ UNCHANGED <<count, dead, unread, toClient>>
        /\ used' = used /\ releasing' = releasing /\ toServer' = Append(toServer, m)
        /\ waiting' = waiting \cup {inputs'} /\ inputs < MaxInputs /\ inputs' = inputs + 1
    BY <1>1, <2>0 DEF Ask, Input
  <2>2. inputs' \in Request /\ inputs' \in 0 .. MaxInputs
    BY <1>t, <2>1, Types DEF Request
  <2>3. m \in Gets \cup Releases /\ RequestIsTrue(m)'
    BY <2>0, <2>2 DEF Gets, RequestIsTrue
  <2>4. \A x \in Gets \cup Releases : RequestIsTrue(x) => RequestIsTrue(x)'
    BY <2>1 DEF RequestIsTrue, Known, session
  <2>5. Requested' /\ toServer' \in Seq(Gets \cup Releases)
    BY <2>1, <2>3, <2>4, RequestsKept
  <2>6. TypeOK'
    BY <1>t, <2>1, <2>2, <2>5 DEF TypeOK, session, Handle, Request
  <2> QED
    BY <2>1, <2>5, <2>6, QuietKeeps DEF IInv
<1>2. ASSUME NEW r \in Request, Cancel(r) PROVE IInv'
  <2>1. /\ UNCHANGED session /\ UNCHANGED <<count, dead, unread, toClient>>
        /\ used' = used /\ releasing' = releasing /\ toServer' = toServer
        /\ waiting' = waiting \ {r} /\ inputs' = inputs
    BY <1>2 DEF Cancel
  <2>2. \A x \in Gets \cup Releases : RequestIsTrue(x) => RequestIsTrue(x)'
    BY <2>1 DEF RequestIsTrue, Known, session
  <2>3. Requested' /\ toServer' \in Seq(Gets \cup Releases)
    BY <2>1, <2>2, RequestsKept
  <2>4. TypeOK'
    BY <1>t, <2>1, <2>3 DEF TypeOK, session, Handle, Request
  <2> QED
    BY <2>1, <2>3, <2>4, QuietKeeps DEF IInv
<1>3. ASSUME NEW h \in Handle, Drop(h) PROVE IInv'
  <2>0. PICK m : m = [what |-> "release", handle |-> h, count |-> count[h]]
    OBVIOUS
  <2>1. /\ UNCHANGED session /\ UNCHANGED <<count, dead, unread, toClient>>
        /\ h \in used /\ used' = used \ {h} /\ releasing' = releasing \cup {h}
        /\ toServer' = Append(toServer, m)
        /\ waiting' = waiting /\ inputs' = inputs
    BY <1>3, <2>0 DEF Drop
  <2>2. used' \cup releasing' = used \cup releasing /\ used' \subseteq used
    BY <2>1
  <2>3. count[h] \in Nat /\ count[h] > 0 /\ h < nextHandle
    BY <1>t, <2>1, Types DEF IInv, Counting, Known
  <2>4. m \in Gets \cup Releases /\ RequestIsTrue(m)'
    <3>1. m \in Releases
      BY <2>0, <2>3 DEF Releases
    <3>2. h \in Known' /\ h \notin used'
      BY <2>1 DEF Known
    <3>3. count'[h] = count[h] /\ nextHandle' = nextHandle /\ count[h] <= count[h]
      BY <2>1, <2>3 DEF session
    <3> QED
      BY <2>0, <2>3, <3>1, <3>2, <3>3 DEF RequestIsTrue
  <2>5. \A x \in Gets \cup Releases : RequestIsTrue(x) => RequestIsTrue(x)'
    BY <2>1, <2>2 DEF RequestIsTrue, Known, session
  <2>6. Requested' /\ toServer' \in Seq(Gets \cup Releases)
    BY <2>1, <2>4, <2>5, RequestsKept
  <2>7. TypeOK'
    <3>1. used' \subseteq Handle /\ releasing' \subseteq Handle /\ used' \cap releasing' = {}
      BY <1>t, <2>1 DEF TypeOK
    <3> QED
      BY <1>t, <2>1, <2>6, <3>1 DEF TypeOK, session, Handle, Request
  <2> QED
    BY <2>1, <2>2, <2>6, <2>7, QuietKeeps DEF IInv
<1> QED
  BY <1>1, <1>2, <1>3 DEF ClientActs

-----------------------------------------------------------------------------
(* The session sends *)

\* Requests stay true when counts grow and new handles are given out.
LEMMA RequestsStayTrue ==
  ASSUME IInv, UNCHANGED client, nextHandle' \in Nat, nextHandle <= nextHandle',
         \A h \in Handle : h < nextHandle /\ counter'[h] > 0 => counter[h] > 0
  PROVE  \A x \in Gets \cup Releases : RequestIsTrue(x) => RequestIsTrue(x)'
<1> SUFFICES ASSUME NEW x \in Gets \cup Releases, RequestIsTrue(x), x.what = "release"
             PROVE  RequestIsTrue(x)'
  BY DEF RequestIsTrue
<1>1. x.handle \in Handle /\ x.handle \in Nat /\ nextHandle \in Nat
  BY RequestFields, Types DEF IInv
<1>2. /\ x.count > 0 /\ x.handle < nextHandle
      /\ counter[x.handle] > 0 =>
           /\ x.handle \in Known /\ x.count <= count[x.handle]
           /\ x.count = count[x.handle] => x.handle \notin used
  BY DEF RequestIsTrue
<1>3. x.handle < nextHandle'
  BY <1>1, <1>2
<1>4. counter'[x.handle] > 0 => counter[x.handle] > 0
  BY <1>1, <1>2
<1>5. Known' = Known /\ count' = count /\ used' = used
  BY DEF client, Known
<1> QED
  BY <1>2, <1>3, <1>4, <1>5 DEF RequestIsTrue

LEMMA ListedFacts ==
  ASSUME IInv, NEW o \in Object
  PROVE  /\ Listed(o) => handleOf[o] \in Handle /\ handleOf[o] < nextHandle /\ counter[handleOf[o]] > 0
         /\ \A h \in Handle : counter[h] > 0 => h < nextHandle
<1>1. handleOf \in [Object -> Handle \cup {NoHandle}]
  BY Types DEF IInv
<1>2. Listed(o) => handleOf[o] \in Handle /\ handleOf[o] < nextHandle /\ counter[handleOf[o]] > 0
  BY <1>1 DEF IInv, Listing, Listed
<1>3. ASSUME NEW h \in Handle, counter[h] > 0 PROVE h < nextHandle
  <2>1. PICK p \in Object : handleOf[p] = h
    BY <1>3 DEF IInv, Listing
  <2>2. Listed(p)
    BY <2>1, Types DEF IInv, Listed
  <2> QED
    BY <2>1, <2>2 DEF IInv, Listing
<1> QED
  BY <1>2, <1>3

LEMMA WriteFacts ==
  ASSUME IInv, NEW o \in Object, NEW C \in SUBSET Handle,
         HandleFor(o) \in C, \A h \in C : h = HandleFor(o) \/ counter[h] > 0,
         WriteObject(o, C)
  PROVE  /\ Listing'
         /\ handleOf' \in [Object -> Handle \cup {NoHandle}]
         /\ counter' \in [Handle -> Nat]
         /\ \A h \in Handle : counter'[h] = IF h \in C THEN counter[h] + 1 ELSE counter[h]
         /\ nextHandle' \in 1 .. MaxHandle + 1 /\ nextHandle' \in Nat /\ nextHandle <= nextHandle'
         /\ HandleFor(o) \in Handle /\ HandleFor(o) < nextHandle'
         /\ Listed(o) => counter[HandleFor(o)] > 0
         /\ ~Listed(o) => HandleFor(o) = nextHandle /\ counter[nextHandle] = 0
<1>t. /\ Handle \subseteq Nat /\ NoHandle \notin Handle
      /\ handleOf \in [Object -> Handle \cup {NoHandle}]
      /\ counter \in [Handle -> Nat] /\ nextHandle \in Nat /\ MaxHandle \in Nat
      /\ nextHandle \in 1 .. MaxHandle + 1
  BY Types DEF IInv, TypeOK
<1> DEFINE h == HandleFor(o)
<1>1. /\ h \in Handle /\ h \in Nat /\ 1 <= h /\ h <= MaxHandle
      /\ handleOf' = [handleOf EXCEPT ![o] = h]
      /\ counter' = [k \in Handle |-> IF k \in C THEN counter[k] + 1 ELSE counter[k]]
      /\ nextHandle' = IF Listed(o) THEN nextHandle ELSE nextHandle + 1
  BY <1>t DEF WriteObject, Handle
<1>2. Listed(o) => h = handleOf[o] /\ h < nextHandle /\ counter[h] > 0
  BY ListedFacts DEF HandleFor
<1>3. ~Listed(o) => h = nextHandle
  BY DEF HandleFor
<1>4. ~Listed(o) => counter[h] = 0
  <2>1. counter[h] > 0 => h < nextHandle
    BY <1>1, ListedFacts
  <2>2. counter[h] \in Nat
    BY <1>1, <1>t
  <2> QED
    BY <1>3, <1>t, <2>1, <2>2
<1>5. nextHandle' \in 1 .. MaxHandle + 1 /\ nextHandle' \in Nat /\ nextHandle <= nextHandle' /\ h < nextHandle'
  BY <1>1, <1>2, <1>3, <1>t
<1> HIDE DEF h
<1>6. /\ handleOf' \in [Object -> Handle \cup {NoHandle}]
      /\ \A p \in Object : handleOf'[p] = IF p = o THEN h ELSE handleOf[p]
  BY <1>1, <1>t
<1>7. /\ counter' \in [Handle -> Nat]
      /\ \A k \in Handle : counter'[k] = IF k \in C THEN counter[k] + 1 ELSE counter[k]
  <2>1. \A k \in Handle : counter[k] \in Nat /\ counter[k] + 1 \in Nat
    BY <1>t
  <2> QED
    BY <1>1, <2>1
<1>c. \A k \in Handle : counter[k] > 0 => counter'[k] > 0
  BY <1>7, <1>t
<1>h. counter'[h] > 0
  <2>1. h \in C
    BY DEF h
  <2> QED
    BY <1>1, <1>7, <1>t, <2>1
<1>8. Listing'
  <2>1. ASSUME NEW p \in Object, handleOf'[p] # NoHandle
        PROVE  handleOf'[p] < nextHandle' /\ counter'[handleOf'[p]] > 0
    <3>1. CASE p = o
      BY <1>5, <1>6, <1>h, <3>1
    <3>2. CASE p # o
      <4>1. handleOf'[p] = handleOf[p] /\ Listed(p)
        BY <1>6, <2>1, <3>2 DEF Listed
      <4>2. handleOf[p] \in Handle /\ handleOf[p] < nextHandle /\ counter[handleOf[p]] > 0
        BY <4>1, ListedFacts
      <4>3. handleOf[p] \in Nat /\ handleOf[p] < nextHandle'
        <5>1. handleOf[p] \in Nat /\ nextHandle \in Nat /\ nextHandle' \in Nat
          BY <1>5, <1>t, <4>2
        <5>2. handleOf[p] < nextHandle /\ nextHandle <= nextHandle'
          BY <1>5, <4>2
        <5> QED
          BY <5>1, <5>2
      <4>4. counter'[handleOf[p]] > 0
        BY <1>c, <4>2
      <4> QED
        BY <4>1, <4>3, <4>4
    <3> QED
      BY <3>1, <3>2
  <2>2. ASSUME NEW p \in Object, p # o PROVE handleOf[p] # h
    <3>1. CASE Listed(o)
      BY <1>2, <2>2, <3>1 DEF IInv, Listing
    <3>2. CASE ~Listed(o)
      <4>1. handleOf[p] = h => Listed(p)
        BY <1>1, <1>t DEF Listed
      <4>2. Listed(p) => handleOf[p] < nextHandle /\ handleOf[p] \in Handle
        BY ListedFacts
      <4> QED
        BY <1>3, <1>t, <3>2, <4>1, <4>2
    <3> QED
      BY <3>1, <3>2
  <2>3. ASSUME NEW p1 \in Object, NEW p2 \in Object,
               handleOf'[p1] # NoHandle, handleOf'[p1] = handleOf'[p2]
        PROVE  p1 = p2
    <3>1. CASE p1 = o \/ p2 = o
      BY <1>6, <2>2, <2>3, <3>1
    <3>2. CASE p1 # o /\ p2 # o
      <4>1. handleOf[p1] # NoHandle /\ handleOf[p1] = handleOf[p2]
        BY <1>6, <2>3, <3>2
      <4> QED
        BY <4>1 DEF IInv, Listing, Listed
    <3> QED
      BY <3>1, <3>2
  <2>4. ASSUME NEW k \in Handle, counter'[k] > 0 PROVE \E p \in Object : handleOf'[p] = k
    <3>1. CASE k = h
      BY <1>6, <3>1
    <3>2. CASE k # h
      <4>1. counter[k] > 0
        <5>1. k \in C => counter[k] > 0
          BY <3>2 DEF h
        <5> QED
          BY <1>7, <2>4, <5>1
      <4>2. PICK p \in Object : handleOf[p] = k
        BY <4>1 DEF IInv, Listing
      <4>3. p # o
        <5>1. handleOf[o] = k => Listed(o)
          BY <1>t DEF Listed
        <5> QED
          BY <1>2, <3>2, <4>2, <5>1
      <4> QED
        BY <1>6, <4>2, <4>3
    <3> QED
      BY <3>1, <3>2
  <2> QED
    BY <2>1, <2>3, <2>4 DEF Listing, Listed, Handle, NoHandle
<1> QED
  BY <1>1, <1>2, <1>3, <1>4, <1>5, <1>6, <1>7, <1>8 DEF h

LEMMA RefusesGetKeeps ==
  ASSUME IInv, RefusesGet
  PROVE  IInv'
<1>0. PICK m : m = [what |-> "object", request |-> Head(toServer).request, source |-> NoHandle,
                    sourceStamp |-> 0, handle |-> NoHandle, stamp |-> 0, described |-> FALSE]
  OBVIOUS
<1>1. /\ toServer # <<>> /\ Head(toServer).what = "get"
      /\ toClient' = Append(toClient, m) /\ toServer' = Tail(toServer) /\ inputs' = inputs
      /\ UNCHANGED client /\ UNCHANGED session
  BY <1>0 DEF RefusesGet
<1>t. TypeOK /\ toServer \in Seq(Gets \cup Releases) /\ toClient \in Seq(ToClient)
  BY Types DEF IInv
<1>2. m \in ToClient
  <2>1. Head(toServer) \in Gets \cup Releases
    BY <1>1, <1>t, Shortened
  <2>2. Head(toServer).request \in Request
    BY <1>1, <2>1, RequestFields
  <2> QED
    BY <1>0, <2>2 DEF ToClient, What
<1>3. /\ counter' = counter /\ nextHandle' = nextHandle /\ handleOf' = handleOf
      /\ counter \in [Handle -> Nat] /\ nextHandle \in Nat /\ NoHandle \notin Handle
  BY <1>1, <1>t, Types DEF session
<1>4. \A h \in Handle, s \in Nat : ~Counts(m, h, s)
  BY <1>0, <1>3 DEF Counts
<1>5. /\ Shaped' /\ Counting' /\ Stamped' /\ Ordered' /\ Ended'
      /\ Described' /\ HeldHasCount' /\ ReleaseIsFinal' /\ NamedIsDescribed'
  <2>1. /\ m.what = "object" /\ m.source = NoHandle /\ m.handle = NoHandle
    BY <1>0
  <2>2. \A h \in Handle : counter[h] > 0 => counter[h] <= counter'[h]
    BY <1>3
  <2> QED
    BY <1>1, <1>2, <1>3, <1>4, <2>1, <2>2, SendKeeps
<1>6. Listing'
  BY <1>3 DEF IInv, Listing, Listed, Handle, NoHandle
<1>7. Requested' /\ toServer' \in Seq(Gets \cup Releases)
  <2>1. \A x \in Gets \cup Releases : RequestIsTrue(x) => RequestIsTrue(x)'
    BY <1>1, <1>3, RequestsStayTrue
  <2> QED
    BY <1>1, <2>1, RequestsKept
<1>8. TypeOK'
  <2>1. toClient' \in Seq(ToClient)
    BY <1>1, <1>2, <1>t, Appended
  <2> QED
    BY <1>1, <1>3, <1>7, <1>t, <2>1 DEF TypeOK, client, Handle, Request
<1> QED
  BY <1>5, <1>6, <1>7, <1>8 DEF IInv

LEMMA AnswersGetKeeps ==
  ASSUME IInv, AnswersGet
  PROVE  IInv'
<1>t. /\ TypeOK /\ toServer \in Seq(Gets \cup Releases) /\ toClient \in Seq(ToClient)
      /\ counter \in [Handle -> Nat] /\ nextHandle \in Nat
      /\ Handle \subseteq Nat /\ NoHandle \notin Handle
  BY Types DEF IInv
<1>0. PICK g : g = Head(toServer)
  OBVIOUS
<1>1. PICK h : h = HandleFor(g.object)
  OBVIOUS
<1>2. PICK m : m = [what |-> "object", request |-> g.request, source |-> NoHandle, sourceStamp |-> 0,
                    handle |-> h, stamp |-> counter[h] + 1, described |-> ~Listed(g.object)]
  OBVIOUS
<1>3. /\ toServer # <<>> /\ g.what = "get"
      /\ WriteObject(g.object, {h})
      /\ toClient' = Append(toClient, m) /\ toServer' = Tail(toServer) /\ inputs' = inputs
      /\ UNCHANGED client
  BY <1>0, <1>1, <1>2 DEF AnswersGet
<1>4. g.object \in Object /\ g.request \in Request
  <2>1. g \in Gets \cup Releases
    BY <1>0, <1>3, <1>t, Shortened
  <2> QED
    BY <1>3, <2>1, RequestFields
<1>h. h \in Handle
  BY <1>1, <1>3 DEF WriteObject
<1>5. /\ Listing'
      /\ handleOf' \in [Object -> Handle \cup {NoHandle}]
      /\ counter' \in [Handle -> Nat]
      /\ \A k \in Handle : counter'[k] = IF k \in {h} THEN counter[k] + 1 ELSE counter[k]
      /\ nextHandle' \in 1 .. MaxHandle + 1 /\ nextHandle' \in Nat /\ nextHandle <= nextHandle'
      /\ h < nextHandle'
      /\ Listed(g.object) => counter[h] > 0
      /\ ~Listed(g.object) => h = nextHandle /\ counter[h] = 0
  <2>1. {h} \in SUBSET Handle /\ HandleFor(g.object) \in {h}
        /\ \A k \in {h} : k = HandleFor(g.object) \/ counter[k] > 0
    BY <1>1, <1>h
  <2> QED
    BY <1>1, <1>3, <1>4, <2>1, WriteFacts
<1>c. counter[h] \in Nat /\ counter'[h] = counter[h] + 1 /\ \A k \in Handle : k # h => counter'[k] = counter[k]
  BY <1>5, <1>h, <1>t
<1>6. /\ m.what = "object" /\ m.source = NoHandle /\ m.handle = h /\ m.stamp = counter[h] + 1
      /\ m.described = ~Listed(g.object)
  BY <1>2
<1>7. m \in ToClient
  BY <1>2, <1>4, <1>c, <1>h DEF ToClient, What
<1>8. /\ Shaped' /\ Counting' /\ Stamped' /\ Ordered' /\ Ended'
      /\ Described' /\ HeldHasCount' /\ ReleaseIsFinal' /\ NamedIsDescribed'
  <2>1. \A k \in Handle : counter[k] > 0 => counter[k] <= counter'[k]
    BY <1>c, <1>t
  <2>2. \A k \in Handle : counter[k] = 0 /\ counter'[k] > 0 =>
          k >= nextHandle /\ m.handle = k /\ m.described
    <3> TAKE k \in Handle
    <3> HAVE counter[k] = 0 /\ counter'[k] > 0
    <3>1. k = h
      BY <1>c
    <3>2. ~Listed(g.object)
      BY <1>5, <3>1
    <3>3. h = nextHandle /\ nextHandle >= nextHandle
      BY <1>5, <1>t, <3>2
    <3> QED
      BY <1>6, <3>1, <3>2, <3>3
  <2>3. \A k \in Handle, s \in Nat : Counts(m, k, s) => k = h /\ s = counter[h] + 1
    BY <1>6 DEF Counts
  <2>4. \A k \in Handle, s \in Nat : Counts(m, k, s) =>
          /\ counter'[k] = counter[k] + 1 /\ s = counter[k] + 1
          /\ k < nextHandle' /\ (counter[k] > 0 \/ k >= nextHandle)
    BY <1>5, <1>c, <1>t, <2>3
  <2>5. m.handle # NoHandle /\ ~m.described => counter[m.handle] > 0
    BY <1>5, <1>6
  <2> QED
    BY <1>3, <1>5, <1>6, <1>7, <2>1, <2>2, <2>4, <2>5, SendKeeps
<1>9. Requested' /\ toServer' \in Seq(Gets \cup Releases)
  <2>1. \A k \in Handle : k < nextHandle /\ counter'[k] > 0 => counter[k] > 0
    BY <1>5, <1>c, <1>t
  <2>2. \A x \in Gets \cup Releases : RequestIsTrue(x) => RequestIsTrue(x)'
    BY <1>3, <1>5, <2>1, RequestsStayTrue
  <2> QED
    BY <1>3, <2>2, RequestsKept
<1>10. TypeOK'
  <2>1. toClient' \in Seq(ToClient)
    BY <1>3, <1>7, <1>t, Appended
  <2> QED
    BY <1>3, <1>5, <1>9, <1>t, <2>1 DEF TypeOK, client, Handle, Request
<1> QED
  BY <1>5, <1>8, <1>9, <1>10 DEF IInv

LEMMA TileChangedKeeps ==
  ASSUME IInv, NEW b \in Boards, NEW t \in Tile, TileChanged(b, t)
  PROVE  IInv'
<1>t. /\ TypeOK /\ toServer \in Seq(Gets \cup Releases) /\ toClient \in Seq(ToClient)
      /\ counter \in [Handle -> Nat] /\ nextHandle \in Nat /\ inputs \in Nat /\ MaxInputs \in Nat
      /\ Handle \subseteq Nat /\ NoHandle \notin Handle
  BY Types DEF IInv
<1>o. b \in Object /\ t \in Object
  BY ObjectHandlesAssumption
<1>0. PICK g : g = handleOf[b]
  OBVIOUS
<1>1. PICK h : h = HandleFor(t)
  OBVIOUS
<1>2. PICK m : m = [About("event", handleOf[b]) EXCEPT
                      !.handle = h, !.stamp = counter[h] + 1, !.described = ~Listed(t)]
  OBVIOUS
<1>3. /\ Listed(b) /\ WriteObject(t, {g, h})
      /\ toClient' = Append(toClient, m) /\ toServer' = toServer
      /\ inputs' = inputs + 1 /\ inputs < MaxInputs
      /\ UNCHANGED client
  BY <1>0, <1>1, <1>2 DEF TileChanged, Input
<1>h. h \in Handle /\ g \in Handle /\ counter[g] > 0 /\ g < nextHandle
  BY <1>0, <1>1, <1>3, <1>o, ListedFacts DEF WriteObject
<1>5. /\ Listing'
      /\ handleOf' \in [Object -> Handle \cup {NoHandle}]
      /\ counter' \in [Handle -> Nat]
      /\ \A k \in Handle : counter'[k] = IF k \in {g, h} THEN counter[k] + 1 ELSE counter[k]
      /\ nextHandle' \in 1 .. MaxHandle + 1 /\ nextHandle' \in Nat /\ nextHandle <= nextHandle'
      /\ h < nextHandle'
      /\ Listed(t) => counter[h] > 0
      /\ ~Listed(t) => h = nextHandle /\ counter[h] = 0
  <2>1. {g, h} \in SUBSET Handle /\ HandleFor(t) \in {g, h}
        /\ \A k \in {g, h} : k = HandleFor(t) \/ counter[k] > 0
    BY <1>1, <1>h
  <2> QED
    BY <1>1, <1>3, <1>o, <2>1, WriteFacts
<1>c. /\ counter[h] \in Nat /\ counter'[h] = counter[h] + 1
      /\ counter[g] \in Nat /\ counter'[g] = counter[g] + 1
      /\ \A k \in Handle : k # h /\ k # g => counter'[k] = counter[k]
  BY <1>5, <1>h, <1>t
<1>6. /\ m.what = "event" /\ m.source = g /\ m.sourceStamp = counter[g] + 1
      /\ m.handle = h /\ m.stamp = counter[h] + 1 /\ m.described = ~Listed(t)
  BY <1>0, <1>2 DEF About
<1>7. m \in ToClient
  <2>1. m = [what |-> "event", request |-> NoRequest, source |-> g, sourceStamp |-> counter[g] + 1,
             handle |-> h, stamp |-> counter[h] + 1, described |-> ~Listed(t)]
    BY <1>0, <1>2 DEF About
  <2>2. counter[g] + 1 \in Nat /\ counter[h] + 1 \in Nat
    BY <1>c
  <2> QED
    BY <1>h, <2>1, <2>2 DEF ToClient, What
<1>8. /\ Shaped' /\ Counting' /\ Stamped' /\ Ordered' /\ Ended'
      /\ Described' /\ HeldHasCount' /\ ReleaseIsFinal' /\ NamedIsDescribed'
  <2>1. \A k \in Handle : counter[k] > 0 => counter[k] <= counter'[k]
    BY <1>c, <1>t
  <2>2. \A k \in Handle : counter[k] = 0 /\ counter'[k] > 0 =>
          k >= nextHandle /\ m.handle = k /\ m.described
    <3> TAKE k \in Handle
    <3> HAVE counter[k] = 0 /\ counter'[k] > 0
    <3>1. k = h
      BY <1>c, <1>h
    <3>2. ~Listed(t)
      BY <1>5, <3>1
    <3>3. h = nextHandle /\ nextHandle >= nextHandle
      BY <1>5, <1>t, <3>2
    <3> QED
      BY <1>6, <3>1, <3>2, <3>3
  <2>3. \A k \in Handle, s \in Nat : Counts(m, k, s) =>
          (k = h /\ s = counter[h] + 1) \/ (k = g /\ s = counter[g] + 1)
    BY <1>6 DEF Counts
  <2>g. g < nextHandle'
    BY <1>5, <1>h, <1>t
  <2>4. \A k \in Handle, s \in Nat : Counts(m, k, s) =>
          /\ counter'[k] = counter[k] + 1 /\ s = counter[k] + 1
          /\ k < nextHandle' /\ (counter[k] > 0 \/ k >= nextHandle)
    BY <1>5, <1>c, <1>h, <1>t, <2>3, <2>g
  <2>5. m.handle # NoHandle /\ ~m.described => counter[m.handle] > 0
    BY <1>5, <1>6
  <2>6. g # NoHandle
    BY <1>h, <1>t
  <2> QED
    BY <1>3, <1>5, <1>6, <1>7, <2>1, <2>2, <2>4, <2>5, <2>6, SendKeeps
<1>9. Requested' /\ toServer' \in Seq(Gets \cup Releases)
  <2>1. \A k \in Handle : k < nextHandle /\ counter'[k] > 0 => counter[k] > 0
    BY <1>5, <1>c, <1>h, <1>t
  <2>2. \A x \in Gets \cup Releases : RequestIsTrue(x) => RequestIsTrue(x)'
    BY <1>3, <1>5, <2>1, RequestsStayTrue
  <2> QED
    BY <1>3, <2>2, RequestsKept
<1>10. TypeOK'
  <2>1. toClient' \in Seq(ToClient)
    BY <1>3, <1>7, <1>t, Appended
  <2>2. inputs' \in 0 .. MaxInputs
    BY <1>3, <1>t
  <2> QED
    BY <1>3, <1>5, <1>9, <1>t, <2>1, <2>2 DEF TypeOK, client, Handle, Request
<1> QED
  BY <1>5, <1>8, <1>9, <1>10 DEF IInv

LEMMA NotifyKeeps ==
  ASSUME IInv, NEW o \in Object, NEW what \in {"changed", "event"}, Notify(o, what)
  PROVE  IInv'
<1>t. /\ TypeOK /\ toServer \in Seq(Gets \cup Releases) /\ toClient \in Seq(ToClient)
      /\ counter \in [Handle -> Nat] /\ nextHandle \in Nat /\ inputs \in Nat /\ MaxInputs \in Nat
      /\ Handle \subseteq Nat /\ NoHandle \notin Handle
  BY Types DEF IInv
<1>0. PICK g : g = handleOf[o]
  OBVIOUS
<1>2. PICK m : m = About(what, g)
  OBVIOUS
<1>3. /\ Listed(o) /\ counter' = [counter EXCEPT ![g] = @ + 1]
      /\ toClient' = Append(toClient, m) /\ toServer' = toServer
      /\ inputs' = inputs + 1 /\ inputs < MaxInputs
      /\ handleOf' = handleOf /\ nextHandle' = nextHandle
      /\ UNCHANGED client
  BY <1>0, <1>2 DEF Notify, Input
<1>h. g \in Handle /\ counter[g] > 0 /\ g < nextHandle
  BY <1>0, <1>3, ListedFacts
<1>c. /\ counter[g] \in Nat /\ counter'[g] = counter[g] + 1
      /\ counter' \in [Handle -> Nat]
      /\ \A k \in Handle : k # g => counter'[k] = counter[k]
  BY <1>3, <1>h, <1>t
<1>6. /\ m.what = what /\ m.source = g /\ m.sourceStamp = counter[g] + 1 /\ m.handle = NoHandle
  BY <1>2 DEF About
<1>7. m \in ToClient
  BY <1>2, <1>c, <1>h DEF About, ToClient, What, NoRequest
<1>8. /\ Shaped' /\ Counting' /\ Stamped' /\ Ordered' /\ Ended'
      /\ Described' /\ HeldHasCount' /\ ReleaseIsFinal' /\ NamedIsDescribed'
  <2>1. \A k \in Handle : counter[k] > 0 => counter[k] <= counter'[k]
    BY <1>c, <1>t
  <2>2. \A k \in Handle : ~(counter[k] = 0 /\ counter'[k] > 0)
    BY <1>c, <1>h, <1>t
  <2>3. \A k \in Handle, s \in Nat : Counts(m, k, s) => k = g /\ s = counter[g] + 1
    BY <1>6, <1>t DEF Counts
  <2>4. \A k \in Handle, s \in Nat : Counts(m, k, s) =>
          /\ counter'[k] = counter[k] + 1 /\ s = counter[k] + 1
          /\ k < nextHandle' /\ (counter[k] > 0 \/ k >= nextHandle)
    BY <1>3, <1>c, <1>h, <2>3
  <2>6. g # NoHandle /\ nextHandle' \in Nat /\ nextHandle <= nextHandle'
    BY <1>3, <1>h, <1>t
  <2>7. m.what \in {"object", "event", "changed"} /\ m.what # "object"
    BY <1>6
  <2> QED
    BY <1>3, <1>6, <1>7, <1>c, <2>1, <2>2, <2>4, <2>6, <2>7, SendKeeps
<1>9. Requested' /\ toServer' \in Seq(Gets \cup Releases)
  <2>1. \A k \in Handle : k < nextHandle /\ counter'[k] > 0 => counter[k] > 0
    BY <1>c, <1>h, <1>t
  <2>2. nextHandle' \in Nat /\ nextHandle <= nextHandle'
    BY <1>3, <1>t
  <2>3. \A x \in Gets \cup Releases : RequestIsTrue(x) => RequestIsTrue(x)'
    BY <1>3, <2>1, <2>2, RequestsStayTrue
  <2> QED
    BY <1>3, <2>3, RequestsKept
<1>l. Listing'
  <2>1. \A k \in Handle : counter'[k] > 0 <=> counter[k] > 0
    BY <1>c, <1>h, <1>t
  <2>2. \A p \in Object : Listed(p) => handleOf[p] < nextHandle /\ counter'[handleOf[p]] > 0
    BY <2>1, ListedFacts
  <2> QED
    BY <1>3, <2>1, <2>2 DEF IInv, Listing, Listed, Handle, NoHandle
<1>10. TypeOK'
  <2>1. toClient' \in Seq(ToClient)
    BY <1>3, <1>7, <1>t, Appended
  <2>2. inputs' \in 0 .. MaxInputs
    BY <1>3, <1>t
  <2> QED
    BY <1>3, <1>9, <1>c, <1>t, <2>1, <2>2 DEF TypeOK, client, Handle, Request
<1> QED
  BY <1>8, <1>9, <1>10, <1>l DEF IInv

-----------------------------------------------------------------------------
(* The session forgets *)

LEMMA ForgetFacts ==
  ASSUME IInv, NEW g \in Handle, Forget(g)
  PROVE  /\ handleOf' \in [Object -> Handle \cup {NoHandle}]
         /\ counter' \in [Handle -> Nat]
         /\ nextHandle' = nextHandle /\ nextHandle \in Nat /\ nextHandle <= nextHandle'
         /\ \A h \in Handle : counter'[h] > 0 => counter[h] > 0
<1>1. /\ handleOf \in [Object -> Handle \cup {NoHandle}]
      /\ counter \in [Handle -> Nat] /\ nextHandle \in Nat
  BY Types DEF IInv
<1>2. /\ handleOf' = [o \in Object |-> IF handleOf[o] = g THEN NoHandle ELSE handleOf[o]]
      /\ counter' = [counter EXCEPT ![g] = 0] /\ nextHandle' = nextHandle
  BY DEF Forget
<1>3. handleOf' \in [Object -> Handle \cup {NoHandle}]
  BY <1>1, <1>2
<1>4. counter' \in [Handle -> Nat] /\ \A h \in Handle : counter'[h] > 0 => counter[h] > 0
  BY <1>1, <1>2
<1> QED
  BY <1>1, <1>2, <1>3, <1>4

LEMMA ReceivesReleaseKeeps ==
  ASSUME IInv, ReceivesRelease
  PROVE  IInv'
<1>t. /\ TypeOK /\ toServer \in Seq(Gets \cup Releases) /\ toClient \in Seq(ToClient)
      /\ counter \in [Handle -> Nat] /\ count \in [Handle -> Nat] /\ nextHandle \in Nat
      /\ Handle \subseteq Nat /\ NoHandle \notin Handle
  BY Types DEF IInv
<1>0. PICK x : x = Head(toServer)
  OBVIOUS
<1>1. /\ toServer # <<>> /\ x.what = "release" /\ toServer' = Tail(toServer)
      /\ inputs' = inputs /\ UNCHANGED client
  BY <1>0 DEF ReceivesRelease
<1>2. x.handle \in Handle /\ x.count \in Nat /\ RequestIsTrue(x)
  <2>1. x \in Gets \cup Releases /\ x = toServer[1] /\ 1 \in DOMAIN toServer
    BY <1>0, <1>1, <1>t, Shortened
  <2> QED
    BY <1>1, <2>1, RequestFields DEF IInv, Requested
<1>3. ASSUME Requested', toServer' \in Seq(Gets \cup Releases), toClient' \in Seq(ToClient),
             handleOf' \in [Object -> Handle \cup {NoHandle}], counter' \in [Handle -> Nat],
             nextHandle' = nextHandle
      PROVE  TypeOK'
  BY <1>1, <1>3, <1>t DEF TypeOK, client, Handle, Request
<1>4. CASE x.count = counter[x.handle]
  <2>0. PICK g : g = x.handle
    OBVIOUS
  <2>1. PICK m : m = [About("released", g) EXCEPT !.sourceStamp = 0]
    OBVIOUS
  <2>2. Forget(g) /\ toClient' = Append(toClient, m) /\ g \in Handle
    BY <1>0, <1>2, <1>4, <2>0, <2>1 DEF ReceivesRelease
  <2>3. /\ m = [what |-> "released", request |-> NoRequest, source |-> g, sourceStamp |-> 0,
                handle |-> NoHandle, stamp |-> 0, described |-> FALSE]
    BY <2>1 DEF About
  <2>4. m \in ToClient
    BY <2>2, <2>3 DEF ToClient, What
  <2>5. counter[g] > 0 /\ g \notin used /\ counter[g] <= count[g]
    <3>1. counter[g] > 0 /\ x.count = counter[g]
      BY <1>1, <1>2, <1>4, <2>0 DEF RequestIsTrue
    <3>2. counter[g] <= count[g] /\ (counter[g] = count[g] => g \notin used)
      BY <1>1, <1>2, <2>0, <3>1 DEF RequestIsTrue
    <3>3. count[g] <= counter[g]
      BY <2>2, <3>1 DEF IInv, Counting
    <3>4. counter[g] \in Nat /\ count[g] \in Nat
      BY <1>t, <2>2
    <3> QED
      BY <3>1, <3>2, <3>3, <3>4
  <2>6. /\ Shaped' /\ Listing' /\ Counting' /\ Stamped' /\ Ordered' /\ Ended'
        /\ Described' /\ HeldHasCount' /\ ReleaseIsFinal' /\ NamedIsDescribed'
    BY <1>1, <2>2, <2>3, <2>4, <2>5, EndKeeps
  <2>7. Requested' /\ toServer' \in Seq(Gets \cup Releases)
    <3>1. \A y \in Gets \cup Releases : RequestIsTrue(y) => RequestIsTrue(y)'
      BY <1>1, <2>2, ForgetFacts, RequestsStayTrue
    <3> QED
      BY <1>1, <3>1, RequestsKept
  <2>8. TypeOK'
    BY <1>3, <1>t, <2>2, <2>4, <2>7, Appended, ForgetFacts
  <2> QED
    BY <2>6, <2>7, <2>8 DEF IInv
<1>5. CASE x.count # counter[x.handle]
  <2>1. UNCHANGED toClient /\ UNCHANGED session
    BY <1>0, <1>5 DEF ReceivesRelease
  <2>2. /\ counter' = counter /\ nextHandle' = nextHandle /\ handleOf' = handleOf
        /\ used' = used /\ releasing' = releasing /\ UNCHANGED <<count, dead, unread, toClient>>
    BY <1>1, <2>1 DEF session, client
  <2>3. Requested' /\ toServer' \in Seq(Gets \cup Releases)
    <3>1. \A y \in Gets \cup Releases : RequestIsTrue(y) => RequestIsTrue(y)'
      BY <1>1, <1>t, <2>2, RequestsStayTrue
    <3> QED
      BY <1>1, <3>1, RequestsKept
  <2>4. TypeOK'
    BY <1>3, <1>t, <2>2, <2>3, Types
  <2> QED
    BY <2>1, <2>2, <2>3, <2>4, QuietKeeps DEF IInv
<1> QED
  BY <1>4, <1>5

LEMMA DestroyKeeps ==
  ASSUME IInv, NEW o \in Object, Destroy(o)
  PROVE  IInv'
<1>t. /\ TypeOK /\ toServer \in Seq(Gets \cup Releases) /\ toClient \in Seq(ToClient)
      /\ inputs \in Nat /\ MaxInputs \in Nat
  BY Types DEF IInv
<1>0. PICK g : g = handleOf[o]
  OBVIOUS
<1>1. PICK m : m = [About("destroyed", g) EXCEPT !.sourceStamp = 0]
  OBVIOUS
<1>2. /\ Listed(o) /\ Forget(g) /\ toClient' = Append(toClient, m) /\ toServer' = toServer
      /\ inputs' = inputs + 1 /\ inputs < MaxInputs /\ UNCHANGED client
  BY <1>0, <1>1 DEF Destroy, Input
<1>3. g \in Handle /\ counter[g] > 0
  BY <1>0, <1>2, ListedFacts
<1>4. m = [what |-> "destroyed", request |-> NoRequest, source |-> g, sourceStamp |-> 0,
           handle |-> NoHandle, stamp |-> 0, described |-> FALSE]
  BY <1>1 DEF About
<1>5. m \in ToClient
  BY <1>3, <1>4 DEF ToClient, What
<1>6. /\ Shaped' /\ Listing' /\ Counting' /\ Stamped' /\ Ordered' /\ Ended'
      /\ Described' /\ HeldHasCount' /\ ReleaseIsFinal' /\ NamedIsDescribed'
  BY <1>2, <1>3, <1>4, <1>5, EndKeeps
<1>7. Requested' /\ toServer' \in Seq(Gets \cup Releases)
  <2>1. \A y \in Gets \cup Releases : RequestIsTrue(y) => RequestIsTrue(y)'
    BY <1>2, <1>3, ForgetFacts, RequestsStayTrue
  <2> QED
    BY <1>2, <2>1, RequestsKept
<1>8. TypeOK'
  <2>1. toClient' \in Seq(ToClient)
    BY <1>2, <1>5, <1>t, Appended
  <2>2. inputs' \in 0 .. MaxInputs
    BY <1>2, <1>t
  <2>3. /\ handleOf' \in [Object -> Handle \cup {NoHandle}] /\ counter' \in [Handle -> Nat]
        /\ nextHandle' = nextHandle
    BY <1>2, <1>3, ForgetFacts
  <2> QED
    BY <1>2, <1>7, <1>t, <2>1, <2>2, <2>3 DEF TypeOK, client, Handle, Request
<1> QED
  BY <1>6, <1>7, <1>8 DEF IInv

-----------------------------------------------------------------------------
(* The client reads *)

\* Requests stay true: what was known stays known, and an object is used again only with a new count.
LEMMA RequestsStayTrueRead ==
  ASSUME IInv, UNCHANGED session, count' \in [Handle -> Nat],
         \A h \in Handle : counter[h] > 0 /\ h \in Known =>
           /\ h \in used' \cup releasing' /\ count[h] <= count'[h]
           /\ h \in used' => h \in used \/ count[h] < count'[h]
  PROVE  \A x \in Gets \cup Releases : RequestIsTrue(x) => RequestIsTrue(x)'
<1> SUFFICES ASSUME NEW x \in Gets \cup Releases, RequestIsTrue(x), x.what = "release"
             PROVE  RequestIsTrue(x)'
  BY DEF RequestIsTrue
<1>0. PICK h : h = x.handle
  OBVIOUS
<1>1. /\ h \in Handle /\ x.count \in Nat /\ count[h] \in Nat /\ count'[h] \in Nat
      /\ counter' = counter /\ nextHandle' = nextHandle
  BY <1>0, RequestFields, Types DEF IInv, session
<1>2. /\ x.count > 0 /\ h < nextHandle
      /\ counter[h] > 0 =>
           /\ h \in Known /\ x.count <= count[h]
           /\ x.count = count[h] => h \notin used
  BY <1>0 DEF RequestIsTrue
<1>3. ASSUME counter[h] > 0
      PROVE  /\ h \in Known' /\ x.count <= count'[h]
             /\ x.count = count'[h] => h \notin used'
  <2>1. h \in Known /\ x.count <= count[h] /\ (x.count = count[h] => h \notin used)
    BY <1>2, <1>3
  <2>2. /\ h \in used' \cup releasing' /\ count[h] <= count'[h]
        /\ h \in used' => h \in used \/ count[h] < count'[h]
    BY <1>1, <1>3, <2>1
  <2>3. h \in Known'
    BY <2>2 DEF Known
  <2>4. x.count <= count'[h]
    BY <1>1, <2>1, <2>2
  <2>5. x.count = count'[h] => x.count = count[h] /\ ~(count[h] < count'[h])
    BY <1>1, <2>1, <2>2
  <2> QED
    BY <2>1, <2>2, <2>3, <2>4, <2>5
<1> QED
  BY <1>0, <1>1, <1>2, <1>3 DEF RequestIsTrue

\* What the invariant says of the message that is read.
LEMMA FirstFacts ==
  ASSUME IInv, toClient # <<>>, NEW m, m = Head(toClient)
  PROVE  /\ m.what \in What
         /\ m.source \in Handle \cup {NoHandle} /\ m.handle \in Handle \cup {NoHandle}
         /\ m.source = NoHandle <=> m.what = "object"
         /\ \A h \in Handle, s \in Nat : Counts(m, h, s) => count[h] < s
         /\ m.what = "event" /\ m.source \in Handle =>
              \E s \in Nat : Counts(m, m.source, s)
         /\ m.handle \in Handle => \E s \in Nat : Counts(m, m.handle, s)
         /\ m.what = "released" => m.source \notin used
         /\ m.what \in {"released", "destroyed"} => counter[m.source] = 0
<1>1. /\ toClient \in Seq(ToClient) /\ m = toClient[1] /\ 1 \in DOMAIN toClient
  BY Shortened, Types DEF IInv
<1>2. /\ m.what \in What
      /\ m.source \in Handle \cup {NoHandle} /\ m.sourceStamp \in Nat
      /\ m.handle \in Handle \cup {NoHandle} /\ m.stamp \in Nat
  BY <1>1, MessageFields
<1>3. m.source = NoHandle <=> m.what = "object"
  BY <1>1 DEF IInv, Shaped
<1>4. \A h \in Handle, s \in Nat : Counts(m, h, s) => count[h] < s
  BY <1>1 DEF IInv, Stamped
<1>5. m.what = "event" => Counts(m, m.source, m.sourceStamp)
  BY DEF Counts
<1>6. Counts(m, m.handle, m.stamp)
  BY DEF Counts
<1>7. m.what = "released" => m.source \notin used
  BY <1>1 DEF IInv, ReleaseIsFinal
<1>8. m.what \in {"released", "destroyed"} => counter[m.source] = 0
  BY <1>1 DEF IInv, Ended
<1> QED
  BY <1>2, <1>3, <1>4, <1>5, <1>6, <1>7, <1>8

LEMMA ReadsMessageKeeps ==
  ASSUME IInv, ReadsMessage
  PROVE  IInv'
<1>t. /\ TypeOK /\ toServer \in Seq(Gets \cup Releases) /\ toClient \in Seq(ToClient)
      /\ count \in [Handle -> Nat] /\ Handle \subseteq Nat /\ NoHandle \notin Handle
      /\ used \subseteq Handle /\ releasing \subseteq Handle /\ used \cap releasing = {}
      /\ unread \subseteq Handle
  BY Types DEF IInv, TypeOK
<1>0. PICK m : m = Head(toClient)
  OBVIOUS
<1>1. /\ toClient # <<>> /\ m.what \in {"object", "event"}
      /\ count' = [h \in Handle |-> IF h \notin CountedIn(m) THEN count[h]
                                    ELSE IF h \in Known THEN count[h] + 1 ELSE 1]
      /\ used' = IF ReadsObject(m) THEN used \cup {m.handle} ELSE used
      /\ releasing' = IF ReadsObject(m) THEN releasing \ {m.handle} ELSE releasing
      /\ waiting' = waiting \ {m.request}
      /\ unread' = IF m.handle # NoHandle /\ ~ReadsObject(m) THEN unread \cup {m.handle} ELSE unread
      /\ toClient' = Tail(toClient)
      /\ dead' = dead /\ toServer' = toServer /\ inputs' = inputs /\ UNCHANGED session
  BY <1>0 DEF ReadsMessage
<1>2. /\ m.source \in Handle \cup {NoHandle} /\ m.handle \in Handle \cup {NoHandle}
      /\ \A h \in Handle, s \in Nat : Counts(m, h, s) => count[h] < s
      /\ m.what = "event" /\ m.source \in Handle => \E s \in Nat : Counts(m, m.source, s)
      /\ m.handle \in Handle => \E s \in Nat : Counts(m, m.handle, s)
  BY <1>0, <1>1, FirstFacts
<1>3. ReadsObject(m) => m.handle \in Handle
  BY <1>2 DEF ReadsObject
<1>4. \A h \in Known : h \in Handle /\ count[h] > 0
  BY <1>t DEF IInv, Counting, Known
<1>5. \A h \in Handle :
        /\ count[h] \in Nat
        /\ h \notin CountedIn(m) => count'[h] = count[h]
        /\ h \in CountedIn(m) /\ h \in Known => count'[h] = count[h] + 1
        /\ h \in CountedIn(m) /\ h \notin Known => count'[h] = 1
  BY <1>1, <1>t
<1>6. count' \in [Handle -> Nat]
  <2>1. \A h \in Handle : (IF h \notin CountedIn(m) THEN count[h]
                           ELSE IF h \in Known THEN count[h] + 1 ELSE 1) \in Nat
    BY <1>5
  <2> QED
    BY <1>1, <2>1
<1>7. \A h \in CountedIn(m) : h \in Handle /\ \E s \in Nat : Counts(m, h, s)
  BY <1>2 DEF CountedIn
<1>8. \A h \in Handle : \/ count'[h] <= count[h]
                        \/ \E s \in Nat : Counts(m, h, s) /\ count'[h] <= s
  <2> TAKE h \in Handle
  <2>1. CASE h \notin CountedIn(m)
    <3>1. count'[h] = count[h] /\ count[h] \in Nat
      BY <1>5, <2>1
    <3> QED
      BY <3>1
  <2>2. CASE h \in CountedIn(m)
    <3>1. PICK s \in Nat : Counts(m, h, s)
      BY <1>7, <2>2
    <3>2. count[h] < s /\ count[h] \in Nat
      BY <1>2, <1>5, <3>1
    <3>3. count'[h] = count[h] + 1 \/ count'[h] = 1
      BY <1>5, <2>2
    <3>4. count'[h] <= s
      BY <3>2, <3>3
    <3> QED
      BY <3>1, <3>4
  <2> QED
    BY <2>1, <2>2
<1>9. \A h \in used' : h \in used \/ m.handle = h
  BY <1>1
<1>k. Known \subseteq used' \cup releasing' /\ used' \cup releasing' \subseteq Known \cup {m.handle}
  BY <1>1 DEF Known
<1>10. \A h \in used' \cup releasing' : count'[h] > 0
  <2> TAKE h \in used' \cup releasing'
  <2>1. CASE h \in Known
    <3>1. count[h] > 0 /\ h \in Handle /\ count[h] \in Nat
      BY <1>4, <1>5, <2>1
    <3>2. count'[h] = count[h] \/ count'[h] = count[h] + 1
      BY <1>5, <2>1, <3>1
    <3> QED
      BY <3>1, <3>2
  <2>2. CASE h \notin Known
    <3>1. h = m.handle /\ ReadsObject(m)
      BY <1>1, <2>2 DEF Known
    <3>2. h \in CountedIn(m) /\ h \in Handle
      BY <1>3, <3>1 DEF CountedIn
    <3>3. count'[h] = 1
      BY <1>5, <2>2, <3>2
    <3> QED
      BY <3>3
  <2> QED
    BY <2>1, <2>2
<1>11. \A h \in Handle : h \in used \cup releasing \cup unread \/ m.handle = h =>
         h \in used' \cup releasing' \cup unread'
  BY <1>1, <1>t
<1>12. used' \subseteq Handle /\ releasing' \subseteq Handle /\ used' \cap releasing' = {}
       /\ unread' \subseteq Handle
  BY <1>1, <1>2, <1>3, <1>t
<1>13. /\ Shaped' /\ Listing' /\ Counting' /\ Stamped' /\ Ordered' /\ Ended'
       /\ Described' /\ HeldHasCount' /\ ReleaseIsFinal' /\ NamedIsDescribed'
  <2>1. dead \subseteq dead' /\ m.what # "destroyed"
    BY <1>1
  <2> QED
    BY <1>0, <1>1, <1>6, <1>8, <1>9, <1>10, <1>11, <1>12, <2>1, ReadKeeps
<1>14. Requested' /\ toServer' \in Seq(Gets \cup Releases)
  <2>1. ASSUME NEW h \in Handle, h \in Known
        PROVE  /\ h \in used' \cup releasing' /\ count[h] <= count'[h]
               /\ h \in used' => h \in used \/ count[h] < count'[h]
    <3>1. h \in used' \cup releasing'
      BY <1>k, <2>1
    <3>2. count[h] \in Nat /\ (count'[h] = count[h] \/ count'[h] = count[h] + 1)
      BY <1>5, <2>1
    <3>3. ASSUME h \in used', h \notin used PROVE count[h] < count'[h]
      <4>1. h = m.handle /\ ReadsObject(m)
        BY <1>1, <3>3
      <4>2. h \in CountedIn(m)
        BY <4>1 DEF CountedIn
      <4>3. count'[h] = count[h] + 1 /\ count[h] \in Nat
        BY <1>5, <2>1, <4>2
      <4> QED
        BY <4>3
    <3> QED
      BY <3>1, <3>2, <3>3
  <2>2. \A x \in Gets \cup Releases : RequestIsTrue(x) => RequestIsTrue(x)'
    BY <1>1, <1>6, <2>1, RequestsStayTrueRead
  <2> QED
    BY <1>1, <2>2, RequestsKept
<1>15. TypeOK'
  <2>1. toClient' \in Seq(ToClient)
    BY <1>1, <1>t, Shortened
  <2>2. waiting' \subseteq Request /\ dead' \subseteq Handle
    BY <1>1, <1>t DEF TypeOK
  <2> QED
    BY <1>1, <1>6, <1>12, <1>14, <1>t, <2>1, <2>2 DEF TypeOK, session, Handle, Request
<1> QED
  BY <1>13, <1>14, <1>15 DEF IInv

\* A message that counts for nothing, and changes at most which objects are known to be destroyed.
LEMMA OtherReadsKeep ==
  ASSUME IInv, ReadsChange \/ ReadsReleased \/ ReadsDestroyed
  PROVE  IInv'
<1>t. /\ TypeOK /\ toServer \in Seq(Gets \cup Releases) /\ toClient \in Seq(ToClient)
      /\ count \in [Handle -> Nat] /\ Handle \subseteq Nat /\ NoHandle \notin Handle
      /\ used \subseteq Handle /\ releasing \subseteq Handle /\ used \cap releasing = {}
      /\ dead \subseteq Handle
  BY Types DEF IInv, TypeOK
<1>0. PICK m : m = Head(toClient)
  OBVIOUS
<1>1. /\ toClient # <<>> /\ toClient' = Tail(toClient) /\ m.what \in {"changed", "released", "destroyed"}
      /\ used' = used /\ unread' = unread /\ waiting' = waiting
      /\ toServer' = toServer /\ inputs' = inputs /\ UNCHANGED session
  BY <1>0 DEF ReadsChange, ReadsReleased, ReadsDestroyed, client
<1>2. /\ m.source \in Handle
      /\ m.what = "released" => m.source \notin used
      /\ m.what \in {"released", "destroyed"} => counter[m.source] = 0
      /\ m.handle \in Handle => FALSE
  <2>1. m.handle # NoHandle => m.what \in {"object", "event"}
    <3>1. m = toClient[1] /\ 1 \in DOMAIN toClient
      BY <1>0, <1>1, <1>t, Shortened
    <3> QED
      BY <3>1 DEF IInv, Shaped
  <2>2. /\ m.source \in Handle \cup {NoHandle} /\ (m.source = NoHandle <=> m.what = "object")
        /\ m.what = "released" => m.source \notin used
        /\ m.what \in {"released", "destroyed"} => counter[m.source] = 0
    BY <1>0, <1>1, FirstFacts
  <2> QED
    BY <1>1, <1>t, <2>1, <2>2
<1>3. /\ m.what = "released" => count' = [count EXCEPT ![m.source] = 0] /\ releasing' = releasing \ {m.source}
      /\ m.what # "released" => count' = count /\ releasing' = releasing
      /\ m.what = "destroyed" => dead' = dead \cup ({m.source} \cap used)
      /\ m.what # "destroyed" => dead' = dead
  BY <1>0 DEF ReadsChange, ReadsReleased, ReadsDestroyed, client
<1>4. count' \in [Handle -> Nat] /\ \A h \in Handle : count'[h] <= count[h]
  <2>1. \A h \in Handle : count[h] \in Nat /\ count[h] <= count[h] /\ 0 <= count[h]
    BY <1>t
  <2>2. CASE m.what = "released"
    <3>1. \A h \in Handle : count'[h] = IF h = m.source THEN 0 ELSE count[h]
      BY <1>2, <1>3, <1>t, <2>2
    <3>2. count' \in [Handle -> Nat]
      BY <1>2, <1>3, <1>t, <2>2
    <3> QED
      BY <2>1, <3>1, <3>2
  <2>3. CASE m.what # "released"
    BY <1>3, <1>t, <2>1, <2>3
  <2> QED
    BY <2>2, <2>3
<1>5. \A h \in Handle : ~(m.what = "released" /\ h = m.source) =>
        count'[h] = count[h] /\ (h \in releasing => h \in releasing')
  BY <1>2, <1>3, <1>t
<1>6. releasing' \subseteq releasing /\ (m.what = "released" => m.source \notin releasing')
  BY <1>3
<1>7. \A h \in used' \cup releasing' : count'[h] > 0
  <2> TAKE h \in used' \cup releasing'
  <2>1. h \in used \cup releasing /\ h \in Handle /\ ~(m.what = "released" /\ h = m.source)
    BY <1>1, <1>2, <1>6, <1>t
  <2>2. count[h] > 0
    BY <2>1 DEF IInv, Counting, Known
  <2> QED
    BY <1>5, <2>1, <2>2
<1>8. dead \subseteq dead' /\ dead' \subseteq Handle
      /\ \A h \in used' : m.what = "destroyed" /\ m.source = h => h \in dead'
  BY <1>1, <1>3, <1>t
<1>9. \A h \in Handle : h \in used \cup releasing \cup unread \/ m.handle = h =>
        \/ h \in used' \cup releasing' \cup unread'
        \/ m.what = "released" /\ m.source = h
  BY <1>1, <1>2, <1>5
<1>10. /\ Shaped' /\ Listing' /\ Counting' /\ Stamped' /\ Ordered' /\ Ended'
       /\ Described' /\ HeldHasCount' /\ ReleaseIsFinal' /\ NamedIsDescribed'
  <2>1. used' \subseteq Handle /\ releasing' \subseteq Handle /\ \A h \in used' : h \in used
    BY <1>1, <1>6, <1>t
  <2> QED
    BY <1>0, <1>1, <1>4, <1>7, <1>8, <1>9, <2>1, ReadKeeps
<1>11. Requested' /\ toServer' \in Seq(Gets \cup Releases)
  <2>1. ASSUME NEW h \in Handle, counter[h] > 0, h \in Known
        PROVE  /\ h \in used' \cup releasing' /\ count[h] <= count'[h]
               /\ h \in used' => h \in used \/ count[h] < count'[h]
    <3>1. ~(m.what = "released" /\ h = m.source)
      BY <1>2, <2>1
    <3>2. count'[h] = count[h] /\ count[h] \in Nat
      BY <1>5, <1>t, <3>1
    <3> QED
      BY <1>1, <1>5, <2>1, <3>1, <3>2 DEF Known
  <2>2. \A x \in Gets \cup Releases : RequestIsTrue(x) => RequestIsTrue(x)'
    BY <1>1, <1>4, <2>1, RequestsStayTrueRead
  <2> QED
    BY <1>1, <2>2, RequestsKept
<1>12. TypeOK'
  <2>1. toClient' \in Seq(ToClient)
    BY <1>1, <1>t, Shortened
  <2>2. used' \subseteq Handle /\ releasing' \subseteq Handle /\ used' \cap releasing' = {}
    BY <1>1, <1>6, <1>t
  <2> QED
    BY <1>1, <1>4, <1>8, <1>11, <1>t, <2>1, <2>2 DEF TypeOK, session, Handle, Request
<1> QED
  BY <1>10, <1>11, <1>12 DEF IInv

-----------------------------------------------------------------------------
(* The invariant *)

LEMMA Starts ==
  ASSUME Init
  PROVE  IInv
<1>1. TypeOK
  BY ObjectHandlesAssumption DEF Init, TypeOK, Handle, NoHandle
<1>2. DOMAIN toClient = {} /\ DOMAIN toServer = {}
  BY DEF Init
<1>3. Listing
  BY DEF Init, Listing, Listed, NoHandle
<1>4. Counting
  BY DEF Init, Counting, Known
<1>5. /\ Shaped /\ Stamped /\ Ordered /\ Requested /\ Ended /\ ReleaseIsFinal /\ NamedIsDescribed
  BY <1>2 DEF Shaped, Stamped, Ordered, Requested, Ended, ReleaseIsFinal, NamedIsDescribed
<1>6. Described /\ HeldHasCount
  BY DEF Init, Described, HeldHasCount
<1> QED
  BY <1>1, <1>3, <1>4, <1>5, <1>6 DEF IInv

LEMMA Inductive ==
  ASSUME IInv, [Next]_vars
  PROVE  IInv'
<1>1. CASE ClientActs
  BY <1>1, ClientActsKeep
<1>2. CASE ServerActs
  <2>1. ASSUME NEW o \in Object, NEW what \in {"changed", "event"}, Notify(o, what) PROVE IInv'
    BY <2>1, NotifyKeeps
  <2>2. ASSUME NEW b \in Boards, NEW t \in Tile, TileChanged(b, t) PROVE IInv'
    BY <2>2, TileChangedKeeps
  <2>3. ASSUME NEW o \in Object, Destroy(o) PROVE IInv'
    BY <2>3, DestroyKeeps
  <2> QED
    BY <1>2, <2>1, <2>2, <2>3 DEF ServerActs
<1>3. CASE ServerReads
  BY <1>3, RefusesGetKeeps, AnswersGetKeeps, ReceivesReleaseKeeps DEF ServerReads
<1>4. CASE ClientReads
  BY <1>4, ReadsMessageKeeps, OtherReadsKeep DEF ClientReads
<1>5. CASE UNCHANGED vars
  <2>1. /\ UNCHANGED session /\ UNCHANGED <<count, dead, unread, toClient>>
        /\ used' = used /\ releasing' = releasing /\ toServer' = toServer
        /\ waiting' = waiting /\ inputs' = inputs
    BY <1>5 DEF vars, session
  <2>2. TypeOK'
    BY <2>1 DEF IInv, TypeOK, session, Handle, Request
  <2>3. Requested'
    <3>1. \A x \in Gets \cup Releases : RequestIsTrue(x) => RequestIsTrue(x)'
      BY <2>1 DEF RequestIsTrue, Known, session
    <3> QED
      BY <2>1, <3>1, RequestsKept
  <2> QED
    BY <2>1, <2>2, <2>3, QuietKeeps DEF IInv
<1> QED
  BY <1>1, <1>2, <1>3, <1>4, <1>5 DEF Next

LEMMA InvariantHolds == Spec => []IInv
<1>1. Init => IInv
  BY Starts
<1>2. IInv /\ [Next]_vars => IInv'
  BY Inductive
<1> QED
  BY <1>1, <1>2, PTL DEF Spec

(***************************************************************************)
(* Type correctness: session.cpp and connection.cpp keep their tables of   *)
(* handles, and no object is both in m_objects and in m_requestForRelease. *)
(***************************************************************************)
THEOREM TypesAreKept == Spec => []TypeOK
<1>1. IInv => TypeOK
  BY DEF IInv
<1> QED
  BY <1>1, InvariantHolds, PTL

(***************************************************************************)
(* The comparison of counters in the session (ReleaseObject) is enough: a  *)
(* granted release is never of an object the client holds, and no message  *)
(* under way names the handle any more.                                    *)
(***************************************************************************)
THEOREM ReleasesAreFinal == Spec => []ReleaseIsFinal
<1>1. IInv => ReleaseIsFinal
  BY DEF IInv
<1> QED
  BY <1>1, InvariantHolds, PTL

(***************************************************************************)
(* Every object the client holds, and has not been told is destroyed, is   *)
(* in the handle list of its session: what the client asks of it arrives.  *)
(***************************************************************************)
THEOREM HeldObjectsAreListed == Spec => []HeldIsListed
<1>1. ASSUME IInv PROVE HeldIsListed
  <2> SUFFICES ASSUME NEW h \in used \ dead, ~OnWire("destroyed", h)
               PROVE  \E o \in Object : handleOf[o] = h
    BY DEF HeldIsListed
  <2>1. counter[h] > 0
    BY <1>1 DEF IInv, HeldHasCount
  <2>2. h \in Handle
    BY <1>1 DEF IInv, TypeOK
  <2> QED
    BY <1>1, <2>1, <2>2 DEF IInv, Listing
<1>2. IInv => HeldIsListed
  BY <1>1
<1> QED
  BY <1>2, InvariantHolds, PTL

(***************************************************************************)
(* writeObject describes an object once, and readObject needs it once: the *)
(* client knows every object that is only named, unless it dropped unread  *)
(* the message that described it.                                          *)
(***************************************************************************)
THEOREM NamesAreDescribed == Spec => []NamedIsDescribed
<1>1. IInv => NamedIsDescribed
  BY DEF IInv
<1> QED
  BY <1>1, InvariantHolds, PTL
=============================================================================
