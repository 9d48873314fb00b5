----------------------------- MODULE Throttles ------------------------------
(***************************************************************************)
(* Who drives a decoder: throttles acquire decoders, steal them from each  *)
(* other and release them, throttles disconnect and decoders are deleted.  *)
(* Throttle and decoder each keep their side of the relation.              *)
(*                                                                         *)
(* Only the relation is modelled, not the speeds and functions a throttle  *)
(* commands.  Every handler runs to its end on the event loop.             *)
(***************************************************************************)
EXTENDS Naturals

CONSTANTS
  Throttle,     \* throttles, e.g. those of WiThrottle clients
  Decoder,      \* decoders
  NoThrottle,   \* the driver of a decoder nobody drives
  NoDecoder     \* the decoder of a throttle that has none

ASSUME ThrottlesAssumption == NoThrottle \notin Throttle /\ NoDecoder \notin Decoder

VARIABLES
  driver,      \* driver[d]: Decoder::m_driver
  acquired,    \* acquired[h]: Throttle::m_decoder
  throttles,   \* the throttles that exist
  decoders,    \* the decoders that exist
  left         \* history: decoders whose driver acquired another one while it had them

vars == <<driver, acquired, throttles, decoders, left>>

-----------------------------------------------------------------------------
\* Faulty variant of DriverAfterRelease: the decoder keeps its driver.
DriverKept(h) == driver

(***************************************************************************)
(* Throttle::release on throttle h, and Decoder::release in it: the        *)
(* decoder that h has is reset, if h drives it.                            *)
(***************************************************************************)
DriverAfterRelease(h) ==
  [d \in Decoder |-> IF acquired[h] = d /\ driver[d] = h THEN NoThrottle ELSE driver[d]]

\* Faulty variant of AcquiredAfterRelease: the throttle keeps its decoder.
AcquiredAfterNothing(h) == acquired

AcquiredAfterRelease(h) == [acquired EXCEPT ![h] = NoDecoder]

Release(h) ==
  /\ acquired[h] # NoDecoder
  /\ driver' = DriverAfterRelease(h)
  /\ acquired' = AcquiredAfterRelease(h)
  /\ UNCHANGED <<throttles, decoders, left>>

(***************************************************************************)
(* Throttle::acquire does not release the decoder the throttle has: it is  *)
(* left with its driver, unless that is the one whose decoder is stolen.   *)
(***************************************************************************)
LeftBehind(h, d) == IF driver[d] = h THEN {} ELSE {acquired[h]} \ {NoDecoder}

\* Throttle::acquire of a decoder that nobody drives.
Acquire(h, d) ==
  /\ h \in throttles /\ d \in decoders
  /\ driver[d] = NoThrottle
  /\ driver' = [driver EXCEPT ![d] = h]
  /\ acquired' = [acquired EXCEPT ![h] = d]
  /\ left' = (left \ {d}) \cup LeftBehind(h, d)
  /\ UNCHANGED <<throttles, decoders>>

\* Faulty variant of Steal: the throttle that had the decoder is not told.
StealSilently(h, d) ==
  /\ h \in throttles /\ d \in decoders
  /\ driver[d] # NoThrottle
  /\ driver' = [driver EXCEPT ![d] = h]
  /\ acquired' = [acquired EXCEPT ![h] = d]
  /\ left' = (left \ {d}) \cup LeftBehind(h, d)
  /\ UNCHANGED <<throttles, decoders>>

(***************************************************************************)
(* Throttle::acquire with steal: the driver of the decoder is released,    *)
(* of whatever decoder it has; then the decoder gets its new driver, also  *)
(* when the old one is still there, which an assertion denies.             *)
(***************************************************************************)
Steal(h, d) ==
  /\ h \in throttles /\ d \in decoders
  /\ driver[d] # NoThrottle
  /\ driver' = [DriverAfterRelease(driver[d]) EXCEPT ![d] = h]
  /\ acquired' = [AcquiredAfterRelease(driver[d]) EXCEPT ![h] = d]
  /\ left' = (left \ {d}) \cup LeftBehind(h, d)
  /\ UNCHANGED <<throttles, decoders>>

\* Throttle::destroying: a client disconnects, or its interface goes offline.
DestroyThrottle(h) ==
  /\ h \in throttles
  /\ driver' = DriverAfterRelease(h)
  /\ acquired' = AcquiredAfterRelease(h)
  /\ throttles' = throttles \ {h}
  /\ UNCHANGED <<decoders, left>>

\* Decoder::destroying releases the driver, if there is one.
DestroyDecoder(d) ==
  /\ d \in decoders
  /\ IF driver[d] = NoThrottle
       THEN UNCHANGED <<driver, acquired>>
       ELSE /\ driver' = DriverAfterRelease(driver[d])
            /\ acquired' = AcquiredAfterRelease(driver[d])
  /\ decoders' = decoders \ {d}
  /\ UNCHANGED <<throttles, left>>

Init ==
  /\ driver = [d \in Decoder |-> NoThrottle]
  /\ acquired = [h \in Throttle |-> NoDecoder]
  /\ throttles = Throttle
  /\ decoders = Decoder
  /\ left = {}

Leave ==
  \/ \E h \in Throttle : Release(h) \/ DestroyThrottle(h)
  \/ \E d \in Decoder : DestroyDecoder(d)

Next == Leave \/ \E h \in Throttle, d \in Decoder : Acquire(h, d) \/ Steal(h, d)

Spec == Init /\ [][Next]_vars

-----------------------------------------------------------------------------
(* Properties *)

\* Each side of the relation has its type.
TypeOK ==
  /\ driver \in [Decoder -> Throttle \cup {NoThrottle}]
  /\ acquired \in [Throttle -> Decoder \cup {NoDecoder}]
  /\ throttles \subseteq Throttle
  /\ decoders \subseteq Decoder
  /\ left \subseteq Decoder

(***************************************************************************)
(* A throttle that has a decoder drives it ("else assert(false)" in        *)
(* Decoder::release is never reached), so two throttles never have the     *)
(* same decoder, and a decoder that a throttle has still exists.           *)
(***************************************************************************)
AcquiredIsDriven ==
  \A h \in Throttle : acquired[h] # NoDecoder =>
    driver[acquired[h]] = h /\ h \in throttles /\ acquired[h] \in decoders

(***************************************************************************)
(* The driver of a decoder has it: after it is released the decoder is     *)
(* free, as Decoder::acquire and Decoder::destroying assert.  The only     *)
(* exception is a driver that went on to another decoder without releasing *)
(* the one it had; until somebody steals it, that one stays with it.       *)
(***************************************************************************)
DriverAgrees ==
  \A d \in Decoder \ left : driver[d] # NoThrottle => acquired[driver[d]] = d

(***************************************************************************)
(* Acquiring is leasing.  A decoder whose driver does not have it was left *)
(* by it, and a steal of it ends the lease of whatever its driver has now. *)
(* Nobody else ever loses a decoder that another throttle did not ask for. *)
(***************************************************************************)
DecoderLeases == INSTANCE Leases WITH
  Nothing <- NoDecoder,
  Nobody <- NoThrottle,
  lease <- acquired,
  left <- [d \in Decoder |-> IF driver[d] # NoThrottle /\ acquired[driver[d]] # d
                               THEN driver[d] ELSE NoThrottle]

\* The decoders that throttles have are leases: Throttles implements Leases.
ImplementsLeases == DecoderLeases!LeasesSpec
=============================================================================
