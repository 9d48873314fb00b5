--------------------------- MODULE ThrottleProofs ---------------------------
(***************************************************************************)
(* Theorems about Throttles, for every number of throttles and decoders.   *)
(*                                                                         *)
(* Types and AcquiredIsDriven together are inductive, and DriverAgrees     *)
(* with them.  The two first are enough for the refinement: a steal is the *)
(* Take of the abstract leases.                                            *)
(***************************************************************************)
EXTENDS Throttles, TLAPS

Inv == TypeOK /\ AcquiredIsDriven

AgreeInv == Inv /\ DriverAgrees

(***************************************************************************)
(* Releasing: throttle p gives back the decoder it has.                    *)
(***************************************************************************)

\* After Throttle::release the types are kept, p has no decoder, the decoder it
\* had has no driver, and nothing else has changed.
LEMMA ReleaseEffect ==
  ASSUME Inv, NEW p \in Throttle
  PROVE  /\ DriverAfterRelease(p) \in [Decoder -> Throttle \cup {NoThrottle}]
         /\ AcquiredAfterRelease(p) \in [Throttle -> Decoder \cup {NoDecoder}]
         /\ AcquiredAfterRelease(p)[p] = NoDecoder
         /\ \A k \in Throttle \ {p} : AcquiredAfterRelease(p)[k] = acquired[k]
         /\ \A d \in Decoder : DriverAfterRelease(p)[d] =
              IF acquired[p] = d THEN NoThrottle ELSE driver[d]
BY ThrottlesAssumption DEF Inv, TypeOK, AcquiredIsDriven, DriverAfterRelease, AcquiredAfterRelease

\* A decoder that another throttle than p has keeps its driver when p releases.
LEMMA OthersUnaffected ==
  ASSUME Inv, NEW p \in Throttle, NEW k \in Throttle \ {p}, acquired[k] # NoDecoder
  PROVE  /\ acquired[k] \in Decoder
         /\ DriverAfterRelease(p)[acquired[k]] = k
<1>1. acquired[k] \in Decoder /\ driver[acquired[k]] = k
  BY DEF Inv, TypeOK, AcquiredIsDriven
<1> QED BY <1>1 DEF DriverAfterRelease

(***************************************************************************)
(* Each step keeps Inv.                                                    *)
(***************************************************************************)

\* Throttle::acquire of a free decoder: nobody else has it.
LEMMA AcquireKeepsInv ==
  ASSUME Inv, NEW h \in Throttle, NEW d \in Decoder, Acquire(h, d)
  PROVE  Inv'
<1>1. TypeOK'
  BY DEF Inv, TypeOK, Acquire, LeftBehind
<1>2. AcquiredIsDriven'
  <2> SUFFICES ASSUME NEW k \in Throttle, acquired'[k] # NoDecoder
               PROVE  /\ driver'[acquired'[k]] = k
                      /\ k \in throttles' /\ acquired'[k] \in decoders'
    BY DEF AcquiredIsDriven
  <2>1. CASE k = h
    BY <2>1 DEF Inv, TypeOK, Acquire
  <2>2. CASE k # h
    <3>1. acquired'[k] = acquired[k]
      BY <2>2 DEF Inv, TypeOK, Acquire
    <3>2. driver[acquired[k]] = k /\ k \in throttles /\ acquired[k] \in decoders
      BY <3>1 DEF Inv, AcquiredIsDriven
    <3>3. acquired[k] # d
      BY <3>2, ThrottlesAssumption DEF Acquire
    <3> QED BY <3>1, <3>2, <3>3 DEF Inv, TypeOK, Acquire
  <2> QED BY <2>1, <2>2
<1> QED BY <1>1, <1>2 DEF Inv

\* Throttle::acquire with steal: the driver p loses what it has, and no third
\* throttle had decoder d.
LEMMA StealKeepsInv ==
  ASSUME Inv, NEW h \in Throttle, NEW d \in Decoder, Steal(h, d)
  PROVE  Inv'
<1> DEFINE p == driver[d]
<1>p. p \in Throttle
  BY DEF Inv, TypeOK, Steal
<1> HIDE DEF p
<1>n. /\ driver' = [DriverAfterRelease(p) EXCEPT ![d] = h]
      /\ acquired' = [AcquiredAfterRelease(p) EXCEPT ![h] = d]
      /\ h \in throttles /\ d \in decoders
      /\ throttles' = throttles /\ decoders' = decoders
      /\ left' \subseteq Decoder
  BY DEF p, Steal, LeftBehind, Inv, TypeOK
<1>1. TypeOK'
  BY <1>p, <1>n, ReleaseEffect DEF Inv, TypeOK
<1>2. AcquiredIsDriven'
  <2> SUFFICES ASSUME NEW k \in Throttle, acquired'[k] # NoDecoder
               PROVE  /\ driver'[acquired'[k]] = k
                      /\ k \in throttles' /\ acquired'[k] \in decoders'
    BY DEF AcquiredIsDriven
  <2>1. CASE k = h
    BY <2>1, <1>p, <1>n, ReleaseEffect
  <2>2. CASE k # h
    <3>1. acquired'[k] = AcquiredAfterRelease(p)[k]
      BY <2>2, <1>p, <1>n, ReleaseEffect
    <3>2. k # p /\ acquired'[k] = acquired[k]
      BY <3>1, <1>p, ReleaseEffect
    <3>3. driver[acquired[k]] = k /\ k \in throttles /\ acquired[k] \in decoders
      BY <3>2 DEF Inv, AcquiredIsDriven
    <3>4. acquired[k] # d
      BY <3>2, <3>3 DEF p
    <3>5. acquired[k] \in Decoder /\ DriverAfterRelease(p)[acquired[k]] = k
      BY <1>p, <3>2, OthersUnaffected
    <3> QED BY <3>2, <3>3, <3>4, <3>5, <1>p, <1>n, ReleaseEffect
  <2> QED BY <2>1, <2>2
<1> QED BY <1>1, <1>2 DEF Inv

\* Throttle::release, and what deleting a throttle or a decoder does after it: what
\* another throttle has stays driven by it.
LEMMA ReleaseKeepsInv ==
  ASSUME Inv, NEW p \in Throttle,
         driver' = DriverAfterRelease(p), acquired' = AcquiredAfterRelease(p),
         throttles' \subseteq throttles, throttles \ {p} \subseteq throttles',
         decoders' \subseteq decoders, left' = left,
         \A d \in decoders : d \notin decoders' => driver[d] = p
  PROVE  Inv'
<1>1. TypeOK'
  BY ReleaseEffect DEF Inv, TypeOK
<1>2. AcquiredIsDriven'
  <2> SUFFICES ASSUME NEW k \in Throttle, acquired'[k] # NoDecoder
               PROVE  /\ driver'[acquired'[k]] = k
                      /\ k \in throttles' /\ acquired'[k] \in decoders'
    BY DEF AcquiredIsDriven
  <2>1. k # p /\ acquired'[k] = acquired[k]
    BY ReleaseEffect
  <2>2. driver[acquired[k]] = k /\ k \in throttles /\ acquired[k] \in decoders
    BY <2>1 DEF Inv, AcquiredIsDriven
  <2>3. driver'[acquired[k]] = k
    BY <2>1, OthersUnaffected
  <2> QED BY <2>1, <2>2, <2>3
<1> QED BY <1>1, <1>2 DEF Inv

\* Decoder::destroying of a decoder that nobody drives: nobody has it.
LEMMA FreeDecoderKeepsInv ==
  ASSUME Inv, NEW d \in Decoder, driver[d] = NoThrottle,
         UNCHANGED <<driver, acquired, throttles, left>>, decoders' = decoders \ {d}
  PROVE  Inv'
<1>1. \A k \in Throttle : acquired[k] # d
  BY ThrottlesAssumption DEF Inv, AcquiredIsDriven
<1> QED BY <1>1 DEF Inv, TypeOK, AcquiredIsDriven

\* Releasing and deleting keep Inv.
LEMMA LeaveKeepsInv ==
  ASSUME Inv, Leave
  PROVE  Inv'
<1>1. ASSUME NEW h \in Throttle, Release(h)
      PROVE  Inv'
  BY <1>1, ReleaseKeepsInv DEF Release
<1>2. ASSUME NEW h \in Throttle, DestroyThrottle(h)
      PROVE  Inv'
  BY <1>2, ReleaseKeepsInv DEF DestroyThrottle
<1>3. ASSUME NEW d \in Decoder, DestroyDecoder(d)
      PROVE  Inv'
  <2>1. CASE driver[d] = NoThrottle
    BY <1>3, <2>1, FreeDecoderKeepsInv DEF DestroyDecoder
  <2>2. CASE driver[d] # NoThrottle
    <3>1. driver[d] \in Throttle
      BY <2>2 DEF Inv, TypeOK
    <3> QED BY <1>3, <2>2, <3>1, ReleaseKeepsInv DEF DestroyDecoder
  <2> QED BY <2>1, <2>2
<1> QED BY <1>1, <1>2, <1>3 DEF Leave

\* Init establishes Inv and every step keeps it.
LEMMA InvIsInductive ==
  /\ Init => Inv
  /\ Inv /\ [Next]_vars => Inv'
<1>1. Init => Inv
  BY DEF Init, Inv, TypeOK, AcquiredIsDriven
<1>2. ASSUME Inv, Next
      PROVE  Inv'
  BY <1>2, LeaveKeepsInv, AcquireKeepsInv, StealKeepsInv DEF Next
<1>3. ASSUME Inv, UNCHANGED vars
      PROVE  Inv'
  BY <1>3 DEF vars, Inv, TypeOK, AcquiredIsDriven
<1> QED BY <1>1, <1>2, <1>3

(***************************************************************************)
(* A throttle that has a decoder is its driver, and both exist: however    *)
(* clients acquire, steal, release and disconnect, Decoder::release is     *)
(* only ever called by the driver.                                         *)
(***************************************************************************)
THEOREM AcquiredDecoderIsDriven == Spec => []AcquiredIsDriven
<1>1. Inv => AcquiredIsDriven
  BY DEF Inv
<1> QED BY <1>1, InvIsInductive, PTL DEF Spec

(***************************************************************************)
(* Who drives a decoder has it, or has left it.                            *)
(***************************************************************************)

\* Releasing p leaves no driver of what p has, and takes nothing from anybody else.
LEMMA ReleaseKeepsAgreement ==
  ASSUME AgreeInv, NEW p \in Throttle, left' = left,
         driver' = DriverAfterRelease(p), acquired' = AcquiredAfterRelease(p)
  PROVE  DriverAgrees'
<1> SUFFICES ASSUME NEW e \in Decoder \ left, driver'[e] # NoThrottle
             PROVE  acquired'[driver'[e]] = e
  BY DEF DriverAgrees
<1>1. driver'[e] = driver[e] /\ acquired[p] # e /\ driver[e] \in Throttle
  BY ReleaseEffect DEF AgreeInv, Inv, TypeOK
<1>2. acquired[driver[e]] = e
  BY <1>1 DEF AgreeInv, DriverAgrees
<1> QED BY <1>1, <1>2, ReleaseEffect DEF AgreeInv

\* Throttle::acquire of a free decoder: what the throttle had is left.
LEMMA AcquireKeepsAgreement ==
  ASSUME AgreeInv, NEW h \in Throttle, NEW d \in Decoder, Acquire(h, d)
  PROVE  DriverAgrees'
<1> USE DEF AgreeInv
<1> SUFFICES ASSUME NEW e \in Decoder \ left', driver'[e] # NoThrottle
             PROVE  acquired'[driver'[e]] = e
  BY DEF DriverAgrees
<1>1. CASE e = d
  BY <1>1 DEF Inv, TypeOK, Acquire
<1>2. CASE e # d
  <2>1. e \notin left /\ e \notin LeftBehind(h, d) /\ driver[d] # h
    BY <1>2, ThrottlesAssumption DEF Acquire
  <2>2. driver'[e] = driver[e] /\ driver[e] \in Throttle /\ acquired[driver[e]] = e
    BY <1>2, <2>1 DEF Inv, TypeOK, Acquire, DriverAgrees
  <2>3. driver[e] # h
    BY <2>1, <2>2, ThrottlesAssumption DEF LeftBehind
  <2> QED BY <2>2, <2>3 DEF Inv, TypeOK, Acquire
<1> QED BY <1>1, <1>2

\* Throttle::acquire with steal: the driver gives up what it has, which is d or, when it
\* has left d, another decoder that nobody drives then.
LEMMA StealKeepsAgreement ==
  ASSUME AgreeInv, NEW h \in Throttle, NEW d \in Decoder, Steal(h, d)
  PROVE  DriverAgrees'
<1> USE DEF AgreeInv
<1> DEFINE p == driver[d]
<1>1. /\ p \in Throttle
      /\ driver' = [DriverAfterRelease(p) EXCEPT ![d] = h]
      /\ acquired' = [AcquiredAfterRelease(p) EXCEPT ![h] = d]
      /\ left' = (left \ {d}) \cup LeftBehind(h, d)
      /\ LeftBehind(h, d) = IF p = h THEN {} ELSE {acquired[h]} \ {NoDecoder}
  BY DEF Inv, TypeOK, Steal, LeftBehind
<1> HIDE DEF p
<1> SUFFICES ASSUME NEW e \in Decoder \ left', driver'[e] # NoThrottle
             PROVE  acquired'[driver'[e]] = e
  BY DEF DriverAgrees
<1>2. CASE e = d
  BY <1>1, <1>2, ReleaseEffect
<1>3. CASE e # d
  <2>1. e \notin left /\ e \notin LeftBehind(h, d)
    BY <1>1, <1>3
  <2>2. driver'[e] = driver[e] /\ acquired[p] # e
    BY <1>1, <1>3, ReleaseEffect
  <2>3. driver[e] \in Throttle /\ acquired[driver[e]] = e
    BY <2>1, <2>2 DEF Inv, TypeOK, DriverAgrees
  <2>4. driver[e] # p /\ driver[e] # h
    BY <1>1, <2>1, <2>2, <2>3, ThrottlesAssumption
  <2> QED BY <1>1, <2>2, <2>3, <2>4, ReleaseEffect
<1> QED BY <1>2, <1>3

\* Releasing and deleting keep the agreement.
LEMMA LeaveKeepsAgreement ==
  ASSUME AgreeInv, Leave
  PROVE  DriverAgrees'
<1>1. ASSUME NEW d \in Decoder, DestroyDecoder(d)
      PROVE  DriverAgrees'
  <2>1. CASE driver[d] = NoThrottle
    BY <1>1, <2>1 DEF DestroyDecoder, AgreeInv, DriverAgrees
  <2>2. CASE driver[d] # NoThrottle
    <3>1. driver[d] \in Throttle
      BY <2>2 DEF AgreeInv, Inv, TypeOK
    <3> QED BY <1>1, <2>2, <3>1, ReleaseKeepsAgreement DEF DestroyDecoder
  <2> QED BY <2>1, <2>2
<1> QED BY <1>1, ReleaseKeepsAgreement DEF Leave, Release, DestroyThrottle

\* Init establishes AgreeInv and every step keeps it.
LEMMA AgreeInvIsInductive ==
  /\ Init => AgreeInv
  /\ AgreeInv /\ [Next]_vars => AgreeInv'
<1>1. Init => AgreeInv
  BY InvIsInductive DEF Init, AgreeInv, DriverAgrees
<1>2. ASSUME AgreeInv, Next
      PROVE  AgreeInv'
  <2>1. Inv'
    BY <1>2, InvIsInductive DEF AgreeInv
  <2> QED BY <1>2, <2>1, LeaveKeepsAgreement, AcquireKeepsAgreement, StealKeepsAgreement
          DEF Next, AgreeInv
<1>3. ASSUME AgreeInv, UNCHANGED vars
      PROVE  AgreeInv'
  BY <1>3, InvIsInductive DEF vars, AgreeInv, DriverAgrees
<1> QED BY <1>1, <1>2, <1>3

(***************************************************************************)
(* The driver of a decoder has it, unless it went on to another one        *)
(* without releasing it.  So the assertions in Decoder::acquire and        *)
(* Decoder::destroying fail for such decoders, and for no others.          *)
(***************************************************************************)
THEOREM DriversAgree == Spec => []DriverAgrees
<1>1. AgreeInv => DriverAgrees
  BY DEF AgreeInv
<1> QED BY <1>1, AgreeInvIsInductive, PTL DEF Spec

(***************************************************************************)
(* Acquiring is leasing.                                                   *)
(***************************************************************************)

\* What the refinement maps to Leases!left: who drives a decoder and does not have it.
LeftBy == [d \in Decoder |-> IF driver[d] # NoThrottle /\ acquired[driver[d]] # d
                               THEN driver[d] ELSE NoThrottle]

\* A step that releases throttle p only is a Return.
LEMMA ReleaseIsReturn ==
  ASSUME Inv, NEW p \in Throttle,
         driver' = DriverAfterRelease(p), acquired' = AcquiredAfterRelease(p)
  PROVE  DecoderLeases!LeasesNext
<1>1. ASSUME NEW d \in Decoder PROVE LeftBy'[d] = LeftBy[d]
  <2>1. driver'[d] = IF acquired[p] = d THEN NoThrottle ELSE driver[d]
    BY ReleaseEffect
  <2>2. acquired[p] = d => driver[d] = p
    BY ThrottlesAssumption DEF Inv, AcquiredIsDriven
  <2>3. driver[d] \in Throttle \cup {NoThrottle}
    BY DEF Inv, TypeOK
  <2>4. acquired'[p] = NoDecoder /\ \A k \in Throttle \ {p} : acquired'[k] = acquired[k]
    BY ReleaseEffect
  <2> QED BY <2>1, <2>2, <2>3, <2>4, ThrottlesAssumption DEF LeftBy
<1>2. LeftBy' = LeftBy
  BY <1>1 DEF LeftBy
<1>3. acquired' = [acquired EXCEPT ![p] = NoDecoder]
  BY DEF AcquiredAfterRelease
<1> QED BY <1>2, <1>3 DEF LeftBy, DecoderLeases!LeasesNext, DecoderLeases!Return

\* Throttle::acquire is a Take: of a free decoder, or from its driver p.
LEMMA AcquireIsTake ==
  ASSUME Inv, NEW h \in Throttle, NEW d \in Decoder, Acquire(h, d) \/ Steal(h, d)
  PROVE  DecoderLeases!Take(h, d)
<1> DEFINE p == driver[d]
           ended == {k \in Throttle : acquired[k] = d \/ LeftBy[d] = k}
<1>1. \A k \in Throttle : \A e \in Decoder : acquired[k] = e => driver[e] = k
  BY ThrottlesAssumption DEF Inv, AcquiredIsDriven
<1>2. p \in Throttle \cup {NoThrottle} /\ LeftBy[d] \in {p, NoThrottle}
      /\ (p # NoThrottle /\ acquired[p] # d => LeftBy[d] = p)
  BY DEF Inv, TypeOK, LeftBy
<1>3. ended = {p} \ {NoThrottle}
  BY <1>1, <1>2, ThrottlesAssumption
<1>4. \A e \in Decoder : driver'[e] = IF e = d THEN h
                                      ELSE IF p # NoThrottle /\ acquired[p] = e THEN NoThrottle
                                      ELSE driver[e]
  <2>1. CASE Acquire(h, d)
    BY <2>1 DEF Acquire, Inv, TypeOK
  <2>2. CASE Steal(h, d)
    BY <1>2, <2>2, ReleaseEffect DEF Steal
  <2> QED BY <2>1, <2>2
<1>5. \A k \in Throttle : acquired'[k] = IF k = h THEN d
                                         ELSE IF k = p THEN NoDecoder ELSE acquired[k]
  <2>1. CASE Acquire(h, d)
    BY <2>1, ThrottlesAssumption DEF Acquire, Inv, TypeOK
  <2>2. CASE Steal(h, d)
    BY <1>2, <2>2, ReleaseEffect DEF Steal
  <2> QED BY <2>1, <2>2
<1>6. acquired' = [k \in Throttle |-> IF k = h THEN d ELSE IF k \in ended THEN NoDecoder
                                      ELSE acquired[k]]
  <2>1. acquired' \in [Throttle -> Decoder \cup {NoDecoder}]
    <3>1. Inv'
      BY AcquireKeepsInv, StealKeepsInv
    <3> QED BY <3>1 DEF Inv, TypeOK
  <2> HIDE DEF ended, p
  <2> QED BY <1>3, <1>5, <2>1, ThrottlesAssumption
<1>7. ASSUME NEW e \in Decoder
      PROVE  LeftBy'[e] = IF e = d THEN NoThrottle ELSE IF acquired[h] = e /\ h \notin ended THEN h
                          ELSE LeftBy[e]
  <2> HIDE DEF p, ended
  <2>1. LeftBy'[e] = IF driver'[e] # NoThrottle /\ acquired'[driver'[e]] # e
                       THEN driver'[e] ELSE NoThrottle
    BY DEF LeftBy
  <2>2. LeftBy[e] = IF driver[e] # NoThrottle /\ acquired[driver[e]] # e
                      THEN driver[e] ELSE NoThrottle
    BY DEF LeftBy
  <2>3. CASE e = d
    BY <1>4, <1>5, <2>1, <2>3
  <2>4. CASE e # d /\ p # NoThrottle /\ acquired[p] = e
    <3>1. p \in Throttle /\ driver[e] = p
      BY <1>1, <1>2, <2>4
    <3>2. LeftBy'[e] = NoThrottle /\ LeftBy[e] = NoThrottle
      BY <1>4, <2>1, <2>2, <2>4, <3>1
    <3>3. ~(acquired[h] = e /\ h \notin ended)
      BY <1>1, <1>3, <3>1, ThrottlesAssumption
    <3> QED BY <2>4, <3>2, <3>3
  <2>5. CASE e # d /\ ~(p # NoThrottle /\ acquired[p] = e)
    <3>1. driver'[e] = driver[e] /\ driver[e] \in Throttle \cup {NoThrottle}
      BY <1>4, <2>5 DEF Inv, TypeOK
    <3>2. acquired[h] = e => driver[e] = h /\ h \notin ended
      BY <1>1, <1>3, <2>5, ThrottlesAssumption
    <3>3. CASE driver[e] = NoThrottle
      BY <2>1, <2>2, <2>5, <3>1, <3>2, <3>3, ThrottlesAssumption
    <3>4. CASE driver[e] = h
      <4>1. LeftBy'[e] = h
        BY <1>5, <2>1, <2>5, <3>1, <3>4, ThrottlesAssumption
      <4> QED BY <2>2, <2>5, <3>2, <3>4, <4>1, ThrottlesAssumption
    <3>5. CASE driver[e] \in Throttle \ {h}
      <4>1. acquired'[driver[e]] = IF driver[e] = p THEN NoDecoder ELSE acquired[driver[e]]
        BY <1>5, <3>5
      <4>2. driver[e] = p => acquired[p] # e
        BY <2>5, <3>5, ThrottlesAssumption
      <4>3. LeftBy'[e] = LeftBy[e]
        BY <2>1, <2>2, <3>1, <4>1, <4>2, ThrottlesAssumption
      <4> QED BY <2>5, <3>2, <3>5, <4>3
    <3> QED BY <3>1, <3>3, <3>4, <3>5
  <2> QED BY <2>3, <2>4, <2>5
<1>8. LeftBy' = [e \in Decoder |-> IF e = d THEN NoThrottle
                                   ELSE IF acquired[h] = e /\ h \notin ended THEN h ELSE LeftBy[e]]
  <2> HIDE DEF ended, p
  <2> QED BY <1>7 DEF LeftBy
<1> QED BY <1>6, <1>8 DEF LeftBy, DecoderLeases!Take

\* Every step is a step of the leases or leaves them alone.
LEMMA StepIsLease ==
  ASSUME Inv, [Next]_vars
  PROVE  [DecoderLeases!LeasesNext]_<<acquired, LeftBy>>
<1>1. ASSUME NEW h \in Throttle, NEW d \in Decoder, Acquire(h, d) \/ Steal(h, d)
      PROVE  DecoderLeases!LeasesNext
  BY <1>1, AcquireIsTake DEF DecoderLeases!LeasesNext
<1>2. ASSUME NEW d \in Decoder, DestroyDecoder(d)
      PROVE  DecoderLeases!LeasesNext \/ UNCHANGED <<acquired, LeftBy>>
  <2>1. CASE driver[d] = NoThrottle
    BY <1>2, <2>1 DEF DestroyDecoder, LeftBy
  <2>2. CASE driver[d] # NoThrottle
    <3>1. driver[d] \in Throttle
      BY <2>2 DEF Inv, TypeOK
    <3> QED BY <1>2, <2>2, <3>1, ReleaseIsReturn DEF DestroyDecoder
  <2> QED BY <2>1, <2>2
<1>3. ASSUME Leave
      PROVE  DecoderLeases!LeasesNext \/ UNCHANGED <<acquired, LeftBy>>
  BY <1>2, <1>3, ReleaseIsReturn DEF Leave, Release, DestroyThrottle
<1>4. ASSUME UNCHANGED vars
      PROVE  UNCHANGED <<acquired, LeftBy>>
  BY <1>4 DEF vars, LeftBy
<1> QED BY <1>1, <1>3, <1>4 DEF Next

(***************************************************************************)
(* The throttles implement the abstract leases, whatever clients do: a     *)
(* throttle loses a decoder only by returning it, or because another one   *)
(* takes that decoder or one it has left without returning it.             *)
(***************************************************************************)
THEOREM ThrottlesImplementLeases == Spec => ImplementsLeases
<1>1. Init => DecoderLeases!LeasesInit
  BY DEF Init, DecoderLeases!LeasesInit
<1>2. ASSUME Inv, [Next]_vars
      PROVE  [DecoderLeases!LeasesNext]_<<acquired, [d \in Decoder |->
               IF driver[d] # NoThrottle /\ acquired[driver[d]] # d
                 THEN driver[d] ELSE NoThrottle]>>
  BY <1>2, StepIsLease DEF LeftBy
<1> QED BY <1>1, <1>2, InvIsInductive, PTL
    DEF Spec, ImplementsLeases, DecoderLeases!LeasesSpec
=============================================================================
