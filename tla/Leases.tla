------------------------------- MODULE Leases -------------------------------
(***************************************************************************)
(* What acquiring a decoder promises.  A throttle has at most one decoder, *)
(* a decoder is had by at most one throttle, and a throttle that takes a   *)
(* decoder over takes it from the one that has it.                         *)
(*                                                                         *)
(* A throttle may take a decoder while it has another one: it then leaves  *)
(* that one without returning it.  The promise to it is a weaker one: its  *)
(* lease ends also when somebody takes what it left.                       *)
(***************************************************************************)
CONSTANTS
  Throttle,   \* throttles
  Decoder,    \* decoders
  Nothing,    \* the lease of a throttle that has no decoder
  Nobody      \* who left a decoder that is had, or was returned

VARIABLES
  lease,   \* lease[h]: the decoder throttle h has
  left     \* left[d]: the throttle that left decoder d for another one

LeasesInit ==
  /\ lease = [h \in Throttle |-> Nothing]
  /\ left = [d \in Decoder |-> Nobody]

\* Throttle h takes decoder d, from the throttle that has it or has left it.
Take(h, d) ==
  LET ended == {k \in Throttle : lease[k] = d \/ left[d] = k}
  IN  /\ lease' = [k \in Throttle |-> IF k = h THEN d
                                      ELSE IF k \in ended THEN Nothing
                                      ELSE lease[k]]
      /\ left' = [e \in Decoder |-> IF e = d THEN Nobody
                                    ELSE IF lease[h] = e /\ h \notin ended THEN h
                                    ELSE left[e]]

Return(h) == lease' = [lease EXCEPT ![h] = Nothing] /\ UNCHANGED left

LeasesNext == \E h \in Throttle : Return(h) \/ \E d \in Decoder : Take(h, d)

LeasesSpec == LeasesInit /\ [][LeasesNext]_<<lease, left>>
=============================================================================
