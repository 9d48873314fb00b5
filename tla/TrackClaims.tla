---------------------------- MODULE TrackClaims ----------------------------
(***************************************************************************)
(* What the block administration promises, whatever the layout: a block is *)
(* held by at most one holder (a train, or the tag of a vehicle that an    *)
(* identification detector reported), it is claimed only while nobody      *)
(* holds it, and it never passes from one holder to another in one step.   *)
(*                                                                         *)
(* One step is about one holder: it may claim one more block and let go    *)
(* any of the blocks it holds (a train that enters a block leaves the      *)
(* blocks behind its tail in the same step).                               *)
(***************************************************************************)
CONSTANTS
  Block,     \* the blocks of the boards
  Holder,    \* trains and identification tags
  Nobody     \* the holder of a block that is not claimed

VARIABLE holder   \* holder[b]: who holds block b

ClaimsTypeOK == holder \in [Block -> Holder \cup {Nobody}]

ClaimsInit == holder = [b \in Block |-> Nobody]

(***************************************************************************)
(* Holder h claims the blocks in gained, none or one, and lets go those in *)
(* lost.                                                                   *)
(***************************************************************************)
Move(h, gained, lost) ==
  /\ \A b, c \in gained : b = c
  /\ \A b \in gained : holder[b] = Nobody
  /\ \A b \in lost : holder[b] = h
  /\ holder' = [b \in Block |-> IF b \in gained THEN h
                                ELSE IF b \in lost THEN Nobody
                                ELSE holder[b]]

ClaimsNext ==
  \E h \in Holder : \E gained, lost \in SUBSET Block : Move(h, gained, lost)

ClaimsSpec == ClaimsInit /\ [][ClaimsNext]_holder
=============================================================================
