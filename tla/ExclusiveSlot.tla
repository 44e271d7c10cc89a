---------------------------- MODULE ExclusiveSlot ----------------------------
(***************************************************************************)
(* What "at most one at a time" promises of a set of slots: each is free   *)
(* or has one holder, passes from one holder to another only by being free *)
(* in between, and changes alone.  The active binding of a workspace to a  *)
(* provider is such a slot.                                                *)
(***************************************************************************)
CONSTANTS Slots, Holders

VARIABLE holders   \* who holds each slot

Init == holders = [s \in Slots |-> {}]

Acquire(s, h) ==
  /\ holders[s] = {}
  /\ holders' = [holders EXCEPT ![s] = {h}]

Release(s) ==
  /\ holders[s] # {}
  /\ holders' = [holders EXCEPT ![s] = {}]

Next == \E s \in Slots : Release(s) \/ \E h \in Holders : Acquire(s, h)

Spec == Init /\ [][Next]_holders
=============================================================================
