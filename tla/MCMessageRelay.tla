---------------------------- MODULE MCMessageRelay ----------------------------
(***************************************************************************)
(* Instances of MessageRelay for TLC: two users with one device each, and  *)
(* two calls in progress at a time.                                        *)
(***************************************************************************)
EXTENDS MessageRelay, TLC

CONSTANTS alice, bob, a1, b1, w1, w2

TwoUsers   == {alice, bob}
TwoDevices == {a1, b1}
OwnerOfTwo == (a1 :> alice) @@ (b1 :> bob)

Workers == Permutations(Worker)

=============================================================================
