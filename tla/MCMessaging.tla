---------------------------- MODULE MCMessaging ----------------------------
(* Model checking of Messaging: the hub with one privacy node or with two. *)
EXTENDS Messaging

CONSTANTS a, b

OneNode  == {Hub, a}
TwoNodes == {Hub, a, b}
=============================================================================
