-------------------------- MODULE MCAtomicTeleport --------------------------
(* Instances of AtomicTeleport for TLC: the constants are in the cfgs. *)
EXTENDS AtomicTeleport
=============================================================================
