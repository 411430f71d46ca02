---------------------------- MODULE MCEventQueue ----------------------------
(* TLC instance of EventQueue: constants and the symmetry of addresses.     *)
EXTENDS EventQueue, TLC

AddressSymmetry == Permutations(Blocks)

=============================================================================
