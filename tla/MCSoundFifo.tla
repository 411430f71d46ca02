----------------------------- MODULE MCSoundFifo -----------------------------
(* TLC instance of SoundFifo.                                               *)
EXTENDS SoundFifo

=============================================================================
