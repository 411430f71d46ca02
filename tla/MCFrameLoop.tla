----------------------------- MODULE MCFrameLoop -----------------------------
(* TLC instances of FrameLoop: a frame of a few T-states per machine.        *)
EXTENDS FrameLoop

CONSTANTS m1, m2

FrameLengths == [m \in Machines |-> IF m = m1 THEN 4 ELSE 5]

=============================================================================
