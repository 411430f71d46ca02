---------------------------- MODULE FloppyDrive ----------------------------
(* A floppy disk drive, fuse/peripherals/disk/fdd.c, as a record, with its  *)
(* motor event.  What is on the disk and where the head is are left out, and *)
(* so are the index events: a pulse may come at any time.                   *)

Drive == [loaded : BOOLEAN,
          motoron : BOOLEAN,
          ready : BOOLEAN,
          motor_event : BOOLEAN,    \* one is pending
          fdc : BOOLEAN]            \* the controller waits for an index pulse

\* Nothing loaded, as fdd_init leaves it, or loaded before it is first used.
fdd_init(disk) ==
    [loaded |-> disk, motoron |-> FALSE, ready |-> FALSE,
     motor_event |-> FALSE, fdc |-> FALSE]

\* MUTANT: only a motor that starts has its event.
fdd_motoron_off_unseen(d, on) ==
    IF ~d.loaded \/ d.motoron = on THEN d
    ELSE [d EXCEPT !.motoron = on, !.motor_event = on]

\* The pending motor event is replaced.
fdd_motoron(d, on) ==
    IF ~d.loaded \/ d.motoron = on THEN d
    ELSE [d EXCEPT !.motoron = on, !.motor_event = TRUE]

fdd_load(d) == [d EXCEPT !.loaded = TRUE, !.ready = d.motoron]

\* loaded is reset first: fdd_motoron then returns at once, so the motor of a
\* drive that loses its disk stays on.
fdd_unload(d) == fdd_motoron([d EXCEPT !.loaded = FALSE, !.ready = FALSE], FALSE)

\* fdd_event, for a motor event ...
MotorEvent(d) ==
    [d EXCEPT !.motor_event = FALSE, !.ready = d.motoron /\ d.loaded]

\* ... and for the index event that ends a pulse, with a controller waiting.
IndexEvent(d) == [d EXCEPT !.fdc = FALSE]

\* Reading gives the byte that was there last, with the index hole as it was:
\* there is no disk, or it stands still.
Still(d) == ~d.ready /\ ~(d.loaded /\ d.motoron)

=============================================================================
