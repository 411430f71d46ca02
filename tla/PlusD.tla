------------------------------- MODULE PlusD -------------------------------
(* The +D interface, fuse/peripherals/disk/plusd.c: a WD1770 and two drives,*)
(* one of them selected, the program that uses them, the user who inserts   *)
(* and ejects disks (uimedia.c), and the events of all of them.  How far an *)
(* event is away is left out: any that is pending may be the next.          *)
EXTENDS WdFdc

CONSTANTS
    Drives,         \* plusd_drives
    Pulses,         \* whether each byte is asked for: FALSE for the +D, TRUE
                    \* for the Opus, which has the same drives
    EjectSpinning   \* the drives whose disk may be ejected with the motor on

ASSUME PlusDAssumption ==
    Drives # {} /\ Pulses \subseteq BOOLEAN /\ EjectSpinning \subseteq Drives

VARIABLES
    fdc,            \* plusd_fdc
    drives,
    current_drive   \* plusd_fdc->current_drive, the one selected

vars == <<fdc, drives, current_drive>>

plusd_init ==
    /\ \E pulse \in Pulses :
          fdc = [drq_pulse |-> pulse, state |-> "NONE", busy |-> FALSE,
                 motoron |-> FALSE, intrq |-> FALSE, datarq |-> FALSE,
                 read_id |-> FALSE, id_mark |-> FALSE, rev |-> 0,
                 flag |-> FALSE, steps |-> 0, sectors |-> 0, data_offset |-> 0,
                 fdc_event |-> FALSE, motor_off_event |-> FALSE,
                 timeout_event |-> FALSE, never |-> FALSE]
    /\ drives \in [Drives -> {fdd_init(FALSE), fdd_init(TRUE)}]
    /\ current_drive \in Drives

\* Nothing happens any more once a search goes round for ever.
Running == ~fdc.never

\* A handler of the controller runs, on the drive selected.
Handle(outcomes) ==
    /\ Running
    /\ \E o \in outcomes :
          /\ fdc' = o.fdc
          /\ drives' = [drives EXCEPT ![current_drive] = o.drive]
    /\ UNCHANGED current_drive

selected == drives[current_drive]

----------------------------------------------------------------------------
(* The program *)

\* A command, unless another is executing.
plusd_cr_write ==
    /\ ~fdc.busy
    /\ \E h \in BOOLEAN :
          \/ \E verify \in BOOLEAN, steps \in 0 .. MaxSteps :
                Handle(TypeI(fdc, selected, h, verify, steps))
          \/ \E e, m \in BOOLEAN, state \in SectorStates,
                sectors \in 0 .. MaxSectors :
                /\ m \/ sectors <= 1      \* only one is looked for
                /\ Handle(TypeII(fdc, selected, h, e, state, m, sectors))
          \/ \E e \in BOOLEAN, state \in DataStates \ SectorStates :
                Handle(TypeIII(fdc, selected, h, e, state))

ForceInterrupt ==
    \E when \in {"never", "index", "at once"} : Handle(TypeIV(fdc, selected, when))

\* Data are read and written, whether they are asked for or not.
plusd_dr_read ==
    /\ fdc.state \in {"READ", "READID", "READTRACK"}
    /\ Handle(wd_fdc_dr_read(fdc, selected))

plusd_dr_write ==
    /\ fdc.state \in {"WRITE", "WRITETRACK"}
    /\ Handle(wd_fdc_dr_write(fdc, selected))

\* The status is read; a command written while another is executing does no more.
plusd_sr_read ==
    /\ Running /\ fdc.intrq
    /\ fdc' = [fdc EXCEPT !.intrq = FALSE]
    /\ UNCHANGED <<drives, current_drive>>

\* MUTANT: the drive left keeps its motor on.
plusd_cn_write_both(drive) ==
    /\ Running /\ drive # current_drive
    /\ drives' = IF selected.motoron
                 THEN [drives EXCEPT ![drive] = fdd_motoron(@, TRUE)]
                 ELSE drives
    /\ current_drive' = drive
    /\ UNCHANGED fdc

\* Another drive is selected: it takes over the motor.
plusd_cn_write(drive) ==
    /\ Running /\ drive # current_drive
    /\ drives' = IF selected.motoron
                 THEN [drives EXCEPT ![current_drive] = fdd_motoron(@, FALSE),
                                     ![drive] = fdd_motoron(@, TRUE)]
                 ELSE drives
    /\ current_drive' = drive
    /\ UNCHANGED fdc

----------------------------------------------------------------------------
(* The user *)

ui_media_drive_insert(d) ==
    /\ Running /\ ~drives[d].loaded
    /\ drives' = [drives EXCEPT ![d] = fdd_load(@)]
    /\ UNCHANGED <<fdc, current_drive>>

ui_media_drive_eject(d) ==
    /\ Running /\ drives[d].loaded
    /\ drives[d].motoron => d \in EjectSpinning
    /\ drives' = [drives EXCEPT ![d] = fdd_unload(@)]
    /\ UNCHANGED <<fdc, current_drive>>

----------------------------------------------------------------------------
(* Events *)

FdcEventDue == fdc.fdc_event /\ Handle(FdcEvent(fdc, selected))

TimeoutDue == fdc.timeout_event /\ Handle(TimeoutEvent(fdc, selected))

MotorOffDue == fdc.motor_off_event /\ Handle(MotorOffEvent(fdc, selected))

DriveReadyDue(d) ==
    /\ Running /\ drives[d].motor_event
    /\ drives' = [drives EXCEPT ![d] = MotorEvent(@)]
    /\ UNCHANGED <<fdc, current_drive>>

\* A waiting controller is told of the end of the pulse.
IndexDue(d) ==
    /\ Running /\ drives[d].fdc
    /\ drives' = [drives EXCEPT ![d] = IndexEvent(@)]
    /\ fdc' = wd_fdc_set_intrq(fdc)
    /\ UNCHANGED current_drive

----------------------------------------------------------------------------

Init == plusd_init

Next ==
    \/ plusd_cr_write
    \/ ForceInterrupt
    \/ plusd_dr_read
    \/ plusd_dr_write
    \/ plusd_sr_read
    \/ FdcEventDue
    \/ TimeoutDue
    \/ MotorOffDue
    \/ \E d \in Drives :
          \/ plusd_cn_write(d)
          \/ ui_media_drive_insert(d)
          \/ ui_media_drive_eject(d)
          \/ DriveReadyDue(d)
          \/ IndexDue(d)

\* The emulator goes on (FrameLoop): the events that are pending happen.
Fairness == WF_vars(FdcEventDue) /\ WF_vars(TimeoutDue)

Spec == Init /\ [][Next]_vars

LiveSpec == Spec /\ Fairness

----------------------------------------------------------------------------
(* Properties *)

\* The type invariant.
TypeOK ==
    /\ fdc \in Fdc
    /\ drives \in [Drives -> Drive]
    /\ current_drive \in Drives

\* A search was interrupted, or ended by data read or written before they were
\* asked for, and read_id left set, and the command is one that wd_fdc_event then
\* does not go on with.
Abandoned ==
    fdc.read_id /\ fdc.state \in {"NONE", "SEEK", "SEEK_DELAY", "READTRACK", "WRITETRACK"}

\* A command that is executing waits for its event, or for the program, under a
\* timeout, whatever events and whatever swaps of disks and drives come in
\* between (wd_fdc.c); but for Abandoned.
Executing ==
    fdc.busy => \/ fdc.fdc_event
                \/ fdc.datarq /\ fdc.timeout_event
                \/ Abandoned
                \/ fdc.never

\* A command that comes to its end by itself raises INTRQ (wd_fdc.c).
CompletionSignalled ==
    [][fdc.busy /\ ~fdc'.busy /\ ~ForceInterrupt => fdc'.intrq]_vars

\* A drive whose motor is on is the one selected: no drive is left spinning when
\* another is selected, however late its events are (plusd.c); but for a drive
\* whose disk was ejected with the motor on, whose motor nothing turns off.
MotorFollows ==
    \A d \in Drives \ EjectSpinning :
        drives[d].motoron => d = current_drive

\* READY goes to what the motor says: when they differ an event is pending to
\* see to it, for this drive (fdd.c).
ReadySettles ==
    \A d \in Drives :
        drives[d].loaded /\ drives[d].ready # drives[d].motoron =>
            drives[d].motor_event

\* The revolutions left have been taken down past 0, on a drive without a disk or
\* on a disk that stands still: a search that then goes on for rev to be 0 goes
\* round for ever, or is armed again for ever, which changes nothing and so is no
\* step that Fairness would count.
Overrun == fdc.rev < 0


\* "return 1 if not found ID" (wd_fdc.c, read_id): it returns when nothing is
\* found.  With rev below 0 it does, and the loop is its caller's.
ReadIdReturns == fdc.never => Overrun

=============================================================================
