------------------------------- MODULE WdFdc -------------------------------
(* A WD1770 or WD1772 floppy disk controller,                               *)
(* fuse/peripherals/disk/wd_fdc.c, as a record, with its events.  A handler *)
(* maps the controller and the current drive to what they may be next; the  *)
(* data of a disk only matter by what a search for an ID or a data mark     *)
(* finds and by whether a transfer goes on.                                 *)
EXTENDS Integers, FloppyDrive

CONSTANTS
    REV,            \* revolutions that a search takes at most
    MaxSteps,       \* bound: tracks to step over
    MaxSectors,     \* bound: sectors of a command for several
    SectorLength    \* bound: bytes of a sector

ASSUME FdcAssumption ==
    /\ REV \in Nat \ {0} /\ SectorLength \in Nat \ {0}
    /\ MaxSteps \in Nat /\ MaxSectors \in Nat

Seeking == {"SEEK", "SEEK_DELAY"}
SectorStates == {"READ", "WRITE"}
DataStates == SectorStates \cup {"READTRACK", "WRITETRACK", "READID"}
States == {"NONE", "VERIFY"} \cup Seeking \cup DataStates

Fdc == [drq_pulse : BOOLEAN,        \* WD_FLAG_DRQ: each byte is asked for
        state : States,
        busy : BOOLEAN,             \* WD_FDC_SR_BUSY
        motoron : BOOLEAN,          \* WD_FDC_SR_MOTORON
        intrq : BOOLEAN,
        datarq : BOOLEAN,
        read_id : BOOLEAN,
        id_mark : BOOLEAN,          \* not WD_FDC_AM_NONE
        rev : -1 .. REV,    \* revolutions left; -1: taken down past 0
        flag : BOOLEAN,     \* of command_register: verify, or several sectors
        steps : 0 .. MaxSteps,      \* from track_register to data_register
        sectors : 0 .. MaxSectors,  \* there are from sector_register on
        data_offset : 0 .. SectorLength,
        fdc_event : BOOLEAN,        \* one is pending, or several: the first
        motor_off_event : BOOLEAN,  \* to happen leaves nothing to the others
        timeout_event : BOOLEAN,
        never : BOOLEAN]            \* a loop that waits for rev goes round for ever

Outcome(f, d) == [fdc |-> f, drive |-> d]

----------------------------------------------------------------------------
(* The end of a command *)

wd_fdc_set_intrq(f) ==
    [f EXCEPT !.intrq = TRUE,
              !.motor_off_event = @ \/ f.motoron]

\* What a command has left in the registers does not matter to the next one,
\* but for the ID of a search that was interrupted.
Stopped(f) ==
    [f EXCEPT !.state = "NONE", !.busy = FALSE, !.datarq = FALSE,
              !.id_mark = @ /\ f.read_id,
              !.rev = 0, !.flag = FALSE, !.steps = 0, !.sectors = 0,
              !.data_offset = 0]

\* MUTANT: without INTRQ.
Complete_silent(f) == Stopped(f)

\* What every command that ends by itself does.
Complete(f) == wd_fdc_set_intrq(Stopped(f))

----------------------------------------------------------------------------
(* Searching the track for an ID *)

\* The count of revolutions is taken down for every byte that read_id reads at
\* the index hole, and it stops at any change: one where the disk goes by, but
\* up to four where nothing does and the byte left is a sync byte.
Missed(f, d) ==
    {[f EXCEPT !.rev = r] : r \in 0 .. f.rev - 1}
    \cup IF Still(d) THEN {[f EXCEPT !.rev = -1]} ELSE {}

\* The IDs that are not looked for are passed over.  A search goes on in an
\* event when the ID it stopped at, or the index hole, is further along the
\* track; else it is decided at once.  read_id itself never returns where a disk
\* stands still with the index hole elsewhere, and its callers, who go on until
\* rev is 0, do not once it is below.
Search(f, d, exists) ==
    LET At(f1, result) == [fdc |-> f1, result |-> result]
        Wait(f1) == [f1 EXCEPT !.fdc_event = TRUE]
        found == IF d.ready /\ exists
                 THEN {[f EXCEPT !.id_mark = TRUE, !.rev = r] : r \in 0 .. f.rev}
                 ELSE {}
        Never(f1) == At([f1 EXCEPT !.never = TRUE], "never")
    IN IF f.id_mark THEN {At(f, "found")}
       ELSE IF f.rev = 0 THEN {At(f, "none")}
       ELSE IF f.rev < 0 THEN {At(Wait(f), "wait"), Never(f)}
       ELSE {At(f1, "found") : f1 \in found}
            \cup {At(Wait(f1), "wait") : f1 \in found}
            \cup {At(Wait(f1), "wait") : f1 \in Missed(f, d)}
            \cup {At([f EXCEPT !.rev = 0], "none")}
            \cup (IF Still(d) THEN {Never([f EXCEPT !.rev = -1])} ELSE {})
            \cup (IF Still(d) /\ d.loaded THEN {Never(f)} ELSE {})

----------------------------------------------------------------------------
(* Type I commands: restore, seek, step *)

wd_fdc_seek_verify_read_id(f, d) ==
    {IF s.result \in {"found", "none"}
     THEN Complete([s.fdc EXCEPT !.read_id = FALSE])
     ELSE s.fdc
        : s \in Search([f EXCEPT !.read_id = TRUE, !.fdc_event = FALSE], d, TRUE)}

wd_fdc_seek_verify(f, d) ==
    {Outcome(f1, d) : f1 \in wd_fdc_seek_verify_read_id(
                                 [f EXCEPT !.rev = REV, !.id_mark = FALSE], d)}

VerifyTrack(f, d) ==
    IF ~f.flag THEN {Outcome(Complete(f), d)}
    ELSE IF f.motoron THEN wd_fdc_seek_verify([f EXCEPT !.state = "VERIFY"], d)
    ELSE {Outcome([f EXCEPT !.state = "VERIFY", !.motoron = TRUE, !.fdc_event = TRUE],
                  fdd_motoron(d, TRUE))}

\* A step, unless none is left, or the head is at track 0 and would go below.
wd_fdc_type_i(f, d) ==
    VerifyTrack([f EXCEPT !.steps = 0], d)
    \cup IF f.steps = 0 THEN {}
         ELSE {Outcome([f EXCEPT !.steps = @ - 1, !.state = "SEEK_DELAY",
                                 !.fdc_event = TRUE], d)}

----------------------------------------------------------------------------
(* Type II commands: read and write sectors *)

\* MUTANT: a transfer goes on where the last one ended.
StartTransfer_goes_on(f) ==
    [f EXCEPT !.datarq = TRUE, !.timeout_event = TRUE]

\* MUTANT: no timeout is set.
StartTransfer_untimed(f) == [f EXCEPT !.datarq = TRUE, !.data_offset = 0]

\* The data are asked for, and a timeout set.
StartTransfer(f) ==
    [f EXCEPT !.datarq = TRUE, !.data_offset = 0, !.timeout_event = TRUE]

wd_fdc_type_ii_seek(f, d) ==
    LET looking == [f EXCEPT !.fdc_event = FALSE,
                             !.read_id = @ \/ ~f.id_mark]
        Decided(s) == [s.fdc EXCEPT !.read_id = FALSE]
        search == Search(looking, d, f.sectors > 0)
    IN {Outcome(s.fdc, d) : s \in {t \in search : t.result \in {"wait", "never"}}}
       \cup {Outcome(StartTransfer(Decided(s)), d)
                : s \in {t \in search : t.result = "found"}}
       \cup {Outcome(Complete([Decided(s) EXCEPT !.id_mark = FALSE]), d)
                : s \in {t \in search :      \* no ID, or no data mark after it
                            \/ t.result = "none"
                            \/ t.result = "found" /\ f.state = "READ"}}

wd_fdc_type_ii(f, d) ==
    wd_fdc_type_ii_seek([f EXCEPT !.rev = REV, !.id_mark = FALSE], d)
    \cup IF f.state = "WRITE"                      \* write protected
         THEN {Outcome(Complete([f EXCEPT !.fdc_event = FALSE]), d)} ELSE {}

----------------------------------------------------------------------------
(* Type III commands: read an ID, read and write tracks *)

wd_fdc_type_iii(f, d) ==
    LET g == [f EXCEPT !.fdc_event = FALSE]
        looking == IF g.read_id THEN g
                   ELSE [g EXCEPT !.read_id = TRUE, !.rev = REV, !.id_mark = FALSE]
        search == Search(looking, d, TRUE)
        Decided(s) == [s.fdc EXCEPT !.read_id = FALSE]
    IN IF g.state # "READID"
       THEN {Outcome(StartTransfer(g), d)}
            \cup IF g.state = "WRITETRACK" THEN {Outcome(Complete(g), d)} ELSE {}
       ELSE {Outcome(IF s.result = "found" THEN StartTransfer(Decided(s))
                     ELSE IF s.result = "none" THEN Complete(Decided(s))
                     ELSE s.fdc, d) : s \in search}

----------------------------------------------------------------------------
(* Commands *)

\* h: without spin-up; e: settle for 30 ms.  The outcome tells whether there is
\* a delay by the event pending.
wd_fdc_spinup(f, d, h, e) ==
    LET delay == (f.state # "SEEK" /\ e) \/ (~f.motoron /\ ~h)
    IN [fdc |-> [f EXCEPT !.motoron = TRUE,
                          !.fdc_event = @ \/ delay],
        drive |-> IF f.motoron THEN d ELSE fdd_motoron(d, TRUE),
        delay |-> delay]

\* A command that is accepted keeps the motor on.
Accepted(f, state) ==
    [f EXCEPT !.state = state, !.busy = TRUE, !.intrq = FALSE,
              !.motor_off_event = FALSE, !.rev = REV]

AfterSpinup(spinup, handled) ==
    IF spinup.delay THEN {Outcome(spinup.fdc, spinup.drive)} ELSE handled

\* A step is a seek over one track.
TypeI(f, d, h, verify, steps) ==
    LET spinup == wd_fdc_spinup([Accepted(f, "SEEK") EXCEPT
                                    !.datarq = FALSE, !.flag = verify,
                                    !.steps = steps], d, h, FALSE)
    IN AfterSpinup(spinup, wd_fdc_type_i(spinup.fdc, spinup.drive))

TypeII(f, d, h, e, state, multiple, sectors) ==
    LET spinup == wd_fdc_spinup([Accepted(f, state) EXCEPT
                                    !.flag = multiple, !.sectors = sectors], d, h, e)
    IN AfterSpinup(spinup, wd_fdc_type_ii(spinup.fdc, spinup.drive))

TypeIII(f, d, h, e, state) ==
    LET spinup == wd_fdc_spinup(Accepted(f, state), d, h, e)
    IN AfterSpinup(spinup, wd_fdc_type_iii(spinup.fdc, spinup.drive))

\* Force interrupt, at once, at the next index pulse, or without one.  A search
\* that it interrupts leaves read_id set, and a transfer its timeout pending.
TypeIV(f, d, when) ==
    LET stopped == [Stopped(f) EXCEPT !.intrq = FALSE, !.fdc_event = FALSE]
        spinup == wd_fdc_spinup(
                      IF when = "at once" THEN wd_fdc_set_intrq(stopped) ELSE stopped,
                      IF when = "index" THEN [d EXCEPT !.fdc = TRUE] ELSE d,
                      FALSE, when = "index")
    IN {Outcome(spinup.fdc, spinup.drive)}

----------------------------------------------------------------------------
(* The data register *)

\* The next byte is asked for by an event of its own where the interface needs
\* a pulse for each.
NextByte(f) ==
    IF f.drq_pulse /\ f.busy THEN [f EXCEPT !.fdc_event = TRUE] ELSE f

\* A transfer is over when its last byte is, or goes on with the next sector:
\* its search waits for an event, with a timeout already set.
EndOfSector(f, more) ==
    IF more
    THEN [f EXCEPT !.sectors = IF @ > 0 THEN @ - 1 ELSE 0, !.rev = REV,
                   !.datarq = FALSE, !.timeout_event = TRUE,
                   !.fdc_event = TRUE]
    ELSE Complete([f EXCEPT !.timeout_event = FALSE])

\* A byte of a sector, or of an ID.  A program need not wait until it is asked
\* for: then it counts all the same, from what was counted last and against the
\* length of whichever sector's ID was passed last.
Transferred(f, more) ==
    LET next == [f EXCEPT !.data_offset = @ + 1]
    IN IF ~f.datarq THEN {f} \cup {EndOfSector(f, m) : m \in more}
       ELSE IF next.data_offset < SectorLength THEN {next}
       ELSE {EndOfSector(next, m) : m \in more}

\* A read for which there are no data, the drive not being ready or the disk
\* having no such track or side, ends with its timeout pending.
wd_fdc_dr_read(f, d) ==
    LET g == IF f.drq_pulse THEN [f EXCEPT !.fdc_event = FALSE] ELSE f
        after == CASE f.state = "READ" ->
                        Transferred(g, {FALSE, f.flag}) \cup {Complete(g)}
                   [] f.state = "READID" -> Transferred(g, {FALSE})
                   [] OTHER -> {g, EndOfSector(g, FALSE)}
    IN {Outcome(NextByte(f1), d) : f1 \in after}

wd_fdc_dr_write(f, d) ==
    LET after == IF f.state = "WRITETRACK" THEN {f, EndOfSector(f, FALSE)}
                 ELSE Transferred(f, {f.flag})
    IN {Outcome(NextByte(f1), d) : f1 \in after}

----------------------------------------------------------------------------
(* wd_fdc_event *)

FdcEvent(f, d) ==
    LET g == [f EXCEPT !.fdc_event = FALSE]
    IN IF g.read_id
       THEN CASE g.state = "VERIFY" ->
                   {Outcome(f1, d) : f1 \in wd_fdc_seek_verify_read_id(g, d)}
              [] g.state \in SectorStates /\ ~g.datarq -> wd_fdc_type_ii_seek(g, d)
              [] g.state = "READID" -> wd_fdc_type_iii(g, d)
              [] OTHER -> {Outcome(g, d)}
       ELSE CASE g.state \in Seeking -> wd_fdc_type_i(g, d)
              [] g.state = "VERIFY" -> wd_fdc_seek_verify(g, d)
              [] g.state \in SectorStates /\ ~g.datarq -> wd_fdc_type_ii(g, d)
              [] g.state \in DataStates \ SectorStates /\ ~g.datarq ->
                   wd_fdc_type_iii(g, d)
              [] OTHER -> {Outcome(g, d)}   \* the data are asked for again


TimeoutEvent(f, d) ==
    LET g == [f EXCEPT !.timeout_event = FALSE]
    IN {Outcome(IF g.state \in DataStates THEN Complete(g) ELSE g, d)}

MotorOffEvent(f, d) ==
    {Outcome([f EXCEPT !.motor_off_event = FALSE, !.motoron = FALSE],
             fdd_motoron(d, FALSE))}

=============================================================================
