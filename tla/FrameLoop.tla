------------------------------ MODULE FrameLoop ------------------------------
(***************************************************************************)
(* The main loop of Fuse: opcodes run until an event is due, the end of    *)
(* frame event hands over to psg, display, user interface and RZX, and the *)
(* playback of an RZX recording replaces the frame event by its own count  *)
(* of instructions.  The user interface is only polled from the frame      *)
(* event, where it may select a machine, open a snapshot or start and stop *)
(* the playback.  (spectrum.c, z80_ops.c, rzx.c, machine.c, snapshot.c,    *)
(* timer.c over the queue of event.c.)                                     *)
(***************************************************************************)
EXTENDS EventList, FiniteSets

CONSTANTS
  Machines,            \* the machines that can be selected
  tstates_per_frame,   \* [Machines -> the length of a frame]
  interrupt_length,    \* how long /INT stays low
  RZX_SENTINEL_TIME, RZX_SENTINEL_TIME_REDUCE, ULA_CONTENTION_SIZE,
  InterruptTime,       \* T-states taken to accept an interrupt
  OpcodeTimes,         \* T-states an instruction takes
  TimerDelays,         \* what timer_frame adds when no sound is playing
  MotorDelays,         \* how long a drive takes to spin up and to stop
  FileTimes,           \* T-state counts stored in snapshots and recordings
  MaxInstructions,     \* bound: instructions in a frame of a recording
  MaxFrames,           \* bound: frames in a recording
  MaxEvents,           \* bound: the motor is left alone with this many listed
  MaxUser,             \* bound: how often the user acts
  OtherMachineSnaps,   \* a recording holds snapshots of several machines
  DriftingSnaps,       \* they hold another T-state count than the playback's
  SelectWhilePlaying   \* the user selects a machine during playback

ASSUME FrameAssumption ==
  /\ tstates_per_frame \in [Machines -> 1 .. RZX_SENTINEL_TIME]
  /\ \A d \in OpcodeTimes : d > 0 /\ RZX_SENTINEL_TIME + d <= ULA_CONTENTION_SIZE
  /\ {OtherMachineSnaps, DriftingSnaps, SelectWhilePlaying} \subseteq BOOLEAN
  /\ {MaxInstructions, MaxFrames, MaxEvents, MaxUser} \subseteq Nat

\* No count that is given, by the code or by a file, comes near the range of a dword.
ASSUME TimesAssumption ==
  /\ RZX_SENTINEL_TIME_REDUCE \in 0 .. RZX_SENTINEL_TIME
  /\ OpcodeTimes \subseteq Nat /\ {interrupt_length, InterruptTime} \subseteq Nat
  /\ \A t \in {RZX_SENTINEL_TIME, ULA_CONTENTION_SIZE, interrupt_length + InterruptTime}
               \cup TimerDelays \cup MotorDelays \cup FileTimes :
       t \in Nat /\ 2 * t < Half

VARIABLES
  core,    \* the globals of the emulation, see TypeOK
  stack,   \* frame events being handled, innermost last, by what runs in them
  user     \* how often the user has acted

vars == <<core, stack, user>>

timer_event == 1
spectrum_frame_event == 2
z80_interrupt_event == 3
sentinel_event == 4
motor_event == 5

\* The event queue is the list and the cached time of its first event.
EmptyQueue == [list |-> << >>, next |-> event_no_events]

Add(q, time, type) ==
  [list |-> Added(q.list, q.next, [tstates |-> time, type |-> type]),
   next |-> IF time < q.next THEN time ELSE q.next]

Remove(q, type) == [q EXCEPT !.list = Nulled(@, type)]

Aged(q, n) == [list |-> Reduced(q.list, n), next |-> NextOf(Reduced(q.list, n))]

Popped(q) == [list |-> Tail(q.list), next |-> NextOf(Tail(q.list))]

Live(c, type) == {i \in 1 .. Len(c.events.list) : c.events.list[i].type = type}

FrameTime(c) == tstates_per_frame[c.machine]

-----------------------------------------------------------------------------
\* Functions of the code that change the globals, from c to what they leave.

machine_select_machine(c, m) ==
  [c EXCEPT !.machine = m, !.tstates = 0,
            !.events = Add(Add(EmptyQueue, 0, timer_event),
                           tstates_per_frame[m], spectrum_frame_event)]

\* A machine is selected only if the snapshot is of another one; ula.c then
\* restores the T-state count.
snapshot_copy_from(c, m, time) ==
  [IF m # c.machine THEN machine_select_machine(c, m) ELSE c EXCEPT !.tstates = time]

\* Mutants: the end of frame is always added, or never.
rzx_stop_always_interrupt(c, add_interrupt) ==
  [c EXCEPT !.rzx_playback = FALSE,
            !.events = Add(Remove(@, sentinel_event), FrameTime(c), spectrum_frame_event),
            !.tstates = FrameTime(c)]

rzx_stop_no_interrupt(c, add_interrupt) ==
  [c EXCEPT !.rzx_playback = FALSE, !.events = Remove(@, sentinel_event)]

rzx_stop_playback(c, add_interrupt) ==
  LET d == [c EXCEPT !.rzx_playback = FALSE,
                     !.events = Remove(@, sentinel_event)]
  IN IF add_interrupt
     THEN [d EXCEPT !.events = Add(@, FrameTime(c), spectrum_frame_event),
                    !.tstates = IF @ > FrameTime(c) THEN FrameTime(c) ELSE @]
     ELSE [d EXCEPT !.tstates = FrameTime(c)]

\* Instructions before the next end of frame, and frames after it.
WithFrame(c, instructions, frames) ==
  [c EXCEPT !.instructions = instructions, !.frames = frames]

\* start_playback, c being what the initial snapshot leaves.
start_playback(c, time, instructions, frames) ==
  [WithFrame(c, instructions, frames)
     EXCEPT !.events = Add(Remove(@, spectrum_frame_event),
                           RZX_SENTINEL_TIME, sentinel_event),
            !.tstates = time,
            !.rzx_playback = TRUE]

\* What opening a snapshot leaves of c, and playing a recording, whose initial
\* snapshot is in it or is asked for.
Opened(c) == {snapshot_copy_from(c, m, t) : m \in Machines, t \in FileTimes}

Played(c) ==
  {start_playback(d, t, n, f) : d \in Opened(c), t \in FileTimes,
                                n \in 0 .. MaxInstructions, f \in 0 .. MaxFrames}

\* Mutant: what is taken from every event is thought to be the machine's frame.
SentinelMovedOut_machine(c) ==
  [c EXCEPT !.events = Add(Remove(@, sentinel_event),
                           RZX_SENTINEL_TIME + FrameTime(c), sentinel_event)]

\* The length of the frame is added, which spectrum_frame takes off again.
SentinelMovedOut(c) ==
  [c EXCEPT !.events = Add(Remove(@, sentinel_event),
                           RZX_SENTINEL_TIME + c.tstates, sentinel_event)]

\* The snapshots a recording may hold where the playback has reached c.
MidSnapshots(c) ==
  (IF OtherMachineSnaps THEN Machines ELSE {c.machine})
    \X (IF DriftingSnaps THEN FileTimes ELSE {c.tstates})

\* playback_frame: an error and the last frame end the playback.
playback_frame(c) ==
  {rzx_stop_playback(c, FALSE)} \cup
  (IF c.frames = 0 THEN {}
   ELSE {WithFrame(d, n, c.frames - 1) :
           n \in 0 .. MaxInstructions,
           d \in {SentinelMovedOut(c)} \cup
                 {snapshot_copy_from(SentinelMovedOut(c), s[1], s[2]) : s \in MidSnapshots(c)}})

rzx_frame(c) == IF c.rzx_playback THEN playback_frame(c) ELSE {c}

\* Mutant: playback's frames are taken to have the machine's length.
spectrum_frame_fixed(c) ==
  LET aged == Aged(c.events, FrameTime(c))
  IN [c EXCEPT !.tstates = Minus(@, FrameTime(c)),
               !.events = IF c.rzx_playback THEN aged
                          ELSE Add(aged, FrameTime(c), spectrum_frame_event)]

\* spectrum_frame: the T-states of the frame are taken from the processor
\* and from every event.
spectrum_frame(c) ==
  LET frame_length == IF c.rzx_playback THEN c.tstates ELSE FrameTime(c)
      aged == Aged(c.events, frame_length)
  IN [c EXCEPT !.tstates = Minus(@, frame_length),
               !.events = IF c.rzx_playback THEN aged
                          ELSE Add(aged, FrameTime(c), spectrum_frame_event)]

\* z80_interrupt: refused (IFF1, or /INT is high again), accepted, or put off
\* for an instruction because interrupts have just been enabled.
z80_interrupt(c) ==
  {c} \cup
  (IF c.tstates < interrupt_length
   THEN {[c EXCEPT !.tstates = @ + InterruptTime],
         [c EXCEPT !.events = Add(@, c.tstates + 1, z80_interrupt_event)]}
   ELSE {})

-----------------------------------------------------------------------------

Selected(m) ==
  machine_select_machine(
    [events |-> EmptyQueue, tstates |-> 0, machine |-> m,
     rzx_playback |-> FALSE, instructions |-> 0, frames |-> 0], m)

\* A snapshot and a recording may be named on the command line.
Init ==
  /\ \E m \in Machines :
       core \in {Selected(m)} \cup Opened(Selected(m)) \cup Played(Selected(m))
  /\ stack = << >>
  /\ user = 0

Top == stack[Len(stack)]
Goto(pc) == stack' = [stack EXCEPT ![Len(stack)] = pc]
In(pc) == stack # << >> /\ Top = pc

\* z80_do_opcodes runs while nothing is due.
Executing == stack = << >> /\ core.tstates < core.events.next

\* In playback the loop runs the instructions of the recorded frame.
InstructionsLeft == core.rzx_playback => core.instructions > 0

\* Mutant: instructions are counted outside playback, too.
ExecutedCounted(c, d) ==
  [c EXCEPT !.tstates = @ + d, !.instructions = @ - 1]

\* c after an instruction, d T-states later.
Executed(c, d) ==
  [c EXCEPT !.tstates = @ + d,
            !.instructions = IF c.rzx_playback THEN @ - 1 ELSE @]

Opcode ==
  /\ Executing /\ InstructionsLeft
  /\ \E d \in OpcodeTimes : core' = Executed(core, d)
  /\ UNCHANGED <<stack, user>>

\* An instruction that switches a drive's motor, n T-states after it began and
\* with the rest of its d T-states to come.
fdd_motoron ==
  /\ Executing /\ InstructionsLeft
  /\ Len(core.events.list) < MaxEvents
  /\ \E d \in OpcodeTimes, delay \in MotorDelays : \E n \in 0 .. d - 1 :
       LET c == Executed(core, n)
       IN core' = [c EXCEPT !.events = Add(Remove(@, motor_event), c.tstates + delay, motor_event),
                            !.tstates = @ + d - n]
  /\ UNCHANGED <<stack, user>>

\* A read the recording has no byte for: playback stops, and a null event makes
\* z80_do_opcodes look again.
readport_internal ==
  /\ Executing /\ InstructionsLeft
  /\ core.rzx_playback
  /\ \E d \in OpcodeTimes : \E n \in 0 .. d - 1 :
       LET c == rzx_stop_playback(Executed(core, n), TRUE)
       IN core' = [c EXCEPT !.events = Add(@, c.tstates, event_type_null),
                            !.tstates = @ + d - n]
  /\ UNCHANGED <<stack, user>>

\* Mutant: the loop is left for a null event, not for the end of the frame.
RzxFrameNull ==
  /\ Executing
  /\ ~ InstructionsLeft
  /\ core' = [core EXCEPT !.events = Add(@, core.tstates, event_type_null)]
  /\ UNCHANGED <<stack, user>>

\* The recorded frame is over: its end is generated here.
RzxFrameDue ==
  /\ Executing
  /\ ~ InstructionsLeft
  /\ core' = [core EXCEPT !.events = Add(@, core.tstates, spectrum_frame_event)]
  /\ UNCHANGED <<stack, user>>

\* An event_do_events loop has something to do, and c is what removing the
\* event from the list leaves.
Due(type) ==
  /\ stack # << >> => Top = "do"
  /\ core.events.next <= core.tstates
  /\ Head(core.events.list).type = type

EventTime == Head(core.events.list).tstates
AfterPop == [core EXCEPT !.events = Popped(@)]

Handle(type, Results) ==
  /\ Due(type)
  /\ core' \in Results
  /\ UNCHANGED <<stack, user>>

\* Mutant: the timer does not add itself again.
timer_frame_once == Handle(timer_event, {AfterPop})

\* With sound the next check is a frame away; without, it depends on the clock.
timer_frame ==
  Handle(timer_event,
    {[AfterPop EXCEPT !.events = Add(@, EventTime + d, timer_event)] :
       d \in TimerDelays \cup {FrameTime(core)}})

rzx_sentinel ==
  Handle(sentinel_event,
    {[AfterPop EXCEPT !.tstates = Minus(@, RZX_SENTINEL_TIME_REDUCE),
                      !.events = Add(@, RZX_SENTINEL_TIME, sentinel_event)]})

z80_interrupt_event_fn ==
  Handle(z80_interrupt_event,
    IF core.rzx_playback THEN {AfterPop} ELSE z80_interrupt(AfterPop))

fdd_event == Handle(motor_event, {AfterPop})

NullEvent == Handle(event_type_null, {AfterPop})

\* spectrum_frame_event_fn, up to event_force_events if that is called.
FrameEvent ==
  /\ Due(spectrum_frame_event)
  /\ core' = AfterPop
  /\ stack' = Append(stack, IF core.rzx_playback THEN "force" ELSE "frame")
  /\ UNCHANGED user

\* event_force_events: jump to the next event before the end of a frame, ...
ForceNext ==
  /\ In("force")
  /\ core.events.next < FrameTime(core)
  /\ core' = [core EXCEPT !.tstates = core.events.next]
  /\ Goto("do")
  /\ UNCHANGED user

\* ... do the events that are due there, ...
ForceDone ==
  /\ In("do")
  /\ core.events.next > core.tstates
  /\ Goto("force")
  /\ UNCHANGED <<core, user>>

\* ... until the frame holds none.
ForceReturn ==
  /\ In("force")
  /\ core.events.next >= FrameTime(core)
  /\ Goto("frame")
  /\ UNCHANGED <<core, user>>

\* The calls of spectrum_frame_event_fn that follow: rzx_frame, ...
RzxFrame ==
  /\ In("frame")
  /\ core' \in rzx_frame(core)
  /\ Goto("spectrum")
  /\ UNCHANGED user

\* ... spectrum_frame ...
SpectrumFrame ==
  /\ In("spectrum")
  /\ core' = spectrum_frame(core)
  /\ Goto("z80")
  /\ UNCHANGED user

\* ... and z80_interrupt.
Interrupt ==
  /\ In("z80")
  /\ core' \in z80_interrupt(core)
  /\ Goto("ui")
  /\ UNCHANGED user

FrameReturn == stack' = SubSeq(stack, 1, Len(stack) - 1)

\* ui_event, when the user does nothing that matters here.
UiIdle ==
  /\ In("ui")
  /\ FrameReturn
  /\ UNCHANGED <<core, user>>

UserActs(Results) ==
  /\ In("ui")
  /\ user < MaxUser
  /\ core' \in Results
  /\ FrameReturn
  /\ user' = user + 1

menu_file_recording_stop ==
  /\ core.rzx_playback
  /\ UserActs({rzx_stop_playback(core, TRUE)})

menu_machine_select ==
  /\ core.rzx_playback => SelectWhilePlaying
  /\ UserActs({machine_select_machine(core, m) : m \in Machines})

\* utils_open_file stops a playback before it reads the file.
Stopped == IF core.rzx_playback THEN rzx_stop_playback(core, TRUE) ELSE core

OpenSnapshot == UserActs(Opened(Stopped))

OpenRecording == UserActs(Played(Stopped))

Emulate ==
  \/ Opcode \/ fdd_motoron \/ readport_internal \/ RzxFrameDue
  \/ timer_frame \/ rzx_sentinel \/ z80_interrupt_event_fn \/ fdd_event \/ NullEvent
  \/ FrameEvent \/ ForceNext \/ ForceDone \/ ForceReturn
  \/ RzxFrame \/ SpectrumFrame \/ Interrupt \/ UiIdle

User ==
  \/ menu_file_recording_stop \/ menu_machine_select
  \/ OpenSnapshot \/ OpenRecording

Next == Emulate \/ User

\* One thread runs all of this and never stops.
Spec == Init /\ [][Next]_vars /\ WF_vars(Emulate)

-----------------------------------------------------------------------------

Times == {core.events.list[i].tstates : i \in 1 .. Len(core.events.list)}

\* Every global has its type.
TypeOK ==
  /\ core.events.list \in Seq([tstates : Dword, type : 0 .. 5])
  /\ core.events.next \in Dword
  /\ core.tstates \in Dword
  /\ core.machine \in Machines
  /\ core.rzx_playback \in BOOLEAN
  /\ core.instructions \in 0 .. MaxInstructions
  /\ core.frames \in 0 .. MaxFrames
  /\ stack \in Seq({"force", "do", "frame", "spectrum", "z80", "ui"})
  /\ user \in 0 .. MaxUser

(***************************************************************************)
(* What event_frame relies on: spectrum_frame never takes more from an     *)
(* event or from tstates than is there, so no unsigned count wraps and the *)
(* queue stays in order; this holds although playback ends frames at any   *)
(* T-state and its snapshots, its sentinel and its end change the count.   *)
(***************************************************************************)
NothingWraps ==
  /\ \A t \in Times : t < Half
  /\ core.tstates < Half
  /\ Ordered(core.events.list)
  /\ core.events.next = NextOf(core.events.list)

(***************************************************************************)
(* The frame is ended by one party: outside playback by one event exactly  *)
(* at the end of the frame, in playback ("End of frame will now be         *)
(* generated by the RZX code", rzx.c:354) by none but the one just added   *)
(* when the recorded instructions have run.                                *)
(***************************************************************************)
OneFrameEvent ==
  stack = << >> =>
    LET due == {core.events.list[i].tstates : i \in Live(core, spectrum_frame_event)}
    IN IF core.rzx_playback THEN due \subseteq {core.tstates}
       ELSE due = {FrameTime(core)} /\ Cardinality(Live(core, spectrum_frame_event)) = 1

(***************************************************************************)
(* No instruction starts where its contention delays would be looked up    *)
(* past the end of ula_contention: "Add a sentinel event to prevent        *)
(* tstates overrun (bug #1057471)" (rzx.c:357), over any length of frame.  *)
(***************************************************************************)
NoOverrun ==
  Executing => \A d \in OpcodeTimes : core.tstates + d <= ULA_CONTENTION_SIZE

(***************************************************************************)
(* "We're no longer doing RZX playback, so tstates now be <= the normal    *)
(* frame count" (rzx.c:392): outside playback every instruction starts     *)
(* within the frame, whatever count playback or a snapshot has left.       *)
(***************************************************************************)
WithinFrame ==
  Executing /\ ~ core.rzx_playback => core.tstates < FrameTime(core)

\* Frames keep ending, however often playback starts, stops and fails.
FramesGoOn == []<>In("ui")

\* The timer keeps being called, so the emulation keeps to its speed.
TimerGoesOn == []<>Due(timer_event)

=============================================================================
