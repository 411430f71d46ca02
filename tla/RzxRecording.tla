---------------------------- MODULE RzxRecording ----------------------------
(* Input recording: fuse/rzx.c and the RZX blocks of libspectrum/rzx.c.     *)
(*                                                                          *)
(* A recording is a list of blocks: snapshots, and input recording blocks   *)
(* whose frames hold the bytes the emulated program read from its ports.    *)
(* The machine's state is what has happened to it: the sequence of the      *)
(* frames' inputs it ran with and of the interrupts it accepted.  So a file *)
(* replays when running its inputs from its snapshots leads to the same     *)
(* history.  Everything below happens on the emulator's only thread:        *)
(* between two frames the user interface may start, stop, roll back, ...    *)
EXTENDS Integers, Sequences, FiniteSets, SequencesExt, FiniteSetsExt

CONSTANTS
    Ins,                \* what a frame's instructions may read from the ports
    NoIns,              \* the member of Ins of a frame that reads nothing
    EndsInEI,           \* those after which the last instruction run is an EI
    AUTOSAVE_INTERVAL,  \* frames from an automatic snapshot to the next
    AutosaveAges,       \* the ages, in frames, at which they are thinned out
    MaxFrames,          \* bound: frames in a recording
    MaxInserted,        \* bound: snapshots that are not automatic, to insert one
    MaxSnaps,           \* bound: snapshots in a file that is continued
    SwitchedAt,         \* bound: the frames after which the option is changed
    EmptyBlocks         \* whether an input block may be closed with no frame

ASSUME InsAssumption == NoIns \in Ins /\ EndsInEI \subseteq Ins
ASSUME AutosaveAssumption ==
    /\ AUTOSAVE_INTERVAL \in Nat \ {0}
    /\ \A age \in AutosaveAges : age \in Nat /\ age % AUTOSAVE_INTERVAL = 0
    /\ MaxFrames \in Nat /\ MaxInserted \in Nat /\ MaxSnaps \in Nat
    /\ EmptyBlocks \in BOOLEAN

VARIABLES
    blocks,                 \* rzx->blocks
    rzx_recording,
    rzx_playback,
    rzx_competition_mode,
    rzx_autosaves,          \* settings_current.rzx_autosaves
    autosave_frame_count,   \* modulo AUTOSAVE_INTERVAL: nothing else is read
    unaged,                 \* whether the count has missed frames by which the
                            \* automatic snapshots got older or younger
    machine,                \* the Z80: its history, and whether tstates is due
                            \* for the end of the frame
    retrigger,              \* whether a z80_interrupt_event is queued
    cursor,                 \* rzx->current_block, current_frame, data_frame
    file,                   \* the blocks of the file written, or NoFile
    recorded                \* the history the file was closed in

vars == <<blocks, rzx_recording, rzx_playback, rzx_competition_mode,
          rzx_autosaves, autosave_frame_count, unaged, machine, retrigger,
          cursor, file, recorded>>

NoFile == <<>>
INT == "interrupt"

----------------------------------------------------------------------------
(* The machine *)

\* The last instruction was an EI, which holds the interrupt off.
Deferred(history) == history # <<>> /\ Last(history) \in EndsInEI

\* The interrupt disables interrupts: asked for twice, it is accepted once.
z80_interrupt(history) ==
    IF Deferred(history) \/ (history # <<>> /\ Last(history) = INT)
    THEN history
    ELSE Append(history, INT)

\* The rest of spectrum_frame_event_fn, after rzx_frame.
EndOfFrame(history) ==
    /\ machine' = [history |-> z80_interrupt(history), due |-> FALSE]
    /\ retrigger' = (Deferred(history) /\ ~rzx_playback)

----------------------------------------------------------------------------
(* The blocks *)

SnapBlock(state, automatic) ==
    [type |-> "snap", state |-> state, automatic |-> automatic]

NewInput == [type |-> "input", frames |-> <<>>, non_repeat |-> 1]

IsSnap(block) == block.type = "snap"
IsInput(block) == block.type = "input"

\* The positions of the snapshots, and of the automatic ones.
Snaps(list) == {k \in DOMAIN list : IsSnap(list[k])}
Autosaves(list) == {k \in Snaps(list) : list[k].automatic}

CountFrames(list) ==
    LET upto[k \in 0 .. Len(list)] ==
          IF k = 0 THEN 0
          ELSE upto[k - 1] + IF IsInput(list[k]) THEN Len(list[k].frames) ELSE 0
    IN upto[Len(list)]

\* How many frames were recorded after the block at position k.
Age(list, k) == CountFrames(list) - CountFrames(SubSeq(list, 1, k))

\* MUTANT: a frame that repeats is taken for the one to compare the next with.
store_frame_moves(input, instructions, ins) ==
    LET repeat == /\ input.frames # <<>>
                  /\ ins # NoIns
                  /\ ins = input.frames[input.non_repeat].ins
        frame == [instructions |-> instructions,
                  ins |-> IF repeat THEN NoIns ELSE ins,
                  repeat_last |-> repeat]
    IN [input EXCEPT !.frames = Append(@, frame),
                     !.non_repeat = Len(input.frames) + 1]

\* An input block that reads the bytes of the last frame again says so.
libspectrum_rzx_store_frame(input, instructions, ins) ==
    LET repeat == /\ input.frames # <<>>
                  /\ ins # NoIns
                  /\ ins = input.frames[input.non_repeat].ins
        frame == [instructions |-> instructions,
                  ins |-> IF repeat THEN NoIns ELSE ins,
                  repeat_last |-> repeat]
    IN [input EXCEPT !.frames = Append(@, frame),
                     !.non_repeat = IF repeat THEN @ ELSE Len(input.frames) + 1]

\* The bound on what is recorded.
HasRoom(list) == CountFrames(list) < MaxFrames

CanClose(list) == EmptyBlocks \/ Last(list).frames # <<>>

\* What reading the file back gives: nothing tells an automatic snapshot.
Written(list) ==
    [k \in DOMAIN list |->
        IF IsSnap(list[k]) THEN [list[k] EXCEPT !.automatic = FALSE]
                           ELSE list[k]]

----------------------------------------------------------------------------
(* Automatic snapshots *)

Deleted(list) ==
    {k \in Autosaves(list) :
        LET older == {j \in Autosaves(list) : j < k}
        IN /\ older # {}
           /\ Age(list, k) \in AutosaveAges
           /\ Age(list, Max(older)) < 2 * Age(list, k)}

autosave_prune(list) ==
    LET deleted == Deleted(list)
        upto[k \in 0 .. Len(list)] ==
          IF k = 0 THEN <<>>
          ELSE IF k \in deleted THEN upto[k - 1]
          ELSE Append(upto[k - 1], list[k])
    IN upto[Len(list)]

autosave_frame(list, state) ==
    /\ autosave_frame_count' = (autosave_frame_count + 1) % AUTOSAVE_INTERVAL
    /\ blocks' = IF autosave_frame_count' # 0 THEN list
                 ELSE autosave_prune(
                        list \o <<SnapBlock(state, TRUE), NewInput>>)

\* MUTANT: rolling back starts the interval again.
autosave_reset_zero(list) == 0

autosave_reset(list) ==
    LET since == IF Autosaves(list) = {} THEN 0 ELSE Max(Autosaves(list))
    IN Age(list, since) % AUTOSAVE_INTERVAL

\* The count is neither taken further nor set while the option is off, and what
\* it has missed is made up for only when no automatic snapshot is left.
Unaged(list) == Autosaves(list) # {} /\ (unaged \/ ~rzx_autosaves)

----------------------------------------------------------------------------
(* Recording *)

Idle == ~rzx_recording /\ ~rzx_playback

\* What the machine does when nothing is recorded or played is left out: only
\* a first recording starts from there, perhaps from a snapshot just loaded,
\* which may accept an interrupt, and perhaps with one still queued.
Away == [history |-> <<>>, due |-> FALSE]

\* The list is written and freed.
CloseRecording(list, history) ==
    /\ rzx_recording' = FALSE
    /\ file' = Written(list)
    /\ recorded' = history
    /\ blocks' = <<>>
    /\ machine' = Away
    /\ retrigger' = FALSE
    /\ autosave_frame_count' = 0
    /\ unaged' = FALSE

start_recording(list, competition) ==
    /\ blocks' = Append(list, NewInput)
    /\ autosave_frame_count' = 0
    /\ unaged' = FALSE
    /\ rzx_recording' = TRUE
    /\ rzx_competition_mode' = competition

\* One file is followed, from its first recording on.
rzx_start_recording(embed_snapshot, competition) ==
    /\ Idle /\ file = NoFile
    /\ start_recording(
           IF embed_snapshot THEN <<SnapBlock(machine, FALSE)>> ELSE <<>>,
           competition)
    /\ retrigger' \in BOOLEAN
    /\ UNCHANGED <<rzx_playback, rzx_autosaves, machine, cursor, file, recorded>>

rzx_stop_recording ==
    /\ rzx_recording
    /\ CanClose(blocks)
    /\ CloseRecording(IF rzx_competition_mode THEN blocks
                      ELSE Append(blocks, SnapBlock(machine, FALSE)),
                      machine.history)
    /\ UNCHANGED <<rzx_playback, rzx_competition_mode, rzx_autosaves, cursor>>

\* rzx_frame while recording, and what follows it: state is the machine when it
\* is called.  In competition mode a speed off by more than SPEED_TOLERANCE ends
\* the recording.
recording_frame(instructions, ins, state) ==
    LET n == Len(blocks)
        stored == [blocks EXCEPT ![n] =
                      libspectrum_rzx_store_frame(@, instructions, ins)]
    IN /\ HasRoom(blocks)
       /\ \/ /\ rzx_competition_mode
             /\ CloseRecording(stored, state.history)
          \/ /\ rzx_competition_mode \/ ~rzx_autosaves
             /\ blocks' = stored
             /\ unaged' = Unaged(stored)
             /\ EndOfFrame(state.history)
             /\ UNCHANGED <<rzx_recording, autosave_frame_count, file, recorded>>
          \/ /\ ~rzx_competition_mode /\ rzx_autosaves
             /\ autosave_frame(stored, state)
             /\ unaged' = Unaged(blocks')
             /\ EndOfFrame(state.history)
             /\ UNCHANGED <<rzx_recording, file, recorded>>
       /\ UNCHANGED <<rzx_playback, rzx_competition_mode, rzx_autosaves, cursor>>

\* The instructions of a frame, and the end of the frame.
Frame(ins) ==
    /\ rzx_recording /\ ~machine.due /\ ~retrigger
    /\ recording_frame(1, ins, [history |-> Append(machine.history, ins),
                               due |-> TRUE])

\* A snapshot taken inside rzx_frame has a frame's tstates: restored, it ends
\* the frame again before an instruction is run.
FrameAfterRollback ==
    /\ rzx_recording /\ machine.due
    /\ recording_frame(0, NoIns, machine)

\* MUTANT: a retriggered interrupt ends no frame.
interrupt_unrecorded(ins) ==
    /\ rzx_recording /\ retrigger /\ ~machine.due
    /\ ins \notin EndsInEI
    /\ machine.history = <<>> \/ Deferred(machine.history)
    /\ machine' = [history |-> z80_interrupt(Append(machine.history, ins)),
                   due |-> FALSE]
    /\ retrigger' = FALSE
    /\ Len(machine.history) < 2 * MaxFrames
    /\ UNCHANGED <<blocks, rzx_recording, rzx_playback, rzx_competition_mode,
                   rzx_autosaves, autosave_frame_count, unaged, cursor, file,
                   recorded>>

\* The interrupt an EI held off is accepted an instruction later, which ends
\* a frame of that one instruction.  A rollback leaves the event queued: it may
\* then find a state that accepts an interrupt at once, or a little later.
z80_interrupt_event_fn(ins) ==
    /\ rzx_recording /\ retrigger /\ ~machine.due
    /\ ins \notin EndsInEI
    /\ machine.history = <<>> \/ Deferred(machine.history)
    /\ recording_frame(1, ins,
           [history |-> z80_interrupt(Append(machine.history, ins)),
            due |-> FALSE])

InterruptAfterRollback ==
    /\ rzx_recording /\ retrigger /\ ~machine.due
    /\ machine.history = <<>>
    /\ recording_frame(0, NoIns,
           [history |-> z80_interrupt(machine.history), due |-> FALSE])

\* Interrupts are disabled, or the instruction was a DI: it belongs to the next
\* frame.
RetriggerRefused ==
    /\ rzx_recording /\ retrigger
    /\ retrigger' = FALSE
    /\ UNCHANGED <<blocks, rzx_recording, rzx_playback, rzx_competition_mode,
                   rzx_autosaves, autosave_frame_count, unaged, machine, cursor,
                   file, recorded>>

----------------------------------------------------------------------------
(* The menu *)

menu_file_recording_insertsnapshot ==
    /\ rzx_recording
    /\ CanClose(blocks) /\ HasRoom(blocks)
    /\ Cardinality(Snaps(blocks) \ Autosaves(blocks)) < MaxInserted
    /\ blocks' = blocks \o <<SnapBlock(machine, FALSE), NewInput>>
    /\ UNCHANGED <<rzx_recording, rzx_playback, rzx_competition_mode,
                   rzx_autosaves, autosave_frame_count, unaged, machine,
                   retrigger, cursor, file, recorded>>

\* Everything after the snapshot goes, and its state comes back; the events
\* queued stay, unless the snapshot is of another machine.
start_after_rollback(list) ==
    /\ machine' = Last(list).state
    /\ UNCHANGED retrigger
    /\ blocks' = Append(list, NewInput)
    /\ autosave_frame_count' = IF rzx_autosaves THEN autosave_reset(blocks')
                               ELSE autosave_frame_count
    /\ unaged' = Unaged(blocks')

\* The nth snapshot, counted from 0.  The list the user chooses from has an
\* entry more, for the end of the recording: choosing it is an error that
\* changes nothing.  The menu offers no rollback in competition mode.
rzx_rollback_to(which) ==
    /\ rzx_recording /\ ~rzx_competition_mode
    /\ \E k \in Snaps(blocks) :
         /\ Cardinality({j \in Snaps(blocks) : j < k}) = which
         /\ start_after_rollback(SubSeq(blocks, 1, k))
    /\ UNCHANGED <<rzx_recording, rzx_playback, rzx_competition_mode,
                   rzx_autosaves, cursor, file, recorded>>

\* The last of them.
rzx_rollback == rzx_rollback_to(Cardinality(Snaps(blocks)) - 1)

\* Goes on from the state the file ends in, if it ends in one.
rzx_continue_recording ==
    /\ Idle /\ file # NoFile
    /\ IsSnap(Last(file))
    /\ HasRoom(file) /\ Cardinality(Snaps(file)) <= MaxSnaps
    /\ machine' = Last(file).state
    /\ retrigger' \in BOOLEAN
    /\ start_recording(file, FALSE)
    /\ file' = NoFile           \* it is written again in the end
    /\ recorded' = <<>>
    /\ UNCHANGED <<rzx_playback, rzx_autosaves, cursor>>

\* The first snapshot stays; the others go, and input blocks that have become
\* neighbours are joined.
Merged(input, next) ==
    [input EXCEPT !.frames = @ \o next.frames,
                  !.non_repeat = Len(input.frames) + next.non_repeat]

\* list, and the block after it.
Joined(list, block) ==
    IF IsInput(block) /\ list # <<>> /\ IsInput(Last(list))
    THEN [list EXCEPT ![Len(list)] = Merged(Last(list), block)]
    ELSE Append(list, block)

libspectrum_rzx_finalise(list) ==
    LET upto[k \in 0 .. Len(list)] ==
          IF k = 0 THEN <<>>
          ELSE IF k \in Snaps(list) /\ k # Min(Snaps(list)) THEN upto[k - 1]
          ELSE Joined(upto[k - 1], list[k])
    IN upto[Len(list)]

rzx_finalise_recording ==
    /\ Idle /\ file # NoFile
    /\ file' = libspectrum_rzx_finalise(file)
    /\ UNCHANGED <<blocks, rzx_recording, rzx_playback, rzx_competition_mode,
                   rzx_autosaves, autosave_frame_count, unaged, machine,
                   retrigger, cursor, recorded>>

\* The user creates no more automatic snapshots, or creates them again.  It makes
\* a difference only in a recording: Init has the option on and off for the rest.
menu_options_rzx ==
    /\ rzx_recording /\ CountFrames(blocks) \in SwitchedAt
    /\ rzx_autosaves' = ~rzx_autosaves
    /\ UNCHANGED <<blocks, rzx_recording, rzx_playback, rzx_competition_mode,
                   autosave_frame_count, unaged, machine, retrigger, cursor,
                   file, recorded>>

----------------------------------------------------------------------------
(* Playback *)

NextInput(list, k) ==
    LET inputs == {j \in DOMAIN list : j > k /\ IsInput(list[j])}
    IN IF inputs = {} THEN 0 ELSE Min(inputs)

\* The last snapshot between two positions, or the state there is.
SnapBetween(list, from, to, state) ==
    LET between == {j \in DOMAIN list : from < j /\ j < to /\ IsSnap(list[j])}
    IN IF between = {} THEN state ELSE list[Max(between)].state

AtFrame(block) == [block |-> block, frame |-> 1, data |-> 1]

\* A file that begins with no snapshot asks for the one it was recorded from.
rzx_start_playback ==
    /\ Idle /\ file # NoFile
    /\ blocks' = file
    /\ cursor' = AtFrame(NextInput(file, 0))
    /\ machine' = SnapBetween(file, cursor'.block - 2, cursor'.block,
                              [history |-> <<>>, due |-> FALSE])
    /\ retrigger' = FALSE
    /\ rzx_playback' = TRUE
    /\ UNCHANGED <<rzx_recording, rzx_competition_mode, rzx_autosaves,
                   autosave_frame_count, unaged, file, recorded>>

HasFrame == cursor.frame <= Len(blocks[cursor.block].frames)

\* What the instructions of the frame being played read, and the history then.
Played ==
    LET frames == blocks[cursor.block].frames
    IN IF frames[cursor.frame].instructions = 0 THEN machine.history
       ELSE Append(machine.history, frames[cursor.data].ins)

\* MUTANT: the data pointer moves along with every frame.
PlayFrame_moves_data ==
    /\ rzx_playback /\ HasFrame
    /\ cursor.frame < Len(blocks[cursor.block].frames)
    /\ cursor' = [cursor EXCEPT !.frame = @ + 1, !.data = cursor.frame + 1]
    /\ EndOfFrame(Played)
    /\ UNCHANGED <<blocks, rzx_recording, rzx_playback, rzx_competition_mode,
                   rzx_autosaves, autosave_frame_count, unaged, file, recorded>>

\* The next frame of the block; its data, unless it repeats.
PlayFrameOfBlock ==
    /\ rzx_playback /\ HasFrame
    /\ cursor.frame < Len(blocks[cursor.block].frames)
    /\ LET next == cursor.frame + 1
       IN cursor' = [cursor EXCEPT
                        !.frame = next,
                        !.data = IF blocks[cursor.block].frames[next].repeat_last
                                 THEN @ ELSE next]
    /\ EndOfFrame(Played)
    /\ UNCHANGED <<blocks, rzx_recording, rzx_playback, rzx_competition_mode,
                   rzx_autosaves, autosave_frame_count, unaged, file, recorded>>

\* The last one of the block: the next block, from the snapshot before it.
PlayNextBlock ==
    /\ rzx_playback /\ HasFrame
    /\ cursor.frame = Len(blocks[cursor.block].frames)
    /\ LET next == NextInput(blocks, cursor.block)
       IN /\ next # 0
          /\ cursor' = AtFrame(next)
          /\ EndOfFrame(SnapBetween(blocks, cursor.block, next,
                            [history |-> Played, due |-> FALSE]).history)
    /\ UNCHANGED <<blocks, rzx_recording, rzx_playback, rzx_competition_mode,
                   rzx_autosaves, autosave_frame_count, unaged, file, recorded>>

StopPlayback ==
    /\ rzx_playback' = FALSE
    /\ blocks' = <<>>
    /\ machine' = Away
    /\ retrigger' = FALSE
    /\ cursor' = AtFrame(1)
    /\ UNCHANGED <<rzx_recording, rzx_competition_mode, rzx_autosaves,
                   autosave_frame_count, unaged, file, recorded>>

\* The last one of the file.
PlayLastFrame ==
    /\ rzx_playback /\ HasFrame
    /\ cursor.frame = Len(blocks[cursor.block].frames)
    /\ NextInput(blocks, cursor.block) = 0
    /\ StopPlayback

\* The user stops it.
rzx_stop_playback ==
    /\ rzx_playback
    /\ StopPlayback

----------------------------------------------------------------------------

Init ==
    /\ blocks = <<>>
    /\ rzx_recording = FALSE
    /\ rzx_playback = FALSE
    /\ rzx_competition_mode = FALSE
    /\ rzx_autosaves \in BOOLEAN
    /\ autosave_frame_count = 0
    /\ unaged = FALSE
    /\ machine = [history |-> <<>>, due |-> FALSE]
    /\ retrigger = FALSE
    /\ cursor = AtFrame(1)
    /\ file = NoFile
    /\ recorded = <<>>

Next ==
    \/ \E embed, competition \in BOOLEAN : rzx_start_recording(embed, competition)
    \/ \E ins \in Ins : Frame(ins) \/ z80_interrupt_event_fn(ins)
    \/ FrameAfterRollback
    \/ InterruptAfterRollback
    \/ RetriggerRefused
    \/ menu_file_recording_insertsnapshot
    \/ rzx_rollback
    \/ \E which \in 0 .. MaxFrames : rzx_rollback_to(which)
    \/ rzx_stop_recording
    \/ rzx_continue_recording
    \/ rzx_finalise_recording
    \/ menu_options_rzx
    \/ rzx_start_playback
    \/ PlayFrameOfBlock
    \/ PlayNextBlock
    \/ PlayLastFrame
    \/ rzx_stop_playback

Spec == Init /\ [][Next]_vars

----------------------------------------------------------------------------
(* Properties *)

FrameRecords == [instructions : {0, 1}, ins : Ins, repeat_last : BOOLEAN]

\* The type invariant: while recording, the last block is the one recorded to,
\* and the frame it compares the next one with is one that does not repeat; no
\* block begins with a frame that repeats another.
TypeOK ==
    /\ ~(rzx_recording /\ rzx_playback)
    /\ rzx_recording =>
           LET input == Last(blocks) IN
           /\ IsInput(input)
           /\ input.frames # <<>> => ~input.frames[input.non_repeat].repeat_last
    /\ \A k \in DOMAIN blocks : IsInput(blocks[k]) =>
           LET input == blocks[k] IN
           /\ \A j \in DOMAIN input.frames : input.frames[j] \in FrameRecords
           /\ input.frames # <<>> => ~input.frames[1].repeat_last
    /\ rzx_playback =>
           /\ IsInput(blocks[cursor.block])
           /\ cursor.data <= cursor.frame
    /\ rzx_competition_mode \in BOOLEAN /\ rzx_autosaves \in BOOLEAN
    /\ autosave_frame_count \in Nat /\ unaged \in BOOLEAN
    /\ machine.due \in BOOLEAN /\ retrigger \in BOOLEAN

\* What each frame of a block reads: its own bytes, or those of the last frame
\* before it that has some of its own.
Reads(block, j) ==
    block.frames[Max({k \in 1 .. j : ~block.frames[k].repeat_last})].ins

\* The history after the frames of an input block, with an interrupt at the end
\* of each.
RunBlock(history, block) ==
    LET run[j \in 0 .. Len(block.frames)] ==
          IF j = 0 THEN history
          ELSE z80_interrupt(
                 IF block.frames[j].instructions = 0 THEN run[j - 1]
                 ELSE Append(run[j - 1], Reads(block, j)))
    IN run[Len(block.frames)]

\* The history after the inputs of a list, from the beginning.
Replay(list) ==
    LET upto[k \in 0 .. Len(list)] ==
          IF k = 0 THEN <<>>
          ELSE IF IsInput(list[k]) THEN RunBlock(upto[k - 1], list[k])
          ELSE upto[k - 1]
    IN upto[Len(list)]

\* The history of a state whose frame has ended.
After(state) == IF state.due THEN z80_interrupt(state.history) ELSE state.history

\* The inputs recorded, by themselves, lead to the machine as it is now, whatever
\* was rolled back, held off, pruned or continued on the way (rzx.c,
\* recording_frame and start_after_rollback).
Replays == rzx_recording => Replay(blocks) = After(machine)

\* Playing a file to its end leads to the state it was closed in, and a snapshot
\* on the way restores the state playing had led to, for a file continued or
\* finalised too (libspectrum_rzx_playback_frame).
PlaybackReproduces ==
    [][/\ PlayLastFrame => z80_interrupt(Played) = z80_interrupt(recorded)
       /\ PlayNextBlock => machine'.history = z80_interrupt(Played)]_vars

\* Automatic snapshots older than an age are at least that age apart, over
\* rollbacks too: they are only looked at when exactly that old (autosave_prune).
\* It is lost when frames go by uncounted, the option being off (autosave_frame).
AutosavesSparse ==
    rzx_recording /\ ~unaged =>
        \A k \in Autosaves(blocks) :
            LET older == {j \in Autosaves(blocks) : j < k}
            IN older # {} =>
                \A age \in AutosaveAges : Age(blocks, k) >= age =>
                    Age(blocks, Max(older)) - Age(blocks, k) >= age

\* "If we've got another frame to do, fetch the new instruction count" (rzx.c):
\* playback does not go on to a block that has no frame.
PlaybackHasFrame ==
    rzx_playback /\ cursor.block # NextInput(blocks, 0) => HasFrame

=============================================================================
