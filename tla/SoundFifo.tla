------------------------------ MODULE SoundFifo ------------------------------
(***************************************************************************)
(* The ring buffer between the emulator, which writes a frame of sound and *)
(* is slowed down by waiting for room, and the callback of the sound card, *)
(* a thread of the sound library: neither takes a lock.  A write and a     *)
(* read each look at the other side's position, copy in one or two pieces  *)
(* and only then move their own position.  (sfifo.c, sdlsound.c and the    *)
(* sound timer of timer.c; positions are read and written atomically and   *)
(* seen in order, as sfifo.h requires.)                                    *)
(***************************************************************************)
EXTENDS Integers, Sequences

CONSTANTS
  NUM_FRAMES,       \* frames of latency, 2
  SAMPLE,           \* bytes of a sample over all channels, 2 or 4
  sound_framesiz,   \* samples a frame gives at most
  FrameSamples,     \* samples the frames give
  CallbackBytes,    \* bytes the sound card asks for
  WORD,             \* the callback cuts lengths to this, 0x10000
  M                 \* bytes are numbered modulo M

\* sfifo_init: the least power of two above what is asked for.
FifoSize(n) == CHOOSE s \in {2 ^ k : k \in 0 .. n + 1} : s > n /\ s <= 2 * n

SIZE == FifoSize(NUM_FRAMES * SAMPLE * (sound_framesiz - 1) + 1)

ASSUME SoundAssumption ==
  /\ {NUM_FRAMES, SAMPLE, sound_framesiz, WORD, M} \subseteq Nat \ {0}
  /\ FrameSamples \subseteq 1 .. sound_framesiz
  /\ CallbackBytes \subseteq Nat
  /\ NUM_FRAMES >= 2 /\ sound_framesiz > 1
  /\ M > SIZE /\ M % SAMPLE = 0 /\ WORD % SAMPLE = 0

\* The loop of sfifo_init ends with a power of two.
ASSUME SizeAssumption == SIZE \in Nat \ {0}

\* It is above what is asked for.
ASSUME RoomAssumption == SIZE > NUM_FRAMES * SAMPLE * (sound_framesiz - 1) + 1

VARIABLES
  sfifo,     \* buffer, readpos and writepos
  writer,    \* the emulator in a frame of sound or in the sound timer
  reader,    \* the callback
  sound,     \* sound_enabled and audio_output_started
  sent,      \* the number of the first byte not written yet
  heard      \* the number of the byte the sound card is to hear next

vars == <<sfifo, writer, reader, sound, sent, heard>>

\* What is left to do, what the copy under way moves, and the number of the
\* byte after those it has copied.
Idle == [pc |-> "idle", left |-> 0, total |-> 0, next |-> 0]

Empty == [buffer |-> [i \in 0 .. SIZE - 1 |-> 0], readpos |-> 0, writepos |-> 0]

Init ==
  /\ sfifo = Empty /\ writer = Idle /\ reader = Idle
  /\ sound = [enabled |-> FALSE, started |-> FALSE]
  /\ sent = 0 /\ heard = 0

sfifo_used == (sfifo.writepos - sfifo.readpos) % SIZE

\* Mutant: a full ring is taken for an empty one.
sfifo_space_all == SIZE - sfifo_used

sfifo_space == SIZE - 1 - sfifo_used

Lesser(a, b) == IF a < b THEN a ELSE b

\* A copy of n bytes at pos is cut in two where the ring ends; a position that
\* ends there stays at SIZE.
FirstPiece(pos, n) == IF pos + n > SIZE THEN SIZE - pos ELSE n

\* Mutant: a position goes on past the end of the ring.
Moved_past(pos, n) == pos + n

\* Mutant: the bytes before the end of the ring are counted twice.
Moved_unwrapped(pos, n) == IF pos + n > SIZE THEN n ELSE pos + n

Moved(pos, n) == IF pos + n > SIZE THEN n - (SIZE - pos) ELSE pos + n

-----------------------------------------------------------------------------
(* The emulator.                                                           *)

sound_init ==
  /\ ~sound.enabled
  /\ sfifo' = Empty
  /\ sound' = [enabled |-> TRUE, started |-> FALSE]
  /\ sent' = 0 /\ heard' = 0
  /\ UNCHANGED <<writer, reader>>

\* Closing the sound card waits for a callback under way to return.
sound_end ==
  /\ sound.enabled
  /\ writer.pc = "idle" /\ reader.pc = "idle"
  /\ sfifo' = [sfifo EXCEPT !.readpos = 0, !.writepos = 0]
  /\ sound' = [enabled |-> FALSE, started |-> FALSE]
  /\ sent' = 0 /\ heard' = 0
  /\ UNCHANGED <<writer, reader>>

\* The sound timer: no further until the ring has room.
TimerStarts ==
  /\ sound.enabled /\ writer.pc = "idle"
  /\ writer' = [writer EXCEPT !.pc = "timer"]
  /\ UNCHANGED <<sfifo, reader, sound, sent, heard>>

\* Mutant: it waits for the cell that is always kept free as well.
TimerEnds_empty ==
  /\ writer.pc = "timer"
  /\ sfifo_space >= SIZE
  /\ writer' = Idle
  /\ UNCHANGED <<sfifo, reader, sound, sent, heard>>

TimerEnds ==
  /\ writer.pc = "timer"
  /\ sfifo_space >= sound_framesiz
  /\ writer' = Idle
  /\ UNCHANGED <<sfifo, reader, sound, sent, heard>>

FrameStarts ==
  /\ sound.enabled /\ writer.pc = "idle"
  /\ \E n \in FrameSamples : writer' = 
       [pc |-> "space", left |-> n * SAMPLE, total |-> 0, next |-> sent]
  /\ UNCHANGED <<sfifo, reader, sound, sent, heard>>

\* sfifo_write: as much as there is room for; without any, sleep and try again.
WriteStarts ==
  /\ writer.pc = "space"
  /\ sfifo_space > 0
  /\ writer' = [writer EXCEPT !.pc = "copy", !.total = Lesser(writer.left, sfifo_space)]
  /\ UNCHANGED <<sfifo, reader, sound, sent, heard>>

\* The cells from first on hold the next n bytes.
Filled(first, n) ==
  [i \in 0 .. SIZE - 1 |-> IF i \in first .. (first + n - 1)
                           THEN (writer.next + i - first) % M ELSE sfifo.buffer[i]]

CopyIn(first, n, then) ==
  /\ sfifo' = [sfifo EXCEPT !.buffer = Filled(first, n)]
  /\ writer' = [writer EXCEPT !.next = (@ + n) % M, !.pc = then]
  /\ UNCHANGED <<reader, sound, sent, heard>>

CopyInFirst ==
  /\ writer.pc = "copy"
  /\ LET n == FirstPiece(sfifo.writepos, writer.total)
     IN CopyIn(sfifo.writepos, n, IF n < writer.total THEN "rest" ELSE "publish")

CopyInRest ==
  /\ writer.pc = "rest"
  /\ CopyIn(0, writer.total - FirstPiece(sfifo.writepos, writer.total), "publish")

Written == [sfifo EXCEPT !.writepos = Moved(@, writer.total)]

\* The end of sfifo_write; after the last of a frame the sound card may start.
WriteEnds ==
  /\ writer.pc = "publish"
  /\ sfifo' = Written
  /\ sent' = writer.next
  /\ IF writer.total = writer.left
     THEN writer' = Idle /\ sound' = [sound EXCEPT !.started = TRUE]
     ELSE /\ writer' = [writer EXCEPT !.pc = "space", !.left = @ - writer.total]
          /\ UNCHANGED sound
  /\ UNCHANGED <<reader, heard>>

-----------------------------------------------------------------------------
(* The callback of the sound card.                                         *)

\* Mutant: half a sample may be taken.
Whole_bytes(n) == n % WORD

\* The mask leaves whole samples, of 16 bits of the length.
Whole(n) == (n - (n % SAMPLE)) % WORD

\* The sound card asks for bytes; silence fills what it is not given.
sdlwrite ==
  /\ sound.started /\ reader.pc = "idle"
  /\ \E len \in CallbackBytes :
       LET left == Whole(Lesser(len, sfifo_used))
       IN left > 0 /\ reader' = [Idle EXCEPT !.pc = "used", !.left = left]
  /\ UNCHANGED <<sfifo, writer, sound, sent, heard>>

\* sfifo_read, until a read returns nothing.
ReadStarts ==
  /\ reader.pc = "used"
  /\ LET total == Lesser(reader.left, sfifo_used)
     IN reader' = IF total = 0 THEN Idle
                  ELSE [reader EXCEPT !.pc = "copy", !.total = total]
  /\ UNCHANGED <<sfifo, writer, sound, sent, heard>>

CopyOut(last, then) ==
  /\ reader' = [reader EXCEPT !.next = (sfifo.buffer[last] + 1) % M, !.pc = then]
  /\ UNCHANGED <<sfifo, writer, sound, sent, heard>>

CopyOutFirst ==
  /\ reader.pc = "copy"
  /\ LET n == FirstPiece(sfifo.readpos, reader.total)
     IN CopyOut((sfifo.readpos + n - 1) % SIZE, IF n < reader.total THEN "rest" ELSE "publish")

CopyOutRest ==
  /\ reader.pc = "rest"
  /\ CopyOut(reader.total - FirstPiece(sfifo.readpos, reader.total) - 1, "publish")

ReadEnds ==
  /\ reader.pc = "publish"
  /\ sfifo' = [sfifo EXCEPT !.readpos = Moved(@, reader.total)]
  /\ heard' = reader.next
  /\ reader' = [reader EXCEPT !.pc = "used", !.left = @ - reader.total]
  /\ UNCHANGED <<writer, sound, sent>>

Write == WriteStarts \/ CopyInFirst \/ CopyInRest \/ WriteEnds
Read == ReadStarts \/ CopyOutFirst \/ CopyOutRest \/ ReadEnds

Next ==
  \/ sound_init \/ sound_end
  \/ TimerStarts \/ TimerEnds \/ FrameStarts
  \/ WriteStarts \/ CopyInFirst \/ CopyInRest \/ WriteEnds
  \/ sdlwrite
  \/ ReadStarts \/ CopyOutFirst \/ CopyOutRest \/ ReadEnds

\* Both threads run, and a sound card that has been started keeps asking.
Spec == Init /\ [][Next]_vars
             /\ WF_vars(TimerEnds) /\ WF_vars(Write) /\ WF_vars(sdlwrite) /\ WF_vars(Read)

-----------------------------------------------------------------------------
Pcs == {"idle", "timer", "space", "used", "copy", "rest", "publish"}

\* Positions stay within the ring, or at its end.
TypeOK ==
  /\ sfifo.buffer \in [0 .. SIZE - 1 -> 0 .. M - 1]
  /\ {sfifo.readpos, sfifo.writepos} \subseteq 0 .. SIZE
  /\ \A t \in {writer, reader} :
       t.pc \in Pcs /\ {t.left, t.total} \subseteq Nat /\ t.next \in 0 .. M - 1
  /\ {sound.enabled, sound.started} \subseteq BOOLEAN
  /\ {sent, heard} \subseteq 0 .. M - 1

Copying(t) == t.pc \in {"copy", "rest", "publish"}

Cells(pos, n) == {(pos + k) % SIZE : k \in 0 .. n - 1}

(***************************************************************************)
(* The two threads never copy to and from the same cell at one time,       *)
(* although each acts on a position of the other's that has moved since.   *)
(***************************************************************************)
NoRace ==
  Copying(writer) /\ Copying(reader) =>
    Cells(sfifo.writepos, writer.total) \cap Cells(sfifo.readpos, reader.total) = {}

(***************************************************************************)
(* "Try to only read an even number of bytes so as not to fragment a       *)
(* sample" (sdlsound.c:196): between callbacks the sound card is at the    *)
(* start of a sample, although a write stops wherever the room ends, an    *)
(* odd number of bytes further.                                            *)
(***************************************************************************)
WholeSamples == reader.pc = "idle" => heard % SAMPLE = 0

(***************************************************************************)
(* The ring is a queue: the bytes between the positions are those sent and *)
(* not heard, in order, over any number of times round the ring, and each  *)
(* byte is heard once.                                                     *)
(***************************************************************************)
Queue == INSTANCE SoundQueue WITH
           Capacity <- SIZE - 1,
           queue <- [k \in 1 .. sfifo_used |-> sfifo.buffer[(sfifo.readpos + k - 1) % SIZE]]

QueueSpec == Queue!Spec

(***************************************************************************)
(* The emulator, which waits for room in the middle of a frame of sound    *)
(* and in the sound timer, never does so for ever: the sound card has been *)
(* started and the remainder it leaves, less than a sample, leaves room.   *)
(***************************************************************************)
EmulatorGoesOn == []<>(writer.pc = "idle")

=============================================================================
