----------------------------- MODULE SoundQueue -----------------------------
(***************************************************************************)
(* What the emulator and the sound card need of the buffer between them: a *)
(* queue of at most Capacity bytes that come out in the order they went    *)
(* in.  Bytes are numbered in that order, modulo M; stopping the sound     *)
(* empties the queue and starts a new stream.                              *)
(***************************************************************************)
EXTENDS Sequences, Integers

CONSTANTS Capacity, M

VARIABLES
  queue,    \* the bytes on their way, oldest first
  heard     \* the number of the byte the sound card is to hear next

Init == queue = << >> /\ heard = 0

\* The n bytes that follow those sent.
NextBytes(n) == [k \in 1 .. n |-> (heard + Len(queue) + k - 1) % M]

Send == \E n \in 1 .. (Capacity - Len(queue)) :
          /\ queue' = queue \o NextBytes(n)
          /\ UNCHANGED heard

Hear == \E n \in 1 .. Len(queue) :
          /\ queue' = SubSeq(queue, n + 1, Len(queue))
          /\ heard' = (queue[n] + 1) % M

Restart == Init'

Spec == Init /\ [][Send \/ Hear \/ Restart]_<<queue, heard>>

=============================================================================
