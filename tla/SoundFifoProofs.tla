--------------------------- MODULE SoundFifoProofs ---------------------------
(***************************************************************************)
(* The ring buffer is a queue, its two threads keep apart and room comes   *)
(* for a writer that waits, for every size of the ring, of a sample and of *)
(* what is written and read.                                               *)
(***************************************************************************)
EXTENDS SoundFifo, SequenceTheorems, TLAPS

-----------------------------------------------------------------------------
(* Remainders.                                                             *)

LEMMA ModRange ==
  ASSUME NEW n \in Nat \ {0}, NEW x \in Int
  PROVE  x % n \in 0 .. n - 1
OBVIOUS

LEMMA ModWrap ==
  ASSUME NEW n \in Nat \ {0}, NEW x \in Int
  PROVE  /\ x \in 0 .. n - 1 => x % n = x
         /\ x \in n .. 2 * n - 1 => x % n = x - n
<1>1. x \in 0 .. n - 1 => x % n = x
  OBVIOUS
<1>2. x \in n .. 2 * n - 1 => x % n = x - n
  OBVIOUS
<1> QED BY <1>1, <1>2

LEMMA Quotient ==
  ASSUME NEW n \in Nat \ {0}, NEW x \in Int
  PROVE  \E q \in Int : x = n * q + (x % n)
<1>1. x \div n \in Int /\ x = n * (x \div n) + (x % n)
  OBVIOUS
<1> QED BY <1>1

LEMMA ModUnique ==
  ASSUME NEW n \in Nat \ {0}, NEW q \in Int, NEW r \in 0 .. n - 1
  PROVE  (n * q + r) % n = r
OBVIOUS

LEMMA ModShift ==
  ASSUME NEW n \in Nat \ {0}, NEW x \in Int, NEW k \in Int
  PROVE  (x + n * k) % n = x % n
<1>1. PICK q \in Int : x = n * q + (x % n)
  BY Quotient
<1>2. PICK r \in 0 .. n - 1 : r = x % n
  BY ModRange
<1> DEFINE c == q + k
<1>3. x + n * k = n * c + r /\ c \in Int
  BY <1>1, <1>2
<1> HIDE DEF c
<1>4. (n * c + r) % n = r
  BY <1>3, ModUnique
<1> QED BY <1>2, <1>3, <1>4

\* A remainder may be taken early.
LEMMA ModAdd ==
  ASSUME NEW n \in Nat \ {0}, NEW x \in Int, NEW y \in Int
  PROVE  ((x % n) + y) % n = (x + y) % n
<1>1. PICK q \in Int : x = n * q + (x % n)
  BY Quotient
<1>2. PICK r \in 0 .. n - 1 : r = x % n
  BY ModRange
<1> DEFINE z == r + y
<1>3. x + y = z + n * q /\ z \in Int
  BY <1>1, <1>2
<1> HIDE DEF z
<1>4. (z + n * q) % n = z % n
  BY <1>3, ModShift
<1> QED BY <1>2, <1>3, <1>4 DEF z

\* ... by a multiple of the divisor.
LEMMA ModMultiple ==
  ASSUME NEW n \in Nat \ {0}, NEW m \in Nat \ {0}, m % n = 0, NEW x \in Int, NEW y \in Int
  PROVE  ((x % m) + y) % n = (x + y) % n
<1>1. PICK q \in Int : x = m * q + (x % m)
  BY Quotient
<1>2. PICK c \in Int : m = n * c
  <2>1. m \in Int
    OBVIOUS
  <2>2. PICK c \in Int : m = n * c + (m % n)
    BY <2>1, Quotient
  <2> QED BY <2>2
<1>3. PICK r \in 0 .. m - 1 : r = x % m
  BY ModRange
<1> DEFINE z == r + y
           k == c * q
<1>4. z \in Int /\ k \in Int
  BY <1>3
<1>5. m * q = n * k
  BY <1>2
<1>6. x = n * k + r
  BY <1>1, <1>3, <1>5
<1> HIDE DEF k
<1>8. x + y = z + n * k
  BY <1>3, <1>4, <1>6
<1> HIDE DEF z
<1>7. (z + n * k) % n = z % n
  BY <1>4, ModShift
<1> QED BY <1>3, <1>7, <1>8 DEF z

-----------------------------------------------------------------------------
(* The ring: k cells on from a position.                                   *)

Cell(pos, k) == (pos + k) % SIZE

LEMMA CellApart ==
  ASSUME NEW pos \in 0 .. SIZE, NEW j \in 0 .. SIZE - 1, NEW k \in 0 .. SIZE - 1,
         Cell(pos, j) = Cell(pos, k)
  PROVE  j = k
<1> DEFINE a == pos + j
           b == pos + k
<1>1. a \in 0 .. 2 * SIZE - 1 /\ b \in 0 .. 2 * SIZE - 1
  BY SizeAssumption
<1>2. ASSUME NEW x \in 0 .. 2 * SIZE - 1
      PROVE  x % SIZE = x \/ x % SIZE = x - SIZE
  <2>1. x \in Int /\ (x \in 0 .. SIZE - 1 \/ x \in SIZE .. 2 * SIZE - 1)
    BY SizeAssumption
  <2> QED BY <2>1, SizeAssumption, ModWrap
<1>3. a % SIZE = b % SIZE
  BY DEF Cell
<1>4. a = b \/ a = b + SIZE \/ b = a + SIZE
  <2> HIDE DEF a, b
  <2> QED BY <1>1, <1>2, <1>3, SizeAssumption
<1> QED BY <1>4, SizeAssumption

LEMMA CellShift ==
  ASSUME NEW p \in Int, NEW e \in Int, NEW k \in Int
  PROVE  Cell(p + SIZE * e, k) = Cell(p, k)
<1> DEFINE x == p + k
<1>1. p + SIZE * e + k = x + SIZE * e /\ x \in Int
  BY SizeAssumption
<1> HIDE DEF x
<1>2. (x + SIZE * e) % SIZE = x % SIZE
  BY <1>1, ModShift, SizeAssumption
<1> QED BY <1>1, <1>2 DEF x, Cell

LEMMA CellUsed ==
  ASSUME NEW wp \in 0 .. SIZE, NEW rp \in 0 .. SIZE
  PROVE  /\ (wp - rp) % SIZE \in 0 .. SIZE - 1
         /\ \A k \in Nat : Cell(wp, k) = Cell(rp, ((wp - rp) % SIZE) + k)
<1> DEFINE x == wp - rp
<1>1. x \in Int /\ wp \in Int /\ rp \in Int
  BY SizeAssumption
<1>2. PICK u \in 0 .. SIZE - 1 : u = x % SIZE
  BY <1>1, ModRange, SizeAssumption
<1>3. PICK q \in Int : x = SIZE * q + (x % SIZE)
  BY <1>1, Quotient, SizeAssumption
<1>4. ASSUME NEW k \in Nat
      PROVE  Cell(wp, k) = Cell(rp, u + k)
  <2> DEFINE y == rp + u
  <2>1. wp = y + SIZE * q /\ y \in Int
    <3>1. PICK w \in Int : w = SIZE * q
      BY SizeAssumption
    <3>2. wp - rp = w + u
      BY <1>2, <1>3, <3>1
    <3> QED BY <1>1, <1>2, <3>1, <3>2
  <2> HIDE DEF y
  <2>2. Cell(y + SIZE * q, k) = Cell(y, k)
    BY <2>1, CellShift
  <2>3. Cell(y, k) = Cell(rp, u + k)
    <3>1. y + k = rp + (u + k)
      BY <1>1, SizeAssumption DEF y
    <3> QED BY <3>1 DEF Cell
  <2> QED BY <2>1, <2>2, <2>3
<1> QED BY <1>2, <1>4

LEMMA MovedOn ==
  ASSUME NEW pos \in 0 .. SIZE, NEW n \in 0 .. SIZE
  PROVE  /\ Moved(pos, n) \in 0 .. SIZE
         /\ \E e \in Int : Moved(pos, n) = pos + n + SIZE * e
         /\ \A k \in Nat : Cell(Moved(pos, n), k) = Cell(pos, n + k)
<1>1. Moved(pos, n) \in 0 .. SIZE
  BY SizeAssumption DEF Moved
<1>2. PICK e \in Int : Moved(pos, n) = pos + n + SIZE * e
  <2>1. Moved(pos, n) = pos + n + SIZE * 0 \/ Moved(pos, n) = pos + n + SIZE * (-1)
    BY SizeAssumption DEF Moved
  <2> QED BY <2>1
<1>3. ASSUME NEW k \in Nat
      PROVE  Cell(Moved(pos, n), k) = Cell(pos, n + k)
  <2> DEFINE y == pos + n
  <2>1. y \in Int /\ y + k = pos + (n + k)
    BY SizeAssumption
  <2> HIDE DEF y
  <2>2. Cell(y + SIZE * e, k) = Cell(y, k)
    BY <2>1, CellShift
  <2> QED BY <1>2, <2>1, <2>2 DEF y, Cell
<1> QED BY <1>1, <1>2, <1>3

\* What is used after a write and after a read.
LEMMA UsedMoves ==
  ASSUME NEW wp \in 0 .. SIZE, NEW rp \in 0 .. SIZE, NEW n \in 0 .. SIZE,
         NEW u, u = (wp - rp) % SIZE
  PROVE  /\ u + n < SIZE => (Moved(wp, n) - rp) % SIZE = u + n
         /\ n <= u => (wp - Moved(rp, n)) % SIZE = u - n
<1> DEFINE x == wp - rp
<1>1. x \in Int /\ SIZE \in Nat \ {0} /\ n \in Int /\ wp \in Int /\ rp \in Int
  BY SizeAssumption
<1>2. u \in 0 .. SIZE - 1
  BY <1>1, ModRange
<1>3. PICK q \in Int : x = SIZE * q + u
  BY <1>1, Quotient
<1>4. ASSUME u + n < SIZE
      PROVE  (Moved(wp, n) - rp) % SIZE = u + n
  <2>1. PICK e \in Int : Moved(wp, n) = wp + n + SIZE * e
    BY MovedOn
  <2> DEFINE c == q + e
             r == u + n
  <2>2. Moved(wp, n) - rp = SIZE * c + r /\ c \in Int /\ r \in 0 .. SIZE - 1
    BY <1>1, <1>2, <1>3, <1>4, <2>1
  <2> HIDE DEF c, r
  <2>3. (SIZE * c + r) % SIZE = r
    BY <1>1, <2>2, ModUnique
  <2> QED BY <2>2, <2>3 DEF r
<1>5. ASSUME n <= u
      PROVE  (wp - Moved(rp, n)) % SIZE = u - n
  <2>1. PICK e \in Int : Moved(rp, n) = rp + n + SIZE * e
    BY MovedOn
  <2> DEFINE c == q - e
             r == u - n
  <2>2. wp - Moved(rp, n) = SIZE * c + r /\ c \in Int /\ r \in 0 .. SIZE - 1
    <3>1. PICK a \in Int, b \in Int : a = SIZE * q /\ b = SIZE * e
      BY <1>1
    <3>2. a - b = SIZE * c /\ c \in Int
      BY <1>1, <3>1
    <3> HIDE DEF c
    <3>3. wp - rp = a + u /\ Moved(rp, n) = rp + n + b
      BY <1>3, <2>1, <3>1
    <3> QED BY <1>1, <1>2, <1>5, <3>1, <3>2, <3>3
  <2> HIDE DEF c, r
  <2>3. (SIZE * c + r) % SIZE = r
    BY <1>1, <2>2, ModUnique
  <2> QED BY <2>2, <2>3 DEF r
<1> QED BY <1>4, <1>5

\* Where the two pieces of a copy are.
LEMMA Pieces ==
  ASSUME NEW pos \in 0 .. SIZE, NEW n \in 1 .. SIZE - 1
  PROVE  /\ FirstPiece(pos, n) \in 0 .. n
         /\ \A k \in 0 .. FirstPiece(pos, n) - 1 :
              Cell(pos, k) = pos + k /\ pos + k \in 0 .. SIZE - 1
         /\ \A k \in FirstPiece(pos, n) .. n - 1 :
              /\ Cell(pos, k) = k - FirstPiece(pos, n)
              /\ k - FirstPiece(pos, n) \in 0 .. SIZE - 1
<1>1. PICK f \in 0 .. n : f = FirstPiece(pos, n)
  BY SizeAssumption DEF FirstPiece
<1>2. pos + f <= SIZE /\ (f = n \/ f = SIZE - pos)
  BY <1>1, SizeAssumption DEF FirstPiece
<1>3. ASSUME NEW k \in 0 .. f - 1
      PROVE  Cell(pos, k) = pos + k /\ pos + k \in 0 .. SIZE - 1
  <2>1. pos + k \in 0 .. SIZE - 1
    BY <1>2, SizeAssumption
  <2> QED BY <2>1, ModWrap, SizeAssumption DEF Cell
<1>4. ASSUME NEW k \in f .. n - 1
      PROVE  Cell(pos, k) = k - f /\ k - f \in 0 .. SIZE - 1
  <2>1. f = SIZE - pos /\ pos + k \in SIZE .. 2 * SIZE - 1
    BY <1>2, SizeAssumption
  <2>2. (pos + k) % SIZE = pos + k - SIZE
    BY <2>1, ModWrap, SizeAssumption
  <2> QED BY <2>1, <2>2, SizeAssumption DEF Cell
<1> QED BY <1>1, <1>3, <1>4

\* The callback takes whole samples, and no more than there are.
LEMMA WholeTaken ==
  ASSUME NEW n \in Nat
  PROVE  Whole(n) \in 0 .. n /\ Whole(n) % SAMPLE = 0
<1>1. /\ SAMPLE \in Nat \ {0} /\ WORD \in Nat \ {0} /\ WORD % SAMPLE = 0
      /\ n \in Int /\ WORD \in Int
  BY SoundAssumption
<1>2. PICK q \in Int : n = SAMPLE * q + (n % SAMPLE)
  BY <1>1, Quotient
<1>3. PICK s \in Int : s = SAMPLE * q
  BY <1>1
<1>4. PICK r \in 0 .. SAMPLE - 1 : r = n % SAMPLE
  BY <1>1, ModRange
<1>5. n - (n % SAMPLE) = s /\ s \in 0 .. n
  <2>1. n - (n % SAMPLE) = s
    BY <1>2, <1>3, <1>4
  <2>2. n % SAMPLE <= n
    <3>1. CASE n < SAMPLE
      BY <1>1, <3>1, ModWrap
    <3>2. CASE ~(n < SAMPLE)
      BY <1>1, <1>4, <3>2
    <3> QED BY <3>1, <3>2
  <2> QED BY <1>4, <2>1, <2>2
<1>6. s % WORD \in 0 .. s
  <2>1. s % WORD \in 0 .. WORD - 1
    BY <1>1, <1>3, ModRange
  <2>2. CASE s < WORD
    BY <1>1, <1>5, <2>2, ModWrap
  <2>3. CASE ~(s < WORD)
    BY <1>1, <1>3, <2>1, <2>3
  <2> QED BY <2>2, <2>3
<1>7. (s % WORD) % SAMPLE = 0
  <2>1. ((s % WORD) + 0) % SAMPLE = (s + 0) % SAMPLE
    <3>1. \A y \in Int : ((s % WORD) + y) % SAMPLE = (s + y) % SAMPLE
      BY <1>1, <1>3, ModMultiple
    <3> QED BY <3>1
  <2>2. (SAMPLE * q + 0) % SAMPLE = 0
    BY <1>1, ModUnique
  <2>3. (s % WORD) + 0 = s % WORD /\ s + 0 = SAMPLE * q + 0
    BY <1>3, <1>6, <1>5
  <2> QED BY <2>1, <2>2, <2>3
<1> QED BY <1>5, <1>6, <1>7 DEF Whole

-----------------------------------------------------------------------------
(* The invariant.                                                          *)

Fifo == [buffer : [0 .. SIZE - 1 -> 0 .. M - 1], readpos : 0 .. SIZE, writepos : 0 .. SIZE]
Thread == [pc : Pcs, left : Nat, total : Nat, next : 0 .. M - 1]

Typed ==
  /\ sfifo \in Fifo
  /\ writer \in Thread /\ reader \in Thread
  /\ sound \in [enabled : BOOLEAN, started : BOOLEAN]
  /\ sent \in 0 .. M - 1 /\ heard \in 0 .. M - 1

\* Nobody is at work while the sound is off.
Off ==
  /\ sound.started => sound.enabled
  /\ ~sound.enabled => writer.pc = "idle" /\ reader.pc = "idle"

Active == {"space", "copy", "rest", "publish"}

\* A write under way has room, whatever has been read since it began ...
WFits ==
  /\ writer.pc \in {"idle", "timer"} \cup Active
  /\ writer.pc \in Active => writer.left > 0
  /\ Copying(writer) => /\ writer.total \in 1 .. writer.left
                        /\ sfifo_used + writer.total <= SIZE - 1

\* ... and a read has its bytes, whatever has been written.
RFits ==
  /\ reader.pc \in {"idle", "used", "copy", "rest", "publish"}
  /\ reader.pc # "idle" => reader.left <= sfifo_used
  /\ Copying(reader) => reader.total \in 1 .. reader.left
  /\ reader.pc = "rest" => FirstPiece(sfifo.readpos, reader.total) < reader.total

\* What the write under way has copied.
WDone ==
  IF writer.pc = "rest" THEN FirstPiece(sfifo.writepos, writer.total)
  ELSE IF writer.pc = "publish" THEN writer.total
  ELSE 0

\* The cells from readpos on hold the stream, those of the write under way too.
Stream ==
  /\ sent = (heard + sfifo_used) % M
  /\ \A k \in 0 .. sfifo_used + WDone - 1 :
       sfifo.buffer[Cell(sfifo.readpos, k)] = (heard + k) % M
  /\ writer.pc \in Active => writer.next = (heard + sfifo_used + WDone) % M

\* A callback ends where a sample does.
InSamples ==
  /\ reader.pc = "idle" => heard % SAMPLE = 0
  /\ reader.pc # "idle" => (heard + reader.left) % SAMPLE = 0
  /\ reader.pc = "publish" => reader.next = (heard + reader.total) % M

IInv == Typed /\ Off /\ WFits /\ RFits /\ Stream /\ InSamples

LEMMA Constants ==
  /\ SIZE \in Nat \ {0} /\ SAMPLE \in Nat \ {0} /\ M \in Nat \ {0}
  /\ M % SAMPLE = 0 /\ 0 \in 0 .. M - 1 /\ SIZE - 1 \in Nat
BY SizeAssumption, SoundAssumption

LEMMA UsedFacts ==
  ASSUME Typed
  PROVE  /\ sfifo_used \in 0 .. SIZE - 1 /\ sfifo_used \in Nat
         /\ \A k \in Nat : Cell(sfifo.writepos, k) = Cell(sfifo.readpos, sfifo_used + k)
<1>1. sfifo.writepos \in 0 .. SIZE /\ sfifo.readpos \in 0 .. SIZE
  BY DEF Typed, Fifo
<1>2. /\ sfifo_used \in 0 .. SIZE - 1
      /\ \A k \in Nat : Cell(sfifo.writepos, k) = Cell(sfifo.readpos, sfifo_used + k)
  BY <1>1, CellUsed DEF sfifo_used
<1> QED BY <1>2, Constants

\* A step of the writer that copies and publishes nothing.
LEMMA WriterKeeps ==
  ASSUME IInv, writer' \in Thread, UNCHANGED <<sfifo, reader, sound, sent, heard>>,
         WFits', WDone = 0, WDone' = 0,
         writer'.pc \in Active => writer'.next = sent,
         ~sound.enabled => writer'.pc = "idle"
  PROVE  IInv'
<1>1. sfifo_used' = sfifo_used /\ sfifo_used \in Nat /\ heard \in Int
  BY UsedFacts DEF IInv, Typed, sfifo_used
<1>2. Stream'
  BY <1>1 DEF IInv, Stream
<1> QED BY <1>1, <1>2 DEF IInv, Typed, Off, RFits, InSamples, Copying

\* A step of the callback that publishes nothing.
LEMMA ReaderKeeps ==
  ASSUME IInv, reader' \in Thread, UNCHANGED <<sfifo, writer, sound, sent, heard>>,
         RFits', InSamples', ~sound.enabled => reader'.pc = "idle"
  PROVE  IInv'
<1>1. sfifo_used' = sfifo_used /\ WDone' = WDone
  BY DEF sfifo_used, WDone
<1> QED BY <1>1 DEF IInv, Typed, Off, WFits, Stream, Copying

LEMMA InvInit == Init => IInv
<1> SUFFICES ASSUME Init PROVE IInv
  OBVIOUS
<1>1. 0 \in 0 .. M - 1 /\ 0 \in 0 .. SIZE /\ 0 \in Nat
  BY Constants
<1>2. Empty \in Fifo /\ Idle \in Thread
  BY <1>1 DEF Empty, Idle, Fifo, Thread, Pcs
<1>3. sfifo_used = 0
  BY Constants, ModWrap DEF Init, Empty, sfifo_used
<1>4. 0 % SAMPLE = 0 /\ 0 % M = 0
  BY Constants, ModWrap
<1>5. Typed /\ Off /\ WFits /\ RFits
  BY <1>1, <1>2 DEF Init, Idle, Typed, Off, WFits, RFits, Active, Copying
<1>6. WDone = 0
  BY DEF Init, Idle, WDone
<1>7. Stream /\ InSamples
  BY <1>3, <1>4, <1>6 DEF Init, Idle, Stream, InSamples, Active
<1> QED BY <1>5, <1>7 DEF IInv

-----------------------------------------------------------------------------
(* The steps of the emulator.                                              *)

LEMMA TimerKeeps ==
  ASSUME IInv, TimerStarts \/ TimerEnds PROVE IInv'
<1>1. 0 \in 0 .. M - 1 /\ 0 \in Nat
  BY Constants
<1>2. /\ writer' \in Thread /\ writer'.pc \in {"idle", "timer"}
      /\ UNCHANGED <<sfifo, reader, sound, sent, heard>>
      /\ writer.pc \in {"idle", "timer"}
      /\ ~sound.enabled => writer'.pc = "idle"
  BY <1>1 DEF TimerStarts, TimerEnds, IInv, Typed, Thread, Pcs, Idle
<1>3. WFits' /\ WDone = 0 /\ WDone' = 0 /\ writer'.pc \notin Active
  BY <1>2 DEF WFits, WDone, Active, Copying
<1> QED BY <1>2, <1>3, WriterKeeps

LEMMA FrameKeeps ==
  ASSUME IInv, FrameStarts PROVE IInv'
<1>1. PICK n \in FrameSamples :
        writer' = [pc |-> "space", left |-> n * SAMPLE, total |-> 0, next |-> sent]
  BY DEF FrameStarts
<1>2. n * SAMPLE \in Nat /\ n * SAMPLE > 0
  <2>1. n \in Nat \ {0}
    BY SoundAssumption
  <2> QED BY <2>1, Constants
<1>3. /\ writer' \in Thread /\ UNCHANGED <<sfifo, reader, sound, sent, heard>>
      /\ sound.enabled /\ writer.pc = "idle"
  BY <1>1, <1>2 DEF FrameStarts, IInv, Typed, Thread, Pcs
<1>4. WFits' /\ WDone = 0 /\ WDone' = 0 /\ writer'.next = sent
  BY <1>1, <1>2, <1>3 DEF WFits, WDone, Active, Copying
<1> QED BY <1>3, <1>4, WriterKeeps

LEMMA WriteStartsKeeps ==
  ASSUME IInv, WriteStarts PROVE IInv'
<1>1. /\ writer \in Thread /\ writer.pc = "space" /\ writer.left > 0 /\ writer.left \in Nat
      /\ writer.next = (heard + sfifo_used + WDone) % M
  BY DEF IInv, Typed, Thread, WFits, Stream, Active, WriteStarts
<1>2. sfifo_used \in 0 .. SIZE - 1 /\ sfifo_used' = sfifo_used
  BY UsedFacts DEF IInv, WriteStarts, sfifo_used
<1>3. sfifo_space = SIZE - 1 - sfifo_used /\ sfifo_space > 0
  BY DEF WriteStarts, sfifo_space
<1>4. PICK t \in Nat : /\ t = Lesser(writer.left, sfifo_space)
                       /\ t \in 1 .. writer.left /\ sfifo_used + t <= SIZE - 1
  BY <1>1, <1>2, <1>3, Constants DEF Lesser
<1>5. writer' = [writer EXCEPT !.pc = "copy", !.total = t]
  BY <1>4 DEF WriteStarts
<1>6. /\ writer' \in Thread /\ writer'.pc = "copy" /\ writer'.total = t
      /\ writer'.left = writer.left /\ writer'.next = writer.next
  BY <1>1, <1>5 DEF Thread, Pcs
<1>7. WDone = 0 /\ WDone' = 0
  BY <1>1, <1>6 DEF WDone
<1>8. WFits'
  BY <1>1, <1>2, <1>4, <1>6 DEF WFits, Active, Copying
<1>9. writer'.next = sent
  BY <1>1, <1>2, <1>6, <1>7, Constants DEF IInv, Typed, Stream
<1>10. UNCHANGED <<sfifo, reader, sound, sent, heard>> /\ sound.enabled
  BY <1>1 DEF WriteStarts, IInv, Off
<1> QED BY <1>6, <1>7, <1>8, <1>9, <1>10, WriterKeeps

\* A copy fills the next cells of the stream: n cells from first on are those
\* that come a cells after readpos.
LEMMA CopyInKeeps ==
  ASSUME IInv, NEW first \in Int, NEW n \in Nat, NEW then \in {"rest", "publish"},
         Copying(writer), CopyIn(first, n, then),
         sfifo_used + WDone + n <= SIZE - 1,
         \A k \in 0 .. n - 1 :
           /\ Cell(sfifo.readpos, sfifo_used + WDone + k) = first + k
           /\ first + k \in 0 .. SIZE - 1,
         WDone \in Nat, WDone' = WDone + n
  PROVE  IInv'
<1> DEFINE a == sfifo_used + WDone
<1>1. /\ sfifo_used \in 0 .. SIZE - 1 /\ a \in Nat /\ heard \in Int /\ M \in Nat \ {0}
      /\ sfifo \in Fifo /\ writer \in Thread /\ writer.next \in Int
  BY UsedFacts, Constants DEF IInv, Typed, Thread
<1>2. writer.next = (heard + a) % M
  <2>1. writer.next = (heard + sfifo_used + WDone) % M
    BY DEF IInv, Stream, Active, Copying
  <2>2. heard + sfifo_used + WDone = heard + a
    BY <1>1
  <2> QED BY <2>1, <2>2
<1>14. \A k \in 0 .. a - 1 : sfifo.buffer[Cell(sfifo.readpos, k)] = (heard + k) % M
  <2>1. SUFFICES ASSUME NEW k \in 0 .. a - 1
                 PROVE  sfifo.buffer[Cell(sfifo.readpos, k)] = (heard + k) % M
    OBVIOUS
  <2>2. k \in 0 .. sfifo_used + WDone - 1
    BY <1>1
  <2> QED BY <2>2 DEF IInv, Stream
<1>3. Filled(first, n) \in [0 .. SIZE - 1 -> 0 .. M - 1]
  <2>1. ASSUME NEW i \in 0 .. SIZE - 1
        PROVE  (IF i \in first .. (first + n - 1)
                THEN (writer.next + i - first) % M ELSE sfifo.buffer[i]) \in 0 .. M - 1
    <3>1. writer.next + i - first \in Int
      BY <1>1
    <3> QED BY <1>1, <3>1, ModRange DEF Fifo
  <2> QED BY <2>1 DEF Filled
<1>4. /\ sfifo' \in Fifo /\ sfifo'.buffer = Filled(first, n)
      /\ sfifo'.readpos = sfifo.readpos /\ sfifo'.writepos = sfifo.writepos
  BY <1>1, <1>3 DEF CopyIn, Fifo
<1>5. (writer.next + n) % M = (heard + (a + n)) % M /\ (writer.next + n) % M \in 0 .. M - 1
  <2>1. heard + a \in Int /\ n \in Int /\ writer.next + n \in Int
        /\ heard + a + n = heard + (a + n)
    BY <1>1
  <2>2. (((heard + a) % M) + n) % M = (heard + a + n) % M
    BY <1>1, <2>1, ModAdd
  <2>3. (writer.next + n) % M \in 0 .. M - 1
    BY <1>1, <2>1, ModRange
  <2> QED BY <1>2, <2>1, <2>2, <2>3
<1>6. /\ writer' \in Thread /\ writer'.pc = then
      /\ writer'.next = (heard + (a + n)) % M
      /\ writer'.left = writer.left /\ writer'.total = writer.total
  <2>1. writer' = [writer EXCEPT !.next = (writer.next + n) % M, !.pc = then]
    BY DEF CopyIn
  <2> QED BY <1>1, <1>5, <2>1 DEF Thread, Pcs
<1>7. UNCHANGED <<reader, sound, sent, heard>> /\ sfifo_used' = sfifo_used
  BY <1>4 DEF CopyIn, sfifo_used
<1>8. ASSUME NEW k \in 0 .. a + n - 1
      PROVE  sfifo'.buffer[Cell(sfifo.readpos, k)] = (heard + k) % M
  <2>1. k \in 0 .. SIZE - 1 /\ k \in Int
    BY <1>1, Constants
  <2>2. sfifo.readpos \in 0 .. SIZE /\ sfifo.readpos + k \in Int
    BY <1>1, <2>1, Constants DEF Fifo
  <2>3. Cell(sfifo.readpos, k) \in 0 .. SIZE - 1
    BY <2>2, ModRange, Constants DEF Cell
  <2>4. CASE k < a
    <3>1. ASSUME NEW j \in 0 .. n - 1, Cell(sfifo.readpos, k) = first + j
          PROVE  FALSE
      <4>1. Cell(sfifo.readpos, a + j) = Cell(sfifo.readpos, k)
        BY <3>1
      <4>2. a + j \in 0 .. SIZE - 1
        BY <1>1, Constants
      <4>3. a + j = k
        BY <2>1, <2>2, <4>1, <4>2, CellApart
      <4> QED BY <1>1, <2>4, <4>3
    <3>2. Cell(sfifo.readpos, k) \notin first .. (first + n - 1)
      <4>1. SUFFICES ASSUME Cell(sfifo.readpos, k) \in first .. (first + n - 1)
                     PROVE  FALSE
        OBVIOUS
      <4>2. PICK j \in 0 .. n - 1 : Cell(sfifo.readpos, k) = first + j
        BY <4>1, <2>3
      <4> QED BY <3>1, <4>2
    <3>3. sfifo'.buffer[Cell(sfifo.readpos, k)] = sfifo.buffer[Cell(sfifo.readpos, k)]
      BY <1>4, <2>3, <3>2 DEF Filled
    <3>4. k \in 0 .. a - 1
      BY <1>1, <2>1, <2>4
    <3> QED BY <1>14, <3>3, <3>4
  <2>5. CASE ~(k < a)
    <3>1. PICK j \in 0 .. n - 1 : k = a + j
      <4>1. k - a \in 0 .. n - 1 /\ k = a + (k - a)
        BY <1>1, <2>1, <2>5
      <4> QED BY <4>1
    <3>2. Cell(sfifo.readpos, k) = first + j /\ first + j \in 0 .. SIZE - 1
      BY <3>1
    <3>3. sfifo'.buffer[first + j] = (writer.next + (first + j) - first) % M
      <4>1. first + j \in first .. (first + n - 1)
        BY <3>2
      <4> QED BY <1>4, <3>2, <4>1 DEF Filled
    <3>4. writer.next + (first + j) - first = writer.next + j
      BY <1>1
    <3>5. (((heard + a) % M) + j) % M = (heard + a + j) % M
      <4>1. heard + a \in Int /\ j \in Int
        BY <1>1
      <4> QED BY <1>1, <4>1, ModAdd
    <3>6. heard + a + j = heard + k
      BY <1>1, <3>1
    <3> QED BY <1>2, <3>2, <3>3, <3>4, <3>5, <3>6
  <2> QED BY <2>4, <2>5
<1>9. sfifo_used + WDone + n = a + n
  OBVIOUS
<1>10. Stream'
  <2>1. sfifo_used' + WDone' = a + n
    BY <1>1, <1>7
  <2>2. sent' = (heard' + sfifo_used') % M
    BY <1>7 DEF IInv, Stream
  <2>3. \A k \in 0 .. sfifo_used' + WDone' - 1 :
          sfifo'.buffer[Cell(sfifo'.readpos, k)] = (heard' + k) % M
    <3>1. SUFFICES ASSUME NEW k \in 0 .. sfifo_used' + WDone' - 1
                   PROVE  sfifo'.buffer[Cell(sfifo'.readpos, k)] = (heard' + k) % M
      OBVIOUS
    <3>2. k \in 0 .. a + n - 1
      <4>1. sfifo_used' \in Int /\ WDone' \in Int
        BY <1>1, <1>7
      <4> HIDE DEF a
      <4>2. ASSUME NEW x \in Int, NEW y \in Int, x + y = a + n, NEW j \in 0 .. x + y - 1
            PROVE  j \in 0 .. a + n - 1
        BY <1>1, <4>2
      <4> QED BY <2>1, <3>1, <4>1, <4>2
    <3>3. sfifo'.buffer[Cell(sfifo.readpos, k)] = (heard + k) % M
      BY <1>8, <3>2
    <3>4. sfifo'.readpos = sfifo.readpos /\ heard' = heard
      BY <1>4, <1>7
    <3> QED BY <3>3, <3>4
  <2>4. writer'.next = (heard' + sfifo_used' + WDone') % M
    <3>1. heard + (a + n) = heard' + sfifo_used' + WDone'
      BY <1>1, <1>7
    <3> QED BY <1>6, <3>1
  <2>5. Cell(sfifo'.readpos, 0) = Cell(sfifo.readpos, 0)
    BY <1>4
  <2> QED BY <1>4, <2>2, <2>3, <2>4 DEF Stream, Cell
<1>11. Typed' /\ Off'
  BY <1>4, <1>6, <1>7 DEF IInv, Typed, Off, Copying
<1>12. WFits'
  BY <1>6, <1>7 DEF IInv, WFits, Copying, Active
<1>13. RFits' /\ InSamples'
  BY <1>4, <1>7 DEF IInv, RFits, InSamples, Copying
<1> QED BY <1>10, <1>11, <1>12, <1>13 DEF IInv

LEMMA CopiesInKeep ==
  ASSUME IInv, CopyInFirst \/ CopyInRest
  PROVE  /\ IInv'
         /\ UNCHANGED <<sfifo_used, heard>>
<1> DEFINE f == FirstPiece(sfifo.writepos, writer.total)
           u == sfifo_used
           t == writer.total
<1>1. /\ u \in 0 .. SIZE - 1 /\ t \in 1 .. SIZE - 1 /\ u + t <= SIZE - 1
      /\ sfifo.writepos \in 0 .. SIZE /\ Copying(writer) /\ writer \in Thread
      /\ sfifo \in Fifo /\ sfifo.writepos \in Int
  <2>1. Copying(writer) /\ Typed /\ WFits
    BY DEF IInv, CopyInFirst, CopyInRest, Copying
  <2>2. sfifo.writepos \in Int
    BY <2>1, Constants DEF Typed, Fifo
  <2>3. u \in 0 .. SIZE - 1 /\ t \in 1 .. writer.left /\ u + t <= SIZE - 1
    BY <2>1, UsedFacts DEF WFits
  <2>4. /\ sfifo.writepos \in 0 .. SIZE /\ writer \in Thread /\ sfifo \in Fifo
        /\ writer.left \in Nat
    BY <2>1 DEF Typed, Fifo, Thread
  <2>5. t \in 1 .. SIZE - 1
    BY <2>3, <2>4, Constants
  <2> QED BY <2>1, <2>2, <2>3, <2>4, <2>5
<1>2. /\ f \in 0 .. t
      /\ \A k \in 0 .. f - 1 :
           Cell(sfifo.writepos, k) = sfifo.writepos + k /\ sfifo.writepos + k \in 0 .. SIZE - 1
      /\ \A k \in f .. t - 1 :
           Cell(sfifo.writepos, k) = k - f /\ k - f \in 0 .. SIZE - 1
  BY <1>1, Pieces
<1>3. \A k \in Nat : Cell(sfifo.writepos, k) = Cell(sfifo.readpos, u + k)
  BY UsedFacts DEF IInv
<1> HIDE DEF f
<1>4. CASE CopyInFirst
  <2>1. WDone = 0
    BY <1>4 DEF CopyInFirst, WDone
  <2>2. CopyIn(sfifo.writepos, f, IF f < t THEN "rest" ELSE "publish")
    BY <1>4 DEF CopyInFirst, f
  <2>3. sfifo'.writepos = sfifo.writepos /\ writer'.total = t
        /\ writer'.pc = IF f < t THEN "rest" ELSE "publish"
    BY <1>1, <2>2 DEF CopyIn, Thread, Fifo
  <2>4. WDone' = WDone + f
    BY <1>1, <1>2, <2>1, <2>3 DEF WDone, f
  <2>5. ASSUME NEW k \in 0 .. f - 1
        PROVE  /\ Cell(sfifo.readpos, u + WDone + k) = sfifo.writepos + k
               /\ sfifo.writepos + k \in 0 .. SIZE - 1
    <3>1. k \in Nat /\ u + WDone + k = u + k
      BY <1>1, <1>2, <2>1
    <3> QED BY <1>2, <1>3, <3>1
  <2>6. f \in Nat /\ u + WDone + f <= SIZE - 1 /\ WDone \in Nat
    BY <1>1, <1>2, <2>1, Constants
  <2>7. IInv'
    BY <1>1, <2>2, <2>4, <2>5, <2>6, CopyInKeeps
  <2> QED BY <2>2, <2>7, <2>3, <1>1 DEF CopyIn, sfifo_used, Fifo
<1>5. CASE CopyInRest
  <2>1. WDone = f
    BY <1>5 DEF CopyInRest, WDone, f
  <2>2. CopyIn(0, t - f, "publish")
    BY <1>5 DEF CopyInRest, f
  <2>3. sfifo'.writepos = sfifo.writepos /\ writer'.total = t /\ writer'.pc = "publish"
    BY <1>1, <2>2 DEF CopyIn, Thread, Fifo
  <2>4. WDone' = WDone + (t - f)
    BY <1>1, <1>2, <2>1, <2>3 DEF WDone
  <2>5. ASSUME NEW k \in 0 .. (t - f) - 1
        PROVE  Cell(sfifo.readpos, u + WDone + k) = 0 + k /\ 0 + k \in 0 .. SIZE - 1
    <3>1. f + k \in f .. t - 1 /\ f + k \in Nat /\ u + WDone + k = u + (f + k)
          /\ f + k - f = k /\ 0 + k = k
      BY <1>1, <1>2, <2>1
    <3>2. Cell(sfifo.writepos, f + k) = f + k - f /\ f + k - f \in 0 .. SIZE - 1
      BY <1>2, <3>1
    <3> QED BY <1>3, <3>1, <3>2
  <2>6. t - f \in Nat /\ u + WDone + (t - f) <= SIZE - 1 /\ WDone \in Nat
    BY <1>1, <1>2, <2>1, Constants
  <2>7. IInv'
    BY <1>1, <2>2, <2>4, <2>5, <2>6, CopyInKeeps
  <2> QED BY <2>2, <2>7, <2>3, <1>1 DEF CopyIn, sfifo_used, Fifo
<1> QED BY <1>4, <1>5

\* Publishing what has been copied lengthens the stream by it.
LEMMA WriteEndsKeeps ==
  ASSUME IInv, WriteEnds
  PROVE  /\ IInv'
         /\ \E n \in 1 .. (SIZE - 1 - sfifo_used) :
              sfifo_used' = sfifo_used + n /\ heard' = heard
<1> DEFINE u == sfifo_used
           t == writer.total
<1>1. /\ u \in 0 .. SIZE - 1 /\ t \in 1 .. writer.left /\ t \in 1 .. SIZE - 1
      /\ u + t <= SIZE - 1 /\ writer.left \in Nat
      /\ sfifo.writepos \in 0 .. SIZE /\ sfifo.readpos \in 0 .. SIZE
      /\ sfifo \in Fifo /\ writer \in Thread /\ writer.pc = "publish"
      /\ sound.enabled /\ sound \in [enabled : BOOLEAN, started : BOOLEAN]
  <2>1. writer.pc = "publish" /\ Copying(writer) /\ Typed /\ WFits /\ Off
    BY DEF IInv, WriteEnds, Copying
  <2>2. u \in 0 .. SIZE - 1 /\ t \in 1 .. writer.left /\ u + t <= SIZE - 1
    BY <2>1, UsedFacts DEF WFits
  <2>3. /\ sfifo.writepos \in 0 .. SIZE /\ sfifo.readpos \in 0 .. SIZE
        /\ writer \in Thread /\ sfifo \in Fifo /\ writer.left \in Nat
        /\ sound \in [enabled : BOOLEAN, started : BOOLEAN]
    BY <2>1 DEF Typed, Fifo, Thread
  <2>4. t \in 1 .. SIZE - 1
    BY <2>2, <2>3, Constants
  <2>5. sound.enabled
    BY <2>1 DEF Off
  <2> QED BY <2>1, <2>2, <2>3, <2>4, <2>5
<1>2. /\ sfifo' \in Fifo /\ sfifo'.buffer = sfifo.buffer
      /\ sfifo'.readpos = sfifo.readpos /\ sfifo'.writepos = Moved(sfifo.writepos, t)
  <2>1. Moved(sfifo.writepos, t) \in 0 .. SIZE
    <3>1. t \in 0 .. SIZE
      BY <1>1, Constants
    <3> QED BY <1>1, <3>1, MovedOn
  <2> QED BY <1>1, <2>1 DEF WriteEnds, Written, Fifo
<1>3. sfifo_used' = u + t
  <2>1. t \in 0 .. SIZE /\ u + t < SIZE
    BY <1>1, Constants
  <2> QED BY <1>1, <1>2, <2>1, UsedMoves DEF sfifo_used
<1>4. WDone = t /\ writer.next = (heard + u + t) % M
  BY <1>1 DEF IInv, Stream, WDone, Active
<1>5. UNCHANGED <<reader, heard>> /\ sent' = writer.next
  BY DEF WriteEnds
<1>6. \/ /\ writer' = Idle
         /\ sound' = [sound EXCEPT !.started = TRUE]
      \/ /\ writer.left - t > 0
         /\ writer' = [writer EXCEPT !.pc = "space", !.left = @ - t]
         /\ sound' = sound
  BY <1>1 DEF WriteEnds
<1>7. /\ writer' \in Thread
      /\ \/ writer'.pc = "idle"
         \/ writer'.pc = "space" /\ writer'.left > 0 /\ writer'.next = writer.next
      /\ sound' \in [enabled : BOOLEAN, started : BOOLEAN] /\ sound'.enabled
  <2>1. CASE writer' = Idle /\ sound' = [sound EXCEPT !.started = TRUE]
    BY <1>1, <2>1, Constants DEF Idle, Thread, Pcs
  <2>2. CASE /\ writer.left - t > 0
             /\ writer' = [writer EXCEPT !.pc = "space", !.left = @ - t]
             /\ sound' = sound
    <3>1. writer.left - t \in Nat
      BY <1>1, <2>2
    <3> QED BY <1>1, <2>2, <3>1 DEF Thread, Pcs
  <2> QED BY <1>6, <2>1, <2>2
<1>8. WDone' = 0
  BY <1>7 DEF WDone
<1>9. Stream'
  <2>1. sfifo_used' + WDone' = u + WDone
    BY <1>1, <1>3, <1>4, <1>8
  <2>2. heard + u + t = heard' + sfifo_used' /\ heard' + sfifo_used' = heard' + sfifo_used' + WDone'
    BY <1>1, <1>3, <1>5, <1>8, Constants DEF IInv, Typed
  <2>3. sent' = (heard' + sfifo_used') % M
    BY <1>4, <1>5, <2>2
  <2>4. writer'.pc \in Active => writer'.next = (heard' + sfifo_used' + WDone') % M
    BY <1>4, <1>7, <2>2 DEF Active
  <2>5. \A k \in 0 .. sfifo_used' + WDone' - 1 :
          sfifo'.buffer[Cell(sfifo'.readpos, k)] = (heard' + k) % M
    <3>1. \A k \in 0 .. u + WDone - 1 :
            sfifo.buffer[Cell(sfifo.readpos, k)] = (heard + k) % M
      BY DEF IInv, Stream
    <3>2. sfifo'.readpos = sfifo.readpos /\ heard' = heard /\ sfifo'.buffer = sfifo.buffer
      BY <1>2, <1>5
    <3>3. \A k \in 0 .. sfifo_used' + WDone' - 1 : k \in 0 .. u + WDone - 1
      BY <1>1, <1>3, <1>4, <1>8
    <3> QED BY <3>1, <3>2, <3>3
  <2> QED BY <2>3, <2>4, <2>5 DEF Stream, Cell
<1>10. WFits'
  BY <1>1, <1>7 DEF WFits, Copying, Active
<1>11. RFits'
  <2>1. reader.left \in Nat
    BY DEF IInv, Typed, Thread
  <2> QED BY <1>1, <1>2, <1>3, <1>5, <2>1 DEF IInv, RFits, Copying
<1>12. Typed' /\ Off'
  <2>1. sent' \in 0 .. M - 1
    BY <1>5, <1>1 DEF Thread
  <2> QED BY <1>2, <1>5, <1>7, <2>1 DEF IInv, Typed, Off
<1>13. InSamples'
  BY <1>5 DEF IInv, InSamples
<1>14. t \in 1 .. (SIZE - 1 - u)
  BY <1>1, Constants
<1> QED BY <1>3, <1>5, <1>9, <1>10, <1>11, <1>12, <1>13, <1>14 DEF IInv

-----------------------------------------------------------------------------
(* The steps of the callback.                                              *)

LEMMA AskKeeps ==
  ASSUME IInv, sdlwrite PROVE IInv'
<1>1. PICK len \in CallbackBytes :
        reader' = [Idle EXCEPT !.pc = "used", !.left = Whole(Lesser(len, sfifo_used))]
  BY DEF sdlwrite
<1>2. /\ sfifo_used \in Nat /\ len \in Nat /\ reader.pc = "idle" /\ sound.started
      /\ heard \in Int /\ heard % SAMPLE = 0
  BY UsedFacts, SoundAssumption DEF sdlwrite, IInv, InSamples, Typed
<1>3. PICK n \in Nat : n = Lesser(len, sfifo_used) /\ n <= sfifo_used
  BY <1>2 DEF Lesser
<1>4. PICK w \in 0 .. n : w = Whole(n) /\ w % SAMPLE = 0
  BY WholeTaken
<1>5. (heard + w) % SAMPLE = 0
  <2>1. \A y \in Int : ((heard % SAMPLE) + y) % SAMPLE = (heard + y) % SAMPLE
    BY <1>2, ModAdd, Constants
  <2>2. w \in Int /\ 0 + w = w
    BY <1>4
  <2>3. ((heard % SAMPLE) + w) % SAMPLE = (heard + w) % SAMPLE
    BY <2>1, <2>2
  <2> QED BY <1>2, <1>4, <2>2, <2>3
<1>6. /\ reader' \in Thread /\ reader'.pc = "used" /\ reader'.left = w
  <2>1. reader' = [pc |-> "used", left |-> w, total |-> 0, next |-> 0]
    BY <1>1, <1>3, <1>4 DEF Idle
  <2>2. w \in Nat
    BY <1>4
  <2> QED BY <2>1, <2>2, Constants DEF Thread, Pcs
<1>7. UNCHANGED <<sfifo, writer, sound, sent, heard>> /\ sfifo_used' = sfifo_used
  BY DEF sdlwrite, sfifo_used
<1>8. RFits'
  BY <1>2, <1>3, <1>4, <1>6, <1>7 DEF RFits, Copying
<1>9. InSamples'
  BY <1>5, <1>6, <1>7 DEF InSamples
<1>10. sound.enabled
  BY <1>2 DEF IInv, Off
<1> QED BY <1>6, <1>7, <1>8, <1>9, <1>10, ReaderKeeps

LEMMA ReadStartsKeeps ==
  ASSUME IInv, ReadStarts PROVE IInv'
<1>1. /\ sfifo_used \in Nat /\ reader \in Thread /\ reader.pc = "used" /\ reader.left \in Nat
      /\ reader.left <= sfifo_used /\ (heard + reader.left) % SAMPLE = 0 /\ heard \in Int
  BY UsedFacts DEF ReadStarts, IInv, RFits, InSamples, Typed, Thread
<1>2. PICK t \in Nat : t = Lesser(reader.left, sfifo_used) /\ t = reader.left
  BY <1>1 DEF Lesser
<1>3. reader' = IF t = 0 THEN Idle ELSE [reader EXCEPT !.pc = "copy", !.total = t]
  BY <1>2 DEF ReadStarts
<1>4. UNCHANGED <<sfifo, writer, sound, sent, heard>> /\ sfifo_used' = sfifo_used
      /\ sound.enabled
  BY <1>1 DEF ReadStarts, sfifo_used, IInv, Off
<1>5. CASE t = 0
  <2>1. reader' \in Thread /\ reader'.pc = "idle"
    BY <1>3, <1>5, Constants DEF Idle, Thread, Pcs
  <2>2. heard % SAMPLE = 0
    <3>1. heard + reader.left = heard
      BY <1>1, <1>2, <1>5
    <3> QED BY <1>1, <3>1
  <2>3. RFits' /\ InSamples'
    BY <1>4, <2>1, <2>2 DEF RFits, InSamples, Copying
  <2> QED BY <1>4, <2>1, <2>3, ReaderKeeps
<1>6. CASE t # 0
  <2>1. /\ reader' \in Thread /\ reader'.pc = "copy" /\ reader'.total = t
        /\ reader'.left = reader.left
    BY <1>1, <1>3, <1>6 DEF Thread, Pcs
  <2>2. RFits' /\ InSamples'
    BY <1>1, <1>2, <1>4, <1>6, <2>1 DEF RFits, InSamples, Copying
  <2> QED BY <1>4, <2>1, <2>2, ReaderKeeps
<1> QED BY <1>5, <1>6

\* The last byte copied tells the next one.
LEMMA CopyOutKeeps ==
  ASSUME IInv, Copying(reader), NEW last \in 0 .. SIZE - 1, NEW then \in {"rest", "publish"},
         CopyOut(last, then),
         then = "rest" => FirstPiece(sfifo.readpos, reader.total) < reader.total,
         then = "publish" => last = Cell(sfifo.readpos, reader.total - 1)
  PROVE  IInv'
<1>1. /\ reader \in Thread /\ sfifo \in Fifo /\ heard \in Int /\ reader.total \in Nat
      /\ reader.left \in Nat /\ reader.total \in 1 .. reader.left
      /\ sfifo_used \in Nat /\ WDone \in Nat
  <2>1. WDone \in Nat
    <3>1. FirstPiece(sfifo.writepos, writer.total) \in Int
          /\ (writer.pc = "rest" => FirstPiece(sfifo.writepos, writer.total) \in Nat)
      <4>1. sfifo.writepos \in 0 .. SIZE /\ writer.total \in Nat
        BY DEF IInv, Typed, Fifo, Thread
      <4> QED BY <4>1, Constants DEF FirstPiece
    <3> QED BY <3>1 DEF WDone, IInv, Typed, Thread
  <2> QED BY <2>1, UsedFacts DEF IInv, Typed, RFits, Thread
<1>2. sfifo.buffer[last] \in 0 .. M - 1
  BY <1>1 DEF Fifo
<1>3. PICK x \in 0 .. M - 1 : x = (sfifo.buffer[last] + 1) % M
  <2>1. sfifo.buffer[last] + 1 \in Int
    BY <1>2, Constants
  <2> QED BY <2>1, ModRange, Constants
<1>4. reader' = [reader EXCEPT !.next = x, !.pc = then]
  BY <1>3 DEF CopyOut
<1>5. /\ reader' \in Thread /\ reader'.pc = then /\ reader'.total = reader.total
      /\ reader'.left = reader.left /\ reader'.next = x
  BY <1>1, <1>3, <1>4 DEF Thread, Pcs
<1>6. UNCHANGED <<sfifo, writer, sound, sent, heard>> /\ sfifo_used' = sfifo_used
  BY DEF CopyOut, sfifo_used
<1>7. RFits'
  BY <1>1, <1>5, <1>6 DEF IInv, RFits, Copying
<1>8. ASSUME then = "publish"
      PROVE  x = (heard + reader.total) % M
  <2> DEFINE k == reader.total - 1
  <2>1. k \in 0 .. sfifo_used + WDone - 1 /\ k \in Int
    <3>1. reader.left <= sfifo_used
      BY DEF IInv, RFits, Copying
    <3> QED BY <1>1, <3>1
  <2> HIDE DEF k
  <2>2. sfifo.buffer[last] = (heard + k) % M
    <3>1. \A j \in 0 .. sfifo_used + WDone - 1 :
            sfifo.buffer[Cell(sfifo.readpos, j)] = (heard + j) % M
      BY DEF IInv, Stream
    <3>2. last = Cell(sfifo.readpos, k)
      BY <1>8 DEF k
    <3> QED BY <2>1, <3>1, <3>2
  <2>3. heard + k \in Int /\ heard + k + 1 = heard + reader.total
    BY <1>1, <2>1 DEF k
  <2>4. \A y \in Int : (((heard + k) % M) + y) % M = (heard + k + y) % M
    BY <2>3, ModAdd, Constants
  <2> QED BY <1>3, <2>2, <2>3, <2>4
<1>9. InSamples'
  <2>1. reader.pc # "idle"
    BY DEF Copying
  <2> QED BY <1>5, <1>6, <1>8, <2>1 DEF IInv, InSamples
<1>10. sound.enabled
  BY DEF IInv, Off, Copying
<1> QED BY <1>5, <1>6, <1>7, <1>9, <1>10, ReaderKeeps

LEMMA CopiesOutKeep ==
  ASSUME IInv, CopyOutFirst \/ CopyOutRest PROVE IInv'
<1> DEFINE f == FirstPiece(sfifo.readpos, reader.total)
           t == reader.total
<1>1. /\ Copying(reader) /\ t \in 1 .. SIZE - 1 /\ sfifo.readpos \in 0 .. SIZE
      /\ sfifo.readpos \in Int
  <2>1. Copying(reader) /\ Typed /\ RFits
    BY DEF IInv, CopyOutFirst, CopyOutRest, Copying
  <2>2. /\ sfifo_used \in 0 .. SIZE - 1 /\ reader.left <= sfifo_used
        /\ t \in 1 .. reader.left /\ reader.left \in Nat
    BY <2>1, UsedFacts DEF RFits, Copying, Typed, Thread
  <2>3. sfifo.readpos \in 0 .. SIZE
    BY <2>1 DEF Typed, Fifo
  <2> QED BY <2>1, <2>2, <2>3, Constants
<1>2. /\ f \in 0 .. t
      /\ \A k \in f .. t - 1 :
           Cell(sfifo.readpos, k) = k - f /\ k - f \in 0 .. SIZE - 1
  BY <1>1, Pieces
<1> HIDE DEF f
<1>3. CASE CopyOutFirst
  <2> DEFINE last == (sfifo.readpos + f - 1) % SIZE
  <2>1. CopyOut(last, IF f < t THEN "rest" ELSE "publish")
    BY <1>3 DEF CopyOutFirst, f
  <2>2. last \in 0 .. SIZE - 1
    <3>1. sfifo.readpos + f - 1 \in Int
      BY <1>1, <1>2
    <3> QED BY <3>1, ModRange, Constants
  <2>3. f = t => last = Cell(sfifo.readpos, t - 1)
    <3>1. f = t => sfifo.readpos + f - 1 = sfifo.readpos + (t - 1)
      BY <1>1, <1>2
    <3> QED BY <3>1 DEF Cell
  <2>4. ~(f < t) => f = t
    BY <1>1, <1>2
  <2> HIDE DEF last
  <2> QED BY <1>1, <2>1, <2>2, <2>3, <2>4, CopyOutKeeps DEF f
<1>4. CASE CopyOutRest
  <2>1. f < t
    BY <1>4 DEF CopyOutRest, IInv, RFits, f
  <2>2. t - f - 1 = t - 1 - f /\ t - 1 \in f .. t - 1
    BY <1>1, <1>2, <2>1
  <2>3. Cell(sfifo.readpos, t - 1) = t - 1 - f /\ t - 1 - f \in 0 .. SIZE - 1
    BY <1>2, <2>2
  <2>4. CopyOut(t - f - 1, "publish")
    BY <1>4 DEF CopyOutRest, f
  <2> QED BY <1>1, <2>2, <2>3, <2>4, CopyOutKeeps
<1> QED BY <1>3, <1>4

\* Publishing what has been copied shortens the stream by it.
LEMMA ReadEndsKeeps ==
  ASSUME IInv, ReadEnds
  PROVE  /\ IInv'
         /\ \E n \in 1 .. sfifo_used :
              sfifo_used' = sfifo_used - n /\ heard' = (heard + n) % M
<1> DEFINE u == sfifo_used
           t == reader.total
<1>1. /\ u \in 0 .. SIZE - 1 /\ t \in 1 .. reader.left /\ t \in 1 .. u
      /\ reader.left <= u /\ reader.left \in Nat /\ heard \in Int
      /\ sfifo.writepos \in 0 .. SIZE /\ sfifo.readpos \in 0 .. SIZE
      /\ sfifo \in Fifo /\ reader \in Thread /\ reader.pc = "publish"
      /\ reader.next = (heard + t) % M /\ (heard + reader.left) % SAMPLE = 0
  <2>1. reader.pc = "publish" /\ Copying(reader) /\ Typed /\ RFits /\ InSamples
    BY DEF IInv, ReadEnds, Copying
  <2>2. u \in 0 .. SIZE - 1 /\ t \in 1 .. reader.left /\ reader.left <= u
    BY <2>1, UsedFacts DEF RFits
  <2>3. /\ sfifo.writepos \in 0 .. SIZE /\ sfifo.readpos \in 0 .. SIZE
        /\ reader \in Thread /\ sfifo \in Fifo /\ reader.left \in Nat /\ heard \in Int
    BY <2>1 DEF Typed, Fifo, Thread
  <2>4. t \in 1 .. u
    BY <2>2, <2>3, Constants
  <2>5. reader.next = (heard + t) % M /\ (heard + reader.left) % SAMPLE = 0
    BY <2>1 DEF InSamples
  <2> QED BY <2>1, <2>2, <2>3, <2>4, <2>5
<1>2. /\ t \in 0 .. SIZE /\ t \in Nat /\ u \in Nat /\ u - t \in Nat
      /\ reader.left - t \in Nat
  BY <1>1, Constants
<1>3. /\ sfifo' \in Fifo /\ sfifo'.buffer = sfifo.buffer
      /\ sfifo'.writepos = sfifo.writepos /\ sfifo'.readpos = Moved(sfifo.readpos, t)
  <2>1. Moved(sfifo.readpos, t) \in 0 .. SIZE
    BY <1>1, <1>2, MovedOn
  <2> QED BY <1>1, <2>1 DEF ReadEnds, Fifo
<1>4. sfifo_used' = u - t
  <2>1. t <= u
    BY <1>1
  <2> QED BY <1>1, <1>2, <1>3, <2>1, UsedMoves DEF sfifo_used
<1>5. UNCHANGED <<writer, sound, sent>> /\ heard' = (heard + t) % M
  BY <1>1 DEF ReadEnds
<1>6. heard' \in 0 .. M - 1 /\ heard' \in Int
  <2>1. heard + t \in Int
    BY <1>1, <1>2
  <2> QED BY <1>5, <2>1, ModRange, Constants
<1>7. reader' = [reader EXCEPT !.pc = "used", !.left = reader.left - t]
  BY DEF ReadEnds
<1>8. reader' \in Thread /\ reader'.pc = "used" /\ reader'.left = reader.left - t
  BY <1>1, <1>2, <1>7 DEF Thread, Pcs
<1>9. \A y \in Int : (heard' + y) % M = (heard + t + y) % M
  <2>1. heard + t \in Int
    BY <1>1, <1>2
  <2> QED BY <1>5, <2>1, ModAdd, Constants
<1>10. WDone' = WDone /\ WDone \in Nat
  <2>1. sfifo.writepos \in 0 .. SIZE /\ writer.total \in Nat
    BY DEF IInv, Typed, Fifo, Thread
  <2>2. FirstPiece(sfifo.writepos, writer.total) \in Nat
    BY <2>1, Constants DEF FirstPiece
  <2> QED BY <1>3, <1>5, <2>1, <2>2 DEF WDone
<1>11. Stream'
  <2>1. sent' = (heard' + sfifo_used') % M
    <3>1. u - t \in Int /\ heard + t + (u - t) = heard + u
      BY <1>1, <1>2
    <3>2. (heard' + (u - t)) % M = (heard + t + (u - t)) % M
      BY <1>9, <3>1
    <3>3. sent' = (heard + u) % M
      BY <1>5 DEF IInv, Stream
    <3> QED BY <1>4, <3>1, <3>2, <3>3
  <2>2. ASSUME NEW k \in 0 .. sfifo_used' + WDone' - 1
        PROVE  sfifo'.buffer[Cell(sfifo'.readpos, k)] = (heard' + k) % M
    <3>1. k \in 0 .. u - t + WDone - 1
      BY <1>4, <1>10, <2>2
    <3>2. k \in Nat /\ t + k \in 0 .. u + WDone - 1 /\ k \in Int
          /\ heard + t + k = heard + (t + k)
      BY <1>1, <1>2, <1>10, <3>1
    <3>3. Cell(sfifo'.readpos, k) = Cell(sfifo.readpos, t + k)
      <4>1. \A j \in Nat : Cell(Moved(sfifo.readpos, t), j) = Cell(sfifo.readpos, t + j)
        BY <1>1, <1>2, MovedOn
      <4> QED BY <1>3, <3>2, <4>1
    <3>4. sfifo.buffer[Cell(sfifo.readpos, t + k)] = (heard + (t + k)) % M
      BY <3>2 DEF IInv, Stream
    <3>5. (heard' + k) % M = (heard + t + k) % M
      BY <1>9, <3>2
    <3> QED BY <1>3, <3>2, <3>3, <3>4, <3>5
  <2>3. writer'.pc \in Active => writer'.next = (heard' + sfifo_used' + WDone') % M
    <3> DEFINE y == u - t + WDone
    <3>1. /\ y \in Int /\ heard + t + y = heard + u + WDone
          /\ heard' + (u - t) + WDone = heard' + y
      BY <1>1, <1>2, <1>6, <1>10
    <3> HIDE DEF y
    <3>2. (heard' + y) % M = (heard + t + y) % M
      BY <1>9, <3>1
    <3>3. writer.pc \in Active => writer.next = (heard + u + WDone) % M
      BY DEF IInv, Stream
    <3> QED BY <1>4, <1>5, <1>10, <3>1, <3>2, <3>3
  <2> QED BY <2>1, <2>2, <2>3 DEF Stream, Cell
<1>12. Typed' /\ Off'
  BY <1>3, <1>5, <1>6, <1>8, <1>1 DEF IInv, Typed, Off
<1>13. WFits'
  <2>1. Copying(writer) => writer.total \in Nat
    BY DEF IInv, Typed, Thread
  <2>2. ASSUME Copying(writer)
        PROVE  sfifo_used' + writer.total <= SIZE - 1
    <3>1. u + writer.total <= SIZE - 1
      BY <2>2 DEF IInv, WFits
    <3> QED BY <1>1, <1>2, <1>4, <2>1, <2>2, <3>1, Constants
  <2> QED BY <1>5, <2>2 DEF IInv, WFits, Copying
<1>14. RFits'
  <2>1. reader.left - t <= u - t
    BY <1>1, <1>2
  <2> QED BY <1>4, <1>8, <2>1 DEF RFits, Copying
<1>15. InSamples'
  <2> DEFINE x == heard + t
             y == reader.left - t
  <2>1. x \in Int /\ y \in Int /\ x + y = heard + reader.left
    BY <1>1, <1>2
  <2> HIDE DEF x, y
  <2>2. ((x % M) + y) % SAMPLE = (x + y) % SAMPLE
    BY <2>1, ModMultiple, Constants
  <2>3. (heard' + reader'.left) % SAMPLE = 0
    BY <1>1, <1>5, <1>8, <2>1, <2>2 DEF x, y
  <2> QED BY <1>8, <2>3 DEF InSamples
<1> QED BY <1>1, <1>4, <1>5, <1>11, <1>12, <1>13, <1>14, <1>15 DEF IInv

-----------------------------------------------------------------------------
(* Starting and ending.                                                    *)

LEMMA RestartKeeps ==
  ASSUME IInv, sound_init \/ sound_end
  PROVE  IInv' /\ sfifo_used' = 0 /\ heard' = 0
<1>1. writer.pc = "idle" /\ reader.pc = "idle" /\ writer \in Thread /\ reader \in Thread
      /\ sfifo \in Fifo
  BY DEF sound_init, sound_end, IInv, Off, Typed
<1>2. /\ sfifo' \in Fifo /\ sfifo'.readpos = 0 /\ sfifo'.writepos = 0
  <2>1. 0 \in 0 .. M - 1 /\ 0 \in 0 .. SIZE
    BY Constants
  <2>2. CASE sound_init
    <3>1. Empty \in Fifo /\ Empty.readpos = 0 /\ Empty.writepos = 0
      BY <2>1 DEF Empty, Fifo
    <3> QED BY <2>2, <3>1 DEF sound_init
  <2>3. CASE sound_end
    BY <1>1, <2>1, <2>3 DEF sound_end, Fifo
  <2> QED BY <2>2, <2>3
<1>3. /\ sent' = 0 /\ heard' = 0 /\ UNCHANGED <<writer, reader>>
      /\ sound' \in [enabled : BOOLEAN, started : BOOLEAN] /\ ~sound'.started
  <2>1. CASE sound_init
    BY <2>1 DEF sound_init
  <2>2. CASE sound_end
    BY <2>2 DEF sound_end
  <2> QED BY <2>1, <2>2
<1>4. sfifo_used' = 0
  BY <1>2, Constants, ModWrap DEF sfifo_used
<1>5. 0 % SAMPLE = 0 /\ 0 % M = 0
  BY Constants, ModWrap
<1>6. WDone' = 0
  BY <1>1, <1>3 DEF WDone
<1>7. Typed' /\ Off' /\ WFits' /\ RFits'
  BY <1>1, <1>2, <1>3, Constants DEF Typed, Off, WFits, RFits, Active, Copying
<1>8. Stream' /\ InSamples'
  BY <1>1, <1>3, <1>4, <1>5, <1>6 DEF Stream, InSamples, Active
<1> QED BY <1>3, <1>4, <1>7, <1>8 DEF IInv

LEMMA InvNext == IInv /\ [Next]_vars => IInv'
<1> SUFFICES ASSUME IInv, [Next]_vars PROVE IInv'
  OBVIOUS
<1>1. CASE sound_init \/ sound_end
  BY <1>1, RestartKeeps
<1>2. CASE TimerStarts \/ TimerEnds
  BY <1>2, TimerKeeps
<1>3. CASE FrameStarts
  BY <1>3, FrameKeeps
<1>4. CASE WriteStarts
  BY <1>4, WriteStartsKeeps
<1>5. CASE CopyInFirst \/ CopyInRest
  BY <1>5, CopiesInKeep
<1>6. CASE WriteEnds
  BY <1>6, WriteEndsKeeps
<1>7. CASE sdlwrite
  BY <1>7, AskKeeps
<1>8. CASE ReadStarts
  BY <1>8, ReadStartsKeeps
<1>9. CASE CopyOutFirst \/ CopyOutRest
  BY <1>9, CopiesOutKeep
<1>10. CASE ReadEnds
  BY <1>10, ReadEndsKeeps
<1>11. CASE UNCHANGED vars
  BY <1>11 DEF vars, IInv, Typed, Off, WFits, RFits, Stream, InSamples, Copying, WDone,
               sfifo_used
<1> QED BY <1>1, <1>2, <1>3, <1>4, <1>5, <1>6, <1>7, <1>8, <1>9, <1>10, <1>11 DEF Next

LEMMA InvAlways == Spec => []IInv
<1>1. Init => IInv
  BY InvInit
<1>2. IInv /\ [Next]_vars => IInv'
  BY InvNext
<1> QED BY <1>1, <1>2, PTL DEF Spec

(***************************************************************************)
(* Positions and lengths stay within the ring (sfifo.c).                   *)
(***************************************************************************)
THEOREM TypeCorrect == Spec => []TypeOK
<1>1. IInv => TypeOK
  BY DEF IInv, Typed, TypeOK, Fifo, Thread
<1> QED BY <1>1, InvAlways, PTL

(***************************************************************************)
(* sfifo_write and sfifo_read never touch the same cell at one time.       *)
(***************************************************************************)
THEOREM KeepApart == Spec => []NoRace
<1>1. ASSUME IInv PROVE NoRace
  <2>1. SUFFICES ASSUME Copying(writer), Copying(reader),
                        NEW j \in 0 .. writer.total - 1, NEW k \in 0 .. reader.total - 1,
                        (sfifo.writepos + j) % SIZE = (sfifo.readpos + k) % SIZE
                 PROVE  FALSE
    BY DEF NoRace, Cells
  <2>2. /\ sfifo_used \in 0 .. SIZE - 1 /\ sfifo.readpos \in 0 .. SIZE
        /\ writer.total \in Nat /\ reader.total \in Nat /\ reader.left \in Nat
        /\ \A i \in Nat : Cell(sfifo.writepos, i) = Cell(sfifo.readpos, sfifo_used + i)
    BY <1>1, UsedFacts DEF IInv, Typed, Fifo, Thread
  <2>3. /\ sfifo_used + writer.total <= SIZE - 1
        /\ reader.left <= sfifo_used /\ reader.total <= reader.left
    <3>1. reader.pc # "idle" /\ reader.total \in 1 .. reader.left
      BY <1>1, <2>1 DEF IInv, RFits, Copying
    <3> QED BY <1>1, <2>1, <2>2, <3>1 DEF IInv, RFits, WFits
  <2>4. /\ j \in Nat /\ sfifo_used + j \in 0 .. SIZE - 1 /\ k \in 0 .. SIZE - 1
        /\ k < sfifo_used + j
    BY <2>1, <2>2, <2>3, Constants
  <2>5. Cell(sfifo.readpos, sfifo_used + j) = Cell(sfifo.readpos, k)
    BY <2>1, <2>2, <2>4 DEF Cell
  <2>6. sfifo_used + j = k
    BY <2>2, <2>4, <2>5, CellApart
  <2> QED BY <2>2, <2>4, <2>6
<1> QED BY <1>1, InvAlways, PTL

(***************************************************************************)
(* The sound card is given whole samples (sdlwrite), wherever writes end.  *)
(***************************************************************************)
THEOREM SamplesWhole == Spec => []WholeSamples
<1>1. IInv => WholeSamples
  BY DEF IInv, InSamples, WholeSamples
<1> QED BY <1>1, InvAlways, PTL

-----------------------------------------------------------------------------
(* Waiting for room.                                                       *)

\* The emulator is in the sound timer, or in the middle of a frame of sound, and
\* goes on only when the ring has more room.
WaitsForRoom ==
  \/ writer.pc = "timer" /\ sfifo_space < sound_framesiz
  \/ writer.pc = "space" /\ sfifo_space = 0

\* The sound card is at work, or will take something when it asks next: for a
\* sample or more, and less than the length is cut to.
CardTakes ==
  \/ reader.pc # "idle"
  \/ /\ sound.started
     /\ \A len \in CallbackBytes :
          SAMPLE <= len /\ len < WORD => Whole(Lesser(len, sfifo_used)) > 0

RoomComes == WaitsForRoom => CardTakes

\* Until the sound card has been started the ring is empty, and the frame of sound
\* that is being written fits into it.
First ==
  sound.enabled /\ ~sound.started =>
    /\ reader.pc = "idle" /\ sfifo_used = 0
    /\ writer.pc \in Active => writer.left <= SIZE - 1
    /\ Copying(writer) => writer.total = writer.left

\* The ring is longer than a frame of the sound timer and a sample, and than any
\* frame of sound.
LEMMA RingIsLong ==
  /\ SIZE - 1 >= sound_framesiz + SAMPLE
  /\ \A n \in FrameSamples : n * SAMPLE <= SIZE - 1
<1>1. /\ SAMPLE \in Nat \ {0} /\ sound_framesiz \in Nat /\ sound_framesiz >= 2
      /\ NUM_FRAMES \in Nat /\ NUM_FRAMES >= 2 /\ SIZE \in Nat
  BY SoundAssumption, SizeAssumption
<1> DEFINE p == SAMPLE * (sound_framesiz - 1)
<1>2. p \in Nat /\ p >= sound_framesiz - 1 /\ p >= SAMPLE
  BY <1>1
<1>3. NUM_FRAMES * SAMPLE * (sound_framesiz - 1) = NUM_FRAMES * p
  BY <1>1
<1>4. ASSUME NEW n \in FrameSamples  PROVE n * SAMPLE <= p + SAMPLE /\ n * SAMPLE \in Nat
  <2>1. n \in Nat /\ n <= sound_framesiz
    BY <1>1, SoundAssumption
  <2>2. n * SAMPLE <= sound_framesiz * SAMPLE /\ n * SAMPLE \in Nat
    BY <1>1, <2>1
  <2>3. sound_framesiz * SAMPLE = p + SAMPLE
    BY <1>1
  <2> QED BY <2>2, <2>3
<1> HIDE DEF p
<1>5. NUM_FRAMES * p >= 2 * p /\ NUM_FRAMES * p \in Nat
  BY <1>1, <1>2
<1>6. SIZE > NUM_FRAMES * p + 1
  BY <1>3, RoomAssumption
<1>7. SIZE - 1 >= 2 * p + 1
  BY <1>1, <1>2, <1>5, <1>6
<1>8. SIZE - 1 >= sound_framesiz + SAMPLE
  BY <1>1, <1>2, <1>7
<1>9. \A n \in FrameSamples : n * SAMPLE <= SIZE - 1
  BY <1>1, <1>2, <1>4, <1>7
<1> QED BY <1>8, <1>9

LEMMA FirstNext == IInv /\ IInv' /\ First /\ [Next]_vars => First'
<1> SUFFICES ASSUME IInv, IInv', First, [Next]_vars,
                    sound'.enabled, ~sound'.started
             PROVE  /\ reader'.pc = "idle" /\ sfifo_used' = 0
                    /\ writer'.pc \in Active => writer'.left <= SIZE - 1
                    /\ Copying(writer)' => writer'.total = writer'.left
  BY DEF First
<1>1. /\ sfifo_used \in 0 .. SIZE - 1 /\ writer \in Thread /\ SIZE - 1 \in Nat
  BY UsedFacts, Constants DEF IInv, Typed
<1>2. CASE sound_init \/ sound_end
  <2>1. sfifo_used' = 0 /\ sound_init
    BY <1>2, RestartKeeps DEF sound_end
  <2>2. writer'.pc = "idle" /\ reader'.pc = "idle"
    BY <2>1 DEF sound_init, IInv, Off
  <2> QED BY <2>1, <2>2 DEF Active, Copying
<1> SUFFICES ASSUME ~(sound_init \/ sound_end)
             PROVE  /\ reader'.pc = "idle" /\ sfifo_used' = 0
                    /\ writer'.pc \in Active => writer'.left <= SIZE - 1
                    /\ Copying(writer)' => writer'.total = writer'.left
  BY <1>2
<1>3. sound' = sound
  <2>1. CASE WriteEnds
    <3>1. sound' = [sound EXCEPT !.started = TRUE] => sound'.started
      BY DEF IInv, Typed
    <3> QED BY <2>1, <3>1 DEF WriteEnds
  <2>2. CASE ~WriteEnds
    BY <2>2 DEF Next, vars, TimerStarts, TimerEnds, FrameStarts, WriteStarts, CopyInFirst,
       CopyInRest, CopyIn, sdlwrite, ReadStarts, CopyOutFirst, CopyOutRest, CopyOut, ReadEnds
  <2> QED BY <2>1, <2>2
<1>4. /\ sound.enabled /\ ~sound.started /\ reader.pc = "idle" /\ sfifo_used = 0
      /\ writer.pc \in Active => writer.left <= SIZE - 1
      /\ Copying(writer) => writer.total = writer.left
  BY <1>3 DEF First
<1>5. ~WriteEnds
  <2> SUFFICES ASSUME WriteEnds  PROVE FALSE
    OBVIOUS
  <2>1. writer.total = writer.left
    BY <1>4 DEF WriteEnds, Copying
  <2>2. sound'.started
    BY <2>1 DEF WriteEnds, IInv, Typed
  <2> QED BY <2>2
<1>6. ~sdlwrite /\ ~ReadStarts /\ ~CopyOutFirst /\ ~CopyOutRest /\ ~ReadEnds
  BY <1>4 DEF sdlwrite, ReadStarts, CopyOutFirst, CopyOutRest, ReadEnds
<1>7. CASE TimerStarts \/ TimerEnds
  BY <1>1, <1>4, <1>7 DEF TimerStarts, TimerEnds, Idle, Active, Copying, sfifo_used, Thread
<1>8. CASE FrameStarts
  <2>1. PICK n \in FrameSamples :
          writer' = [pc |-> "space", left |-> n * SAMPLE, total |-> 0, next |-> sent]
    BY <1>8 DEF FrameStarts
  <2>2. UNCHANGED <<sfifo, reader>>
    BY <1>8 DEF FrameStarts
  <2> QED BY <1>4, <2>1, <2>2, RingIsLong DEF Copying, sfifo_used
<1>9. CASE WriteStarts
  <2>1. /\ writer.pc = "space" /\ UNCHANGED <<sfifo, reader>>
        /\ writer' = [writer EXCEPT !.pc = "copy", !.total = Lesser(writer.left, sfifo_space)]
    BY <1>9 DEF WriteStarts
  <2>2. writer.left <= SIZE - 1 /\ writer.left \in Nat
    BY <1>1, <1>4, <2>1 DEF Active, Thread
  <2>3. Lesser(writer.left, sfifo_space) = writer.left
    BY <1>1, <1>4, <2>2 DEF Lesser, sfifo_space
  <2>4. writer'.total = writer.left /\ writer'.left = writer.left
    BY <1>1, <2>1, <2>3 DEF Thread
  <2> QED BY <1>4, <2>1, <2>2, <2>4 DEF sfifo_used
<1>10. CASE CopyInFirst \/ CopyInRest
  <2>1. /\ writer.pc \in {"copy", "rest"} /\ UNCHANGED reader
        /\ sfifo'.readpos = sfifo.readpos /\ sfifo'.writepos = sfifo.writepos
        /\ writer'.left = writer.left /\ writer'.total = writer.total
    BY <1>1, <1>10 DEF CopyInFirst, CopyInRest, CopyIn, Thread, IInv, Typed, Fifo
  <2> QED BY <1>4, <2>1 DEF sfifo_used, Active, Copying
<1>11. CASE UNCHANGED vars
  BY <1>4, <1>11 DEF vars, sfifo_used, Copying
<1> QED BY <1>5, <1>6, <1>7, <1>8, <1>9, <1>10, <1>11 DEF Next

LEMMA FirstAlways == Spec => [](IInv /\ First)
<1>1. Init => IInv /\ First
  BY InvInit DEF Init, First
<1>2. IInv /\ First /\ [Next]_vars => (IInv /\ First)'
  BY InvNext, FirstNext
<1> QED BY <1>1, <1>2, PTL DEF Spec

\* The callback takes something of a sample or more.
LEMMA SampleTaken ==
  ASSUME NEW n \in Nat, SAMPLE <= n, n < WORD  PROVE Whole(n) > 0
<1>1. SAMPLE \in Nat \ {0} /\ WORD \in Nat \ {0}
  BY SoundAssumption
<1>2. PICK r \in 0 .. SAMPLE - 1 : r = n % SAMPLE
  BY <1>1, ModRange
<1>3. n - r \in 1 .. WORD - 1
  BY <1>1, <1>2
<1>4. (n - r) % WORD = n - r
  BY <1>1, <1>3, ModWrap
<1> QED BY <1>2, <1>3, <1>4 DEF Whole

(***************************************************************************)
(* The emulator never waits for room that will not come: the sound card    *)
(* has been started, and what it leaves, less than a sample, leaves room   *)
(* for what the sound timer asks.  A frame of sound is written without     *)
(* waiting until the card has been started, by the end of the first.       *)
(***************************************************************************)
THEOREM RoomAlwaysComes == Spec => []RoomComes
<1>1. ASSUME IInv, First  PROVE RoomComes
  <2> SUFFICES ASSUME WaitsForRoom, reader.pc = "idle"
               PROVE  /\ sound.started
                      /\ \A len \in CallbackBytes :
                           SAMPLE <= len /\ len < WORD => Whole(Lesser(len, sfifo_used)) > 0
    BY DEF RoomComes, CardTakes
  <2>1. /\ sfifo_used \in 0 .. SIZE - 1 /\ SAMPLE \in Nat \ {0} /\ SIZE \in Nat
        /\ sound_framesiz \in Nat /\ CallbackBytes \subseteq Nat
        /\ SIZE - 1 >= sound_framesiz + SAMPLE
    BY <1>1, UsedFacts, Constants, RingIsLong, SoundAssumption DEF IInv
  <2>2. sfifo_used >= SAMPLE
    BY <2>1 DEF WaitsForRoom, sfifo_space
  <2>3. sound.started
    <3>1. sound.enabled
      BY <1>1 DEF WaitsForRoom, IInv, Off
    <3> QED BY <1>1, <2>1, <2>2, <3>1 DEF First
  <2>4. ASSUME NEW len \in CallbackBytes, SAMPLE <= len, len < WORD
        PROVE  Whole(Lesser(len, sfifo_used)) > 0
    <3>1. PICK n \in Nat : n = Lesser(len, sfifo_used) /\ SAMPLE <= n /\ n <= len
      BY <2>1, <2>2, <2>4 DEF Lesser
    <3>2. WORD \in Nat /\ len \in Nat
      BY <2>1, SoundAssumption
    <3>3. n < WORD
      BY <2>4, <3>1, <3>2
    <3> QED BY <3>1, <3>3, SampleTaken
  <2> QED BY <2>3, <2>4
<1> QED BY <1>1, FirstAlways, PTL

-----------------------------------------------------------------------------
(* The ring buffer implements SoundQueue: the bytes between its positions  *)
(* are those sent and not heard, each heard once and in order.             *)

LEMMA SeqOf ==
  ASSUME NEW S, NEW n \in Nat, NEW f \in [1 .. n -> S]
  PROVE  f \in Seq(S) /\ Len(f) = n
<1>1. f \in Seq(S)
  BY SeqDef
<1>2. Len(f) \in Nat /\ DOMAIN f = 1 .. Len(f)
  BY <1>1, LenProperties
<1>3. 1 .. Len(f) = 1 .. n
  BY <1>2
<1>4. Len(f) = n
  <2>1. n \in 1 .. n <=> n \in 1 .. Len(f)
    BY <1>3
  <2>2. Len(f) \in 1 .. n <=> Len(f) \in 1 .. Len(f)
    BY <1>3
  <2> QED BY <1>2, <2>1, <2>2
<1> QED BY <1>1, <1>4

\* u bytes of the stream from h on are a sequence of that length.
Bytes(h, u) == [k \in 1 .. u |-> (h + k - 1) % M]

LEMMA BytesAre ==
  ASSUME NEW h \in Int, NEW u \in Nat
  PROVE  /\ Bytes(h, u) \in Seq(0 .. M - 1) /\ Len(Bytes(h, u)) = u
         /\ \A k \in 1 .. u : Bytes(h, u)[k] = (h + k - 1) % M
                             /\ Bytes(h, u)[k] \in 0 .. M - 1
<1>1. ASSUME NEW k \in 1 .. u PROVE (h + k - 1) % M \in 0 .. M - 1
  <2>1. h + k - 1 \in Int
    OBVIOUS
  <2> QED BY <2>1, ModRange, Constants
<1>2. Bytes(h, u) \in [1 .. u -> 0 .. M - 1]
  BY <1>1 DEF Bytes
<1>3. \A k \in 1 .. u : Bytes(h, u)[k] = (h + k - 1) % M
  BY DEF Bytes
<1> QED BY <1>1, <1>2, <1>3, SeqOf

\* What is between the positions, and what the stream has there.
InRing == [k \in 1 .. sfifo_used |-> sfifo.buffer[(sfifo.readpos + k - 1) % SIZE]]
HoldsStream == InRing = Bytes(heard, sfifo_used)

LEMMA RingHoldsStream ==
  IInv => HoldsStream
<1> SUFFICES ASSUME IInv PROVE HoldsStream
  OBVIOUS
<1>1. sfifo_used \in Nat /\ WDone \in Nat /\ sfifo.readpos \in Int /\ heard \in Int
  <2>1. /\ sfifo.writepos \in 0 .. SIZE /\ sfifo.readpos \in 0 .. SIZE
        /\ writer.total \in Nat /\ heard \in 0 .. M - 1
    BY DEF IInv, Typed, Fifo, Thread
  <2>2. FirstPiece(sfifo.writepos, writer.total) \in Nat
    BY <2>1, Constants DEF FirstPiece
  <2>3. sfifo_used \in Nat
    BY UsedFacts DEF IInv
  <2> QED BY <2>1, <2>2, <2>3, Constants DEF WDone
<1>2. ASSUME NEW k \in 1 .. sfifo_used
      PROVE  sfifo.buffer[(sfifo.readpos + k - 1) % SIZE] = (heard + k - 1) % M
  <2>1. /\ k - 1 \in 0 .. sfifo_used + WDone - 1
        /\ sfifo.readpos + (k - 1) = sfifo.readpos + k - 1
        /\ heard + (k - 1) = heard + k - 1
    BY <1>1, <1>2
  <2>2. sfifo.buffer[Cell(sfifo.readpos, k - 1)] = (heard + (k - 1)) % M
    BY <2>1 DEF IInv, Stream
  <2> QED BY <2>1, <2>2 DEF Cell
<1> QED BY <1>2 DEF InRing, Bytes, HoldsStream

\* The bytes that follow are appended ...
LEMMA Appended ==
  ASSUME NEW h \in Int, NEW u \in Nat, NEW n \in Nat
  PROVE  Bytes(h, u + n) = Bytes(h, u) \o Bytes(h + u, n)
<1> DEFINE old == Bytes(h, u)
           new == Bytes(h + u, n)
           all == Bytes(h, u + n)
<1>1. u + n \in Nat /\ h + u \in Int
  OBVIOUS
<1>2. /\ old \in Seq(0 .. M - 1) /\ Len(old) = u
      /\ \A k \in 1 .. u : old[k] = (h + k - 1) % M
  BY BytesAre
<1>3. /\ new \in Seq(0 .. M - 1) /\ Len(new) = n
      /\ \A k \in 1 .. n : new[k] = (h + u + k - 1) % M
  BY <1>1, BytesAre
<1>4. /\ all \in Seq(0 .. M - 1) /\ Len(all) = u + n
      /\ \A k \in 1 .. u + n : all[k] = (h + k - 1) % M
  BY <1>1, BytesAre
<1> HIDE DEF old, new, all
<1>5. /\ old \o new \in Seq(0 .. M - 1) /\ Len(old \o new) = Len(old) + Len(new)
      /\ \A k \in 1 .. Len(old) + Len(new) :
           (old \o new)[k] = IF k <= Len(old) THEN old[k] ELSE new[k - Len(old)]
  BY <1>2, <1>3, ConcatProperties
<1>6. ASSUME NEW k \in 1 .. u + n PROVE all[k] = (old \o new)[k]
  <2>1. CASE k <= u
    BY <1>2, <1>3, <1>4, <1>5, <2>1
  <2>2. CASE ~(k <= u)
    <3>1. k - u \in 1 .. n /\ h + u + (k - u) - 1 = h + k - 1
      BY <2>2
    <3>2. new[k - u] = (h + k - 1) % M
      BY <1>3, <3>1
    <3> QED BY <1>2, <1>3, <1>4, <1>5, <2>2, <3>2
  <2> QED BY <2>1, <2>2
<1>7. Len(all) = Len(old \o new)
  BY <1>2, <1>3, <1>4, <1>5
<1>8. all = old \o new
  BY <1>4, <1>5, <1>6, <1>7, SeqEqual
<1> QED BY <1>8 DEF old, new, all

\* ... and those before are taken off.
LEMMA Taken ==
  ASSUME NEW h \in Int, NEW u \in Nat, NEW n \in 1 .. u
  PROVE  /\ SubSeq(Bytes(h, u), n + 1, u) = Bytes((h + n) % M, u - n)
         /\ (Bytes(h, u)[n] + 1) % M = (h + n) % M
<1> DEFINE old == Bytes(h, u)
           new == Bytes((h + n) % M, u - n)
           cut == SubSeq(old, n + 1, u)
<1>1. u - n \in Nat /\ h + n \in Int /\ (h + n) % M \in Int /\ n + 1 \in Int /\ u \in Int
  <2>1. h + n \in Int
    OBVIOUS
  <2>2. (h + n) % M \in 0 .. M - 1
    BY <2>1, ModRange, Constants
  <2> QED BY <2>2
<1>2. \A k \in 1 .. u : old[k] = (h + k - 1) % M /\ old[k] \in 0 .. M - 1
  BY BytesAre
<1>3. /\ new \in Seq(0 .. M - 1) /\ Len(new) = u - n
      /\ \A k \in 1 .. u - n : new[k] = (((h + n) % M) + k - 1) % M
  BY <1>1, BytesAre
<1> HIDE DEF old, new
<1>4. \A k \in n + 1 .. u : old[k] \in 0 .. M - 1
  BY <1>2
<1>5. /\ cut \in Seq(0 .. M - 1)
      /\ Len(cut) = IF n + 1 <= u THEN u - (n + 1) + 1 ELSE 0
      /\ \A k \in 1 .. u - (n + 1) + 1 : cut[k] = old[n + 1 + k - 1]
  BY <1>1, <1>4, SubSeqProperties
<1> HIDE DEF cut
<1>6. Len(cut) = u - n
  BY <1>5
<1>7. ASSUME NEW k \in 1 .. u - n PROVE cut[k] = new[k]
  <2>1. /\ k \in 1 .. u - (n + 1) + 1 /\ n + 1 + k - 1 = n + k /\ n + k \in 1 .. u
        /\ k - 1 \in Int /\ h + n + (k - 1) = h + (n + k) - 1
        /\ ((h + n) % M) + k - 1 = ((h + n) % M) + (k - 1)
    BY <1>1
  <2>2. (((h + n) % M) + (k - 1)) % M = (h + n + (k - 1)) % M
    BY <1>1, <2>1, ModAdd, Constants
  <2>3. new[k] = (h + (n + k) - 1) % M
    BY <1>3, <2>1, <2>2
  <2>4. cut[k] = old[n + k]
    BY <1>5, <2>1
  <2> QED BY <1>2, <2>1, <2>3, <2>4
<1>8. cut = new
  BY <1>3, <1>5, <1>6, <1>7, SeqEqual
<1>9. (old[n] + 1) % M = (h + n) % M
  <2> DEFINE x == h + n - 1
  <2>1. x \in Int /\ x + 1 = h + n /\ old[n] = x % M
    BY <1>2
  <2> HIDE DEF x
  <2>2. \A y \in Int : ((x % M) + y) % M = (x + y) % M
    BY <2>1, ModAdd, Constants
  <2> QED BY <2>1, <2>2
<1> QED BY <1>8, <1>9 DEF old, new, cut

-----------------------------------------------------------------------------
(* The steps.                                                              *)

\* A write appends the bytes that come next.
LEMMA SendRefines ==
  ASSUME IInv, IInv', NEW n \in 1 .. (SIZE - 1 - sfifo_used),
         sfifo_used' = sfifo_used + n, heard' = heard
  PROVE  Queue!Send
<1>1. sfifo_used \in Nat /\ heard \in Int /\ n \in Nat
  <2>1. sfifo_used \in Nat /\ heard \in 0 .. M - 1
    BY UsedFacts DEF IInv, Typed
  <2> QED BY <2>1, Constants
<1>2. InRing = Bytes(heard, sfifo_used) /\ InRing' = Bytes(heard, sfifo_used + n)
  <2>1. HoldsStream /\ HoldsStream'
    BY RingHoldsStream, PTL
  <2> QED BY <2>1 DEF HoldsStream
<1>3. Len(InRing) = sfifo_used
  BY <1>1, <1>2, BytesAre
<1>4. InRing' = InRing \o Bytes(heard + Len(InRing), n)
  BY <1>1, <1>2, <1>3, Appended
<1>5. n \in 1 .. (SIZE - 1 - Len(InRing))
  BY <1>3
<1>6. Queue!NextBytes(n) = Bytes(heard + Len(InRing), n)
  BY DEF Queue!NextBytes, Bytes, InRing
<1> QED BY <1>4, <1>5, <1>6 DEF Queue!Send, InRing

\* A read takes the oldest bytes.
LEMMA HearRefines ==
  ASSUME IInv, IInv', NEW n \in 1 .. sfifo_used,
         sfifo_used' = sfifo_used - n, heard' = (heard + n) % M
  PROVE  Queue!Hear
<1>1. sfifo_used \in Nat /\ heard \in Int
  BY UsedFacts DEF IInv, Typed
<1>2. /\ InRing = Bytes(heard, sfifo_used)
      /\ InRing' = Bytes((heard + n) % M, sfifo_used - n)
  <2>1. HoldsStream /\ HoldsStream'
    BY RingHoldsStream, PTL
  <2> QED BY <2>1 DEF HoldsStream
<1>3. Len(InRing) = sfifo_used
  BY <1>1, <1>2, BytesAre
<1>4. InRing' = SubSeq(InRing, n + 1, Len(InRing)) /\ heard' = (InRing[n] + 1) % M
  BY <1>1, <1>2, <1>3, Taken
<1>5. n \in 1 .. Len(InRing)
  BY <1>3
<1> QED BY <1>4, <1>5 DEF Queue!Hear, InRing

\* Starting and ending empty the queue.
LEMMA EmptyIs ==
  ASSUME sfifo_used = 0 PROVE InRing = << >>
<1>1. InRing \in [1 .. 0 -> {}]
  BY DEF InRing
<1> QED BY <1>1, EmptySeq

LEMMA InitRefines == Init => Queue!Init
<1> SUFFICES ASSUME Init PROVE Queue!Init
  OBVIOUS
<1>1. sfifo_used = 0 /\ heard = 0
  BY Constants, ModWrap DEF Init, Empty, sfifo_used
<1> QED BY <1>1, EmptyIs DEF Queue!Init, InRing

LEMMA RestartRefines ==
  ASSUME sfifo_used' = 0, heard' = 0
  PROVE  Queue!Restart
<1>1. (sfifo_used = 0 => InRing = << >>)'
  BY EmptyIs, PTL
<1> QED BY <1>1 DEF Queue!Restart, Queue!Init, InRing

\* Nothing else touches what is between the positions.
LEMMA StutterRefines ==
  ASSUME IInv, IInv', UNCHANGED <<sfifo_used, heard>>
  PROVE  UNCHANGED <<InRing, heard>>
<1>1. HoldsStream /\ HoldsStream'
  BY RingHoldsStream, PTL
<1> QED BY <1>1 DEF HoldsStream

LEMMA StepRefines ==
  ASSUME IInv, IInv', [Next]_vars
  PROVE  Queue!Send \/ Queue!Hear \/ Queue!Restart \/ UNCHANGED <<InRing, heard>>
<1>1. CASE sound_init \/ sound_end
  BY <1>1, RestartKeeps, RestartRefines
<1>2. CASE WriteEnds
  BY <1>2, WriteEndsKeeps, SendRefines
<1>3. CASE ReadEnds
  BY <1>3, ReadEndsKeeps, HearRefines
<1>4. CASE CopyInFirst \/ CopyInRest
  BY <1>4, CopiesInKeep, StutterRefines
<1>5. ASSUME UNCHANGED <<sfifo, heard>> PROVE UNCHANGED <<InRing, heard>>
  BY <1>5 DEF InRing, sfifo_used
<1>6. CASE TimerStarts \/ TimerEnds \/ FrameStarts \/ WriteStarts
  BY <1>5, <1>6 DEF TimerStarts, TimerEnds, FrameStarts, WriteStarts
<1>7. CASE sdlwrite \/ ReadStarts
  BY <1>5, <1>7 DEF sdlwrite, ReadStarts
<1>8. CASE CopyOutFirst \/ CopyOutRest
  BY <1>5, <1>8 DEF CopyOutFirst, CopyOutRest, CopyOut
<1>9. CASE UNCHANGED vars
  BY <1>5, <1>9 DEF vars
<1> QED BY <1>1, <1>2, <1>3, <1>4, <1>6, <1>7, <1>8, <1>9 DEF Next

(***************************************************************************)
(* The ring buffer is a queue: sfifo_read gives the bytes of sfifo_write   *)
(* once and in order, over any number of times round the ring, whatever    *)
(* the two threads see of each other's position meanwhile.                 *)
(***************************************************************************)
THEOREM RingIsQueue == Spec => QueueSpec
<1>1. IInv /\ IInv' /\ [Next]_vars
        => [Queue!Send \/ Queue!Hear \/ Queue!Restart]_<<InRing, heard>>
  BY StepRefines
<1> QED BY <1>1, InitRefines, InvAlways, PTL DEF Spec, QueueSpec, Queue!Spec, InRing

=============================================================================
