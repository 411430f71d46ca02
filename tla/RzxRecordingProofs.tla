------------------------- MODULE RzxRecordingProofs -------------------------
(***************************************************************************)
(* That a recording replays: at every step the inputs kept lead to the     *)
(* machine as it is, whatever was rolled back, pruned, continued or        *)
(* finalised, for every program, interval and bound.                       *)
(***************************************************************************)
EXTENDS RzxRecording, FiniteSetTheorems, SequenceTheorems, TLAPS

\* The natural numbers are well ordered.
LEMMA LeastElement ==
  ASSUME NEW S, S \subseteq Nat, S # {}
  PROVE  \E n \in S : \A m \in S : n <= m
<1> DEFINE Initial == {0 .. m : m \in S}
           Order == StrictSubsetOrdering(Nat)
<1>1. Initial # {} /\ Initial \subseteq FiniteSubsetsOf(Nat)
  <2>1. ASSUME NEW m \in S  PROVE 0 .. m \in FiniteSubsetsOf(Nat)
    <3>1. 0 \in Int /\ m \in Int /\ 0 .. m \subseteq Nat
      OBVIOUS
    <3>2. IsFiniteSet(0 .. m)
      BY <3>1, FS_Interval, Zenon
    <3> QED BY <3>1, <3>2, Zenon DEF FiniteSubsetsOf
  <2> QED BY <2>1
<1>2. IsWellFoundedOn(Order, FiniteSubsetsOf(Nat))
  BY FS_StrictSubsetOrderingWellFounded
<1>3. PICK I \in Initial : \A J \in Initial : ~ (<<J, I>> \in Order)
  <2> HIDE DEF Initial, Order
  <2> QED BY <1>1, <1>2, WFMin
<1>4. PICK n \in S : I = 0 .. n
  BY <1>3
<1>5. ASSUME NEW m \in S, m < n  PROVE FALSE
  <2>1. ~ (<<0 .. m, 0 .. n>> \in Order)
    BY <1>3, <1>4
  <2>2. 0 .. m \subseteq 0 .. n /\ n \in 0 .. n /\ n \notin 0 .. m
    BY <1>5
  <2> QED BY <2>1, <2>2 DEF StrictSubsetOrdering
<1> QED
  BY <1>5

LEMMA Induction ==
  ASSUME NEW n \in Nat, NEW S, 0 \in S,
         \A k \in 1 .. n : k - 1 \in S => k \in S
  PROVE  \A k \in 0 .. n : k \in S
<1> SUFFICES ASSUME (0 .. n) \ S # {}  PROVE FALSE
  OBVIOUS
<1> DEFINE Left == (0 .. n) \ S
<1>1. Left \subseteq Nat /\ Left # {}
  OBVIOUS
<1>2. PICK k \in Left : \A m \in Left : k <= m
  <2> HIDE DEF Left
  <2> QED BY <1>1, LeastElement
<1>3. k \in 1 .. n /\ k - 1 \notin Left
  BY <1>2
<1> QED BY <1>2, <1>3

\* A function defined from the value before, as those of RzxRecording are.
Steps(n, H) == [1 .. n -> [H -> H]]
Recurs(n, H, base, step, f) ==
  /\ f \in [0 .. n -> H]
  /\ f[0] = base
  /\ \A k \in 1 .. n : f[k] = step[k][f[k - 1]]

LEMMA Recursion ==
  ASSUME NEW n \in Nat, NEW H, NEW base \in H, NEW step \in Steps(n, H)
  PROVE  \E f : Recurs(n, H, base, step, f)
<1> DEFINE S == {m \in 0 .. n : \E f : Recurs(m, H, base, step, f)}
<1>1. 0 \in S
  <2>1. Recurs(0, H, base, step, [i \in 0 .. 0 |-> base])
    BY DEF Recurs
  <2>2. 0 \in 0 .. n
    OBVIOUS
  <2> QED BY <2>1, <2>2
<1>2. ASSUME NEW m \in 1 .. n, m - 1 \in S  PROVE m \in S
  <2>1. PICK f : Recurs(m - 1, H, base, step, f)
    BY <1>2
  <2> DEFINE g == [i \in 0 .. m |-> IF i = m THEN step[m][f[m - 1]] ELSE f[i]]
  <2>2. step[m][f[m - 1]] \in H
    BY <2>1 DEF Steps, Recurs
  <2>3. g \in [0 .. m -> H] /\ g[0] = base
    BY <2>1, <2>2 DEF Recurs
  <2>4. ASSUME NEW k \in 1 .. m  PROVE g[k] = step[k][g[k - 1]]
    BY <2>1 DEF Recurs
  <2>5. Recurs(m, H, base, step, g)
    <3> HIDE DEF g
    <3> QED BY <2>3, <2>4 DEF Recurs
  <2>6. m \in 0 .. n
    OBVIOUS
  <2> HIDE DEF g
  <2> QED BY <2>5, <2>6
<1>3. \A k \in 0 .. n : k \in S
  <2> HIDE DEF S
  <2> QED BY <1>1, <1>2, Induction
<1> QED BY <1>3

LEMMA MaxIs ==
  ASSUME NEW S, NEW m \in S, S \subseteq Int, \A k \in S : k <= m
  PROVE  Max(S) = m
<1>1. \A x \in S : (\A k \in S : x >= k) => x = m
  OBVIOUS
<1>2. \A k \in S : m >= k
  OBVIOUS
<1> QED BY <1>1, <1>2, Zenon DEF Max

LEMMA MinIs ==
  ASSUME NEW S, NEW m \in S, S \subseteq Int, \A k \in S : m <= k
  PROVE  Min(S) = m
<1>1. \A x \in S : (\A k \in S : x =< k) => x = m
  OBVIOUS
<1>2. \A k \in S : m =< k
  OBVIOUS
<1> QED BY <1>1, <1>2, Zenon DEF Min

\* The positions of a list that have a property, if any, have a first and a last.
LEMMA MinExists ==
  ASSUME NEW n \in Nat, NEW S, S \subseteq 1 .. n, S # {}
  PROVE  Min(S) \in S /\ \A k \in S : Min(S) <= k
<1>1. S \subseteq Nat
  OBVIOUS
<1>2. PICK m \in S : \A k \in S : m <= k
  BY <1>1, LeastElement
<1>0. S \subseteq Int
  OBVIOUS
<1>3. Min(S) = m
  BY <1>0, <1>2, MinIs
<1> QED BY <1>2, <1>3

LEMMA MaxExists ==
  ASSUME NEW n \in Nat, NEW S, S \subseteq 1 .. n, S # {}
  PROVE  Max(S) \in S /\ \A k \in S : k <= Max(S)
<1> DEFINE T == {n - k : k \in S}
<1>0. S \subseteq Int
  OBVIOUS
<1>1. T \subseteq Nat /\ T # {}
  <2>1. \A k \in S : n - k \in Nat
    OBVIOUS
  <2> QED BY <2>1
<1>2. PICK t \in T : \A u \in T : t <= u
  <2> HIDE DEF T
  <2> QED BY <1>1, LeastElement
<1>3. PICK m \in S : t = n - m
  BY <1>2
<1>4. \A k \in S : k <= m
  BY <1>2, <1>3
<1>5. Max(S) = m
  BY <1>0, <1>4, MaxIs
<1> QED BY <1>4, <1>5

-----------------------------------------------------------------------------
(* What blocks, lists and histories are. *)

Histories == Seq(Ins \cup {INT})
States == [history : Histories, due : BOOLEAN]
SnapBlocks == [type : {"snap"}, state : States, automatic : BOOLEAN]
InputBlocks ==
  {b \in [type : {"input"}, frames : Seq(FrameRecords), non_repeat : Nat] :
     b.frames # <<>> => ~ b.frames[1].repeat_last}
Blocks == SnapBlocks \cup InputBlocks
Lists == Seq(Blocks)

LEMMA SnapKind ==
  ASSUME NEW b \in SnapBlocks
  PROVE  b \in Blocks /\ IsSnap(b) /\ ~ IsInput(b)
         /\ b.state \in States /\ b.automatic \in BOOLEAN
BY DEF SnapBlocks, Blocks, IsSnap, IsInput

LEMMA InputKind ==
  ASSUME NEW b \in InputBlocks
  PROVE  b \in Blocks /\ IsInput(b) /\ ~ IsSnap(b)
         /\ b.frames \in Seq(FrameRecords) /\ b.non_repeat \in Nat
         /\ (b.frames # <<>> => ~ b.frames[1].repeat_last)
BY DEF InputBlocks, Blocks, IsSnap, IsInput

LEMMA BlockKinds ==
  ASSUME NEW b \in Blocks
  PROVE  /\ IsSnap(b) <=> b \in SnapBlocks
         /\ IsInput(b) <=> b \in InputBlocks
         /\ IsSnap(b) <=> ~ IsInput(b)
BY SnapKind, InputKind DEF Blocks

LEMMA ListEntry ==
  ASSUME NEW list \in Lists, NEW k \in 1 .. Len(list)
  PROVE  list[k] \in Blocks
BY ElementOfSeq DEF Lists

LEMMA Prefix ==
  ASSUME NEW H, NEW s \in Seq(H), NEW k \in 0 .. Len(s)
  PROVE  /\ SubSeq(s, 1, k) \in Seq(H)
         /\ Len(SubSeq(s, 1, k)) = k
         /\ \A i \in 1 .. k : SubSeq(s, 1, k)[i] = s[i]
<1>1. k \in Int /\ \A i \in 1 .. k : s[i] \in H
  BY ElementOfSeq, LenProperties
<1> QED BY <1>1, SubSeqProperties

LEMMA PrefixStep ==
  ASSUME NEW H, NEW s \in Seq(H), NEW k \in 1 .. Len(s)
  PROVE  SubSeq(s, 1, k) = Append(SubSeq(s, 1, k - 1), s[k])
<1>1. Len(s) \in Nat
  BY LenProperties
<1>2. k - 1 \in 0 .. Len(s) /\ k \in 0 .. Len(s) /\ s[k] \in H
  BY <1>1, ElementOfSeq
<1> DEFINE t == SubSeq(s, 1, k)
           u == SubSeq(s, 1, k - 1)
<1>3. t \in Seq(H) /\ Len(t) = k /\ \A i \in 1 .. k : t[i] = s[i]
  BY <1>2, Prefix
<1>4. u \in Seq(H) /\ Len(u) = k - 1 /\ \A i \in 1 .. k - 1 : u[i] = s[i]
  BY <1>2, Prefix
<1> HIDE DEF t, u
<1>5. /\ Append(u, s[k]) \in Seq(H) /\ Len(Append(u, s[k])) = k
      /\ \A i \in 1 .. k - 1 : Append(u, s[k])[i] = u[i]
      /\ Append(u, s[k])[k] = s[k]
  BY <1>2, <1>4, AppendProperties
<1>6. \A i \in 1 .. Len(t) : t[i] = Append(u, s[k])[i]
  BY <1>3, <1>4, <1>5
<1>7. t = Append(u, s[k])
  BY <1>3, <1>5, <1>6, SeqEqual
<1> QED BY <1>7 DEF t, u

\* A sequence is its prefix and its last entry.
LEMMA FullPrefix ==
  ASSUME NEW H, NEW s \in Seq(H)
  PROVE  SubSeq(s, 1, Len(s)) = s /\ SubSeq(s, 1, 0) = <<>>
BY SubSeqFull, SubSeqEmpty

LEMMA PrefixOfAppend ==
  ASSUME NEW H, NEW s \in Seq(H), NEW e \in H, NEW k \in 0 .. Len(s)
  PROVE  SubSeq(Append(s, e), 1, k) = SubSeq(s, 1, k)
<1> DEFINE a == Append(s, e)
<1>1. a \in Seq(H) /\ Len(a) = Len(s) + 1 /\ \A i \in 1 .. Len(s) : a[i] = s[i]
  BY AppendProperties
<1>2. Len(s) \in Nat /\ k \in 0 .. Len(a)
  BY <1>1, LenProperties
<1> HIDE DEF a
<1>3. SubSeq(a, 1, k) \in Seq(H) /\ Len(SubSeq(a, 1, k)) = k
      /\ \A i \in 1 .. k : SubSeq(a, 1, k)[i] = a[i]
  BY <1>1, <1>2, Prefix
<1>4. SubSeq(s, 1, k) \in Seq(H) /\ Len(SubSeq(s, 1, k)) = k
      /\ \A i \in 1 .. k : SubSeq(s, 1, k)[i] = s[i]
  BY Prefix
<1>5. \A i \in 1 .. k : SubSeq(a, 1, k)[i] = SubSeq(s, 1, k)[i]
  BY <1>1, <1>2, <1>3, <1>4
<1>6. SubSeq(a, 1, k) = SubSeq(s, 1, k)
  BY <1>3, <1>4, <1>5, SeqEqual
<1> QED BY <1>6 DEF a

-----------------------------------------------------------------------------
(* The frames of a list. *)

Frames(block) == IF IsInput(block) THEN Len(block.frames) ELSE 0

LEMMA FramesType ==
  ASSUME NEW b \in Blocks  PROVE Frames(b) \in Nat
BY BlockKinds, InputKind, LenProperties DEF Frames

LEMMA CountFramesIs ==
  ASSUME NEW list \in Lists
  PROVE  \E f \in [0 .. Len(list) -> Nat] :
           /\ CountFrames(list) = f[Len(list)]
           /\ f[0] = 0
           /\ \A k \in 1 .. Len(list) : f[k] = f[k - 1] + Frames(list[k])
<1> DEFINE n == Len(list)
           step == [k \in 1 .. n |-> [v \in Nat |-> v + Frames(list[k])]]
           Is(f) == f = [k \in 0 .. n |->
                          IF k = 0 THEN 0
                          ELSE f[k - 1] + IF IsInput(list[k])
                                          THEN Len(list[k].frames) ELSE 0]
<1>1. n \in Nat
  BY LenProperties DEF Lists
<1>2. \A k \in 1 .. n : Frames(list[k]) \in Nat
  BY ListEntry, FramesType
<1>3. step \in Steps(n, Nat)
  BY <1>2 DEF Steps
<1>4. PICK f : Recurs(n, Nat, 0, step, f)
  <2> HIDE DEF n, step
  <2>1. 0 \in Nat
    OBVIOUS
  <2> QED BY <1>1, <1>3, <2>1, Recursion
<1>5. \A k \in 1 .. n : f[k] = f[k - 1] + Frames(list[k])
  <2> HIDE DEF n
  <2>1. \A k \in 1 .. n : f[k - 1] \in Nat
    BY <1>1, <1>4 DEF Recurs
  <2> QED BY <1>1, <1>4, <2>1 DEF Recurs
<1>6. Is(f)
  <2> HIDE DEF n
  <2> QED BY <1>1, <1>4, <1>5 DEF Frames, Recurs
<1> DEFINE g == CHOOSE h : Is(h)
<1>7. Is(g)
  <2> HIDE DEF Is
  <2> QED BY <1>6
<1>8. CountFrames(list) = g[n]
  BY DEF CountFrames
<1> HIDE DEF g
<1>9. g[0] = 0 /\ \A k \in 1 .. n : g[k] = g[k - 1] + Frames(list[k])
  <2> HIDE DEF n
  <2> QED BY <1>1, <1>7 DEF Frames
<1>10. DOMAIN g = 0 .. n
  BY <1>7
<1>11. \A k \in 0 .. n : g[k] \in Nat
  <2> DEFINE S == {k \in 0 .. n : g[k] \in Nat}
  <2>1. 0 \in S
    BY <1>1, <1>9
  <2>2. \A k \in 1 .. n : k - 1 \in S => k \in S
    BY <1>1, <1>2, <1>9
  <2> HIDE DEF S, n
  <2>3. \A k \in 0 .. n : k \in S
    BY <1>1, <2>1, <2>2, Induction
  <2> QED BY <2>3 DEF S
<1>12. g \in [0 .. n -> Nat]
  <2> HIDE DEF n
  <2>1. g = [k \in 0 .. n |-> g[k]]
    BY <1>7, <1>10
  <2> QED BY <1>11, <2>1
<1> QED BY <1>8, <1>9, <1>12

LEMMA CountFramesAppend ==
  /\ CountFrames(<<>>) = 0
  /\ \A list \in Lists, b \in Blocks :
       CountFrames(Append(list, b)) = CountFrames(list) + Frames(b)
  /\ \A list \in Lists : CountFrames(list) \in Nat
<1>1. CountFrames(<<>>) = 0
  <2>1. <<>> \in Lists /\ Len(<<>>) = 0
    BY EmptySeq DEF Lists
  <2> QED BY <2>1, CountFramesIs
<1>2. ASSUME NEW list \in Lists, NEW b \in Blocks
      PROVE  CountFrames(Append(list, b)) = CountFrames(list) + Frames(b)
  <2> DEFINE n == Len(list)
             longer == Append(list, b)
  <2>1. /\ n \in Nat
        /\ longer \in Lists /\ Len(longer) = n + 1
        /\ \A k \in 1 .. n : longer[k] = list[k]
        /\ longer[n + 1] = b
    BY LenProperties, AppendProperties DEF Lists
  <2>2. PICK f \in [0 .. n -> Nat] :
          /\ CountFrames(list) = f[n]
          /\ f[0] = 0
          /\ \A k \in 1 .. n : f[k] = f[k - 1] + Frames(list[k])
    BY CountFramesIs
  <2> HIDE DEF longer
  <2>3. PICK g \in [0 .. Len(longer) -> Nat] :
          /\ CountFrames(longer) = g[Len(longer)]
          /\ g[0] = 0
          /\ \A k \in 1 .. Len(longer) : g[k] = g[k - 1] + Frames(longer[k])
    BY <2>1, CountFramesIs
  <2> DEFINE S == {k \in 0 .. n : f[k] = g[k]}
  <2> HIDE DEF n
  <2>4. 0 \in S
    BY <2>1, <2>2, <2>3
  <2>5. ASSUME NEW k \in 1 .. n, k - 1 \in S  PROVE k \in S
    <3>1. f[k] = f[k - 1] + Frames(list[k]) /\ g[k] = g[k - 1] + Frames(longer[k])
      BY <2>1, <2>2, <2>3
    <3>2. longer[k] = list[k]
      BY <2>1
    <3> QED BY <3>1, <3>2, <2>1, <2>5
  <2>6. n \in S
    <3> HIDE DEF S
    <3>1. \A k \in 0 .. n : k \in S
      BY <2>1, <2>4, <2>5, Induction
    <3> QED BY <2>1, <3>1
  <2>7. g[n + 1] = g[n] + Frames(b)
    BY <2>1, <2>3
  <2> QED BY <2>1, <2>2, <2>3, <2>6, <2>7 DEF longer
<1>3. \A list \in Lists : CountFrames(list) \in Nat
  <2>1. ASSUME NEW list \in Lists  PROVE CountFrames(list) \in Nat
    <3>1. Len(list) \in Nat
      BY LenProperties DEF Lists
    <3> QED BY <3>1, CountFramesIs
  <2> QED BY <2>1
<1> QED BY <1>1, <1>2, <1>3

-----------------------------------------------------------------------------
(* The machine, and what the frames of a block do to it. *)

LEMMA LastOfAppend ==
  ASSUME NEW h \in Histories, NEW e \in Ins \cup {INT}
  PROVE  /\ Append(h, e) \in Histories
         /\ Append(h, e) # <<>>
         /\ Last(Append(h, e)) = e
BY AppendProperties, LenProperties DEF Histories, Last

LEMMA Interrupted ==
  ASSUME NEW h \in Histories
  PROVE  /\ z80_interrupt(h) \in Histories
         /\ z80_interrupt(h) # <<>>
         /\ z80_interrupt(z80_interrupt(h)) = z80_interrupt(h)
<1>1. INT \in Ins \cup {INT}
  OBVIOUS
<1>2. CASE z80_interrupt(h) = h
  BY <1>2 DEF z80_interrupt, Deferred
<1>3. CASE z80_interrupt(h) = Append(h, INT)
  <2>1. /\ Append(h, INT) \in Histories /\ Append(h, INT) # <<>>
        /\ Last(Append(h, INT)) = INT
    BY <1>1, LastOfAppend
  <2>2. z80_interrupt(Append(h, INT)) = Append(h, INT)
    BY <2>1 DEF z80_interrupt
  <2> QED BY <1>3, <2>1, <2>2
<1> QED BY <1>2, <1>3 DEF z80_interrupt

LEMMA AfterType ==
  ASSUME NEW state \in States
  PROVE  /\ state.history \in Histories /\ state.due \in BOOLEAN
         /\ After(state) \in Histories
         /\ z80_interrupt(After(state)) = z80_interrupt(state.history)
         /\ After(state) = <<>> => state.history = <<>> /\ state.due = FALSE
BY Interrupted DEF States, After

\* The frame whose bytes the frame j of a block reads.
OwnFrame(frames, j, d) ==
  /\ d \in 1 .. j
  /\ ~ frames[d].repeat_last
  /\ \A m \in d + 1 .. j : frames[m].repeat_last

LEMMA ReadsOwn ==
  ASSUME NEW block, NEW j \in Nat, NEW d, OwnFrame(block.frames, j, d)
  PROVE  Reads(block, j) = block.frames[d].ins
<1> DEFINE S == {k \in 1 .. j : ~ block.frames[k].repeat_last}
<1>1. d \in S /\ S \subseteq Int /\ \A k \in S : k <= d
  BY DEF OwnFrame
<1>2. Max(S) = d
  <2> HIDE DEF S
  <2> QED BY <1>1, MaxIs
<1> QED BY <1>2 DEF Reads

LEMMA OwnFrameExists ==
  ASSUME NEW frames, NEW j \in Nat \ {0}, ~ frames[1].repeat_last
  PROVE  \E d : OwnFrame(frames, j, d)
<1> DEFINE S == {k \in 1 .. j : ~ frames[k].repeat_last}
<1>1. S \subseteq 1 .. j /\ S # {}
  OBVIOUS
<1>2. PICK x \in S : \A k \in S : k <= x
  <2> HIDE DEF S
  <2> QED BY <1>1, MaxExists
<1>3. x \in 1 .. j /\ ~ frames[x].repeat_last
  BY <1>2
<1>4. ASSUME NEW m \in x + 1 .. j  PROVE frames[m].repeat_last
  <2>1. m \in 1 .. j /\ ~ (m <= x)
    BY <1>3
  <2>2. m \notin S
    <3> HIDE DEF S
    <3> QED BY <1>2, <2>1
  <2> QED BY <2>1, <2>2
<1> QED BY <1>3, <1>4 DEF OwnFrame

\* What a frame of a block does to the history.
FrameStep(block, j, history) ==
  z80_interrupt(IF block.frames[j].instructions = 0 THEN history
                ELSE Append(history, Reads(block, j)))

LEMMA FrameEntry ==
  ASSUME NEW b \in InputBlocks, NEW j \in 1 .. Len(b.frames)
  PROVE  /\ b.frames[j] \in FrameRecords
         /\ Len(b.frames) \in Nat
         /\ \E d : OwnFrame(b.frames, j, d)
         /\ Reads(b, j) \in Ins
<1>1. b.frames \in Seq(FrameRecords) /\ Len(b.frames) \in Nat
  BY InputKind, LenProperties
<1>2. \A k \in 1 .. Len(b.frames) : b.frames[k] \in FrameRecords
  BY <1>1, ElementOfSeq
<1>3. b.frames # <<>> /\ j \in Nat \ {0}
  BY <1>1
<1>4. ~ b.frames[1].repeat_last
  BY <1>3, InputKind
<1>5. PICK d : OwnFrame(b.frames, j, d)
  BY <1>3, <1>4, OwnFrameExists
<1>6. d \in 1 .. Len(b.frames)
  BY <1>1, <1>5 DEF OwnFrame
<1>7. Reads(b, j) = b.frames[d].ins
  BY <1>3, <1>5, ReadsOwn
<1>8. Reads(b, j) \in Ins
  BY <1>2, <1>6, <1>7 DEF FrameRecords
<1> QED BY <1>1, <1>2, <1>5, <1>8

LEMMA FrameStepType ==
  ASSUME NEW b \in InputBlocks, NEW j \in 1 .. Len(b.frames), NEW h \in Histories
  PROVE  /\ FrameStep(b, j, h) \in Histories
         /\ z80_interrupt(FrameStep(b, j, h)) = FrameStep(b, j, h)
<1> DEFINE x == IF b.frames[j].instructions = 0 THEN h ELSE Append(h, Reads(b, j))
<1>1. Reads(b, j) \in Ins \cup {INT}
  BY FrameEntry
<1>2. x \in Histories
  BY <1>1, LastOfAppend
<1> HIDE DEF x
<1>3. z80_interrupt(x) \in Histories
      /\ z80_interrupt(z80_interrupt(x)) = z80_interrupt(x)
  BY <1>2, Interrupted
<1>4. FrameStep(b, j, h) = z80_interrupt(x)
  BY DEF FrameStep, x
<1> QED BY <1>3, <1>4

LEMMA RunBlockIs ==
  ASSUME NEW b \in InputBlocks, NEW h \in Histories
  PROVE  \E f \in [0 .. Len(b.frames) -> Histories] :
           /\ RunBlock(h, b) = f[Len(b.frames)]
           /\ f[0] = h
           /\ \A j \in 1 .. Len(b.frames) : f[j] = FrameStep(b, j, f[j - 1])
<1> DEFINE n == Len(b.frames)
           step == [j \in 1 .. n |-> [v \in Histories |-> FrameStep(b, j, v)]]
           Is(f) == f = [j \in 0 .. n |->
                          IF j = 0 THEN h
                          ELSE z80_interrupt(
                                 IF b.frames[j].instructions = 0 THEN f[j - 1]
                                 ELSE Append(f[j - 1], Reads(b, j)))]
<1>1. n \in Nat
  BY InputKind, LenProperties
<1>2. \A j \in 1 .. n : \A v \in Histories : FrameStep(b, j, v) \in Histories
  BY FrameStepType
<1>3. step \in Steps(n, Histories)
  BY <1>2 DEF Steps
<1>4. PICK f : Recurs(n, Histories, h, step, f)
  <2> HIDE DEF n, step
  <2> QED BY <1>1, <1>3, Recursion
<1>5. \A j \in 1 .. n : f[j] = FrameStep(b, j, f[j - 1])
  <2> HIDE DEF n
  <2>1. \A j \in 1 .. n : f[j - 1] \in Histories
    BY <1>1, <1>4 DEF Recurs
  <2> QED BY <1>1, <1>4, <2>1 DEF Recurs
<1>6. Is(f)
  <2> HIDE DEF n
  <2> QED BY <1>1, <1>4, <1>5 DEF FrameStep, Recurs
<1> DEFINE g == CHOOSE run : Is(run)
<1>7. Is(g)
  <2> HIDE DEF Is
  <2> QED BY <1>6
<1>8. RunBlock(h, b) = g[n]
  BY DEF RunBlock
<1> HIDE DEF g
<1>9. g[0] = h /\ \A j \in 1 .. n : g[j] = FrameStep(b, j, g[j - 1])
  <2> HIDE DEF n
  <2> QED BY <1>1, <1>7 DEF FrameStep
<1>10. \A j \in 0 .. n : g[j] \in Histories
  <2> DEFINE S == {j \in 0 .. n : g[j] \in Histories}
  <2>1. 0 \in S
    BY <1>1, <1>9
  <2>2. \A j \in 1 .. n : j - 1 \in S => j \in S
    BY <1>1, <1>2, <1>9
  <2> HIDE DEF S, n
  <2>3. \A j \in 0 .. n : j \in S
    BY <1>1, <2>1, <2>2, Induction
  <2> QED BY <2>3 DEF S
<1>11. g \in [0 .. n -> Histories]
  <2> HIDE DEF n
  <2>1. g = [j \in 0 .. n |-> g[j]]
    BY <1>7
  <2> QED BY <1>10, <2>1
<1> QED BY <1>8, <1>9, <1>11

LEMMA RunEmpty ==
  ASSUME NEW b \in InputBlocks, NEW h \in Histories, b.frames = <<>>
  PROVE  RunBlock(h, b) = h
<1>1. Len(b.frames) = 0
  OBVIOUS
<1> QED BY <1>1, RunBlockIs

LEMMA RunType ==
  ASSUME NEW b \in InputBlocks, NEW h \in Histories
  PROVE  RunBlock(h, b) \in Histories
<1>1. Len(b.frames) \in 0 .. Len(b.frames)
  BY InputKind, LenProperties
<1> QED BY <1>1, RunBlockIs

\* A block with a frame more does what that frame does after the others.
LEMMA RunFrame ==
  ASSUME NEW b \in InputBlocks, NEW c \in InputBlocks, NEW h \in Histories,
         Len(c.frames) = Len(b.frames) + 1,
         \A j \in 1 .. Len(b.frames) : c.frames[j] = b.frames[j]
  PROVE  RunBlock(h, c) = FrameStep(c, Len(c.frames), RunBlock(h, b))
<1> DEFINE n == Len(b.frames)
<1>1. n \in Nat
  BY InputKind, LenProperties
<1>2. PICK f \in [0 .. n -> Histories] :
        /\ RunBlock(h, b) = f[n]
        /\ f[0] = h
        /\ \A j \in 1 .. n : f[j] = FrameStep(b, j, f[j - 1])
  BY RunBlockIs
<1>3. PICK g \in [0 .. n + 1 -> Histories] :
        /\ RunBlock(h, c) = g[n + 1]
        /\ g[0] = h
        /\ \A j \in 1 .. n + 1 : g[j] = FrameStep(c, j, g[j - 1])
  <2>1. Len(c.frames) = n + 1
    OBVIOUS
  <2> QED BY <2>1, RunBlockIs
<1>4. ASSUME NEW j \in 1 .. n, NEW v  PROVE FrameStep(c, j, v) = FrameStep(b, j, v)
  <2>1. PICK d : OwnFrame(b.frames, j, d)
    BY FrameEntry
  <2>2. c.frames[j] = b.frames[j] /\ c.frames[d] = b.frames[d]
        /\ OwnFrame(c.frames, j, d)
    BY <1>1, <2>1 DEF OwnFrame
  <2>3. j \in Nat
    OBVIOUS
  <2>4. Reads(c, j) = Reads(b, j)
    BY <2>1, <2>2, <2>3, ReadsOwn
  <2> QED BY <2>2, <2>4 DEF FrameStep
<1> DEFINE S == {j \in 0 .. n : f[j] = g[j]}
<1>5. n \in S
  <2> HIDE DEF n
  <2>1. 0 \in S
    BY <1>1, <1>2, <1>3
  <2>2. ASSUME NEW j \in 1 .. n, j - 1 \in S  PROVE j \in S
    <3>1. f[j] = FrameStep(b, j, f[j - 1]) /\ g[j] = FrameStep(c, j, g[j - 1])
      BY <1>1, <1>2, <1>3
    <3> QED BY <1>4, <2>2, <3>1
  <2> HIDE DEF S
  <2>3. \A j \in 0 .. n : j \in S
    BY <1>1, <2>1, <2>2, Induction
  <2> QED BY <1>1, <2>3
<1>6. g[n + 1] = FrameStep(c, n + 1, g[n])
  <2> HIDE DEF n
  <2> QED BY <1>1, <1>3
<1> QED BY <1>2, <1>3, <1>5, <1>6

LEMMA SameRun ==
  ASSUME NEW b, NEW c, NEW h, b.frames = c.frames
  PROVE  RunBlock(h, b) = RunBlock(h, c)
BY DEF RunBlock, Reads

\* The frame the next one is compared with is one that has its own bytes.
Compares(b) == b.frames # <<>> => OwnFrame(b.frames, Len(b.frames), b.non_repeat)

\* libspectrum_rzx_store_frame: the block does what it did, then what the
\* machine has just done.
LEMMA StoredFrame ==
  ASSUME NEW b \in InputBlocks, Compares(b), NEW instructions \in {0, 1},
         NEW ins \in Ins, NEW h \in Histories
  PROVE  LET c == libspectrum_rzx_store_frame(b, instructions, ins)
         IN /\ c \in InputBlocks
            /\ Compares(c)
            /\ Frames(c) = Frames(b) + 1
            /\ RunBlock(h, c) = z80_interrupt(
                 IF instructions = 0 THEN RunBlock(h, b)
                 ELSE Append(RunBlock(h, b), ins))
<1> DEFINE n == Len(b.frames)
           repeat == /\ b.frames # <<>>
                     /\ ins # NoIns
                     /\ ins = b.frames[b.non_repeat].ins
           frame == [instructions |-> instructions,
                     ins |-> IF repeat THEN NoIns ELSE ins,
                     repeat_last |-> repeat]
           frames == Append(b.frames, frame)
           own == IF repeat THEN b.non_repeat ELSE n + 1
           c == [type |-> "input", frames |-> frames, non_repeat |-> own]
<1>1. /\ b.frames \in Seq(FrameRecords) /\ n \in Nat /\ b.non_repeat \in Nat
      /\ b.frames # <<>> => ~ b.frames[1].repeat_last
      /\ b.frames = <<>> => n = 0
      /\ b.frames # <<>> => n \in Nat \ {0}
  BY InputKind, LenProperties, EmptySeq
<1>2. libspectrum_rzx_store_frame(b, instructions, ins) = c
  <2>1. b \in [type : {"input"}, frames : Seq(FrameRecords), non_repeat : Nat]
    BY DEF InputBlocks
  <2>2. libspectrum_rzx_store_frame(b, instructions, ins) =
          [b EXCEPT !.frames = frames, !.non_repeat = own]
    BY Zenon DEF libspectrum_rzx_store_frame
  <2> HIDE DEF frames, own
  <2> QED BY <2>1, <2>2
<1>3. frame \in FrameRecords
  BY InsAssumption DEF FrameRecords
<1>4. /\ frames \in Seq(FrameRecords) /\ frames # <<>> /\ Len(frames) = n + 1
      /\ \A j \in 1 .. n : frames[j] = b.frames[j]
      /\ frames[n + 1] = frame
  <2> HIDE DEF frame
  <2> QED BY <1>1, <1>3, AppendProperties
<1>5. frame.repeat_last = repeat /\ frame.instructions = instructions
      /\ frame.ins = (IF repeat THEN NoIns ELSE ins)
  OBVIOUS
<1> HIDE DEF frames, frame
<1>6. OwnFrame(frames, n + 1, own) /\ frames[own].ins = ins
  <2>1. CASE ~ repeat
    <3>1. own = n + 1 /\ ~ frames[n + 1].repeat_last /\ frames[n + 1].ins = ins
      BY <2>1, <1>4, <1>5
    <3> QED BY <3>1, <1>1 DEF OwnFrame
  <2>2. CASE repeat
    <3>1. own = b.non_repeat /\ frame.repeat_last /\ b.frames # <<>>
          /\ ins = b.frames[own].ins
      BY <2>2, <1>5
    <3>2. OwnFrame(b.frames, n, own)
      BY <3>1 DEF Compares
    <3> HIDE DEF repeat, own, n
    <3>3. own \in 1 .. n /\ frames[own] = b.frames[own]
      BY <3>2, <1>1, <1>4 DEF OwnFrame
    <3>4. \A m \in own + 1 .. n + 1 : frames[m].repeat_last
      BY <3>1, <3>2, <3>3, <1>1, <1>4 DEF OwnFrame
    <3> QED BY <3>1, <3>2, <3>3, <3>4, <1>1 DEF OwnFrame
  <2> QED BY <2>1, <2>2
<1>7. ~ frames[1].repeat_last
  <2>1. CASE n = 0
    BY <2>1, <1>6 DEF OwnFrame
  <2>2. CASE n # 0
    BY <2>2, <1>1, <1>4
  <2> QED BY <2>1, <2>2
<1>8. own \in Nat
  BY <1>1
<1> HIDE DEF repeat, own
<1>9. c \in InputBlocks
  BY <1>4, <1>7, <1>8 DEF InputBlocks
<1>10. c.frames = frames /\ c.non_repeat = own
  OBVIOUS
<1> HIDE DEF c
<1>11. Compares(c) /\ Reads(c, n + 1) = ins
  <2>1. n + 1 \in Nat
    BY <1>1
  <2>2. Reads(c, n + 1) = c.frames[own].ins
    <3> HIDE DEF n
    <3> QED BY <2>1, <1>6, <1>10, ReadsOwn
  <2> QED BY <2>2, <1>4, <1>6, <1>10 DEF Compares
<1>12. RunBlock(h, c) = FrameStep(c, n + 1, RunBlock(h, b))
  BY <1>4, <1>9, <1>10, RunFrame
<1>13. Frames(c) = Frames(b) + 1
  BY <1>4, <1>9, <1>10, InputKind DEF Frames
<1>14. c.frames[n + 1].instructions = instructions
  BY <1>4, <1>5, <1>10
<1>15. RunBlock(h, c) = z80_interrupt(
         IF instructions = 0 THEN RunBlock(h, b) ELSE Append(RunBlock(h, b), ins))
  <2> HIDE DEF n
  <2> QED BY <1>11, <1>12, <1>14 DEF FrameStep
<1> QED BY <1>2, <1>9, <1>11, <1>13, <1>15

\* input_block_merge: the frames of one block, then those of the other.
LEMMA MergedRun ==
  ASSUME NEW b \in InputBlocks, NEW c \in InputBlocks, NEW h \in Histories
  PROVE  /\ Merged(b, c) \in InputBlocks
         /\ Frames(Merged(b, c)) = Frames(b) + Frames(c)
         /\ RunBlock(h, Merged(b, c)) = RunBlock(RunBlock(h, b), c)
<1> DEFINE n == Len(b.frames)
           m == Len(c.frames)
           frames == b.frames \o c.frames
           own == n + c.non_repeat
           x == [type |-> "input", frames |-> frames, non_repeat |-> own]
<1>1. /\ b.frames \in Seq(FrameRecords) /\ c.frames \in Seq(FrameRecords)
      /\ n \in Nat /\ m \in Nat /\ c.non_repeat \in Nat
      /\ n # 0 => ~ b.frames[1].repeat_last
      /\ m # 0 => ~ c.frames[1].repeat_last
      /\ n # 0 <=> b.frames # <<>>
      /\ m # 0 <=> c.frames # <<>>
  BY InputKind, LenProperties, EmptySeq
<1>2. Merged(b, c) = x
  <2>1. b \in [type : {"input"}, frames : Seq(FrameRecords), non_repeat : Nat]
    BY DEF InputBlocks
  <2>2. Merged(b, c) = [b EXCEPT !.frames = frames, !.non_repeat = own]
    BY Zenon DEF Merged
  <2> HIDE DEF frames, own
  <2> QED BY <2>1, <2>2
<1>3. /\ frames \in Seq(FrameRecords) /\ Len(frames) = n + m
      /\ \A i \in 1 .. n + m :
           frames[i] = IF i <= n THEN b.frames[i] ELSE c.frames[i - n]
  BY <1>1, ConcatProperties
<1> HIDE DEF frames, n, m
<1>4. /\ \A i \in 1 .. n : frames[i] = b.frames[i]
      /\ \A i \in 1 .. m : frames[n + i] = c.frames[i]
  <2>1. ASSUME NEW i \in 1 .. n  PROVE frames[i] = b.frames[i]
    BY <1>1, <1>3
  <2>2. ASSUME NEW i \in 1 .. m  PROVE frames[n + i] = c.frames[i]
    <3>1. n + i \in 1 .. n + m /\ ~ (n + i <= n) /\ (n + i) - n = i
      BY <1>1
    <3> QED BY <1>3, <3>1
  <2> QED BY <2>1, <2>2
<1>5. frames # <<>> => ~ frames[1].repeat_last
  <2>1. CASE n # 0
    BY <2>1, <1>1, <1>4
  <2>2. CASE n = 0 /\ m # 0
    <3>1. 1 \in 1 .. m /\ n + 1 = 1
      BY <2>2, <1>1
    <3>2. frames[1] = c.frames[1]
      BY <3>1, <1>4
    <3> QED BY <2>2, <3>2, <1>1
  <2>3. CASE n = 0 /\ m = 0
    <3>1. Len(frames) = 0
      BY <2>3, <1>3
    <3> QED BY <3>1, <1>3, EmptySeq
  <2> QED BY <2>1, <2>2, <2>3
<1>6. own \in Nat
  BY <1>1
<1> HIDE DEF own
<1>7. x \in InputBlocks
  BY <1>3, <1>5, <1>6 DEF InputBlocks
<1>8. x.frames = frames
  OBVIOUS
<1> HIDE DEF x
<1>9. Frames(x) = Frames(b) + Frames(c)
  BY <1>3, <1>7, <1>8, InputKind DEF Frames, n, m
<1>10. ASSUME NEW i \in 1 .. n, NEW v  PROVE FrameStep(x, i, v) = FrameStep(b, i, v)
  <2>1. PICK d : OwnFrame(b.frames, i, d)
    BY FrameEntry DEF n
  <2>2. x.frames[i] = b.frames[i] /\ x.frames[d] = b.frames[d]
        /\ OwnFrame(x.frames, i, d)
    BY <1>1, <1>4, <1>8, <2>1 DEF OwnFrame
  <2>3. i \in Nat
    BY <1>1
  <2>4. Reads(x, i) = Reads(b, i)
    BY <2>1, <2>2, <2>3, ReadsOwn
  <2> QED BY <2>2, <2>4 DEF FrameStep
<1>11. ASSUME NEW i \in 1 .. m, NEW v
       PROVE  FrameStep(x, n + i, v) = FrameStep(c, i, v)
  <2>1. PICK d : OwnFrame(c.frames, i, d)
    BY FrameEntry DEF m
  <2>2. i \in Nat /\ n + i \in Nat /\ d \in 1 .. m
    BY <1>1, <2>1 DEF OwnFrame
  <2>3. x.frames[n + i] = c.frames[i] /\ x.frames[n + d] = c.frames[d]
    BY <1>4, <1>8, <2>2
  <2>4. ASSUME NEW k \in n + d + 1 .. n + i  PROVE x.frames[k].repeat_last
    <3>1. k - n \in d + 1 .. i /\ k - n \in 1 .. m /\ n + (k - n) = k
      BY <1>1, <2>2
    <3>2. c.frames[k - n].repeat_last
      BY <3>1, <2>1 DEF OwnFrame
    <3> QED BY <3>1, <3>2, <1>4, <1>8
  <2>5. n + d \in 1 .. n + i
    BY <1>1, <2>1, <2>2 DEF OwnFrame
  <2>6. OwnFrame(x.frames, n + i, n + d)
    BY <2>1, <2>3, <2>4, <2>5 DEF OwnFrame
  <2>7. Reads(x, n + i) = x.frames[n + d].ins /\ Reads(c, i) = c.frames[d].ins
    BY <2>1, <2>2, <2>6, ReadsOwn
  <2> QED BY <2>3, <2>7 DEF FrameStep
<1>12. PICK e \in [0 .. n -> Histories] :
         /\ RunBlock(h, b) = e[n]
         /\ e[0] = h
         /\ \A i \in 1 .. n : e[i] = FrameStep(b, i, e[i - 1])
  BY RunBlockIs DEF n
<1>13. PICK g \in [0 .. n + m -> Histories] :
         /\ RunBlock(h, x) = g[n + m]
         /\ g[0] = h
         /\ \A i \in 1 .. n + m : g[i] = FrameStep(x, i, g[i - 1])
  <2>1. Len(x.frames) = n + m
    BY <1>3, <1>8
  <2> QED BY <2>1, <1>7, RunBlockIs
<1>14. e[n] \in Histories
  BY <1>1, <1>12
<1>15. PICK f \in [0 .. m -> Histories] :
         /\ RunBlock(e[n], c) = f[m]
         /\ f[0] = e[n]
         /\ \A i \in 1 .. m : f[i] = FrameStep(c, i, f[i - 1])
  BY <1>14, RunBlockIs DEF m
<1>16. e[n] = g[n]
  <2> DEFINE S == {i \in 0 .. n : e[i] = g[i]}
  <2>1. 0 \in S
    BY <1>1, <1>12, <1>13
  <2>2. ASSUME NEW i \in 1 .. n, i - 1 \in S  PROVE i \in S
    <3>1. e[i] = FrameStep(b, i, e[i - 1]) /\ g[i] = FrameStep(x, i, g[i - 1])
      BY <1>1, <1>12, <1>13
    <3> QED BY <1>10, <2>2, <3>1
  <2> HIDE DEF S
  <2>3. \A i \in 0 .. n : i \in S
    BY <1>1, <2>1, <2>2, Induction
  <2>4. n \in S
    BY <1>1, <2>3
  <2> QED BY <2>4 DEF S
<1>17. f[m] = g[n + m]
  <2> DEFINE S == {i \in 0 .. m : f[i] = g[n + i]}
  <2>1. 0 \in S
    BY <1>1, <1>15, <1>16
  <2>2. ASSUME NEW i \in 1 .. m, i - 1 \in S  PROVE i \in S
    <3>1. n + i \in 1 .. n + m /\ (n + i) - 1 = n + (i - 1)
      BY <1>1
    <3>2. f[i] = FrameStep(c, i, f[i - 1])
          /\ g[n + i] = FrameStep(x, n + i, g[n + (i - 1)])
      BY <1>13, <1>15, <3>1
    <3> QED BY <1>11, <2>2, <3>2
  <2> HIDE DEF S
  <2>3. \A i \in 0 .. m : i \in S
    BY <1>1, <2>1, <2>2, Induction
  <2>4. m \in S
    BY <1>1, <2>3
  <2> QED BY <2>4 DEF S
<1>18. RunBlock(h, x) = RunBlock(RunBlock(h, b), c)
  BY <1>12, <1>13, <1>15, <1>17
<1> QED BY <1>2, <1>7, <1>9, <1>18

-----------------------------------------------------------------------------
(* What a list does. *)

BlockStep(block, history) ==
  IF IsInput(block) THEN RunBlock(history, block) ELSE history

LEMMA BlockStepType ==
  ASSUME NEW b \in Blocks, NEW h \in Histories
  PROVE  BlockStep(b, h) \in Histories
BY BlockKinds, RunType DEF BlockStep

LEMMA ReplayIs ==
  ASSUME NEW list \in Lists
  PROVE  \E f \in [0 .. Len(list) -> Histories] :
           /\ Replay(list) = f[Len(list)]
           /\ f[0] = <<>>
           /\ \A k \in 1 .. Len(list) : f[k] = BlockStep(list[k], f[k - 1])
<1> DEFINE n == Len(list)
           step == [k \in 1 .. n |-> [v \in Histories |-> BlockStep(list[k], v)]]
           Is(f) == f = [k \in 0 .. n |->
                          IF k = 0 THEN <<>>
                          ELSE IF IsInput(list[k]) THEN RunBlock(f[k - 1], list[k])
                          ELSE f[k - 1]]
<1>1. n \in Nat
  BY LenProperties DEF Lists
<1>2. \A k \in 1 .. n : \A v \in Histories : BlockStep(list[k], v) \in Histories
  BY ListEntry, BlockStepType
<1>3. step \in Steps(n, Histories) /\ <<>> \in Histories
  BY <1>2, EmptySeq DEF Steps, Histories
<1>4. PICK f : Recurs(n, Histories, <<>>, step, f)
  <2> HIDE DEF n, step
  <2> QED BY <1>1, <1>3, Recursion
<1>5. \A k \in 1 .. n : f[k] = BlockStep(list[k], f[k - 1])
  <2> HIDE DEF n
  <2>1. \A k \in 1 .. n : f[k - 1] \in Histories
    BY <1>1, <1>4 DEF Recurs
  <2> QED BY <1>1, <1>4, <2>1 DEF Recurs
<1>6. Is(f)
  <2> HIDE DEF n
  <2> QED BY <1>1, <1>4, <1>5 DEF BlockStep, Recurs
<1> DEFINE g == CHOOSE upto : Is(upto)
<1>7. Is(g)
  <2> HIDE DEF Is
  <2> QED BY <1>6
<1>8. Replay(list) = g[n]
  BY DEF Replay
<1> HIDE DEF g
<1>9. g[0] = <<>> /\ \A k \in 1 .. n : g[k] = BlockStep(list[k], g[k - 1])
  <2> HIDE DEF n
  <2> QED BY <1>1, <1>7 DEF BlockStep
<1>10. \A k \in 0 .. n : g[k] \in Histories
  <2> DEFINE S == {k \in 0 .. n : g[k] \in Histories}
  <2>1. 0 \in S
    BY <1>1, <1>3, <1>9
  <2>2. \A k \in 1 .. n : k - 1 \in S => k \in S
    BY <1>1, <1>2, <1>9
  <2> HIDE DEF S, n
  <2>3. \A k \in 0 .. n : k \in S
    BY <1>1, <2>1, <2>2, Induction
  <2> QED BY <2>3 DEF S
<1>11. g \in [0 .. n -> Histories]
  <2> HIDE DEF n
  <2>1. g = [k \in 0 .. n |-> g[k]]
    BY <1>7
  <2> QED BY <1>10, <2>1
<1> QED BY <1>8, <1>9, <1>11

LEMMA ReplayAppend ==
  /\ Replay(<<>>) = <<>>
  /\ \A list \in Lists, b \in Blocks :
       Replay(Append(list, b)) = BlockStep(b, Replay(list))
  /\ \A list \in Lists : Replay(list) \in Histories
<1>1. Replay(<<>>) = <<>>
  <2>1. <<>> \in Lists /\ Len(<<>>) = 0
    BY EmptySeq DEF Lists
  <2> QED BY <2>1, ReplayIs
<1>2. ASSUME NEW list \in Lists, NEW b \in Blocks
      PROVE  Replay(Append(list, b)) = BlockStep(b, Replay(list))
  <2> DEFINE n == Len(list)
             longer == Append(list, b)
  <2>1. /\ n \in Nat
        /\ longer \in Lists /\ Len(longer) = n + 1
        /\ \A k \in 1 .. n : longer[k] = list[k]
        /\ longer[n + 1] = b
    BY LenProperties, AppendProperties DEF Lists
  <2>2. PICK f \in [0 .. n -> Histories] :
          /\ Replay(list) = f[n]
          /\ f[0] = <<>>
          /\ \A k \in 1 .. n : f[k] = BlockStep(list[k], f[k - 1])
    BY ReplayIs
  <2> HIDE DEF longer
  <2>3. PICK g \in [0 .. Len(longer) -> Histories] :
          /\ Replay(longer) = g[Len(longer)]
          /\ g[0] = <<>>
          /\ \A k \in 1 .. Len(longer) : g[k] = BlockStep(longer[k], g[k - 1])
    BY <2>1, ReplayIs
  <2> DEFINE S == {k \in 0 .. n : f[k] = g[k]}
  <2> HIDE DEF n
  <2>4. 0 \in S
    BY <2>1, <2>2, <2>3
  <2>5. ASSUME NEW k \in 1 .. n, k - 1 \in S  PROVE k \in S
    <3>1. f[k] = BlockStep(list[k], f[k - 1])
          /\ g[k] = BlockStep(longer[k], g[k - 1])
      BY <2>1, <2>2, <2>3
    <3>2. longer[k] = list[k]
      BY <2>1
    <3> QED BY <3>1, <3>2, <2>1, <2>5
  <2>6. n \in S
    <3> HIDE DEF S
    <3>1. \A k \in 0 .. n : k \in S
      BY <2>1, <2>4, <2>5, Induction
    <3> QED BY <2>1, <3>1
  <2>7. g[n + 1] = BlockStep(b, g[n])
    BY <2>1, <2>3
  <2> QED BY <2>1, <2>2, <2>3, <2>6, <2>7 DEF longer
<1>3. \A list \in Lists : Replay(list) \in Histories
  <2>1. ASSUME NEW list \in Lists  PROVE Replay(list) \in Histories
    <3>1. Len(list) \in Nat
      BY LenProperties DEF Lists
    <3> QED BY <3>1, ReplayIs
  <2> QED BY <2>1
<1> QED BY <1>1, <1>2, <1>3

\* Every snapshot is of the state that the inputs before it lead to.
Faithful(list) ==
  \A k \in Snaps(list) : Replay(SubSeq(list, 1, k)) = After(list[k].state)

LEMMA SnapEntry ==
  ASSUME NEW list \in Lists, NEW k
  PROVE  /\ k \in Snaps(list) <=> k \in 1 .. Len(list) /\ IsSnap(list[k])
         /\ k \in Snaps(list) => list[k] \in SnapBlocks /\ list[k].state \in States
<1>1. DOMAIN list = 1 .. Len(list)
  BY LenProperties DEF Lists
<1>2. k \in 1 .. Len(list) => list[k] \in Blocks
  BY ListEntry
<1> QED BY <1>1, <1>2, BlockKinds, SnapKind DEF Snaps

LEMMA FaithfulEmpty == Faithful(<<>>)
<1>1. <<>> \in Lists /\ Len(<<>>) = 0
  BY EmptySeq DEF Lists
<1>2. \A k : k \notin Snaps(<<>>)
  BY <1>1, SnapEntry
<1> QED BY <1>2 DEF Faithful

LEMMA FaithfulAppend ==
  ASSUME NEW list \in Lists, Faithful(list), NEW b \in Blocks,
         IsSnap(b) => Replay(list) = After(b.state)
  PROVE  Faithful(Append(list, b))
<1> DEFINE longer == Append(list, b)
           n == Len(list)
<1>1. /\ n \in Nat
      /\ longer \in Lists /\ Len(longer) = n + 1
      /\ \A k \in 1 .. n : longer[k] = list[k]
      /\ longer[n + 1] = b
  BY LenProperties, AppendProperties DEF Lists
<1>2. \A k \in 0 .. n : SubSeq(longer, 1, k) = SubSeq(list, 1, k)
  BY PrefixOfAppend DEF Lists
<1>3. SubSeq(longer, 1, n + 1) = longer
  BY <1>1, SubSeqFull DEF Lists
<1>4. Replay(longer) = BlockStep(b, Replay(list))
  BY ReplayAppend
<1> HIDE DEF longer, n
<1>5. ASSUME NEW k \in Snaps(longer)
      PROVE  Replay(SubSeq(longer, 1, k)) = After(longer[k].state)
  <2>1. k \in 1 .. n + 1 /\ IsSnap(longer[k])
    BY <1>1, SnapEntry
  <2>2. CASE k = n + 1
    <3>1. IsSnap(b) /\ ~ IsInput(b)
      BY <2>1, <2>2, <1>1, BlockKinds
    <3> QED BY <3>1, <2>2, <1>1, <1>3, <1>4 DEF BlockStep
  <2>3. CASE k # n + 1
    <3>1. k \in 1 .. n /\ k \in 0 .. n
      BY <2>1, <2>3, <1>1
    <3>2. k \in Snaps(list)
      BY <3>1, <2>1, <1>1, SnapEntry DEF n
    <3> QED BY <3>1, <3>2, <1>1, <1>2 DEF Faithful
  <2> QED BY <2>2, <2>3
<1> QED BY <1>5 DEF Faithful, longer

LEMMA FaithfulPrefix ==
  ASSUME NEW list \in Lists, Faithful(list), NEW n \in 0 .. Len(list)
  PROVE  SubSeq(list, 1, n) \in Lists /\ Faithful(SubSeq(list, 1, n))
<1> DEFINE p == SubSeq(list, 1, n)
<1>1. p \in Lists /\ Len(p) = n /\ \A i \in 1 .. n : p[i] = list[i]
  BY Prefix DEF Lists
<1>2. Len(list) \in Nat
  BY LenProperties DEF Lists
<1> HIDE DEF p
<1>3. ASSUME NEW k \in Snaps(p)
      PROVE  Replay(SubSeq(p, 1, k)) = After(p[k].state)
  <2>1. k \in 1 .. n /\ IsSnap(p[k])
    BY <1>1, SnapEntry
  <2>2. k \in Snaps(list) /\ p[k] = list[k]
    BY <2>1, <1>1, <1>2, SnapEntry
  <2>3. SubSeq(p, 1, k) = SubSeq(list, 1, k)
    <3>1. k \in 0 .. Len(list) /\ k \in 0 .. Len(p)
      BY <2>1, <1>1, <1>2
    <3>2. /\ SubSeq(p, 1, k) \in Seq(Blocks) /\ Len(SubSeq(p, 1, k)) = k
          /\ \A i \in 1 .. k : SubSeq(p, 1, k)[i] = p[i]
      BY <3>1, <1>1, Prefix DEF Lists
    <3>3. /\ SubSeq(list, 1, k) \in Seq(Blocks) /\ Len(SubSeq(list, 1, k)) = k
          /\ \A i \in 1 .. k : SubSeq(list, 1, k)[i] = list[i]
      BY <3>1, <1>1, Prefix DEF Lists
    <3>4. \A i \in 1 .. k : SubSeq(p, 1, k)[i] = SubSeq(list, 1, k)[i]
      BY <3>2, <3>3, <2>1, <1>1
    <3> QED BY <3>2, <3>3, <3>4, SeqEqual
  <2> QED BY <2>2, <2>3 DEF Faithful
<1> QED BY <1>1, <1>3 DEF Faithful, p

LEMMA ReplaceLast ==
  ASSUME NEW list \in Lists, list # <<>>, NEW b \in Blocks
  PROVE  LET front == SubSeq(list, 1, Len(list) - 1)
         IN /\ front \in Lists
            /\ list = Append(front, Last(list))
            /\ [list EXCEPT ![Len(list)] = b] = Append(front, b)
            /\ Last(list) \in Blocks
            /\ Len(list) \in Nat \ {0}
<1> DEFINE n == Len(list)
           front == SubSeq(list, 1, n - 1)
           changed == [list EXCEPT ![n] = b]
<1>1. n \in Nat \ {0} /\ list \in Seq(Blocks)
  BY EmptySeq DEF Lists
<1>2. n - 1 \in 0 .. n /\ n \in 1 .. n
  BY <1>1
<1>3. /\ front \in Seq(Blocks) /\ Len(front) = n - 1
      /\ \A i \in 1 .. n - 1 : front[i] = list[i]
  BY <1>1, <1>2, Prefix
<1>4. list[n] \in Blocks
  BY <1>1, <1>2, ElementOfSeq
<1>5. list = Append(front, list[n])
  BY <1>1, <1>2, PrefixStep, FullPrefix
<1>6. /\ changed \in Seq(Blocks) /\ Len(changed) = n
      /\ \A j \in 1 .. n : changed[j] = IF j = n THEN b ELSE list[j]
  BY <1>1, <1>2, ExceptSeq
<1> HIDE DEF front, changed, n
<1>7. /\ Append(front, b) \in Seq(Blocks) /\ Len(Append(front, b)) = n
      /\ \A i \in 1 .. n - 1 : Append(front, b)[i] = front[i]
      /\ Append(front, b)[n] = b
  BY <1>1, <1>3, AppendProperties
<1>8. \A j \in 1 .. n : changed[j] = Append(front, b)[j]
  BY <1>1, <1>3, <1>6, <1>7
<1>9. changed = Append(front, b)
  BY <1>6, <1>7, <1>8, SeqEqual
<1> QED BY <1>1, <1>3, <1>4, <1>5, <1>9 DEF Lists, Last, changed, front, n

HasInput(list) == \E k \in 1 .. Len(list) : IsInput(list[k])
Plain(list) == \A k \in 1 .. Len(list) : IsSnap(list[k]) => list[k].automatic = FALSE

\* No input block is without a frame; none but perhaps the last is.
Filled(list) == \A k \in 1 .. Len(list) : IsInput(list[k]) => Frames(list[k]) # 0
FilledButLast(list) ==
  \A k \in 1 .. Len(list) - 1 : IsInput(list[k]) => Frames(list[k]) # 0

LEMMA AppendKinds ==
  ASSUME NEW list \in Lists, NEW b \in Blocks
  PROVE  /\ Append(list, b) \in Lists
         /\ HasInput(Append(list, b)) <=> HasInput(list) \/ IsInput(b)
         /\ FilledButLast(Append(list, b)) <=> Filled(list)
         /\ Filled(Append(list, b)) <=>
              Filled(list) /\ (IsInput(b) => Frames(b) # 0)
         /\ Plain(Append(list, b)) <=>
              Plain(list) /\ (IsSnap(b) => b.automatic = FALSE)
<1> DEFINE longer == Append(list, b)
           n == Len(list)
<1>1. /\ n \in Nat
      /\ longer \in Lists /\ Len(longer) = n + 1
      /\ \A k \in 1 .. n : longer[k] = list[k]
      /\ longer[n + 1] = b
  BY LenProperties, AppendProperties DEF Lists
<1> HIDE DEF longer, n
<1>2. 1 .. n + 1 = (1 .. n) \cup {n + 1}
  BY <1>1
<1>3. HasInput(longer) <=> (\E k \in 1 .. n : IsInput(list[k])) \/ IsInput(b)
  BY <1>1, <1>2 DEF HasInput
<1>4. Plain(longer) <=>
        /\ \A k \in 1 .. n : IsSnap(list[k]) => list[k].automatic = FALSE
        /\ IsSnap(b) => b.automatic = FALSE
  BY <1>1, <1>2 DEF Plain
<1>5. Filled(longer) <=>
        /\ \A k \in 1 .. n : IsInput(list[k]) => Frames(list[k]) # 0
        /\ IsInput(b) => Frames(b) # 0
  BY <1>1, <1>2 DEF Filled
<1>6. FilledButLast(longer) <=>
        \A k \in 1 .. n : IsInput(list[k]) => Frames(list[k]) # 0
  <2>1. Len(longer) - 1 = n
    BY <1>1
  <2> QED BY <1>1, <2>1 DEF FilledButLast
<1> QED BY <1>1, <1>3, <1>4, <1>5, <1>6 DEF HasInput, Plain, Filled, longer, n

\* What comes before the last block, and before a snapshot, is closed.
LEMMA FilledFront ==
  ASSUME NEW list \in Lists, list # <<>>, FilledButLast(list)
  PROVE  /\ Filled(SubSeq(list, 1, Len(list) - 1))
         /\ \A k \in Snaps(list) : Filled(SubSeq(list, 1, k))
         /\ Filled(list) <=> (IsInput(Last(list)) => Frames(Last(list)) # 0)
<1> DEFINE front == SubSeq(list, 1, Len(list) - 1)
<1>1. /\ front \in Lists /\ list = Append(front, Last(list))
      /\ Last(list) \in Blocks /\ Len(list) \in Nat \ {0}
  <2>1. Len(list) \in Nat \ {0}
    BY EmptySeq DEF Lists
  <2>2. list[Len(list)] \in Blocks
    BY <2>1, ListEntry
  <2> QED BY <2>2, ReplaceLast
<1> HIDE DEF front
<1>2. Filled(front) /\ (Filled(list) <=> (IsInput(Last(list)) => Frames(Last(list)) # 0))
  <2> DEFINE last == Last(list)
  <2>1. front \in Lists /\ last \in Blocks /\ list = Append(front, last)
    BY <1>1
  <2> HIDE DEF last
  <2>2. /\ FilledButLast(Append(front, last)) <=> Filled(front)
        /\ Filled(Append(front, last)) <=>
             Filled(front) /\ (IsInput(last) => Frames(last) # 0)
    BY <2>1, AppendKinds
  <2>3. /\ FilledButLast(list) <=> Filled(front)
        /\ Filled(list) <=> Filled(front) /\ (IsInput(last) => Frames(last) # 0)
    BY <2>1, <2>2, Zenon
  <2> QED BY <2>3 DEF last
<1>3. ASSUME NEW k \in Snaps(list)  PROVE Filled(SubSeq(list, 1, k))
  <2>1. k \in 1 .. Len(list) /\ IsSnap(list[k]) /\ ~ IsInput(list[k])
    BY SnapEntry, ListEntry, BlockKinds
  <2>2. k \in 0 .. Len(list)
    BY <1>1, <2>1
  <2>3. /\ Len(SubSeq(list, 1, k)) = k
        /\ \A i \in 1 .. k : SubSeq(list, 1, k)[i] = list[i]
    BY <2>2, Prefix DEF Lists
  <2>4. \A i \in 1 .. k : i = k \/ i \in 1 .. Len(list) - 1
    BY <1>1, <2>1
  <2> QED BY <2>1, <2>3, <2>4 DEF Filled, FilledButLast
<1> QED BY <1>2, <1>3 DEF front

\* libspectrum_rzx_finalise's step: two neighbours joined do what they did.
LEMMA JoinedList ==
  ASSUME NEW list \in Lists, NEW b \in Blocks
  PROVE  /\ Joined(list, b) \in Lists
         /\ Replay(Joined(list, b)) = BlockStep(b, Replay(list))
         /\ Faithful(list) /\ (IsSnap(b) => Replay(list) = After(b.state))
              => Faithful(Joined(list, b))
         /\ HasInput(list) \/ IsInput(b) => HasInput(Joined(list, b))
         /\ Plain(list) /\ (IsSnap(b) => b.automatic = FALSE)
              => Plain(Joined(list, b))
         /\ Filled(list) /\ (IsInput(b) => Frames(b) # 0)
              => Filled(Joined(list, b))
<1>1. CASE ~ (IsInput(b) /\ list # <<>> /\ IsInput(Last(list)))
  <2>1. Joined(list, b) = Append(list, b)
    BY <1>1 DEF Joined
  <2>2. Replay(Append(list, b)) = BlockStep(b, Replay(list))
    BY ReplayAppend
  <2>3. Faithful(list) /\ (IsSnap(b) => Replay(list) = After(b.state))
          => Faithful(Append(list, b))
    BY FaithfulAppend
  <2> QED BY <2>1, <2>2, <2>3, AppendKinds
<1>2. CASE IsInput(b) /\ list # <<>> /\ IsInput(Last(list))
  <2> DEFINE front == SubSeq(list, 1, Len(list) - 1)
             last == Last(list)
             both == Merged(last, b)
  <2>1. /\ front \in Lists
        /\ list = Append(front, last)
        /\ last \in Blocks
        /\ Len(list) \in Nat \ {0}
    BY <1>2, ReplaceLast
  <2>2. b \in InputBlocks /\ last \in InputBlocks
    BY <1>2, <2>1, BlockKinds
  <2>3. both \in InputBlocks
    BY <2>2, <2>1, ReplayAppend, MergedRun
  <2>4. both \in Blocks /\ IsInput(both) /\ ~ IsSnap(both) /\ ~ IsSnap(last)
    BY <2>2, <2>3, InputKind
  <2>5. Joined(list, b) = Append(front, both)
    BY <1>2, <2>4, ReplaceLast DEF Joined
  <2> HIDE DEF front, last, both
  <2>6. Replay(front) \in Histories
    BY <2>1, ReplayAppend
  <2>7. RunBlock(Replay(front), both) = RunBlock(RunBlock(Replay(front), last), b)
    BY <2>2, <2>6, MergedRun DEF both
  <2>8. Replay(list) = RunBlock(Replay(front), last)
    BY <2>1, <2>2, ReplayAppend, InputKind DEF BlockStep
  <2>9. Replay(Append(front, both)) = RunBlock(Replay(front), both)
    BY <2>1, <2>4, ReplayAppend DEF BlockStep
  <2>10. Replay(Append(front, both)) = BlockStep(b, Replay(list))
    BY <1>2, <2>7, <2>8, <2>9 DEF BlockStep
  <2>11. Faithful(list) => Faithful(front)
    <3>1. Len(list) - 1 \in 0 .. Len(list)
      BY <2>1
    <3> QED BY <3>1, FaithfulPrefix DEF front
  <2>12. Faithful(list) => Faithful(Append(front, both))
    BY <2>1, <2>4, <2>11, FaithfulAppend
  <2>13. HasInput(Append(front, both)) /\ (Plain(list) => Plain(Append(front, both)))
    BY <2>1, <2>4, AppendKinds
  <2>14. Filled(list) => Filled(Append(front, both))
    <3>1. Frames(both) = Frames(last) + Frames(b)
          /\ Frames(last) \in Nat /\ Frames(b) \in Nat
      BY <2>1, <2>2, <2>6, MergedRun, FramesType DEF both
    <3>2. Filled(list) => Filled(front) /\ Frames(last) # 0
      BY <2>1, <2>2, AppendKinds, InputKind
    <3>3. Frames(last) # 0 => Frames(both) # 0
      BY <3>1
    <3> QED BY <2>1, <2>4, <3>2, <3>3, AppendKinds
  <2> QED BY <2>1, <2>4, <2>5, <2>10, <2>12, <2>13, <2>14, AppendKinds
<1> QED BY <1>1, <1>2

\* The prefixes of a list, one block at a time.
LEMMA ListPrefix ==
  ASSUME NEW list \in Lists, NEW k \in 1 .. Len(list)
  PROVE  /\ Len(list) \in Nat
         /\ list[k] \in Blocks
         /\ SubSeq(list, 1, k - 1) \in Lists
         /\ SubSeq(list, 1, k) \in Lists
         /\ SubSeq(list, 1, k) = Append(SubSeq(list, 1, k - 1), list[k])
         /\ Replay(SubSeq(list, 1, k)) =
              BlockStep(list[k], Replay(SubSeq(list, 1, k - 1)))
         /\ CountFrames(SubSeq(list, 1, k)) =
              CountFrames(SubSeq(list, 1, k - 1)) + Frames(list[k])
<1>1. Len(list) \in Nat
  BY LenProperties DEF Lists
<1>2. k - 1 \in 0 .. Len(list) /\ k \in 0 .. Len(list)
  BY <1>1
<1>3. SubSeq(list, 1, k - 1) \in Lists /\ SubSeq(list, 1, k) \in Lists
  BY <1>2, Prefix DEF Lists
<1>4. SubSeq(list, 1, k) = Append(SubSeq(list, 1, k - 1), list[k])
  BY PrefixStep DEF Lists
<1> QED BY <1>1, <1>3, <1>4, ListEntry, ReplayAppend, CountFramesAppend

LEMMA SnapStep ==
  ASSUME NEW list \in Lists, NEW k \in Snaps(list)
  PROVE  /\ k \in 1 .. Len(list)
         /\ Replay(SubSeq(list, 1, k)) = Replay(SubSeq(list, 1, k - 1))
         /\ CountFrames(SubSeq(list, 1, k)) = CountFrames(SubSeq(list, 1, k - 1))
         /\ Faithful(list) =>
              Replay(SubSeq(list, 1, k - 1)) = After(list[k].state)
<1>1. k \in 1 .. Len(list) /\ IsSnap(list[k]) /\ list[k] \in Blocks
  BY SnapEntry, ListEntry
<1>2. ~ IsInput(list[k])
  BY <1>1, BlockKinds
<1>3. Replay(SubSeq(list, 1, k)) = Replay(SubSeq(list, 1, k - 1))
  BY <1>1, <1>2, ListPrefix DEF BlockStep
<1>4. /\ SubSeq(list, 1, k - 1) \in Lists
      /\ CountFrames(SubSeq(list, 1, k)) =
           CountFrames(SubSeq(list, 1, k - 1)) + Frames(list[k])
  BY <1>1, ListPrefix
<1>5. Frames(list[k]) = 0
  BY <1>2 DEF Frames
<1>6. CountFrames(SubSeq(list, 1, k - 1)) \in Nat
  BY <1>4, CountFramesAppend
<1>7. CountFrames(SubSeq(list, 1, k)) = CountFrames(SubSeq(list, 1, k - 1))
  BY <1>4, <1>5, <1>6
<1> QED BY <1>1, <1>3, <1>7 DEF Faithful

\* libspectrum_rzx_finalise loses nothing that is replayed.
LEMMA Finalised ==
  ASSUME NEW list \in Lists
  PROVE  /\ libspectrum_rzx_finalise(list) \in Lists
         /\ Replay(libspectrum_rzx_finalise(list)) = Replay(list)
         /\ Faithful(list) => Faithful(libspectrum_rzx_finalise(list))
         /\ HasInput(list) => HasInput(libspectrum_rzx_finalise(list))
         /\ Plain(list) => Plain(libspectrum_rzx_finalise(list))
         /\ Filled(list) => Filled(libspectrum_rzx_finalise(list))
<1> DEFINE n == Len(list)
           skipped(k) == k \in Snaps(list) /\ k # Min(Snaps(list))
           step == [k \in 1 .. n |-> [v \in Lists |->
                     IF skipped(k) THEN v ELSE Joined(v, list[k])]]
           Is(f) == f = [k \in 0 .. n |->
                          IF k = 0 THEN <<>>
                          ELSE IF k \in Snaps(list) /\ k # Min(Snaps(list))
                               THEN f[k - 1]
                          ELSE Joined(f[k - 1], list[k])]
<1>1. n \in Nat
  BY LenProperties DEF Lists
<1>2. \A k \in 1 .. n : \A v \in Lists : Joined(v, list[k]) \in Lists
  BY ListEntry, JoinedList
<1>3. step \in Steps(n, Lists) /\ <<>> \in Lists
  BY <1>2, EmptySeq DEF Steps, Lists
<1>4. PICK f : Recurs(n, Lists, <<>>, step, f)
  <2> HIDE DEF n, step
  <2> QED BY <1>1, <1>3, Recursion
<1>5. \A k \in 1 .. n :
        f[k] = IF skipped(k) THEN f[k - 1] ELSE Joined(f[k - 1], list[k])
  <2> HIDE DEF n, skipped
  <2>1. \A k \in 1 .. n : f[k - 1] \in Lists
    BY <1>1, <1>4 DEF Recurs
  <2> QED BY <1>1, <1>4, <2>1 DEF Recurs
<1>6. Is(f)
  <2> HIDE DEF n
  <2> QED BY <1>1, <1>4, <1>5 DEF Recurs
<1> DEFINE g == CHOOSE upto : Is(upto)
<1>7. Is(g)
  <2> HIDE DEF Is
  <2> QED BY <1>6
<1>8. libspectrum_rzx_finalise(list) = g[n]
  BY DEF libspectrum_rzx_finalise
<1> HIDE DEF g
<1>9. g[0] = <<>>
      /\ \A k \in 1 .. n :
           g[k] = IF skipped(k) THEN g[k - 1] ELSE Joined(g[k - 1], list[k])
  <2> HIDE DEF n
  <2> QED BY <1>1, <1>7
<1> DEFINE p(k) == SubSeq(list, 1, k)
           Good(k) == /\ g[k] \in Lists
                      /\ Replay(g[k]) = Replay(p(k))
                      /\ Faithful(list) => Faithful(g[k])
                      /\ (\E i \in 1 .. k : IsInput(list[i])) => HasInput(g[k])
                      /\ Plain(list) => Plain(g[k])
                      /\ Filled(list) => Filled(g[k])
           S == {k \in 0 .. n : Good(k)}
<1>10. Good(0)
  <2>1. g[0] = <<>> /\ p(0) = <<>> /\ <<>> \in Lists
    BY <1>3, <1>9, SubSeqEmpty
  <2>2. Plain(<<>>) /\ Filled(<<>>)
    BY EmptySeq DEF Plain, Filled
  <2>3. ~ \E i \in 1 .. 0 : IsInput(list[i])
    OBVIOUS
  <2> HIDE DEF p
  <2> QED BY <2>1, <2>2, <2>3, FaithfulEmpty
<1>11. ASSUME NEW k \in 1 .. n, Good(k - 1)  PROVE Good(k)
  <2>1. /\ list[k] \in Blocks
        /\ p(k - 1) \in Lists
        /\ Replay(p(k)) = BlockStep(list[k], Replay(p(k - 1)))
    BY ListPrefix
  <2>2. \A i \in 1 .. k : i = k \/ i \in 1 .. k - 1
    OBVIOUS
  <2>3. CASE skipped(k)
    <3>1. g[k] = g[k - 1]
      BY <2>3, <1>9
    <3>2. Replay(p(k)) = Replay(p(k - 1))
      BY <2>3, SnapStep
    <3>3. ~ IsInput(list[k])
      BY <2>1, <2>3, SnapEntry, BlockKinds
    <3> HIDE DEF p, n, skipped
    <3> QED BY <1>11, <2>2, <3>1, <3>2, <3>3
  <2>4. CASE ~ skipped(k)
    <3>1. g[k] = Joined(g[k - 1], list[k])
      BY <2>4, <1>9
    <3>2. Faithful(list) /\ IsSnap(list[k]) =>
            Replay(p(k - 1)) = After(list[k].state)
      BY SnapStep, SnapEntry
    <3>3. Plain(list) /\ IsSnap(list[k]) => list[k].automatic = FALSE
      BY DEF Plain
    <3>4. Filled(list) /\ IsInput(list[k]) => Frames(list[k]) # 0
      BY DEF Filled
    <3> HIDE DEF p, n, skipped
    <3> QED BY <1>11, <2>1, <2>2, <3>1, <3>2, <3>3, <3>4, JoinedList
  <2> QED BY <2>3, <2>4
<1>12. Good(n)
  <2> HIDE DEF Good, n
  <2>1. 0 \in S
    BY <1>1, <1>10
  <2>2. \A k \in 1 .. n : k - 1 \in S => k \in S
    BY <1>1, <1>11
  <2> HIDE DEF S
  <2>3. \A k \in 0 .. n : k \in S
    BY <1>1, <2>1, <2>2, Induction
  <2>4. n \in S
    BY <1>1, <2>3
  <2> QED BY <2>4 DEF S
<1>13. p(n) = list
  BY FullPrefix DEF Lists
<1> QED BY <1>8, <1>12, <1>13 DEF HasInput

-----------------------------------------------------------------------------
(* The automatic snapshots. *)

\* How many frames precede a position.
FramesAt(list, k) == CountFrames(SubSeq(list, 1, k))

LEMMA AutosaveEntry ==
  ASSUME NEW list \in Lists, NEW k
  PROVE  /\ k \in Autosaves(list) <=>
              k \in 1 .. Len(list) /\ IsSnap(list[k]) /\ list[k].automatic
         /\ k \in Autosaves(list) => k \in Snaps(list) /\ k \in Nat
         /\ Autosaves(list) \subseteq 1 .. Len(list)
BY SnapEntry DEF Autosaves

LEMMA FramesAtType ==
  ASSUME NEW list \in Lists, NEW k \in 0 .. Len(list)
  PROVE  FramesAt(list, k) \in Nat
BY Prefix, CountFramesAppend DEF FramesAt, Lists

LEMMA FramesAtAppend ==
  ASSUME NEW list \in Lists, NEW b \in Blocks
  PROVE  /\ Append(list, b) \in Lists
         /\ Len(list) \in Nat /\ Len(Append(list, b)) = Len(list) + 1
         /\ \A k \in 0 .. Len(list) :
              FramesAt(Append(list, b), k) = FramesAt(list, k)
         /\ FramesAt(Append(list, b), Len(list) + 1) =
              FramesAt(list, Len(list)) + Frames(b)
         /\ \A k : k \in Autosaves(Append(list, b)) <=>
              \/ k \in Autosaves(list)
              \/ k = Len(list) + 1 /\ IsSnap(b) /\ b.automatic
<1> DEFINE longer == Append(list, b)
           n == Len(list)
<1>1. /\ n \in Nat
      /\ longer \in Lists /\ Len(longer) = n + 1
      /\ \A k \in 1 .. n : longer[k] = list[k]
      /\ longer[n + 1] = b
  BY LenProperties, AppendProperties DEF Lists
<1>2. \A k \in 0 .. n : FramesAt(longer, k) = FramesAt(list, k)
  BY PrefixOfAppend DEF FramesAt, Lists
<1>3. FramesAt(longer, n + 1) = FramesAt(list, n) + Frames(b)
  <2>1. SubSeq(longer, 1, n + 1) = longer /\ SubSeq(list, 1, n) = list
    BY <1>1, FullPrefix DEF Lists
  <2> QED BY <2>1, CountFramesAppend DEF FramesAt
<1> HIDE DEF longer, n
<1>4. ASSUME NEW k
      PROVE  k \in Autosaves(longer) <=>
               k \in Autosaves(list) \/ (k = n + 1 /\ IsSnap(b) /\ b.automatic)
  <2>1. k \in Autosaves(longer) <=>
          k \in 1 .. n + 1 /\ IsSnap(longer[k]) /\ longer[k].automatic
    BY <1>1, AutosaveEntry
  <2>2. k \in Autosaves(list) <=>
          k \in 1 .. n /\ IsSnap(list[k]) /\ list[k].automatic
    BY AutosaveEntry DEF n
  <2>3. k \in 1 .. n + 1 <=> k \in 1 .. n \/ k = n + 1
    BY <1>1
  <2>4. ~ (n + 1 \in 1 .. n)
    BY <1>1
  <2> QED BY <1>1, <2>1, <2>2, <2>3, <2>4
<1> QED BY <1>1, <1>2, <1>3, <1>4 DEF longer, n

\* Each automatic snapshot of one list is one of another, up to a position of
\* it, and they come in the same order.
Among(short, list, kept, k) ==
  /\ \A j \in Autosaves(short) : \E i \in kept :
       i <= k /\ FramesAt(short, j) = FramesAt(list, i)
  /\ \A j1, j2 \in Autosaves(short) : j1 < j2 =>
       \E i1, i2 \in kept :
         /\ i1 < i2 /\ i2 <= k
         /\ FramesAt(short, j1) = FramesAt(list, i1)
         /\ FramesAt(short, j2) = FramesAt(list, i2)

LEMMA AmongLonger ==
  ASSUME NEW short, NEW list, NEW kept, kept \subseteq Int, NEW k \in Int,
         Among(short, list, kept, k - 1)
  PROVE  Among(short, list, kept, k)
<1>1. \A i \in kept : i <= k - 1 => i <= k
  OBVIOUS
<1> QED BY <1>1 DEF Among

LEMMA AmongAppend ==
  ASSUME NEW short \in Lists, NEW list, NEW kept, kept \subseteq Int, NEW k \in Int,
         NEW b \in Blocks,
         Among(short, list, kept, k - 1),
         FramesAt(short, Len(short)) + Frames(b) = FramesAt(list, k),
         IsSnap(b) /\ b.automatic => k \in kept
  PROVE  Among(Append(short, b), list, kept, k)
<1> DEFINE n == Len(short)
           longer == Append(short, b)
<1>1. /\ n \in Nat
      /\ \A j \in 0 .. n : FramesAt(longer, j) = FramesAt(short, j)
      /\ FramesAt(longer, n + 1) = FramesAt(list, k)
      /\ \A j : j \in Autosaves(longer) <=>
           j \in Autosaves(short) \/ (j = n + 1 /\ IsSnap(b) /\ b.automatic)
  BY FramesAtAppend
<1>2. \A j \in Autosaves(short) : j \in 1 .. n
  BY AutosaveEntry
<1> HIDE DEF n, longer
<1>3. \A j \in Autosaves(longer) :
        \/ j \in Autosaves(short) /\ j \in 1 .. n
           /\ FramesAt(longer, j) = FramesAt(short, j)
        \/ j = n + 1 /\ k \in kept /\ FramesAt(longer, j) = FramesAt(list, k)
  BY <1>1, <1>2
<1>4. \A i \in kept : i <= k - 1 => i <= k /\ i < k
  OBVIOUS
<1>5. ASSUME NEW j \in Autosaves(longer)
      PROVE  \E i \in kept : i <= k /\ FramesAt(longer, j) = FramesAt(list, i)
  <2>1. k <= k
    OBVIOUS
  <2> QED BY <1>3, <1>4, <2>1 DEF Among
<1>6. ASSUME NEW j1 \in Autosaves(longer), NEW j2 \in Autosaves(longer), j1 < j2
      PROVE  \E i1, i2 \in kept :
               /\ i1 < i2 /\ i2 <= k
               /\ FramesAt(longer, j1) = FramesAt(list, i1)
               /\ FramesAt(longer, j2) = FramesAt(list, i2)
  <2>1. j1 \in Autosaves(short) /\ FramesAt(longer, j1) = FramesAt(short, j1)
    BY <1>1, <1>3, <1>6
  <2>2. CASE j2 \in Autosaves(short) /\ FramesAt(longer, j2) = FramesAt(short, j2)
    BY <2>1, <2>2, <1>4, <1>6 DEF Among
  <2>3. CASE k \in kept /\ FramesAt(longer, j2) = FramesAt(list, k)
    <3>1. PICK i1 \in kept :
            i1 <= k - 1 /\ FramesAt(short, j1) = FramesAt(list, i1)
      BY <2>1 DEF Among
    <3>2. i1 < k /\ k <= k
      BY <1>4, <3>1
    <3> QED BY <2>1, <2>3, <3>1, <3>2
  <2> QED BY <1>3, <2>2, <2>3
<1> QED BY <1>5, <1>6 DEF Among, longer

\* autosave_prune loses nothing that is replayed, and keeps the order of the
\* snapshots it keeps.
LEMMA Pruned ==
  ASSUME NEW list \in Lists
  PROVE  LET pruned == autosave_prune(list)
         IN /\ pruned \in Lists
            /\ Replay(pruned) = Replay(list)
            /\ CountFrames(pruned) = CountFrames(list)
            /\ Faithful(list) => Faithful(pruned)
            /\ Among(pruned, list, Autosaves(list) \ Deleted(list), Len(list))
            /\ list # <<>> /\ IsInput(Last(list)) =>
                 /\ pruned # <<>> /\ Last(pruned) = Last(list)
                 /\ FilledButLast(list) => FilledButLast(pruned)
<1> DEFINE n == Len(list)
           deleted == Deleted(list)
           kept == Autosaves(list) \ deleted
           add(v, k) == Append(v, list[k])
           step == [k \in 1 .. n |-> [v \in Lists |->
                     IF k \in deleted THEN v ELSE add(v, k)]]
           Is(f) == f = [k \in 0 .. n |->
                          IF k = 0 THEN <<>>
                          ELSE IF k \in deleted THEN f[k - 1]
                          ELSE add(f[k - 1], k)]
<1>1. n \in Nat
  BY LenProperties DEF Lists
<1>2. \A k \in 1 .. n : \A v \in Lists : add(v, k) \in Lists
  BY ListEntry, AppendKinds
<1>3. step \in Steps(n, Lists) /\ <<>> \in Lists
  <2> HIDE DEF deleted, add
  <2>1. step \in Steps(n, Lists)
    BY <1>2 DEF Steps
  <2> QED BY <2>1, EmptySeq DEF Lists
<1>4. PICK f : Recurs(n, Lists, <<>>, step, f)
  <2> HIDE DEF n, step
  <2> QED BY <1>1, <1>3, Recursion
<1>5. \A k \in 1 .. n :
        f[k] = IF k \in deleted THEN f[k - 1] ELSE add(f[k - 1], k)
  <2> HIDE DEF n, deleted, add
  <2>1. \A k \in 1 .. n : f[k - 1] \in Lists
    BY <1>1, <1>4 DEF Recurs
  <2> QED BY <1>1, <1>4, <2>1 DEF Recurs
<1>6. Is(f)
  <2> HIDE DEF n, deleted, add
  <2> QED BY <1>1, <1>4, <1>5 DEF Recurs
<1> DEFINE g == CHOOSE upto : Is(upto)
<1>7. Is(g)
  <2> HIDE DEF Is
  <2> QED BY <1>6
<1>8. autosave_prune(list) = g[n]
  BY DEF autosave_prune
<1> HIDE DEF g
<1>9. g[0] = <<>>
      /\ \A k \in 1 .. n :
           g[k] = IF k \in deleted THEN g[k - 1] ELSE add(g[k - 1], k)
  <2> HIDE DEF n, deleted, add
  <2> QED BY <1>1, <1>7
<1>10. deleted \subseteq Autosaves(list) /\ kept \subseteq Int
  BY AutosaveEntry DEF Deleted
<1> DEFINE p(k) == SubSeq(list, 1, k)
           Good(k) == /\ g[k] \in Lists
                      /\ Replay(g[k]) = Replay(p(k))
                      /\ CountFrames(g[k]) = CountFrames(p(k))
                      /\ Faithful(list) => Faithful(g[k])
                      /\ Among(g[k], list, kept, k)
                      /\ FilledButLast(list) /\ k < n => Filled(g[k])
           S == {k \in 0 .. n : Good(k)}
<1> HIDE DEF deleted, kept
<1>11. Good(0)
  <2>1. g[0] = <<>> /\ p(0) = <<>> /\ <<>> \in Lists
    BY <1>3, <1>9, SubSeqEmpty
  <2>2. Autosaves(<<>>) = {}
    BY <2>1, AutosaveEntry, EmptySeq
  <2>3. Among(<<>>, list, kept, 0)
    BY <2>2 DEF Among
  <2>4. Filled(<<>>)
    BY EmptySeq DEF Filled
  <2> HIDE DEF p
  <2> QED BY <2>1, <2>3, <2>4, FaithfulEmpty
<1>12. ASSUME NEW k \in 1 .. n, Good(k - 1)  PROVE Good(k)
  <2>1. /\ list[k] \in Blocks
        /\ p(k - 1) \in Lists
        /\ Replay(p(k)) = BlockStep(list[k], Replay(p(k - 1)))
        /\ CountFrames(p(k)) = CountFrames(p(k - 1)) + Frames(list[k])
    BY ListPrefix
  <2>2. CASE k \in deleted
    <3>1. g[k] = g[k - 1]
      BY <2>2, <1>9
    <3>2. k \in Snaps(list)
      BY <1>10, <2>2, AutosaveEntry
    <3>3. Replay(p(k)) = Replay(p(k - 1)) /\ CountFrames(p(k)) = CountFrames(p(k - 1))
      BY <3>2, SnapStep
    <3>4. Among(g[k], list, kept, k)
      <4>1. Among(g[k], list, kept, k - 1) /\ k \in Int
        BY <1>12, <3>1
      <4> HIDE DEF Good, n
      <4> QED BY <1>10, <4>1, AmongLonger
    <3>5. FilledButLast(list) /\ k < n => Filled(g[k])
      <4>1. k < n => k - 1 < n
        BY <1>1
      <4> HIDE DEF p, n
      <4> QED BY <1>12, <3>1, <4>1
    <3> HIDE DEF p, n
    <3> QED BY <1>12, <3>1, <3>3, <3>4, <3>5
  <2>3. CASE k \notin deleted
    <3>1. g[k] = Append(g[k - 1], list[k])
      BY <2>3, <1>9
    <3>2. IsSnap(list[k]) => k \in Snaps(list)
      BY SnapEntry
    <3>3. Faithful(list) /\ IsSnap(list[k]) =>
            Replay(p(k - 1)) = After(list[k].state)
      BY <3>2, SnapStep
    <3>4. IsSnap(list[k]) /\ list[k].automatic => k \in kept
      BY <2>3, <3>2 DEF kept, Autosaves
    <3>5. SubSeq(g[k - 1], 1, Len(g[k - 1])) = g[k - 1]
      BY <1>12, FullPrefix DEF Lists
    <3>6. FramesAt(g[k - 1], Len(g[k - 1])) + Frames(list[k]) = FramesAt(list, k)
      BY <1>12, <2>1, <3>5 DEF FramesAt
    <3>7. k \in Int
      OBVIOUS
    <3>8. Among(g[k], list, kept, k)
      <4>1. g[k - 1] \in Lists /\ Among(g[k - 1], list, kept, k - 1)
        BY <1>12
      <4> HIDE DEF p, n
      <4>2. Among(Append(g[k - 1], list[k]), list, kept, k)
        BY <1>10, <2>1, <3>4, <3>6, <3>7, <4>1, AmongAppend
      <4> QED BY <3>1, <4>2
    <3>9. /\ g[k] \in Lists
          /\ Replay(g[k]) = BlockStep(list[k], Replay(g[k - 1]))
          /\ CountFrames(g[k]) = CountFrames(g[k - 1]) + Frames(list[k])
      BY <1>12, <2>1, <3>1, AppendKinds, ReplayAppend, CountFramesAppend
    <3>10. Faithful(list) => Faithful(g[k])
      <4> HIDE DEF p, n
      <4> QED BY <1>12, <2>1, <3>1, <3>3, FaithfulAppend
    <3>11. FilledButLast(list) /\ k < n => Filled(g[k])
      <4>1. k < n => k - 1 < n
        BY <1>1
      <4>2. FilledButLast(list) /\ k < n /\ IsInput(list[k]) => Frames(list[k]) # 0
        <5>1. k < n => k \in 1 .. n - 1
          BY <1>1
        <5> QED BY <5>1 DEF FilledButLast
      <4> HIDE DEF p, n
      <4> QED BY <1>12, <2>1, <3>1, <4>1, <4>2, AppendKinds
    <3> HIDE DEF p, n
    <3> QED BY <1>12, <2>1, <3>8, <3>9, <3>10, <3>11
  <2> QED BY <2>2, <2>3
<1>13. \A k \in 0 .. n : Good(k)
  <2> HIDE DEF Good, n
  <2>1. 0 \in S
    BY <1>1, <1>11
  <2>2. \A k \in 1 .. n : k - 1 \in S => k \in S
    BY <1>1, <1>12
  <2> HIDE DEF S
  <2>3. \A k \in 0 .. n : k \in S
    BY <1>1, <2>1, <2>2, Induction
  <2> QED BY <2>3 DEF S
<1>14. Good(n) /\ p(n) = list
  <2>1. p(n) = list
    BY FullPrefix DEF Lists
  <2> HIDE DEF Good, p, n
  <2> QED BY <1>1, <1>13, <2>1
<1>15. ASSUME list # <<>>, IsInput(Last(list))
       PROVE  /\ g[n] # <<>> /\ Last(g[n]) = Last(list)
              /\ FilledButLast(list) => FilledButLast(g[n])
  <2>1. n \in 1 .. n /\ n - 1 \in 0 .. n /\ Last(list) = list[n] /\ list[n] \in Blocks
    <3>1. n \in Nat \ {0} /\ Last(list) = list[n]
      BY <1>15, EmptySeq DEF Lists, Last
    <3>2. n \in 1 .. n /\ n - 1 \in 0 .. n
      BY <3>1
    <3> QED BY <3>1, <3>2, ListEntry
  <2>2. n \notin deleted
    BY <1>10, <1>15, <2>1, AutosaveEntry, BlockKinds
  <2>3. g[n] = Append(g[n - 1], list[n])
    BY <1>9, <2>1, <2>2
  <2>4. g[n - 1] \in Lists /\ (FilledButLast(list) => Filled(g[n - 1]))
    <3>1. n - 1 < n
      BY <1>1
    <3> HIDE DEF p, n
    <3> QED BY <1>13, <2>1, <3>1
  <2>5. FilledButLast(list) => FilledButLast(g[n])
    <3> HIDE DEF n
    <3> QED BY <2>1, <2>3, <2>4, AppendKinds
  <2> HIDE DEF n
  <2>6. Len(g[n - 1]) \in Nat /\ Append(g[n - 1], list[n]) # <<>>
        /\ Len(Append(g[n - 1], list[n])) = Len(g[n - 1]) + 1
        /\ Append(g[n - 1], list[n])[Len(g[n - 1]) + 1] = list[n]
    BY <2>1, <2>4, LenProperties, AppendProperties DEF Lists
  <2> QED BY <2>1, <2>3, <2>5, <2>6 DEF Last
<1> QED BY <1>8, <1>14, <1>15 DEF kept, deleted

\* Reading the file back changes nothing that is replayed.
LEMMA WrittenList ==
  ASSUME NEW list \in Lists
  PROVE  /\ Written(list) \in Lists
         /\ Len(Written(list)) = Len(list)
         /\ Replay(Written(list)) = Replay(list)
         /\ Faithful(list) => Faithful(Written(list))
         /\ HasInput(list) => HasInput(Written(list))
         /\ Plain(Written(list))
         /\ Filled(list) => Filled(Written(list))
<1> DEFINE n == Len(list)
           w == Written(list)
<1>1. n \in Nat /\ DOMAIN list = 1 .. n
  BY LenProperties DEF Lists
<1>2. ASSUME NEW k \in 1 .. n
      PROVE  /\ w[k] \in Blocks
             /\ IsInput(w[k]) <=> IsInput(list[k])
             /\ IsInput(list[k]) => w[k] = list[k]
             /\ IsSnap(list[k]) => w[k].state = list[k].state
             /\ IsSnap(w[k]) => w[k].automatic = FALSE
             /\ IsSnap(w[k]) <=> IsSnap(list[k])
  <2>1. list[k] \in Blocks
    BY ListEntry
  <2>2. CASE IsInput(list[k])
    <3>1. ~ IsSnap(list[k])
      BY <2>1, <2>2, BlockKinds
    <3>2. w[k] = list[k]
      BY <1>1, <3>1 DEF Written
    <3> QED BY <2>1, <2>2, <3>1, <3>2
  <2>3. CASE IsSnap(list[k])
    <3>1. list[k] \in [type : {"snap"}, state : States, automatic : BOOLEAN]
      BY <2>1, <2>3, BlockKinds DEF SnapBlocks
    <3>2. w[k] = [list[k] EXCEPT !.automatic = FALSE]
      BY <1>1, <2>3 DEF Written
    <3>3. w[k] = [type |-> "snap", state |-> list[k].state, automatic |-> FALSE]
      BY <3>1, <3>2
    <3>4. w[k] \in SnapBlocks
      BY <3>1, <3>3 DEF SnapBlocks
    <3>5. ~ IsInput(list[k])
      BY <2>1, <2>3, BlockKinds
    <3> QED BY <2>3, <3>3, <3>4, <3>5, SnapKind
  <2> QED BY <2>1, <2>2, <2>3, BlockKinds
<1>3. w \in Lists /\ Len(w) = n
  <2>1. w = [k \in 1 .. n |-> w[k]] /\ n \in Nat
    BY <1>1 DEF Written
  <2>2. w \in [1 .. n -> Blocks]
    <3> HIDE DEF w, n
    <3> QED BY <1>2, <2>1
  <2> HIDE DEF w, n
  <2> QED BY <2>1, <2>2, <1>1 DEF Lists
<1>4. PICK f \in [0 .. n -> Histories] :
        /\ Replay(list) = f[n]
        /\ f[0] = <<>>
        /\ \A k \in 1 .. n : f[k] = BlockStep(list[k], f[k - 1])
  BY ReplayIs
<1> HIDE DEF w
<1>5. \A k \in 0 .. n : SubSeq(w, 1, k) \in Lists /\ SubSeq(list, 1, k) \in Lists
  BY <1>3, Prefix DEF Lists
<1>6. \A k \in 1 .. n :
        /\ Replay(SubSeq(w, 1, k)) = BlockStep(w[k], Replay(SubSeq(w, 1, k - 1)))
        /\ Replay(SubSeq(list, 1, k)) =
             BlockStep(list[k], Replay(SubSeq(list, 1, k - 1)))
  <2>1. Len(w) = n
    BY <1>3
  <2> QED BY <1>3, <2>1, ListPrefix
<1>7. \A k \in 0 .. n : Replay(SubSeq(w, 1, k)) = Replay(SubSeq(list, 1, k))
  <2> DEFINE p(k) == SubSeq(w, 1, k)
             q(k) == SubSeq(list, 1, k)
             S == {k \in 0 .. n : Replay(p(k)) = Replay(q(k))}
  <2> HIDE DEF n
  <2>1. 0 \in S
    <3>1. p(0) = <<>> /\ q(0) = <<>>
      BY <1>3, FullPrefix DEF Lists
    <3>2. 0 \in 0 .. n
      BY <1>1
    <3> HIDE DEF p, q
    <3> QED BY <3>1, <3>2
  <2>2. ASSUME NEW k \in 1 .. n, k - 1 \in S  PROVE k \in S
    <3>1. BlockStep(w[k], Replay(SubSeq(w, 1, k - 1))) =
            BlockStep(list[k], Replay(SubSeq(w, 1, k - 1)))
      BY <1>2 DEF BlockStep
    <3> QED BY <1>1, <1>6, <2>2, <3>1
  <2> HIDE DEF S
  <2>3. \A k \in 0 .. n : k \in S
    BY <1>1, <2>1, <2>2, Induction
  <2> QED BY <2>3 DEF S
<1>8. Replay(w) = Replay(list)
  <2>1. SubSeq(w, 1, n) = w /\ SubSeq(list, 1, n) = list /\ n \in 0 .. n
    BY <1>1, <1>3, FullPrefix DEF Lists
  <2> HIDE DEF n
  <2> QED BY <1>7, <2>1
<1>9. ASSUME Faithful(list), NEW k \in Snaps(w)
      PROVE  Replay(SubSeq(w, 1, k)) = After(w[k].state)
  <2>1. k \in 1 .. n /\ IsSnap(w[k])
    BY <1>3, SnapEntry
  <2>2. IsSnap(list[k]) /\ w[k].state = list[k].state
    BY <1>2, <2>1
  <2>3. k \in Snaps(list) /\ k \in 0 .. n
    BY <1>1, <2>1, <2>2, SnapEntry
  <2> QED BY <1>7, <1>9, <2>2, <2>3 DEF Faithful
<1>10. HasInput(list) => HasInput(w)
  BY <1>2, <1>3 DEF HasInput
<1>11. Plain(w)
  BY <1>2, <1>3 DEF Plain
<1>12. Filled(list) => Filled(w)
  BY <1>2, <1>3 DEF Filled
<1> QED BY <1>3, <1>8, <1>9, <1>10, <1>11, <1>12 DEF Faithful, w

LEMMA FramesAtMonotone ==
  ASSUME NEW list \in Lists, NEW i \in 0 .. Len(list), NEW k \in 0 .. Len(list),
         i <= k
  PROVE  FramesAt(list, i) <= FramesAt(list, k)
<1> DEFINE n == Len(list)
           S == {m \in 0 .. n : i <= m => FramesAt(list, i) <= FramesAt(list, m)}
<1>1. n \in Nat
  BY LenProperties DEF Lists
<1>2. \A m \in 0 .. n : FramesAt(list, m) \in Nat
  BY FramesAtType
<1>3. \A m \in 1 .. n : /\ FramesAt(list, m) = FramesAt(list, m - 1) + Frames(list[m])
                        /\ Frames(list[m]) \in Nat
  BY ListPrefix, FramesType DEF FramesAt
<1> HIDE DEF n
<1>4. i \in 0 .. n /\ k \in 0 .. n
  BY DEF n
<1>5. 0 \in S
  BY <1>1, <1>2, <1>4
<1>6. ASSUME NEW m \in 1 .. n, m - 1 \in S  PROVE m \in S
  <2>1. m - 1 \in 0 .. n /\ m \in 0 .. n
    BY <1>1
  <2>2. CASE i <= m - 1
    <3>1. FramesAt(list, i) <= FramesAt(list, m - 1)
      BY <1>6, <2>2
    <3> QED BY <1>2, <1>3, <1>4, <2>1, <3>1
  <2>3. CASE ~ (i <= m - 1)
    <3>1. i <= m => i = m
      BY <1>4, <2>1, <2>3
    <3> QED BY <1>2, <1>4, <2>1, <3>1
  <2> QED BY <2>2, <2>3
<1>7. k \in S
  <2> HIDE DEF S
  <2>1. \A m \in 0 .. n : m \in S
    BY <1>1, <1>5, <1>6, Induction
  <2> QED BY <1>4, <2>1
<1> QED BY <1>7

LEMMA AgeIs ==
  ASSUME NEW list \in Lists, NEW k \in 0 .. Len(list)
  PROVE  /\ Age(list, k) = FramesAt(list, Len(list)) - FramesAt(list, k)
         /\ FramesAt(list, k) \in Nat
         /\ FramesAt(list, Len(list)) \in Nat
         /\ Age(list, k) \in Nat
<1>1. Len(list) \in 0 .. Len(list) /\ k <= Len(list)
  BY LenProperties DEF Lists
<1>2. FramesAt(list, Len(list)) = CountFrames(list)
  BY FullPrefix DEF FramesAt, Lists
<1>3. FramesAt(list, k) <= FramesAt(list, Len(list))
  BY <1>1, FramesAtMonotone
<1>4. FramesAt(list, k) \in Nat /\ FramesAt(list, Len(list)) \in Nat
  BY <1>1, FramesAtType
<1>5. Age(list, k) = FramesAt(list, Len(list)) - FramesAt(list, k)
  BY <1>2 DEF Age, FramesAt
<1> QED BY <1>3, <1>4, <1>5

LEMMA AgeAppend ==
  ASSUME NEW list \in Lists, NEW b \in Blocks, NEW k \in 0 .. Len(list)
  PROVE  Age(Append(list, b), k) = Age(list, k) + Frames(b)
<1> DEFINE longer == Append(list, b)
           n == Len(list)
<1>1. /\ longer \in Lists /\ n \in Nat /\ Len(longer) = n + 1
      /\ FramesAt(longer, k) = FramesAt(list, k)
      /\ FramesAt(longer, n + 1) = FramesAt(list, n) + Frames(b)
  BY FramesAtAppend
<1> HIDE DEF longer, n
<1>2. k \in 0 .. n /\ k \in 0 .. Len(longer)
  BY <1>1 DEF n
<1>3. Age(longer, k) = FramesAt(longer, n + 1) - FramesAt(longer, k)
  BY <1>1, <1>2, AgeIs
<1>4. /\ Age(list, k) = FramesAt(list, n) - FramesAt(list, k)
      /\ FramesAt(list, n) \in Nat /\ FramesAt(list, k) \in Nat
  BY <1>2, AgeIs DEF n
<1>5. Frames(b) \in Nat
  BY FramesType
<1> QED BY <1>1, <1>3, <1>4, <1>5 DEF longer

\* AutosavesSparse, for all pairs.
Sparse(list) ==
  \A k1, k2 \in Autosaves(list) : k1 < k2 =>
    \A age \in AutosaveAges :
      Age(list, k2) >= age => Age(list, k1) - Age(list, k2) >= age

\* Every automatic snapshot is of an age that autosave_prune may look for only
\* when the interval is over.
InPhase(list, count) ==
  \A k \in Autosaves(list) : Age(list, k) % AUTOSAVE_INTERVAL = count

Spacing(list, count) == Sparse(list) /\ InPhase(list, count)

\* Two lists with the same automatic snapshots, of the same ages.
LEMMA SameSpacing ==
  ASSUME NEW list, NEW other, Autosaves(other) = Autosaves(list),
         \A k \in Autosaves(list) : Age(other, k) = Age(list, k),
         NEW count, Spacing(list, count)
  PROVE  Spacing(other, count)
BY DEF Spacing, Sparse, InPhase

\* A block of no frames that is not an automatic snapshot.
LEMMA SpacingAppend ==
  ASSUME NEW list \in Lists, NEW b \in Blocks, Frames(b) = 0,
         IsSnap(b) => b.automatic = FALSE
  PROVE  /\ Autosaves(Append(list, b)) = Autosaves(list)
         /\ \A count : Spacing(list, count) => Spacing(Append(list, b), count)
<1>1. \A k : k \in Autosaves(Append(list, b)) <=> k \in Autosaves(list)
  BY FramesAtAppend
<1>2. Autosaves(Append(list, b)) = Autosaves(list)
  BY <1>1
<1>3. \A k \in Autosaves(list) : k \in 0 .. Len(list)
  BY AutosaveEntry
<1>4. \A k \in Autosaves(list) : Age(Append(list, b), k) = Age(list, k)
  <2>1. ASSUME NEW k \in Autosaves(list)  PROVE Age(Append(list, b), k) = Age(list, k)
    <3>1. k \in 0 .. Len(list)
      BY <1>3
    <3>2. Age(list, k) \in Nat
      BY <3>1, AgeIs
    <3>3. Age(Append(list, b), k) = Age(list, k) + 0
      BY <3>1, AgeAppend
    <3> QED BY <3>2, <3>3
  <2> QED BY <2>1
<1> QED BY <1>2, <1>4, SameSpacing

LEMMA NoAutosaves ==
  ASSUME NEW list, NEW count, Autosaves(list) = {}
  PROVE  Spacing(list, count)
BY DEF Spacing, Sparse, InPhase

LEMMA PlainAutosaves ==
  ASSUME NEW list \in Lists, Plain(list)
  PROVE  Autosaves(list) = {}
BY AutosaveEntry DEF Plain

-----------------------------------------------------------------------------
(* What recording does to a list. *)

\* A list being recorded to, with a machine.
Follows(list, m) ==
  /\ list \in Lists
  /\ list # <<>> /\ IsInput(Last(list)) /\ Compares(Last(list))
  /\ Faithful(list)
  /\ Replay(list) = After(m)

Stored(list, instructions, ins) ==
  [list EXCEPT ![Len(list)] =
     libspectrum_rzx_store_frame(list[Len(list)], instructions, ins)]

LEMMA LastInput ==
  ASSUME NEW list \in Lists, NEW b \in Blocks, IsInput(b)
  PROVE  /\ Append(list, b) \in Lists
         /\ Append(list, b) # <<>>
         /\ Last(Append(list, b)) = b
         /\ HasInput(Append(list, b))
         /\ Faithful(list) => Faithful(Append(list, b))
<1>1. ~ IsSnap(b)
  BY BlockKinds
<1>2. Faithful(list) => Faithful(Append(list, b))
  BY <1>1, FaithfulAppend
<1>3. /\ Append(list, b) # <<>> /\ Len(Append(list, b)) = Len(list) + 1
      /\ Append(list, b)[Len(list) + 1] = b
  BY AppendProperties DEF Lists
<1> QED BY <1>2, <1>3, AppendKinds DEF Last

LEMMA FilledAll ==
  ASSUME NEW list \in Lists, Filled(list)
  PROVE  FilledButLast(list)
<1>1. Len(list) \in Nat
  BY LenProperties DEF Lists
<1>2. 1 .. Len(list) - 1 \subseteq 1 .. Len(list)
  BY <1>1
<1> QED BY <1>2 DEF Filled, FilledButLast

LEMMA StoredList ==
  ASSUME NEW list, NEW m, Follows(list, m), NEW instructions \in {0, 1},
         NEW ins \in Ins, NEW next,
         After(next) = z80_interrupt(
           IF instructions = 0 THEN After(m) ELSE Append(After(m), ins))
  PROVE  LET stored == Stored(list, instructions, ins)
         IN /\ Follows(stored, next)
            /\ HasInput(stored)
            /\ FilledButLast(list) => Filled(stored)
            /\ Autosaves(stored) = Autosaves(list)
            /\ \A k \in Autosaves(list) : Age(stored, k) = Age(list, k) + 1
<1> DEFINE front == SubSeq(list, 1, Len(list) - 1)
           b == Last(list)
           c == libspectrum_rzx_store_frame(b, instructions, ins)
           stored == Stored(list, instructions, ins)
           h == Replay(front)
<1>1. list \in Lists /\ list # <<>> /\ IsInput(b) /\ Compares(b)
      /\ Faithful(list) /\ Replay(list) = After(m)
  BY DEF Follows
<1>2. /\ Len(list) \in Nat \ {0} /\ list[Len(list)] = b /\ b \in Blocks
  BY <1>1, ListEntry, EmptySeq DEF Lists, Last
<1>3. front \in Lists /\ list = Append(front, b)
  BY <1>1, <1>2, ReplaceLast
<1>4. b \in InputBlocks /\ ~ IsSnap(b)
  BY <1>1, <1>2, BlockKinds
<1>5. h \in Histories
  BY <1>3, ReplayAppend
<1>6. /\ c \in InputBlocks /\ Compares(c)
      /\ Frames(c) = Frames(b) + 1
      /\ RunBlock(h, c) = z80_interrupt(
           IF instructions = 0 THEN RunBlock(h, b) ELSE Append(RunBlock(h, b), ins))
  BY <1>1, <1>4, <1>5, StoredFrame
<1>7. Faithful(front)
  <2>1. Len(list) - 1 \in 0 .. Len(list)
    BY <1>2
  <2> QED BY <1>1, <2>1, FaithfulPrefix
<1> HIDE DEF front, b, c, h
<1>8. c \in Blocks /\ IsInput(c) /\ ~ IsSnap(c)
  BY <1>6, InputKind
<1>9. stored = Append(front, c)
  BY <1>1, <1>2, <1>8, ReplaceLast DEF Stored, c, b, front
<1>10. Replay(list) = RunBlock(h, b) /\ Replay(stored) = RunBlock(h, c)
  BY <1>1, <1>2, <1>3, <1>8, <1>9, ReplayAppend DEF BlockStep, h
<1>11. Replay(stored) = After(next)
  BY <1>1, <1>6, <1>10
<1>12. /\ stored \in Lists /\ stored # <<>> /\ Last(stored) = c /\ HasInput(stored)
       /\ Faithful(stored)
  BY <1>3, <1>7, <1>8, <1>9, LastInput
<1>13. Follows(stored, next)
  BY <1>6, <1>8, <1>11, <1>12 DEF Follows
<1>14. \A k : /\ k \in Autosaves(list) <=> k \in Autosaves(front)
              /\ k \in Autosaves(stored) <=> k \in Autosaves(front)
  BY <1>2, <1>3, <1>4, <1>8, <1>9, FramesAtAppend
<1>15. Autosaves(stored) = Autosaves(list)
  BY <1>14
<1>16. ASSUME NEW k \in Autosaves(list)  PROVE Age(stored, k) = Age(list, k) + 1
  <2>1. k \in 0 .. Len(front)
    BY <1>3, <1>14, AutosaveEntry
  <2>2. Age(front, k) \in Nat /\ Frames(b) \in Nat
    BY <1>2, <1>3, <2>1, AgeIs, FramesType
  <2>3. Age(stored, k) = Age(front, k) + Frames(c)
    BY <1>3, <1>8, <1>9, <2>1, AgeAppend
  <2>4. Age(list, k) = Age(front, k) + Frames(b)
    BY <1>2, <1>3, <2>1, AgeAppend
  <2> QED BY <1>6, <2>2, <2>3, <2>4
<1>17. FilledButLast(list) => Filled(stored)
  <2>1. Frames(b) \in Nat /\ Frames(c) # 0
    <3>1. Frames(b) \in Nat
      BY <1>2, FramesType
    <3> QED BY <1>6, <3>1
  <2>2. FilledButLast(list) => Filled(front)
    BY <1>2, <1>3, AppendKinds
  <2> QED BY <1>3, <1>8, <1>9, <2>1, <2>2, AppendKinds
<1> QED BY <1>12, <1>13, <1>15, <1>16, <1>17

LEMMA NewInputBlock ==
  /\ NewInput \in InputBlocks /\ NewInput \in Blocks
  /\ IsInput(NewInput) /\ ~ IsSnap(NewInput)
  /\ Compares(NewInput) /\ Frames(NewInput) = 0
  /\ \A h \in Histories : RunBlock(h, NewInput) = h
<1>1. NewInput \in InputBlocks /\ NewInput.frames = <<>>
  BY EmptySeq DEF NewInput, InputBlocks
<1>2. Frames(NewInput) = 0 /\ Compares(NewInput)
  BY <1>1 DEF Frames, Compares
<1> QED BY <1>1, <1>2, InputKind, RunEmpty

LEMMA StartedList ==
  ASSUME NEW list \in Lists, Faithful(list), NEW m, Replay(list) = After(m)
  PROVE  /\ Follows(Append(list, NewInput), m)
         /\ HasInput(Append(list, NewInput))
         /\ Autosaves(Append(list, NewInput)) = Autosaves(list)
         /\ \A count : Spacing(list, count) => Spacing(Append(list, NewInput), count)
<1>1. Replay(Append(list, NewInput)) = Replay(list)
  BY NewInputBlock, ReplayAppend DEF BlockStep
<1>2. /\ Append(list, NewInput) \in Lists /\ Append(list, NewInput) # <<>>
      /\ Last(Append(list, NewInput)) = NewInput
      /\ Faithful(Append(list, NewInput)) /\ HasInput(Append(list, NewInput))
  BY NewInputBlock, LastInput
<1>3. Follows(Append(list, NewInput), m)
  BY <1>1, <1>2, NewInputBlock DEF Follows
<1> QED BY <1>2, <1>3, NewInputBlock, SpacingAppend

LEMMA SnapBlockIs ==
  ASSUME NEW m \in States, NEW a \in BOOLEAN
  PROVE  /\ SnapBlock(m, a) \in SnapBlocks /\ SnapBlock(m, a) \in Blocks
         /\ IsSnap(SnapBlock(m, a)) /\ ~ IsInput(SnapBlock(m, a))
         /\ Frames(SnapBlock(m, a)) = 0
         /\ SnapBlock(m, a).state = m /\ SnapBlock(m, a).automatic = a
<1>1. SnapBlock(m, a) \in SnapBlocks
  BY DEF SnapBlock, SnapBlocks
<1>2. SnapBlock(m, a).state = m /\ SnapBlock(m, a).automatic = a
  BY DEF SnapBlock
<1> QED BY <1>1, <1>2, SnapKind DEF Frames

\* A snapshot of the machine is a faithful one.
LEMMA SnappedList ==
  ASSUME NEW list \in Lists, Faithful(list), NEW m \in States, NEW a \in BOOLEAN,
         Replay(list) = After(m)
  PROVE  /\ Append(list, SnapBlock(m, a)) \in Lists
         /\ Faithful(Append(list, SnapBlock(m, a)))
         /\ Replay(Append(list, SnapBlock(m, a))) = After(m)
         /\ list \o <<SnapBlock(m, a), NewInput>> =
              Append(Append(list, SnapBlock(m, a)), NewInput)
<1> DEFINE s == SnapBlock(m, a)
<1>1. s \in Blocks /\ ~ IsInput(s) /\ s.state = m
  BY SnapBlockIs
<1> HIDE DEF s
<1>2. Append(list, s) \in Lists /\ Faithful(Append(list, s))
  BY <1>1, FaithfulAppend, AppendKinds
<1>3. Replay(Append(list, s)) = After(m)
  BY <1>1, ReplayAppend DEF BlockStep
<1>4. list \o <<s, NewInput>> = Append(Append(list, s), NewInput)
  <2> DEFINE n == Len(list)
             t == <<s, NewInput>>
             u == Append(list, s)
             v == Append(u, NewInput)
  <2>1. list \in Seq(Blocks) /\ n \in Nat /\ NewInput \in Blocks
    BY NewInputBlock, LenProperties DEF Lists
  <2>2. t \in Seq(Blocks) /\ Len(t) = 2 /\ t[1] = s /\ t[2] = NewInput
    BY <1>1, <2>1
  <2>3. /\ u \in Seq(Blocks) /\ Len(u) = n + 1 /\ u[n + 1] = s
        /\ \A i \in 1 .. n : u[i] = list[i]
    BY <1>1, <2>1, AppendProperties
  <2> HIDE DEF n, t, u
  <2>4. /\ v \in Seq(Blocks) /\ Len(v) = Len(u) + 1 /\ v[Len(u) + 1] = NewInput
        /\ \A i \in 1 .. Len(u) : v[i] = u[i]
    BY <2>1, <2>3, AppendProperties
  <2>5. /\ list \o t \in Seq(Blocks) /\ Len(list \o t) = n + 2
        /\ \A i \in 1 .. n + 2 :
             (list \o t)[i] = IF i <= n THEN list[i] ELSE t[i - n]
    <3>1. /\ list \o t \in Seq(Blocks) /\ Len(list \o t) = Len(list) + Len(t)
          /\ \A i \in 1 .. Len(list) + Len(t) :
               (list \o t)[i] = IF i <= Len(list) THEN list[i] ELSE t[i - Len(list)]
      BY <2>1, <2>2, ConcatProperties
    <3>2. Len(list) = n
      BY DEF n
    <3> QED BY <2>2, <3>1, <3>2
  <2> HIDE DEF v
  <2>6. Len(v) = n + 2 /\ v[n + 2] = NewInput /\ v[n + 1] = s
        /\ \A i \in 1 .. n : v[i] = list[i]
    BY <2>1, <2>3, <2>4
  <2>7. ASSUME NEW i \in 1 .. n + 2  PROVE (list \o t)[i] = v[i]
    <3>1. i \in 1 .. n \/ i = n + 1 \/ i = n + 2
      BY <2>1
    <3>2. CASE i \in 1 .. n
      BY <3>2, <2>1, <2>5, <2>6
    <3>3. CASE i = n + 1
      BY <3>3, <2>1, <2>2, <2>5, <2>6
    <3>4. CASE i = n + 2
      BY <3>4, <2>1, <2>2, <2>5, <2>6
    <3> QED BY <3>1, <3>2, <3>3, <3>4
  <2>8. list \o t = v
    BY <2>4, <2>5, <2>6, <2>7, SeqEqual
  <2> QED BY <2>8 DEF t, u, v
<1> QED BY <1>2, <1>3, <1>4 DEF s

-----------------------------------------------------------------------------
(* Spacing: the arithmetic of the interval, and what pruning keeps. *)

LEMMA ModRange ==
  ASSUME NEW n \in Nat \ {0}, NEW x \in Int
  PROVE  x % n \in 0 .. n - 1
OBVIOUS

LEMMA ModZero == ASSUME NEW n \in Nat \ {0}  PROVE 0 % n = 0
OBVIOUS

LEMMA Quotient ==
  ASSUME NEW n \in Nat \ {0}, NEW x \in Int
  PROVE  \E q \in Int : x = n * q + (x % n)
<1>1. x \div n \in Int /\ x = n * (x \div n) + (x % n)
  OBVIOUS
<1> QED BY <1>1

LEMMA ModUnique ==
  ASSUME NEW n \in Nat \ {0}, NEW q \in Int, NEW r \in 0 .. n - 1
  PROVE  (n * q + r) % n = r
OBVIOUS

\* Numbers in phase stay so when the same is added to them.
LEMMA ModAdd ==
  ASSUME NEW n \in Nat \ {0}, NEW x \in Int, NEW y \in Int
  PROVE  (x + y) % n = ((x % n) + y) % n
<1>1. PICK q \in Int : x = n * q + (x % n)
  BY Quotient
<1>2. PICK r \in 0 .. n - 1 : r = x % n
  BY ModRange
<1> DEFINE z == r + y
<1>3. z \in Int /\ x + y = n * q + z
  BY <1>1, <1>2
<1> HIDE DEF z
<1>4. PICK p \in Int : z = n * p + (z % n)
  BY <1>3, Quotient
<1>5. PICK t \in 0 .. n - 1 : t = z % n
  BY <1>3, ModRange
<1> DEFINE c == q + p
<1>6. x + y = n * c + t /\ c \in Int
  <2>1. n \in Int /\ n * (q + p) = n * q + n * p
    OBVIOUS
  <2>2. n * q \in Int /\ n * p \in Int
    OBVIOUS
  <2> DEFINE a == n * q
             b == n * p
  <2>3. c \in Int /\ n * c = a + b /\ a \in Int /\ b \in Int
    BY <2>1, <2>2
  <2>4. x + y = a + z /\ z = b + t
    BY <1>3, <1>4, <1>5
  <2> HIDE DEF a, b, c
  <2>5. x + y = (a + b) + t
    BY <1>3, <1>5, <2>3, <2>4
  <2> QED BY <2>3, <2>5
<1> HIDE DEF c
<1>7. (n * c + t) % n = t
  BY <1>6, ModUnique
<1> QED BY <1>2, <1>5, <1>6, <1>7 DEF z

\* A frame more: a snapshot comes of an age to look at only when the interval
\* is over.
Overdue(list) ==
  \A k1, k2 \in Autosaves(list) : k1 < k2 =>
    \A age \in AutosaveAges :
      Age(list, k2) > age => Age(list, k1) - Age(list, k2) >= age

LEMMA AgedSpacing ==
  ASSUME NEW list \in Lists, NEW stored, Autosaves(stored) = Autosaves(list),
         \A k \in Autosaves(list) : Age(stored, k) = Age(list, k) + 1,
         NEW count \in 0 .. AUTOSAVE_INTERVAL - 1, Spacing(list, count)
  PROVE  /\ InPhase(stored, (count + 1) % AUTOSAVE_INTERVAL)
         /\ Overdue(stored)
         /\ (count + 1) % AUTOSAVE_INTERVAL # 0 => Sparse(stored)
<1> DEFINE I == AUTOSAVE_INTERVAL
<1>1. I \in Nat \ {0} /\ \A age \in AutosaveAges : age \in Nat /\ age % I = 0
  BY AutosaveAssumption
<1>2. \A k \in Autosaves(list) : Age(list, k) \in Nat /\ Age(stored, k) \in Nat
  <2>1. ASSUME NEW k \in Autosaves(list)  PROVE Age(list, k) \in Nat
    <3>1. k \in 0 .. Len(list)
      BY AutosaveEntry
    <3> QED BY <3>1, AgeIs
  <2> QED BY <2>1
<1> HIDE DEF I
<1>3. \A k \in Autosaves(list) : Age(list, k) % I = count
  BY DEF Spacing, InPhase, I
<1>4. ASSUME NEW k \in Autosaves(list)  PROVE Age(stored, k) % I = (count + 1) % I
  <2>1. (Age(list, k) + 1) % I = ((Age(list, k) % I) + 1) % I
    BY <1>1, <1>2, ModAdd
  <2> QED BY <1>3, <2>1
<1>5. InPhase(stored, (count + 1) % I)
  BY <1>4 DEF InPhase, I
<1>6. ASSUME NEW k1 \in Autosaves(stored), NEW k2 \in Autosaves(stored), k1 < k2,
             NEW age \in AutosaveAges
      PROVE  /\ Age(stored, k1) - Age(stored, k2) = Age(list, k1) - Age(list, k2)
             /\ Age(list, k2) >= age => Age(list, k1) - Age(list, k2) >= age
             /\ Age(stored, k2) > age => Age(list, k2) >= age
             /\ Age(stored, k2) >= age =>
                  Age(list, k2) >= age \/ Age(stored, k2) = age
  <2>1. k1 \in Autosaves(list) /\ k2 \in Autosaves(list)
    OBVIOUS
  <2>2. age \in Nat /\ Age(list, k1) \in Nat /\ Age(list, k2) \in Nat
        /\ Age(stored, k1) = Age(list, k1) + 1
        /\ Age(stored, k2) = Age(list, k2) + 1
    BY <1>1, <1>2, <2>1
  <2>3. Age(list, k2) >= age => Age(list, k1) - Age(list, k2) >= age
    BY <1>6, <2>1 DEF Spacing, Sparse
  <2> QED BY <2>2, <2>3
<1>7. Overdue(stored)
  BY <1>6 DEF Overdue
<1>8. ASSUME (count + 1) % I # 0  PROVE Sparse(stored)
  <2>1. \A k2 \in Autosaves(stored), age \in AutosaveAges : Age(stored, k2) # age
    BY <1>1, <1>4, <1>8
  <2> QED BY <1>6, <2>1 DEF Sparse
<1> QED BY <1>5, <1>7, <1>8 DEF I

\* What autosave_prune keeps is spaced.
LEMMA PrunedSpacing ==
  ASSUME NEW list \in Lists, InPhase(list, 0), Overdue(list)
  PROVE  Spacing(autosave_prune(list), 0)
<1> DEFINE short == autosave_prune(list)
           kept == Autosaves(list) \ Deleted(list)
           n == Len(list)
           total == FramesAt(list, n)
<1>1. /\ short \in Lists
      /\ CountFrames(short) = CountFrames(list)
      /\ Among(short, list, kept, n)
  BY Pruned
<1> HIDE DEF short
<1>2. n \in Nat /\ total \in Nat
  BY LenProperties, AgeIs DEF Lists
<1>3. FramesAt(short, Len(short)) = total
  <2>1. SubSeq(list, 1, n) = list /\ SubSeq(short, 1, Len(short)) = short
    BY <1>1, FullPrefix DEF Lists
  <2> QED BY <1>1, <2>1 DEF FramesAt
<1>4. ASSUME NEW j \in Autosaves(short)  PROVE Age(short, j) = total - FramesAt(short, j)
  <2>1. j \in 0 .. Len(short)
    BY <1>1, AutosaveEntry
  <2> QED BY <1>1, <1>3, <2>1, AgeIs
<1>5. ASSUME NEW k \in Autosaves(list)
      PROVE  /\ Age(list, k) = total - FramesAt(list, k)
             /\ Age(list, k) \in Nat /\ FramesAt(list, k) \in Nat
             /\ k \in 1 .. n
  <2>1. k \in 0 .. n /\ k \in 1 .. n
    BY AutosaveEntry
  <2> QED BY <2>1, AgeIs
<1> HIDE DEF kept, n, total
<1>6. kept \subseteq Autosaves(list)
  BY DEF kept
<1>7. InPhase(short, 0)
  <2>1. ASSUME NEW j \in Autosaves(short)  PROVE Age(short, j) % AUTOSAVE_INTERVAL = 0
    <3>1. PICK i \in kept : FramesAt(short, j) = FramesAt(list, i)
      BY <1>1 DEF Among
    <3>2. Age(short, j) = Age(list, i) /\ i \in Autosaves(list)
      BY <1>4, <1>5, <1>6, <3>1
    <3> QED BY <3>2 DEF InPhase
  <2> QED BY <2>1 DEF InPhase
<1>8. ASSUME NEW i1 \in kept, NEW i2 \in kept, i1 < i2,
             NEW age \in AutosaveAges, Age(list, i2) >= age
      PROVE  Age(list, i1) - Age(list, i2) >= age
  <2>1. i1 \in Autosaves(list) /\ i2 \in Autosaves(list) /\ i2 \notin Deleted(list)
    BY DEF kept
  <2>2. age \in Nat /\ Age(list, i1) \in Nat /\ Age(list, i2) \in Nat
    BY <1>5, <2>1, AutosaveAssumption
  <2>3. CASE Age(list, i2) > age
    BY <1>8, <2>1, <2>3 DEF Overdue
  <2>4. CASE Age(list, i2) = age
    <3> DEFINE older == {j \in Autosaves(list) : j < i2}
    <3>1. i1 \in older
      BY <1>8, <2>1
    <3>2. older \subseteq 1 .. n
      BY <1>5
    <3>3. PICK x \in older : x = Max(older) /\ \A j \in older : j <= x
      <4> HIDE DEF older
      <4> QED BY <1>2, <3>1, <3>2, MaxExists
    <3>4. ~ (Age(list, x) < 2 * Age(list, i2))
      BY <2>1, <2>4, <3>1, <3>3 DEF Deleted
    <3>5. x \in Autosaves(list) /\ i1 <= x
      BY <3>1, <3>3
    <3>6. FramesAt(list, i1) <= FramesAt(list, x)
      <4>1. i1 \in 0 .. Len(list) /\ x \in 0 .. Len(list)
        BY <2>1, <3>5, AutosaveEntry
      <4> QED BY <3>5, <4>1, FramesAtMonotone
    <3>7. /\ Age(list, x) = total - FramesAt(list, x)
          /\ Age(list, i1) = total - FramesAt(list, i1)
          /\ Age(list, x) \in Nat
          /\ FramesAt(list, x) \in Nat /\ FramesAt(list, i1) \in Nat
      BY <1>5, <2>1, <3>5
    <3>8. Age(list, i1) >= Age(list, x)
      BY <1>2, <3>6, <3>7
    <3> HIDE DEF older
    <3> QED BY <2>2, <2>4, <3>4, <3>7, <3>8
  <2> QED BY <1>8, <2>2, <2>3, <2>4
<1>9. Sparse(short)
  <2>1. ASSUME NEW j1 \in Autosaves(short), NEW j2 \in Autosaves(short), j1 < j2,
               NEW age \in AutosaveAges, Age(short, j2) >= age
        PROVE  Age(short, j1) - Age(short, j2) >= age
    <3>1. PICK i1 \in kept, i2 \in kept :
            /\ i1 < i2
            /\ FramesAt(short, j1) = FramesAt(list, i1)
            /\ FramesAt(short, j2) = FramesAt(list, i2)
      BY <1>1, <2>1 DEF Among
    <3>2. Age(short, j1) = Age(list, i1) /\ Age(short, j2) = Age(list, i2)
      BY <1>4, <1>5, <1>6, <3>1
    <3> QED BY <1>8, <2>1, <3>1, <3>2
  <2> QED BY <2>1 DEF Sparse
<1> QED BY <1>7, <1>9 DEF Spacing, short

\* autosave_frame, when the interval is over.
LEMMA AutosavedList ==
  ASSUME NEW list, NEW m \in States, Follows(list, m)
  PROVE  LET longer == list \o <<SnapBlock(m, TRUE), NewInput>>
         IN /\ Follows(autosave_prune(longer), m)
            /\ InPhase(list, 0) /\ Overdue(list)
                 => Spacing(autosave_prune(longer), 0)
            /\ Filled(list) => FilledButLast(autosave_prune(longer))
<1> DEFINE s == SnapBlock(m, TRUE)
           snapped == Append(list, s)
           longer == Append(snapped, NewInput)
           n == Len(list)
           pruned == autosave_prune(longer)
<1>1. list \in Lists /\ Faithful(list) /\ Replay(list) = After(m) /\ n \in Nat
  BY LenProperties DEF Follows, Lists
<1>2. /\ snapped \in Lists /\ Faithful(snapped) /\ Replay(snapped) = After(m)
      /\ list \o <<s, NewInput>> = longer
  BY <1>1, SnappedList
<1>3. /\ s \in Blocks /\ IsSnap(s) /\ ~ IsInput(s)
      /\ s.automatic = TRUE /\ Frames(s) = 0
  BY SnapBlockIs
<1> HIDE DEF s, snapped, n
<1>4. /\ longer \in Lists /\ longer # <<>> /\ Last(longer) = NewInput
      /\ Faithful(longer) /\ Replay(longer) = After(m)
      /\ Autosaves(longer) = Autosaves(snapped)
  <2>1. Follows(longer, m) /\ Autosaves(longer) = Autosaves(snapped)
    BY <1>2, StartedList
  <2>2. Last(longer) = NewInput
    BY <1>2, NewInputBlock, LastInput
  <2> HIDE DEF longer
  <2> QED BY <2>1, <2>2 DEF Follows
<1>5. Len(snapped) = n + 1
      /\ \A k : k \in Autosaves(snapped) <=> k \in Autosaves(list) \/ k = n + 1
  BY <1>1, <1>3, FramesAtAppend DEF snapped, n
<1>6. \A k \in Autosaves(longer) : k \in 0 .. Len(snapped)
  BY <1>2, <1>4, AutosaveEntry
<1>7. ASSUME NEW k \in Autosaves(longer)
      PROVE  Age(longer, k) = Age(snapped, k) /\ Age(snapped, k) \in Nat
  <2>1. Age(longer, k) = Age(snapped, k) + 0
    BY <1>2, <1>6, NewInputBlock, AgeAppend
  <2>2. Age(snapped, k) \in Nat
    BY <1>2, <1>6, AgeIs
  <2> QED BY <2>1, <2>2
<1>8. ASSUME NEW k \in Autosaves(list)
      PROVE  Age(snapped, k) = Age(list, k) /\ k \in 1 .. n
  <2>1. k \in 0 .. Len(list) /\ k \in 1 .. n
    BY <1>1, AutosaveEntry DEF n
  <2>2. Age(list, k) \in Nat
    BY <1>1, <2>1, AgeIs
  <2>3. Age(snapped, k) = Age(list, k) + 0
    BY <1>1, <1>3, <2>1, AgeAppend DEF snapped
  <2> QED BY <2>1, <2>2, <2>3
<1>9. Age(snapped, n + 1) = 0
  <2>1. n + 1 \in 0 .. Len(snapped)
    BY <1>1, <1>5
  <2>2. Age(snapped, n + 1) = FramesAt(snapped, n + 1) - FramesAt(snapped, n + 1)
        /\ FramesAt(snapped, n + 1) \in Nat
    BY <1>2, <1>5, <2>1, AgeIs
  <2> QED BY <2>2
<1>10. \A k \in Autosaves(longer) :
         \/ k \in Autosaves(list) /\ k \in 1 .. n /\ Age(longer, k) = Age(list, k)
         \/ k = n + 1 /\ Age(longer, k) = 0
  BY <1>4, <1>5, <1>7, <1>8, <1>9
<1>11. InPhase(list, 0) => InPhase(longer, 0)
  <2>1. 0 % AUTOSAVE_INTERVAL = 0
    BY ModZero, AutosaveAssumption
  <2> HIDE DEF longer
  <2> QED BY <1>10, <2>1 DEF InPhase
<1>12. ASSUME Overdue(list)  PROVE Overdue(longer)
  <2> HIDE DEF longer
  <2>1. ASSUME NEW k1 \in Autosaves(longer), NEW k2 \in Autosaves(longer), k1 < k2,
               NEW age \in AutosaveAges, Age(longer, k2) > age
        PROVE  Age(longer, k1) - Age(longer, k2) >= age
    <3>1. age \in Nat
      BY AutosaveAssumption
    <3>2. k2 \in Autosaves(list) /\ k2 \in 1 .. n /\ Age(longer, k2) = Age(list, k2)
      BY <1>10, <2>1, <3>1
    <3>3. k1 # n + 1
      BY <1>1, <2>1, <3>2
    <3>4. k1 \in Autosaves(list) /\ Age(longer, k1) = Age(list, k1)
      BY <1>10, <3>3
    <3> QED BY <1>12, <2>1, <3>2, <3>4 DEF Overdue
  <2> QED BY <2>1 DEF Overdue
<1>13. InPhase(list, 0) /\ Overdue(list) => Spacing(pruned, 0)
  BY <1>4, <1>11, <1>12, PrunedSpacing
<1>14. /\ pruned \in Lists /\ Replay(pruned) = After(m) /\ Faithful(pruned)
       /\ pruned # <<>> /\ Last(pruned) = NewInput
  <2>1. IsInput(Last(longer))
    BY <1>4, NewInputBlock
  <2> HIDE DEF longer
  <2> QED BY <1>4, <2>1, Pruned
<1>15. Follows(pruned, m)
  <2> HIDE DEF pruned
  <2> QED BY <1>14, NewInputBlock DEF Follows
<1>16. Filled(list) => FilledButLast(pruned)
  <2>1. Filled(list) => Filled(snapped)
    BY <1>1, <1>3, AppendKinds DEF snapped
  <2>2. Filled(list) => FilledButLast(longer)
    BY <1>2, <2>1, NewInputBlock, AppendKinds
  <2>3. IsInput(Last(longer))
    BY <1>4, NewInputBlock
  <2> HIDE DEF longer
  <2> QED BY <1>4, <2>2, <2>3, Pruned
<1> QED BY <1>2, <1>13, <1>15, <1>16 DEF s

LEMMA SpacingPrefix ==
  ASSUME NEW list \in Lists, NEW n \in 0 .. Len(list), NEW count,
         Spacing(list, count)
  PROVE  LET p == SubSeq(list, 1, n)
         IN /\ p \in Lists
            /\ Autosaves(p) \subseteq Autosaves(list)
            /\ Sparse(p)
            /\ \A k1, k2 \in Autosaves(p) :
                 Age(p, k1) % AUTOSAVE_INTERVAL = Age(p, k2) % AUTOSAVE_INTERVAL
<1> DEFINE p == SubSeq(list, 1, n)
           I == AUTOSAVE_INTERVAL
           dropped == FramesAt(list, Len(list)) - FramesAt(list, n)
<1>1. p \in Lists /\ Len(p) = n /\ \A i \in 1 .. n : p[i] = list[i]
  BY Prefix DEF Lists
<1>2. Len(list) \in Nat
  BY LenProperties DEF Lists
<1>3. \A k \in 0 .. n : FramesAt(p, k) = FramesAt(list, k)
  <2>1. ASSUME NEW k \in 0 .. n  PROVE SubSeq(p, 1, k) = SubSeq(list, 1, k)
    <3>1. k \in 0 .. Len(list) /\ k \in 0 .. Len(p)
      BY <1>1, <1>2
    <3> HIDE DEF p
    <3>2. /\ SubSeq(p, 1, k) \in Seq(Blocks) /\ Len(SubSeq(p, 1, k)) = k
          /\ \A i \in 1 .. k : SubSeq(p, 1, k)[i] = p[i]
      BY <3>1, <1>1, Prefix DEF Lists
    <3>3. /\ SubSeq(list, 1, k) \in Seq(Blocks) /\ Len(SubSeq(list, 1, k)) = k
          /\ \A i \in 1 .. k : SubSeq(list, 1, k)[i] = list[i]
      BY <3>1, <1>1, Prefix DEF Lists
    <3>4. \A i \in 1 .. k : SubSeq(p, 1, k)[i] = SubSeq(list, 1, k)[i]
      BY <3>2, <3>3, <1>1
    <3> QED BY <3>2, <3>3, <3>4, SeqEqual
  <2> QED BY <2>1 DEF FramesAt
<1> HIDE DEF p, I, dropped
<1>4. dropped \in Nat
  <2>1. Len(list) \in 0 .. Len(list) /\ n <= Len(list)
    BY <1>2
  <2>2. FramesAt(list, n) <= FramesAt(list, Len(list))
    BY <2>1, FramesAtMonotone
  <2>3. FramesAt(list, n) \in Nat /\ FramesAt(list, Len(list)) \in Nat
    BY <2>1, FramesAtType
  <2> QED BY <2>2, <2>3 DEF dropped
<1>5. ASSUME NEW k \in Autosaves(p)
      PROVE  /\ k \in Autosaves(list)
             /\ Age(p, k) = Age(list, k) + (0 - dropped)
             /\ Age(p, k) \in Nat /\ Age(list, k) \in Nat
  <2>1. k \in 1 .. n /\ IsSnap(p[k]) /\ p[k].automatic /\ k \in 0 .. Len(p)
    BY <1>1, AutosaveEntry
  <2>2. k \in 1 .. Len(list) /\ k \in 0 .. Len(list) /\ k \in 0 .. n /\ n \in 0 .. n
    BY <1>2, <2>1
  <2>3. k \in Autosaves(list)
    BY <1>1, <2>1, <2>2, AutosaveEntry
  <2>4. /\ Age(p, k) = FramesAt(p, n) - FramesAt(p, k)
        /\ Age(p, k) \in Nat
    BY <1>1, <2>1, AgeIs
  <2>5. /\ Age(list, k) = FramesAt(list, Len(list)) - FramesAt(list, k)
        /\ Age(list, k) \in Nat /\ FramesAt(list, k) \in Nat
        /\ FramesAt(list, Len(list)) \in Nat
    BY <2>2, AgeIs
  <2>6. FramesAt(list, n) \in Nat
    BY FramesAtType
  <2>7. FramesAt(p, n) = FramesAt(list, n) /\ FramesAt(p, k) = FramesAt(list, k)
    BY <1>3, <2>2
  <2>8. Age(p, k) = Age(list, k) + (0 - dropped)
    BY <2>4, <2>5, <2>6, <2>7 DEF dropped
  <2> QED BY <2>3, <2>4, <2>5, <2>8
<1>6. Sparse(p)
  <2>1. ASSUME NEW k1 \in Autosaves(p), NEW k2 \in Autosaves(p), k1 < k2,
               NEW age \in AutosaveAges, Age(p, k2) >= age
        PROVE  Age(p, k1) - Age(p, k2) >= age
    <3>1. age \in Nat
      BY AutosaveAssumption
    <3>2. Age(list, k2) >= age
      BY <1>4, <1>5, <2>1, <3>1
    <3>3. Age(list, k1) - Age(list, k2) >= age
      BY <1>5, <2>1, <3>2 DEF Spacing, Sparse
    <3> QED BY <1>4, <1>5, <3>1, <3>3
  <2> QED BY <2>1 DEF Sparse
<1>7. \A k \in Autosaves(p) : Age(p, k) % I = (count + (0 - dropped)) % I
  <2>1. ASSUME NEW k \in Autosaves(p)
        PROVE  Age(p, k) % I = (count + (0 - dropped)) % I
    <3>1. I \in Nat \ {0} /\ Age(list, k) \in Int /\ 0 - dropped \in Int
      BY <1>4, <1>5, AutosaveAssumption DEF I
    <3>2. (Age(list, k) + (0 - dropped)) % I = ((Age(list, k) % I) + (0 - dropped)) % I
      BY <3>1, ModAdd
    <3>3. Age(list, k) % I = count
      BY <1>5 DEF Spacing, InPhase, I
    <3> QED BY <1>5, <3>2, <3>3
  <2> QED BY <2>1
<1> QED BY <1>1, <1>5, <1>6, <1>7 DEF p, I

\* start_after_rollback.
LEMMA RolledBack ==
  ASSUME NEW list \in Lists, Faithful(list), NEW k \in Snaps(list)
  PROVE  LET new == Append(SubSeq(list, 1, k), NewInput)
         IN /\ Last(SubSeq(list, 1, k)) = list[k]
            /\ list[k].state \in States
            /\ Follows(new, list[k].state)
            /\ Autosaves(new) \subseteq Autosaves(list)
            /\ autosave_reset(new) \in 0 .. AUTOSAVE_INTERVAL - 1
            /\ \A count : Spacing(list, count) => Spacing(new, autosave_reset(new))
            /\ FilledButLast(list) /\ list # <<>> => FilledButLast(new)
<1> DEFINE p == SubSeq(list, 1, k)
           new == Append(p, NewInput)
           I == AUTOSAVE_INTERVAL
<1>1. k \in 1 .. Len(list) /\ k \in 0 .. Len(list) /\ list[k].state \in States
  BY SnapEntry
<1>2. /\ p \in Lists /\ Faithful(p)
      /\ Len(p) = k /\ \A i \in 1 .. k : p[i] = list[i]
  <2>1. /\ p \in Lists /\ Faithful(p)
    BY <1>1, FaithfulPrefix
  <2> QED BY <1>1, <2>1, Prefix DEF Lists
<1>3. Last(p) = list[k]
  <2>1. k \in 1 .. k
    BY <1>1
  <2> HIDE DEF p
  <2> QED BY <1>2, <2>1 DEF Last
<1>4. Replay(p) = After(list[k].state)
  BY DEF Faithful
<1>5. Autosaves(p) \subseteq Autosaves(list)
  <2> SUFFICES ASSUME NEW i \in Autosaves(p)  PROVE i \in Autosaves(list)
    OBVIOUS
  <2> HIDE DEF p
  <2>1. i \in 1 .. k /\ IsSnap(p[i]) /\ p[i].automatic
    BY <1>2, AutosaveEntry
  <2>2. i \in 1 .. Len(list) /\ p[i] = list[i]
    <3>1. Len(list) \in Nat
      BY LenProperties DEF Lists
    <3> QED BY <1>1, <1>2, <2>1, <3>1
  <2> QED BY <2>1, <2>2, AutosaveEntry
<1>12. ASSUME NEW count, Spacing(list, count)
       PROVE  /\ Sparse(p)
              /\ \A k1, k2 \in Autosaves(p) : Age(p, k1) % I = Age(p, k2) % I
  BY <1>1, <1>12, SpacingPrefix
<1>11. FilledButLast(list) /\ list # <<>> => FilledButLast(new)
  <2>1. FilledButLast(list) /\ list # <<>> => Filled(p)
    BY FilledFront
  <2> HIDE DEF p
  <2> QED BY <1>2, <2>1, NewInputBlock, AppendKinds
<1> HIDE DEF p, I
<1>6. /\ Follows(new, list[k].state)
      /\ Autosaves(new) = Autosaves(p)
      /\ \A c : Spacing(p, c) => Spacing(new, c)
  BY <1>2, <1>4, StartedList
<1>7. new \in Lists /\ Len(p) \in Nat /\ Len(new) = Len(p) + 1
  BY <1>2, NewInputBlock, FramesAtAppend
<1>8. I \in Nat \ {0}
  BY AutosaveAssumption DEF I
<1> HIDE DEF new
<1>9. CASE Autosaves(new) = {}
  <2>1. autosave_reset(new) = Age(new, 0) % I
    BY <1>9 DEF autosave_reset, I
  <2>2. 0 \in 0 .. Len(new)
    BY <1>7
  <2>3. Age(new, 0) \in Int
    BY <1>7, <2>2, AgeIs
  <2>4. autosave_reset(new) \in 0 .. I - 1
    BY <1>8, <2>1, <2>3, ModRange
  <2>5. Spacing(new, autosave_reset(new))
    BY <1>9, NoAutosaves
  <2> QED BY <1>1, <1>3, <1>5, <1>6, <1>11, <2>4, <2>5 DEF p, new, I
<1>10. CASE Autosaves(new) # {}
  <2>1. Autosaves(new) \subseteq 1 .. Len(new) /\ Len(new) \in Nat
    BY <1>7, AutosaveEntry
  <2>2. PICK x \in Autosaves(new) : x = Max(Autosaves(new))
    BY <1>10, <2>1, MaxExists
  <2>3. autosave_reset(new) = Age(new, x) % I
    BY <1>10, <2>2 DEF autosave_reset, I
  <2>4. x \in 0 .. Len(p) /\ x \in 0 .. Len(new)
    BY <1>2, <1>6, <1>7, AutosaveEntry
  <2>5. Age(new, x) = Age(p, x) + 0 /\ Age(p, x) \in Nat
    BY <1>2, <2>4, NewInputBlock, AgeAppend, AgeIs DEF new
  <2>6. autosave_reset(new) = Age(p, x) % I
    BY <2>3, <2>5
  <2>7. autosave_reset(new) \in 0 .. I - 1
    BY <1>8, <2>5, <2>6, ModRange
  <2>9. ASSUME NEW count, Spacing(list, count)
        PROVE  Spacing(new, autosave_reset(new))
    <3>1. /\ Sparse(p)
          /\ \A k1, k2 \in Autosaves(p) : Age(p, k1) % I = Age(p, k2) % I
      BY <1>12, <2>9
    <3>2. InPhase(p, autosave_reset(new))
      BY <3>1, <1>6, <2>2, <2>6 DEF InPhase, I
    <3> QED BY <3>1, <3>2, <1>6 DEF Spacing
  <2> QED BY <1>1, <1>3, <1>5, <1>6, <1>11, <2>7, <2>9 DEF p, new, I
<1> QED BY <1>9, <1>10

-----------------------------------------------------------------------------
(* What playing a list does. *)

\* A block up to one of its frames.
Cut(block, j) == [block EXCEPT !.frames = SubSeq(block.frames, 1, j)]

LEMMA CutBlock ==
  ASSUME NEW b \in InputBlocks, NEW j \in 0 .. Len(b.frames)
  PROVE  /\ Cut(b, j) \in InputBlocks
         /\ Cut(b, j).frames \in Seq(FrameRecords)
         /\ Len(Cut(b, j).frames) = j
         /\ \A i \in 1 .. j : Cut(b, j).frames[i] = b.frames[i]
<1> DEFINE frames == SubSeq(b.frames, 1, j)
<1>1. b \in [type : {"input"}, frames : Seq(FrameRecords), non_repeat : Nat]
      /\ b.frames \in Seq(FrameRecords)
      /\ (b.frames # <<>> => ~ b.frames[1].repeat_last)
  BY DEF InputBlocks
<1>2. /\ frames \in Seq(FrameRecords) /\ Len(frames) = j
      /\ \A i \in 1 .. j : frames[i] = b.frames[i]
  BY <1>1, Prefix
<1> HIDE DEF frames
<1>3. Cut(b, j) = [b EXCEPT !.frames = frames]
  BY DEF Cut, frames
<1>4. /\ Cut(b, j) \in [type : {"input"}, frames : Seq(FrameRecords), non_repeat : Nat]
      /\ Cut(b, j).frames = frames
  BY <1>1, <1>2, <1>3
<1>5. frames # <<>> => ~ frames[1].repeat_last
  <2>1. frames # <<>> => j # 0
    BY <1>2, EmptySeq
  <2>2. j # 0 => 1 \in 1 .. j /\ b.frames # <<>>
    <3>1. Len(b.frames) \in Nat
      BY <1>1, LenProperties
    <3>2. b.frames = <<>> => Len(b.frames) = 0
      BY EmptySeq
    <3> QED BY <3>1, <3>2
  <2> QED BY <1>1, <1>2, <2>1, <2>2
<1> QED BY <1>2, <1>4, <1>5 DEF InputBlocks

LEMMA CutRun ==
  ASSUME NEW b \in InputBlocks, NEW h \in Histories
  PROVE  /\ RunBlock(h, Cut(b, 0)) = h
         /\ \A j \in 1 .. Len(b.frames) :
              RunBlock(h, Cut(b, j)) = FrameStep(b, j, RunBlock(h, Cut(b, j - 1)))
         /\ RunBlock(h, Cut(b, Len(b.frames))) = RunBlock(h, b)
<1> DEFINE n == Len(b.frames)
<1>1. n \in Nat /\ b.frames \in Seq(FrameRecords)
  BY InputKind, LenProperties
<1>2. RunBlock(h, Cut(b, 0)) = h
  <2>1. 0 \in 0 .. n
    BY <1>1
  <2>2. Cut(b, 0) \in InputBlocks /\ Cut(b, 0).frames = <<>>
    BY <2>1, CutBlock, EmptySeq
  <2> QED BY <2>2, RunEmpty
<1>3. ASSUME NEW j \in 1 .. n
      PROVE  RunBlock(h, Cut(b, j)) = FrameStep(b, j, RunBlock(h, Cut(b, j - 1)))
  <2> DEFINE c == Cut(b, j)
             a == Cut(b, j - 1)
  <2>1. j \in 0 .. n /\ j - 1 \in 0 .. n /\ j \in Nat
    BY <1>1
  <2>2. /\ c \in InputBlocks /\ Len(c.frames) = j
        /\ \A i \in 1 .. j : c.frames[i] = b.frames[i]
    BY <2>1, CutBlock
  <2>3. /\ a \in InputBlocks /\ Len(a.frames) = j - 1
        /\ \A i \in 1 .. j - 1 : a.frames[i] = b.frames[i]
    BY <2>1, CutBlock
  <2> HIDE DEF a, c
  <2>4. Len(c.frames) = Len(a.frames) + 1
        /\ \A i \in 1 .. Len(a.frames) : c.frames[i] = a.frames[i]
    BY <2>1, <2>2, <2>3
  <2>5. RunBlock(h, c) = FrameStep(c, j, RunBlock(h, a))
    BY <2>2, <2>3, <2>4, RunFrame
  <2>6. PICK d : OwnFrame(b.frames, j, d)
    BY FrameEntry
  <2>7. OwnFrame(c.frames, j, d) /\ c.frames[d] = b.frames[d]
        /\ c.frames[j] = b.frames[j]
    BY <2>1, <2>2, <2>6 DEF OwnFrame
  <2>8. Reads(c, j) = Reads(b, j)
    BY <2>1, <2>6, <2>7, ReadsOwn
  <2> QED BY <2>5, <2>7, <2>8 DEF FrameStep, a, c
<1>4. RunBlock(h, Cut(b, n)) = RunBlock(h, b)
  <2>1. SubSeq(b.frames, 1, n) = b.frames
    BY <1>1, FullPrefix
  <2>2. n \in 0 .. n
    BY <1>1
  <2>3. /\ Cut(b, n).frames \in Seq(FrameRecords) /\ Len(Cut(b, n).frames) = n
        /\ \A i \in 1 .. n : Cut(b, n).frames[i] = b.frames[i]
    BY <2>2, CutBlock
  <2>4. Cut(b, n).frames = b.frames
    BY <1>1, <2>3, SeqEqual
  <2> QED BY <2>4, SameRun
<1> QED BY <1>2, <1>3, <1>4

LEMMA NextInputIs ==
  ASSUME NEW list \in Lists, NEW k \in Nat
  PROVE  LET next == NextInput(list, k)
         IN /\ next = 0 => \A i \in k + 1 .. Len(list) : ~ IsInput(list[i])
            /\ next # 0 => /\ next \in 1 .. Len(list) /\ k < next
                           /\ IsInput(list[next])
                           /\ \A i \in k + 1 .. next - 1 : ~ IsInput(list[i])
<1> DEFINE n == Len(list)
           inputs == {j \in DOMAIN list : j > k /\ IsInput(list[j])}
           next == NextInput(list, k)
<1>1. n \in Nat /\ DOMAIN list = 1 .. n
  BY LenProperties DEF Lists
<1>2. \A j : j \in inputs <=> j \in 1 .. n /\ j > k /\ IsInput(list[j])
  BY <1>1
<1>3. next = IF inputs = {} THEN 0 ELSE Min(inputs)
  BY DEF NextInput
<1> HIDE DEF n, inputs, next
<1>4. CASE inputs = {}
  <2>1. ASSUME NEW i \in k + 1 .. n  PROVE ~ IsInput(list[i])
    <3>1. i \in 1 .. n /\ i > k
      BY <1>1
    <3> QED BY <1>2, <1>4, <3>1
  <2> QED BY <1>3, <1>4, <2>1 DEF next, n
<1>5. CASE inputs # {}
  <2>1. inputs \subseteq 1 .. n
    BY <1>2
  <2>2. next \in inputs /\ \A j \in inputs : next <= j
    BY <1>1, <1>3, <1>5, <2>1, MinExists
  <2>3. next \in 1 .. n /\ next > k /\ IsInput(list[next])
    BY <1>2, <2>2
  <2>4. ASSUME NEW i \in k + 1 .. next - 1  PROVE ~ IsInput(list[i])
    <3>1. i \in 1 .. n /\ i > k /\ ~ (next <= i)
      BY <1>1, <2>3
    <3>2. i \notin inputs
      BY <2>2, <3>1
    <3> QED BY <1>2, <3>1, <3>2
  <2>5. next # 0 /\ k < next
    BY <2>3
  <2> QED BY <2>3, <2>4, <2>5 DEF next, n
<1> QED BY <1>4, <1>5

\* Snapshots change nothing that is replayed.
LEMMA ReplayBetween ==
  ASSUME NEW list \in Lists, NEW i \in 0 .. Len(list), NEW k \in 0 .. Len(list),
         i <= k, \A m \in i + 1 .. k : ~ IsInput(list[m])
  PROVE  Replay(SubSeq(list, 1, k)) = Replay(SubSeq(list, 1, i))
<1> DEFINE p(m) == Replay(SubSeq(list, 1, m))
           S == {m \in 0 .. k : i <= m => p(m) = p(i)}
<1>1. Len(list) \in Nat
  BY LenProperties DEF Lists
<1>2. ASSUME NEW m \in i + 1 .. k  PROVE p(m) = p(m - 1)
  <2>1. m \in 1 .. Len(list)
    BY <1>1
  <2>2. p(m) = BlockStep(list[m], p(m - 1))
    BY <2>1, ListPrefix
  <2> QED BY <2>2 DEF BlockStep
<1> HIDE DEF p
<1>3. 0 \in S
  BY <1>1
<1>4. ASSUME NEW m \in 1 .. k, m - 1 \in S  PROVE m \in S
  <2>1. i <= m => i = m \/ m \in i + 1 .. k
    BY <1>1
  <2>2. m \in i + 1 .. k => p(m) = p(m - 1) /\ i <= m - 1
    BY <1>2
  <2> QED BY <1>4, <2>1, <2>2
<1>5. k \in S
  <2> HIDE DEF S
  <2>1. k \in Nat
    BY <1>1
  <2>2. \A m \in 0 .. k : m \in S
    BY <1>3, <1>4, <2>1, Induction
  <2> QED BY <2>1, <2>2
<1> QED BY <1>5 DEF p

LEMMA SnapBetweenIs ==
  ASSUME NEW list \in Lists, NEW from \in Int, NEW to \in Int, NEW state
  PROVE  \/ SnapBetween(list, from, to, state) = state
         \/ \E x \in Snaps(list) :
              /\ from < x /\ x < to
              /\ SnapBetween(list, from, to, state) = list[x].state
<1> DEFINE between == {j \in DOMAIN list : from < j /\ j < to /\ IsSnap(list[j])}
<1>1. Len(list) \in Nat /\ DOMAIN list = 1 .. Len(list)
  BY LenProperties DEF Lists
<1>2. between \subseteq 1 .. Len(list)
  BY <1>1
<1>3. CASE between = {}
  BY <1>3 DEF SnapBetween
<1>4. CASE between # {}
  <2>1. Max(between) \in between
    <3> HIDE DEF between
    <3> QED BY <1>1, <1>2, <1>4, MaxExists
  <2>2. SnapBetween(list, from, to, state) = list[Max(between)].state
    BY <1>4 DEF SnapBetween
  <2>3. PICK x \in between : x = Max(between)
    BY <2>1
  <2>4. x \in Snaps(list) /\ from < x /\ x < to
    BY <1>1, <2>3, SnapEntry
  <2> QED BY <2>2, <2>3, <2>4
<1> QED BY <1>3, <1>4

-----------------------------------------------------------------------------
(* The inductive invariant.                                                *)

Typed ==
  /\ blocks \in Lists
  /\ file \in Lists
  /\ machine \in States
  /\ recorded \in Histories
  /\ cursor \in [block : Nat, frame : Nat, data : Nat]
  /\ autosave_frame_count \in 0 .. AUTOSAVE_INTERVAL - 1
  /\ rzx_recording \in BOOLEAN /\ rzx_playback \in BOOLEAN
  /\ rzx_competition_mode \in BOOLEAN /\ rzx_autosaves \in BOOLEAN
  /\ retrigger \in BOOLEAN /\ unaged \in BOOLEAN

Exclusive ==
  /\ ~ (rzx_recording /\ rzx_playback)
  /\ Idle => machine = Away

\* What is recorded leads to the machine, from every snapshot on the way.
Recorded == rzx_recording => Follows(blocks, machine)

\* So does a file, to the state it was closed in.
Leads(list, history) ==
  /\ Faithful(list)
  /\ HasInput(list)
  /\ Plain(list)
  /\ z80_interrupt(Replay(list)) = z80_interrupt(history)

Filed == file # NoFile => Leads(file, recorded)

\* Playing a list has done what the frames before the cursor's do.
Plays(list, c, m) ==
  /\ m.due = FALSE
  /\ c.block \in 1 .. Len(list)
  /\ IsInput(list[c.block])
  /\ c.frame \in 1 .. Len(list[c.block].frames) + 1
  /\ c.data <= c.frame
  /\ c.frame <= Len(list[c.block].frames) =>
       OwnFrame(list[c.block].frames, c.frame, c.data)
  /\ m.history = RunBlock(Replay(SubSeq(list, 1, c.block - 1)),
                          Cut(list[c.block], c.frame - 1))

Playing ==
  rzx_playback => file # NoFile /\ blocks = file /\ Plays(blocks, cursor, machine)

\* The count that autosave_frame keeps is in step with the automatic snapshots'
\* ages, unless it has missed frames.
Spaced ==
  rzx_recording =>
    /\ unaged \/ Spacing(blocks, autosave_frame_count)
    /\ rzx_competition_mode => Autosaves(blocks) = {}

\* Unless a block may be closed without a frame, all but the one recorded to have
\* some, and so playback has a frame to play.
Framed ==
  EmptyBlocks = FALSE =>
    /\ rzx_recording => FilledButLast(blocks)
    /\ file # NoFile => Filled(file)
    /\ rzx_playback => HasFrame

IInv == Typed /\ Exclusive /\ Recorded /\ Filed /\ Playing /\ Spaced /\ Framed

LEMMA AwayIs ==
  Away \in States /\ After(Away) = <<>> /\ Away.history = <<>> /\ Away.due = FALSE
<1>1. <<>> \in Histories
  BY EmptySeq DEF Histories
<1> QED BY <1>1 DEF Away, States, After

LEMMA EmptyList ==
  <<>> \in Lists /\ <<>> \in Histories /\ Faithful(<<>>) /\ Replay(<<>>) = <<>>
  /\ Autosaves(<<>>) = {} /\ Filled(<<>>)
<1>1. <<>> \in Lists /\ <<>> \in Histories
  BY EmptySeq DEF Lists, Histories
<1>2. Autosaves(<<>>) = {}
  BY <1>1, AutosaveEntry, EmptySeq
<1>3. Filled(<<>>)
  BY EmptySeq DEF Filled
<1> QED BY <1>1, <1>2, <1>3, FaithfulEmpty, ReplayAppend

LEMMA FollowsInput ==
  ASSUME NEW list, NEW m, Follows(list, m)
  PROVE  /\ list \in Lists /\ Faithful(list) /\ Replay(list) = After(m)
         /\ HasInput(list)
         /\ \A other : After(other) = After(m) => Follows(list, other)
<1>1. list \in Lists /\ list # <<>> /\ IsInput(Last(list))
  BY DEF Follows
<1>2. Len(list) \in 1 .. Len(list)
  <2>1. Len(list) \in Nat \ {0}
    BY <1>1, EmptySeq DEF Lists
  <2> QED BY <2>1
<1>3. HasInput(list)
  BY <1>1, <1>2 DEF HasInput, Last
<1> QED BY <1>3 DEF Follows

LEMMA InitInvariant == Init => IInv
<1> SUFFICES ASSUME Init  PROVE IInv
  OBVIOUS
<1> USE DEF Init
<1>1. Typed
  <2>1. machine = Away /\ file = <<>> /\ blocks = <<>> /\ recorded = <<>>
    BY DEF Away, NoFile
  <2>2. cursor \in [block : Nat, frame : Nat, data : Nat]
    BY DEF AtFrame
  <2>3. 0 \in 0 .. AUTOSAVE_INTERVAL - 1
    BY AutosaveAssumption
  <2> QED BY <2>1, <2>2, <2>3, AwayIs, EmptyList DEF Typed
<1>2. Exclusive
  BY DEF Exclusive, Away
<1>3. Recorded /\ Filed /\ Playing /\ Spaced /\ Framed
  BY DEF Recorded, Filed, Playing, Spaced, Framed
<1> QED BY <1>1, <1>2, <1>3 DEF IInv

LEMMA Closed ==
  ASSUME Typed, rzx_playback = FALSE,
         NEW list \in Lists, Faithful(list), HasInput(list),
         NEW history \in Histories,
         z80_interrupt(Replay(list)) = z80_interrupt(history),
         EmptyBlocks = FALSE => Filled(list),
         CloseRecording(list, history),
         UNCHANGED <<rzx_playback, rzx_competition_mode, rzx_autosaves, cursor>>
  PROVE  IInv'
<1>1. /\ rzx_recording' = FALSE
      /\ file' = Written(list)
      /\ recorded' = history
      /\ blocks' = <<>>
      /\ machine' = Away
      /\ retrigger' = FALSE
      /\ autosave_frame_count' = 0
      /\ unaged' = FALSE
      /\ rzx_playback' = FALSE
  BY DEF CloseRecording
<1>2. /\ Written(list) \in Lists
      /\ Leads(Written(list), history)
  BY WrittenList DEF Leads
<1>3. Typed'
  <2>1. 0 \in 0 .. AUTOSAVE_INTERVAL - 1
    BY AutosaveAssumption
  <2> QED BY <1>1, <1>2, <2>1, AwayIs, EmptyList DEF Typed
<1>4. Exclusive'
  BY <1>1 DEF Exclusive
<1>5. Filed'
  BY <1>1, <1>2 DEF Filed
<1>6. Recorded' /\ Playing' /\ Spaced'
  BY <1>1 DEF Recorded, Playing, Spaced
<1>7. Framed'
  BY <1>1, WrittenList DEF Framed
<1> QED BY <1>3, <1>4, <1>5, <1>6, <1>7 DEF IInv

\* rzx_frame while recording: the frame stored does what the machine did.
LEMMA RecordingFrame ==
  ASSUME IInv, rzx_recording, NEW instructions \in {0, 1}, NEW ins \in Ins,
         NEW state \in States,
         After(state) = z80_interrupt(
           IF instructions = 0 THEN After(machine)
           ELSE Append(After(machine), ins)),
         recording_frame(instructions, ins, state)
  PROVE  IInv'
<1> DEFINE stored == Stored(blocks, instructions, ins)
<1>1. /\ Typed /\ Follows(blocks, machine) /\ Spaced /\ Filed /\ Framed
      /\ rzx_playback = FALSE
      /\ EmptyBlocks = FALSE => FilledButLast(blocks)
  BY DEF IInv, Recorded, Exclusive, Typed, Framed
<1>2. /\ Follows(stored, state)
      /\ HasInput(stored)
      /\ EmptyBlocks = FALSE => Filled(stored)
      /\ Autosaves(stored) = Autosaves(blocks)
      /\ \A k \in Autosaves(blocks) : Age(stored, k) = Age(blocks, k) + 1
  BY <1>1, StoredList
<1>3. /\ stored \in Lists /\ Faithful(stored) /\ Replay(stored) = After(state)
      /\ Filled(stored) => FilledButLast(stored)
      /\ blocks \in Lists
      /\ \A other : After(other) = After(state) => Follows(stored, other)
  BY <1>1, <1>2, FollowsInput, FilledAll
<1>4. /\ After(state) \in Histories /\ state.history \in Histories
      /\ z80_interrupt(state.history) = z80_interrupt(After(state))
  BY AfterType
<1>5. z80_interrupt(After(state)) = After(state)
  <2> DEFINE x == IF instructions = 0 THEN After(machine)
                  ELSE Append(After(machine), ins)
  <2>1. After(machine) \in Histories
    BY <1>1, AfterType DEF Typed
  <2>2. x \in Histories
    BY <2>1, LastOfAppend
  <2> HIDE DEF x
  <2>3. z80_interrupt(z80_interrupt(x)) = z80_interrupt(x)
    BY <2>2, Interrupted
  <2>4. After(state) = z80_interrupt(x)
    BY DEF x
  <2> QED BY <2>3, <2>4
<1>6. /\ \/ /\ rzx_competition_mode
            /\ CloseRecording(stored, state.history)
         \/ /\ rzx_competition_mode \/ ~ rzx_autosaves
            /\ blocks' = stored
            /\ unaged' = Unaged(stored)
            /\ EndOfFrame(state.history)
            /\ UNCHANGED <<rzx_recording, autosave_frame_count, file, recorded>>
         \/ /\ ~ rzx_competition_mode /\ rzx_autosaves
            /\ autosave_frame(stored, state)
            /\ unaged' = Unaged(blocks')
            /\ EndOfFrame(state.history)
            /\ UNCHANGED <<rzx_recording, file, recorded>>
      /\ UNCHANGED <<rzx_playback, rzx_competition_mode, rzx_autosaves, cursor>>
  BY Zenon DEF recording_frame, Stored
<1> HIDE DEF stored
<1>7. ASSUME EndOfFrame(state.history)
      PROVE  /\ machine' \in States /\ After(machine') = After(state)
             /\ retrigger' \in BOOLEAN
  <2>1. machine' = [history |-> After(state), due |-> FALSE]
    BY <1>4, <1>5, <1>7 DEF EndOfFrame
  <2>2. retrigger' \in BOOLEAN
    BY <1>7 DEF EndOfFrame
  <2> QED BY <1>4, <2>1, <2>2 DEF States, After
<1>8. CASE rzx_competition_mode /\ CloseRecording(stored, state.history)
  BY <1>1, <1>2, <1>3, <1>4, <1>5, <1>6, <1>8, Closed
<1>9. ASSUME blocks' \in Lists, Follows(blocks', state),
             EndOfFrame(state.history),
             UNCHANGED <<rzx_recording, file, recorded>>,
             autosave_frame_count' \in 0 .. AUTOSAVE_INTERVAL - 1,
             unaged' \in BOOLEAN,
             unaged' \/ Spacing(blocks', autosave_frame_count'),
             rzx_competition_mode => Autosaves(blocks') = {},
             EmptyBlocks = FALSE => FilledButLast(blocks')
      PROVE  IInv'
  <2>1. rzx_recording' /\ rzx_playback' = FALSE
    BY <1>1, <1>6, <1>9
  <2>2. Typed'
    BY <1>1, <1>6, <1>7, <1>9 DEF Typed
  <2>3. Exclusive'
    BY <2>1 DEF Exclusive, Idle
  <2>4. Recorded'
    <3>1. Follows(blocks', machine')
      BY <1>7, <1>9, FollowsInput
    <3> QED BY <3>1 DEF Recorded
  <2>5. Filed'
    BY <1>1, <1>9 DEF Filed
  <2>6. Playing'
    BY <2>1 DEF Playing
  <2>7. Spaced'
    BY <1>6, <1>9 DEF Spaced
  <2>8. Framed'
    BY <1>1, <1>9, <2>1 DEF Framed
  <2> QED BY <2>2, <2>3, <2>4, <2>5, <2>6, <2>7, <2>8 DEF IInv
<1>10. CASE /\ rzx_competition_mode \/ ~ rzx_autosaves
            /\ blocks' = stored
            /\ unaged' = Unaged(stored)
            /\ EndOfFrame(state.history)
            /\ UNCHANGED <<rzx_recording, autosave_frame_count, file, recorded>>
  <2>1. rzx_competition_mode => Autosaves(stored) = {}
    BY <1>1, <1>2 DEF Spaced
  <2>2. unaged' \/ Spacing(stored, autosave_frame_count)
    <3>1. CASE Autosaves(stored) = {}
      BY <3>1, NoAutosaves
    <3>2. CASE Autosaves(stored) # {}
      BY <1>10, <2>1, <3>2 DEF Unaged
    <3> QED BY <3>1, <3>2
  <2>4. unaged' \in BOOLEAN
    BY <1>10 DEF Unaged
  <2>3. autosave_frame_count \in 0 .. AUTOSAVE_INTERVAL - 1
    BY <1>1 DEF Typed
  <2> QED BY <1>2, <1>3, <1>9, <1>10, <2>1, <2>2, <2>3, <2>4
<1>11. CASE /\ ~ rzx_competition_mode /\ rzx_autosaves
            /\ autosave_frame(stored, state)
            /\ unaged' = Unaged(blocks')
            /\ EndOfFrame(state.history)
            /\ UNCHANGED <<rzx_recording, file, recorded>>
  <2> DEFINE count == (autosave_frame_count + 1) % AUTOSAVE_INTERVAL
  <2>1. autosave_frame_count' = count
        /\ blocks' = IF count # 0 THEN stored
                     ELSE autosave_prune(stored \o <<SnapBlock(state, TRUE), NewInput>>)
    BY <1>11 DEF autosave_frame
  <2>2. autosave_frame_count \in 0 .. AUTOSAVE_INTERVAL - 1
    BY <1>1 DEF Typed
  <2>3. count \in 0 .. AUTOSAVE_INTERVAL - 1
    <3>1. autosave_frame_count + 1 \in Int /\ AUTOSAVE_INTERVAL \in Nat \ {0}
      BY <2>2, AutosaveAssumption
    <3> QED BY <3>1, ModRange
  <2>4. ASSUME ~ unaged
        PROVE  /\ InPhase(stored, count)
               /\ Overdue(stored)
               /\ count # 0 => Sparse(stored)
    <3>1. Spacing(blocks, autosave_frame_count)
      BY <1>1, <2>4 DEF Spaced
    <3> QED BY <1>2, <1>3, <2>2, <3>1, AgedSpacing
  <2> HIDE DEF count
  <2>5. /\ Follows(blocks', state)
        /\ ~ unaged => Spacing(blocks', count)
        /\ EmptyBlocks = FALSE => FilledButLast(blocks')
    <3>1. CASE count # 0
      BY <3>1, <1>2, <1>3, <2>1, <2>4 DEF Spacing
    <3>2. CASE count = 0
      <4>1. ~ unaged => InPhase(stored, 0) /\ Overdue(stored)
        BY <2>4, <3>2
      <4>2. LET longer == stored \o <<SnapBlock(state, TRUE), NewInput>>
            IN /\ Follows(autosave_prune(longer), state)
               /\ ~ unaged => Spacing(autosave_prune(longer), 0)
               /\ Filled(stored) => FilledButLast(autosave_prune(longer))
        BY <1>2, <4>1, AutosavedList
      <4> QED BY <1>2, <2>1, <3>2, <4>2
    <3> QED BY <3>1, <3>2
  <2>6. blocks' \in Lists
    BY <2>5, FollowsInput
  <2>7. unaged' \/ Spacing(blocks', count)
    <3>1. CASE Autosaves(blocks') = {}
      BY <3>1, NoAutosaves
    <3>2. CASE Autosaves(blocks') # {}
      BY <1>11, <2>5, <3>2 DEF Unaged
    <3> QED BY <3>1, <3>2
  <2>8. unaged' \in BOOLEAN
    BY <1>11 DEF Unaged
  <2> QED BY <1>9, <1>11, <2>1, <2>3, <2>5, <2>6, <2>7, <2>8
<1> QED BY <1>6, <1>8, <1>10, <1>11

-----------------------------------------------------------------------------
(* Every action keeps the invariant. *)

LEMMA RecordingStep ==
  ASSUME IInv, NEW ins \in Ins,
         Frame(ins) \/ z80_interrupt_event_fn(ins)
           \/ FrameAfterRollback \/ InterruptAfterRollback
  PROVE  IInv'
<1>1. machine \in States /\ machine.history \in Histories /\ machine.due \in BOOLEAN
  BY AfterType DEF IInv, Typed
<1>2. ins \in Ins \cup {INT} /\ NoIns \in Ins
  BY InsAssumption
<1>3. CASE Frame(ins)
  <2> DEFINE state == [history |-> Append(machine.history, ins), due |-> TRUE]
  <2>1. Append(machine.history, ins) \in Histories
    BY <1>1, <1>2, LastOfAppend
  <2>2. rzx_recording /\ ~ machine.due /\ recording_frame(1, ins, state)
    BY <1>3 DEF Frame
  <2>3. state \in States /\ After(state) = z80_interrupt(Append(machine.history, ins))
    BY <2>1 DEF States, After
  <2>4. After(machine) = machine.history
    BY <2>2 DEF After
  <2> HIDE DEF state
  <2>5. After(state) = z80_interrupt(IF 1 = 0 THEN After(machine)
                                     ELSE Append(After(machine), ins))
    BY <2>3, <2>4
  <2> QED BY <2>2, <2>3, <2>5, RecordingFrame
<1>4. CASE z80_interrupt_event_fn(ins)
  <2> DEFINE x == Append(machine.history, ins)
             state == [history |-> z80_interrupt(x), due |-> FALSE]
  <2>1. x \in Histories
    BY <1>1, <1>2, LastOfAppend
  <2>2. rzx_recording /\ ~ machine.due /\ recording_frame(1, ins, state)
    BY <1>4 DEF z80_interrupt_event_fn
  <2>3. state \in States /\ After(state) = z80_interrupt(x)
    BY <2>1, Interrupted DEF States, After
  <2>4. After(machine) = machine.history
    BY <2>2 DEF After
  <2> HIDE DEF state
  <2>5. After(state) = z80_interrupt(IF 1 = 0 THEN After(machine)
                                     ELSE Append(After(machine), ins))
    BY <2>3, <2>4
  <2> QED BY <2>2, <2>3, <2>5, RecordingFrame
<1>5. CASE FrameAfterRollback
  <2>1. rzx_recording /\ machine.due /\ recording_frame(0, NoIns, machine)
    BY <1>5 DEF FrameAfterRollback
  <2>2. After(machine) = z80_interrupt(After(machine))
    BY <1>1, <2>1, Interrupted DEF After
  <2>3. After(machine) = z80_interrupt(IF 0 = 0 THEN After(machine)
                                       ELSE Append(After(machine), NoIns))
    BY <2>2
  <2> QED BY <1>1, <1>2, <2>1, <2>3, RecordingFrame
<1>6. CASE InterruptAfterRollback
  <2> DEFINE state == [history |-> z80_interrupt(machine.history), due |-> FALSE]
  <2>1. rzx_recording /\ ~ machine.due /\ recording_frame(0, NoIns, state)
    BY <1>6 DEF InterruptAfterRollback
  <2>2. state \in States /\ After(state) = z80_interrupt(machine.history)
    BY <1>1, Interrupted DEF States, After
  <2>3. After(machine) = machine.history
    BY <2>1 DEF After
  <2> HIDE DEF state
  <2>4. After(state) = z80_interrupt(IF 0 = 0 THEN After(machine)
                                     ELSE Append(After(machine), NoIns))
    BY <2>2, <2>3
  <2> QED BY <1>2, <2>1, <2>2, <2>4, RecordingFrame
<1> QED BY <1>3, <1>4, <1>5, <1>6

\* A recording begun from a list that leads to the machine.
LEMMA StartedInvariant ==
  ASSUME rzx_playback' = FALSE, rzx_autosaves' \in BOOLEAN,
         cursor' \in [block : Nat, frame : Nat, data : Nat],
         retrigger' \in BOOLEAN, machine' \in States,
         file' = NoFile, recorded' \in Histories,
         NEW list \in Lists, Faithful(list), Replay(list) = After(machine'),
         Autosaves(list) = {}, NEW competition \in BOOLEAN,
         EmptyBlocks = FALSE => Filled(list),
         start_recording(list, competition)
  PROVE  IInv'
<1>1. /\ blocks' = Append(list, NewInput)
      /\ autosave_frame_count' = 0
      /\ unaged' = FALSE
      /\ rzx_recording' = TRUE
      /\ rzx_competition_mode' = competition
  BY DEF start_recording
<1>2. /\ Follows(blocks', machine') /\ blocks' \in Lists
      /\ Autosaves(blocks') = {}
  BY <1>1, StartedList, FollowsInput
<1>3. Spacing(blocks', autosave_frame_count')
  BY <1>2, NoAutosaves
<1>4. 0 \in 0 .. AUTOSAVE_INTERVAL - 1 /\ file' \in Lists
  BY AutosaveAssumption, EmptyList DEF NoFile
<1>5. Typed'
  BY <1>1, <1>2, <1>4 DEF Typed
<1>6. Exclusive' /\ Filed' /\ Playing'
  BY <1>1 DEF Exclusive, Idle, Filed, Playing
<1>7. Recorded' /\ Spaced'
  BY <1>2, <1>3 DEF Recorded, Spaced
<1>8. Framed'
  BY <1>1, NewInputBlock, AppendKinds DEF Framed
<1> QED BY <1>5, <1>6, <1>7, <1>8 DEF IInv

LEMMA StartRecordingStep ==
  ASSUME IInv, NEW embed \in BOOLEAN, NEW competition \in BOOLEAN,
         rzx_start_recording(embed, competition)
  PROVE  IInv'
<1> DEFINE list == IF embed THEN <<SnapBlock(machine, FALSE)>> ELSE <<>>
<1>1. /\ Idle /\ file = NoFile /\ start_recording(list, competition)
      /\ retrigger' \in BOOLEAN
      /\ UNCHANGED <<rzx_playback, rzx_autosaves, machine, cursor, file, recorded>>
  BY DEF rzx_start_recording
<1>2. machine = Away /\ machine' = Away /\ rzx_playback = FALSE
  BY <1>1 DEF IInv, Exclusive, Idle, Typed
<1>3. /\ Away \in States /\ After(Away) = <<>>
  BY AwayIs
<1>4. /\ list \in Lists /\ Faithful(list) /\ Replay(list) = <<>> /\ Autosaves(list) = {}
      /\ Filled(list)
  <2>1. CASE ~ embed
    BY <2>1, EmptyList
  <2>2. CASE embed
    <3> DEFINE s == SnapBlock(machine, FALSE)
    <3>1. /\ s \in Blocks /\ IsSnap(s) /\ ~ IsInput(s)
          /\ s.automatic = FALSE /\ Frames(s) = 0
      BY <1>2, <1>3, SnapBlockIs
    <3>2. /\ Append(<<>>, s) \in Lists /\ Faithful(Append(<<>>, s))
          /\ Replay(Append(<<>>, s)) = <<>>
      BY <1>2, <1>3, EmptyList, SnappedList
    <3>3. Autosaves(Append(<<>>, s)) = {} /\ Filled(Append(<<>>, s))
      BY <3>1, EmptyList, SpacingAppend, AppendKinds
    <3> HIDE DEF s
    <3>4. Append(<<>>, s) = <<s>>
      OBVIOUS
    <3> QED BY <2>2, <3>2, <3>3, <3>4 DEF s
  <2> QED BY <2>1, <2>2
<1> HIDE DEF list
<1> QED BY <1>1, <1>2, <1>3, <1>4, StartedInvariant DEF IInv, Typed

LEMMA ContinueStep ==
  ASSUME IInv, rzx_continue_recording
  PROVE  IInv'
<1>1. /\ Idle /\ file # NoFile
      /\ IsSnap(Last(file))
      /\ machine' = Last(file).state
      /\ retrigger' \in BOOLEAN
      /\ start_recording(file, FALSE)
      /\ file' = NoFile
      /\ recorded' = <<>>
      /\ UNCHANGED <<rzx_playback, rzx_autosaves, cursor>>
  BY DEF rzx_continue_recording
<1>2. /\ file \in Lists /\ Faithful(file) /\ Plain(file) /\ rzx_playback = FALSE
      /\ EmptyBlocks = FALSE => Filled(file)
  BY <1>1 DEF IInv, Filed, Leads, Typed, Idle, Framed
<1>3. Len(file) \in 1 .. Len(file)
  <2>1. Len(file) \in Nat \ {0}
    BY <1>1, <1>2, EmptySeq DEF Lists, NoFile
  <2> QED BY <2>1
<1>4. Len(file) \in Snaps(file) /\ Last(file).state \in States
  BY <1>1, <1>2, <1>3, SnapEntry DEF Last
<1>5. Replay(file) = After(Last(file).state)
  <2>1. SubSeq(file, 1, Len(file)) = file
    BY <1>2, FullPrefix DEF Lists
  <2> QED BY <1>2, <1>4, <2>1 DEF Faithful, Last
<1>6. Autosaves(file) = {}
  BY <1>2, PlainAutosaves
<1>7. machine' \in States /\ Replay(file) = After(machine')
  BY <1>1, <1>4, <1>5
<1> QED BY <1>1, <1>2, <1>6, <1>7, EmptyList, StartedInvariant DEF IInv, Typed

\* A block that is closed has a frame.
LEMMA ClosedBlocks ==
  ASSUME NEW list, NEW m, Follows(list, m), CanClose(list), EmptyBlocks = FALSE,
         FilledButLast(list)
  PROVE  Filled(list)
<1> DEFINE last == Last(list)
<1>1. list \in Lists /\ list # <<>> /\ IsInput(last) /\ last.frames # <<>>
  BY DEF Follows, CanClose
<1>2. last \in Blocks
  <2>1. Len(list) \in 1 .. Len(list)
    <3>1. Len(list) \in Nat \ {0}
      BY <1>1, EmptySeq DEF Lists
    <3> QED BY <3>1
  <2> QED BY <1>1, <2>1, ListEntry DEF Last
<1>3. Frames(last) # 0
  <2>1. last.frames \in Seq(FrameRecords)
    BY <1>1, <1>2, BlockKinds, InputKind
  <2>2. Len(last.frames) # 0
    BY <1>1, <2>1, EmptySeq
  <2> QED BY <1>1, <2>2 DEF Frames
<1> QED BY <1>1, <1>3, FilledFront

LEMMA StopStep ==
  ASSUME IInv, rzx_stop_recording
  PROVE  IInv'
<1> DEFINE list == IF rzx_competition_mode THEN blocks
                   ELSE Append(blocks, SnapBlock(machine, FALSE))
<1>1. /\ rzx_recording
      /\ CanClose(blocks)
      /\ CloseRecording(list, machine.history)
      /\ UNCHANGED <<rzx_playback, rzx_competition_mode, rzx_autosaves, cursor>>
  BY DEF rzx_stop_recording
<1>2. Typed /\ rzx_playback = FALSE /\ Follows(blocks, machine) /\ machine \in States
  BY <1>1 DEF IInv, Exclusive, Recorded, Typed
<1>3. /\ blocks \in Lists /\ Faithful(blocks) /\ Replay(blocks) = After(machine)
      /\ HasInput(blocks)
  BY <1>2, FollowsInput
<1>4. /\ list \in Lists /\ Faithful(list) /\ Replay(list) = After(machine)
      /\ HasInput(list)
      /\ EmptyBlocks = FALSE => Filled(list)
  <2>1. EmptyBlocks = FALSE => Filled(blocks)
    BY <1>1, <1>2, ClosedBlocks DEF IInv, Framed
  <2>2. CASE rzx_competition_mode
    BY <1>3, <2>1, <2>2
  <2>3. CASE ~ rzx_competition_mode
    BY <1>2, <1>3, <2>1, <2>3, SnappedList, SnapBlockIs, AppendKinds
  <2> QED BY <2>2, <2>3
<1> HIDE DEF list
<1>5. machine.history \in Histories
      /\ z80_interrupt(Replay(list)) = z80_interrupt(machine.history)
  BY <1>2, <1>4, AfterType
<1> QED BY <1>1, <1>2, <1>4, <1>5, Closed

\* What is left of the recording follows the machine.
LEMMA KeptRecording ==
  ASSUME IInv, rzx_recording,
         UNCHANGED <<rzx_recording, rzx_playback, rzx_competition_mode,
                     rzx_autosaves, cursor, file, recorded>>,
         machine' \in States, retrigger' \in BOOLEAN,
         Follows(blocks', machine'),
         autosave_frame_count' \in 0 .. AUTOSAVE_INTERVAL - 1,
         unaged' \in BOOLEAN,
         unaged' \/ Spacing(blocks', autosave_frame_count'),
         Autosaves(blocks') \subseteq Autosaves(blocks),
         EmptyBlocks = FALSE => FilledButLast(blocks')
  PROVE  IInv'
<1>1. rzx_playback' = FALSE /\ rzx_recording'
  BY DEF IInv, Exclusive, Typed
<1>2. blocks' \in Lists
  BY FollowsInput
<1>3. Typed'
  BY <1>2 DEF IInv, Typed
<1>4. Exclusive' /\ Playing'
  BY <1>1 DEF Exclusive, Idle, Playing
<1>5. Recorded' /\ Filed'
  BY DEF IInv, Recorded, Filed
<1>6. Spaced' /\ Framed'
  BY <1>1 DEF IInv, Spaced, Framed
<1> QED BY <1>3, <1>4, <1>5, <1>6 DEF IInv

LEMMA InsertStep ==
  ASSUME IInv, menu_file_recording_insertsnapshot
  PROVE  IInv'
<1> DEFINE s == SnapBlock(machine, FALSE)
           snapped == Append(blocks, s)
           new == Append(snapped, NewInput)
<1>1. /\ rzx_recording
      /\ CanClose(blocks)
      /\ blocks' = blocks \o <<s, NewInput>>
      /\ UNCHANGED <<rzx_recording, rzx_playback, rzx_competition_mode,
                     rzx_autosaves, autosave_frame_count, unaged, machine,
                     retrigger, cursor, file, recorded>>
  BY DEF menu_file_recording_insertsnapshot
<1>2. /\ Follows(blocks, machine) /\ machine \in States /\ retrigger \in BOOLEAN
      /\ unaged \/ Spacing(blocks, autosave_frame_count)
      /\ unaged \in BOOLEAN
      /\ autosave_frame_count \in 0 .. AUTOSAVE_INTERVAL - 1
  BY <1>1 DEF IInv, Recorded, Spaced, Typed
<1>3. blocks \in Lists /\ Faithful(blocks) /\ Replay(blocks) = After(machine)
  BY <1>2, FollowsInput
<1>4. /\ snapped \in Lists /\ Faithful(snapped) /\ Replay(snapped) = After(machine)
      /\ blocks' = new
  BY <1>1, <1>2, <1>3, SnappedList
<1>5. s \in Blocks /\ s.automatic = FALSE /\ Frames(s) = 0 /\ ~ IsInput(s)
  BY <1>2, SnapBlockIs
<1>6. /\ Autosaves(snapped) = Autosaves(blocks)
      /\ unaged \/ Spacing(snapped, autosave_frame_count)
  BY <1>2, <1>3, <1>5, SpacingAppend
<1>9. EmptyBlocks = FALSE => FilledButLast(new)
  <2>1. EmptyBlocks = FALSE => Filled(blocks)
    BY <1>1, <1>2, ClosedBlocks DEF IInv, Framed
  <2>2. EmptyBlocks = FALSE => Filled(snapped)
    BY <1>3, <1>5, <2>1, AppendKinds
  <2> HIDE DEF snapped
  <2> QED BY <1>4, <2>2, NewInputBlock, AppendKinds
<1> HIDE DEF s, snapped
<1>7. /\ Follows(new, machine)
      /\ Autosaves(new) = Autosaves(snapped)
      /\ unaged \/ Spacing(new, autosave_frame_count)
  BY <1>4, <1>6, StartedList
<1> HIDE DEF new
<1>8. /\ Follows(blocks', machine') /\ machine' \in States /\ retrigger' \in BOOLEAN
      /\ unaged' \/ Spacing(blocks', autosave_frame_count')
      /\ unaged' \in BOOLEAN
      /\ autosave_frame_count' \in 0 .. AUTOSAVE_INTERVAL - 1
      /\ Autosaves(blocks') \subseteq Autosaves(blocks)
      /\ EmptyBlocks = FALSE => FilledButLast(blocks')
  BY <1>1, <1>2, <1>4, <1>6, <1>7, <1>9
<1> QED BY <1>1, <1>8, KeptRecording

LEMMA RollbackStep ==
  ASSUME IInv, NEW which, rzx_rollback_to(which)
  PROVE  IInv'
<1>1. PICK k \in Snaps(blocks) : start_after_rollback(SubSeq(blocks, 1, k))
  BY DEF rzx_rollback_to
<1>2. /\ rzx_recording /\ ~ rzx_competition_mode
      /\ UNCHANGED <<rzx_recording, rzx_playback, rzx_competition_mode,
                     rzx_autosaves, cursor, file, recorded>>
  BY DEF rzx_rollback_to
<1>3. /\ Follows(blocks, machine) /\ retrigger \in BOOLEAN
      /\ unaged \/ Spacing(blocks, autosave_frame_count)
      /\ unaged \in BOOLEAN
      /\ autosave_frame_count \in 0 .. AUTOSAVE_INTERVAL - 1
  BY <1>2 DEF IInv, Recorded, Spaced, Typed
<1>4. blocks \in Lists /\ Faithful(blocks)
  BY <1>3, FollowsInput
<1> DEFINE new == Append(SubSeq(blocks, 1, k), NewInput)
<1>5. /\ Last(SubSeq(blocks, 1, k)) = blocks[k]
      /\ blocks[k].state \in States
      /\ EmptyBlocks = FALSE => FilledButLast(new)
      /\ Follows(new, blocks[k].state)
      /\ Autosaves(new) \subseteq Autosaves(blocks)
      /\ autosave_reset(new) \in 0 .. AUTOSAVE_INTERVAL - 1
      /\ unaged \/ Spacing(new, autosave_reset(new))
  BY <1>2, <1>3, <1>4, RolledBack DEF IInv, Framed, Follows
<1>6. /\ machine' = blocks[k].state
      /\ retrigger' = retrigger
      /\ blocks' = new
      /\ autosave_frame_count' = IF rzx_autosaves THEN autosave_reset(new)
                                 ELSE autosave_frame_count
      /\ unaged' = Unaged(new)
  BY <1>1, <1>5 DEF start_after_rollback
<1> HIDE DEF new
<1>7. /\ unaged' \/ Spacing(blocks', autosave_frame_count')
      /\ unaged' \in BOOLEAN
      /\ autosave_frame_count' \in 0 .. AUTOSAVE_INTERVAL - 1
  <2>1. unaged' \/ Spacing(new, autosave_frame_count')
    <3>1. CASE Autosaves(new) = {}
      BY <3>1, NoAutosaves
    <3>2. CASE Autosaves(new) # {} /\ rzx_autosaves
      BY <3>2, <1>5, <1>6 DEF Unaged
    <3>3. CASE Autosaves(new) # {} /\ ~ rzx_autosaves
      BY <3>3, <1>6 DEF Unaged
    <3> QED BY <3>1, <3>2, <3>3
  <2>2. unaged' \in BOOLEAN
    BY <1>6 DEF Unaged
  <2> QED BY <2>1, <2>2, <1>3, <1>5, <1>6
<1>8. /\ machine' \in States /\ retrigger' \in BOOLEAN /\ Follows(blocks', machine')
      /\ Autosaves(blocks') \subseteq Autosaves(blocks)
      /\ EmptyBlocks = FALSE => FilledButLast(blocks')
  BY <1>3, <1>5, <1>6
<1> QED BY <1>2, <1>7, <1>8, KeptRecording

LEMMA RefusedStep ==
  ASSUME IInv, RetriggerRefused
  PROVE  IInv'
<1>1. /\ retrigger' = FALSE
      /\ UNCHANGED <<blocks, rzx_recording, rzx_playback, rzx_competition_mode,
                     rzx_autosaves, autosave_frame_count, unaged, machine,
                     cursor, file, recorded>>
  BY DEF RetriggerRefused
<1>2. Typed'
  BY <1>1 DEF IInv, Typed
<1>3. Exclusive' /\ Recorded' /\ Filed' /\ Spaced'
  BY <1>1 DEF IInv, Exclusive, Idle, Recorded, Filed, Spaced
<1>4. Playing' /\ Framed'
  BY <1>1 DEF IInv, Playing, Framed, HasFrame
<1> QED BY <1>2, <1>3, <1>4 DEF IInv

LEMMA FinaliseStep ==
  ASSUME IInv, rzx_finalise_recording
  PROVE  IInv'
<1>1. /\ Idle /\ file # NoFile
      /\ file' = libspectrum_rzx_finalise(file)
      /\ UNCHANGED <<blocks, rzx_recording, rzx_playback, rzx_competition_mode,
                     rzx_autosaves, autosave_frame_count, unaged, machine,
                     retrigger, cursor, recorded>>
  BY DEF rzx_finalise_recording
<1>2. file \in Lists /\ Leads(file, recorded)
  BY <1>1 DEF IInv, Filed, Typed
<1>3. /\ file' \in Lists /\ Leads(file', recorded)
  BY <1>1, <1>2, Finalised DEF Leads
<1>4. Typed' /\ Exclusive' /\ Filed'
  BY <1>1, <1>3 DEF IInv, Typed, Exclusive, Idle, Filed
<1>5. Recorded' /\ Playing' /\ Spaced'
  BY <1>1 DEF Idle, Recorded, Playing, Spaced
<1>6. Framed'
  <2>1. EmptyBlocks = FALSE => Filled(file')
    BY <1>1, <1>2, Finalised DEF IInv, Framed
  <2> QED BY <1>1, <2>1 DEF Idle, Framed
<1> QED BY <1>4, <1>5, <1>6 DEF IInv

LEMMA OptionStep ==
  ASSUME IInv, menu_options_rzx
  PROVE  IInv'
<1>1. /\ rzx_autosaves' = ~ rzx_autosaves
      /\ UNCHANGED <<blocks, rzx_recording, rzx_playback, rzx_competition_mode,
                     autosave_frame_count, unaged, machine, retrigger, cursor,
                     file, recorded>>
  BY DEF menu_options_rzx
<1>2. Typed'
  BY <1>1 DEF IInv, Typed
<1>3. Exclusive' /\ Recorded' /\ Filed' /\ Spaced'
  BY <1>1 DEF IInv, Exclusive, Idle, Recorded, Filed, Spaced
<1>4. Playing' /\ Framed'
  BY <1>1 DEF IInv, Playing, Framed, HasFrame
<1> QED BY <1>2, <1>3, <1>4 DEF IInv

\* A list is played from the start of one of its input blocks.
LEMMA AtBlock ==
  ASSUME NEW list \in Lists, NEW k \in 1 .. Len(list), IsInput(list[k]),
         NEW m \in States, m.due = FALSE,
         m.history = Replay(SubSeq(list, 1, k - 1))
  PROVE  /\ AtFrame(k) \in [block : Nat, frame : Nat, data : Nat]
         /\ Plays(list, AtFrame(k), m)
         /\ Filled(list) =>
              AtFrame(k).frame <= Len(list[AtFrame(k).block].frames)
<1> DEFINE c == AtFrame(k)
           b == list[k]
           h == Replay(SubSeq(list, 1, k - 1))
<1>1. c.block = k /\ c.frame = 1 /\ c.data = 1
      /\ c \in [block : Nat, frame : Nat, data : Nat]
  BY DEF AtFrame
<1>2. /\ b \in InputBlocks /\ Len(b.frames) \in Nat
      /\ b.frames # <<>> => ~ b.frames[1].repeat_last
      /\ b.frames = <<>> => Len(b.frames) = 0
  BY ListEntry, BlockKinds, InputKind, LenProperties, EmptySeq
<1>3. h \in Histories
  BY ListPrefix, ReplayAppend
<1>4. RunBlock(h, Cut(b, 1 - 1)) = h
  BY <1>2, <1>3, CutRun
<1>5. 1 <= Len(b.frames) => OwnFrame(b.frames, 1, 1)
  BY <1>2 DEF OwnFrame
<1>6. 1 \in 1 .. Len(b.frames) + 1
  BY <1>2
<1>10. Filled(list) => 1 <= Len(b.frames)
  <2>1. Filled(list) => Frames(b) # 0
    BY DEF Filled
  <2>2. Frames(b) = Len(b.frames)
    BY DEF Frames
  <2> HIDE DEF b
  <2> QED BY <1>2, <2>1, <2>2
<1> HIDE DEF b, h, c
<1>7. m.history = RunBlock(h, Cut(b, c.frame - 1))
  BY <1>1, <1>4 DEF h
<1>8. c.frame <= Len(b.frames) => OwnFrame(b.frames, c.frame, c.data)
  BY <1>1, <1>5
<1>9. Plays(list, c, m)
  BY <1>1, <1>6, <1>7, <1>8 DEF Plays, b, h
<1> QED BY <1>1, <1>9, <1>10 DEF c, b

LEMMA StartPlaybackStep ==
  ASSUME IInv, rzx_start_playback
  PROVE  IInv'
<1> DEFINE k == NextInput(file, 0)
           to == k
           from == k - 2
<1>1. /\ Idle /\ file # NoFile
      /\ blocks' = file
      /\ cursor' = AtFrame(k)
      /\ machine' = SnapBetween(file, cursor'.block - 2, cursor'.block,
                                [history |-> <<>>, due |-> FALSE])
      /\ retrigger' = FALSE
      /\ rzx_playback' = TRUE
      /\ UNCHANGED <<rzx_recording, rzx_competition_mode, rzx_autosaves,
                     autosave_frame_count, unaged, file, recorded>>
  BY DEF rzx_start_playback
<1>2. file \in Lists /\ Faithful(file) /\ HasInput(file) /\ Leads(file, recorded)
  BY <1>1 DEF IInv, Filed, Leads, Typed
<1>3. Len(file) \in Nat
  BY <1>2, LenProperties DEF Lists
<1>4. /\ k \in 1 .. Len(file) /\ IsInput(file[k])
      /\ \A i \in 1 .. k - 1 : ~ IsInput(file[i])
  <2>1. /\ k = 0 => \A i \in 0 + 1 .. Len(file) : ~ IsInput(file[i])
        /\ k # 0 => /\ k \in 1 .. Len(file) /\ IsInput(file[k])
                    /\ \A i \in 0 + 1 .. k - 1 : ~ IsInput(file[i])
    BY <1>2, NextInputIs
  <2> HIDE DEF k
  <2>2. k # 0
    BY <1>2, <2>1 DEF HasInput
  <2> QED BY <2>1, <2>2
<1> HIDE DEF k
<1>5. \A x \in 0 .. k - 1 : Replay(SubSeq(file, 1, x)) = <<>>
  <2>1. ASSUME NEW x \in 0 .. k - 1  PROVE Replay(SubSeq(file, 1, x)) = <<>>
    <3>1. x \in 0 .. Len(file) /\ 0 \in 0 .. Len(file) /\ 0 <= x
          /\ \A m \in 0 + 1 .. x : ~ IsInput(file[m])
      BY <1>3, <1>4
    <3>2. Replay(SubSeq(file, 1, x)) = Replay(SubSeq(file, 1, 0))
      BY <1>2, <3>1, ReplayBetween
    <3> QED BY <1>2, <3>2, FullPrefix, EmptyList DEF Lists
  <2> QED BY <2>1
<1>6. machine' \in States /\ machine'.due = FALSE /\ machine'.history = <<>>
  <2>1. machine' = SnapBetween(file, from, to, Away) /\ from \in Int /\ to \in Int
    BY <1>1, <1>4 DEF AtFrame, Away
  <2>2. CASE machine' = Away
    BY <2>2, AwayIs
  <2>3. CASE \E x \in Snaps(file) :
               from < x /\ x < to /\ machine' = file[x].state
    <3>1. PICK x \in Snaps(file) : x < to /\ machine' = file[x].state
      BY <2>3
    <3>2. x \in 1 .. Len(file) /\ file[x].state \in States
      BY <1>2, SnapEntry
    <3>3. x \in 0 .. k - 1
      BY <1>4, <3>1, <3>2
    <3>4. After(file[x].state) = <<>>
      BY <1>2, <1>5, <3>3 DEF Faithful
    <3> QED BY <3>1, <3>2, <3>4, AfterType
  <2> HIDE DEF from, to
  <2> QED BY <1>2, <2>1, <2>2, <2>3, SnapBetweenIs
<1>7. machine'.history = Replay(SubSeq(file, 1, k - 1))
  <2>1. k - 1 \in 0 .. k - 1
    BY <1>4
  <2> QED BY <1>5, <1>6, <2>1
<1>8. /\ cursor' \in [block : Nat, frame : Nat, data : Nat]
      /\ Plays(blocks', cursor', machine')
      /\ Filled(file) => HasFrame'
  BY <1>1, <1>2, <1>4, <1>6, <1>7, AtBlock DEF HasFrame
<1>9. Typed'
  BY <1>1, <1>2, <1>6, <1>8 DEF IInv, Typed
<1>10. Exclusive' /\ Recorded' /\ Spaced'
  BY <1>1 DEF Exclusive, Idle, Recorded, Spaced
<1>11. Filed' /\ Playing'
  BY <1>1, <1>2, <1>8 DEF Filed, Playing
<1>12. Framed'
  BY <1>1, <1>8 DEF IInv, Framed, Idle
<1> QED BY <1>9, <1>10, <1>11, <1>12 DEF IInv

LEMMA StoppedPlayback ==
  ASSUME IInv, rzx_playback, StopPlayback
  PROVE  IInv'
<1>1. /\ rzx_playback' = FALSE
      /\ blocks' = <<>>
      /\ machine' = Away
      /\ retrigger' = FALSE
      /\ cursor' = AtFrame(1)
      /\ UNCHANGED <<rzx_recording, rzx_competition_mode, rzx_autosaves,
                     autosave_frame_count, unaged, file, recorded>>
  BY DEF StopPlayback
<1>2. rzx_recording = FALSE
  BY DEF IInv, Exclusive, Typed
<1>3. cursor' \in [block : Nat, frame : Nat, data : Nat]
  BY <1>1 DEF AtFrame
<1>4. Typed'
  BY <1>1, <1>3, AwayIs, EmptyList DEF IInv, Typed
<1>5. Exclusive' /\ Filed'
  BY <1>1 DEF IInv, Exclusive, Filed
<1>6. Recorded' /\ Playing' /\ Spaced' /\ Framed'
  BY <1>1, <1>2 DEF IInv, Recorded, Playing, Spaced, Framed
<1> QED BY <1>4, <1>5, <1>6 DEF IInv

\* What playing a frame does is what Replay does with it.
LEMMA PlayedFrame ==
  ASSUME IInv, rzx_playback, HasFrame
  PROVE  LET b == blocks[cursor.block]
             h == Replay(SubSeq(blocks, 1, cursor.block - 1))
         IN /\ blocks \in Lists /\ blocks = file /\ file # NoFile
            /\ Faithful(file) /\ Leads(file, recorded)
            /\ rzx_recording = FALSE
            /\ cursor.block \in 1 .. Len(blocks)
            /\ b \in InputBlocks /\ h \in Histories
            /\ cursor.frame \in 1 .. Len(b.frames)
            /\ cursor.data <= cursor.frame /\ cursor.data \in Nat
            /\ OwnFrame(b.frames, cursor.frame, cursor.data)
            /\ Played \in Histories
            /\ z80_interrupt(Played) = RunBlock(h, Cut(b, cursor.frame))
            /\ z80_interrupt(Played) \in Histories
            /\ z80_interrupt(z80_interrupt(Played)) = z80_interrupt(Played)
<1> DEFINE b == blocks[cursor.block]
           h == Replay(SubSeq(blocks, 1, cursor.block - 1))
           j == cursor.frame
<1>1. /\ blocks \in Lists /\ blocks = file /\ file # NoFile
      /\ Faithful(file) /\ Leads(file, recorded)
      /\ rzx_recording = FALSE
      /\ Plays(blocks, cursor, machine)
      /\ machine \in States
      /\ j \in Nat /\ cursor.data \in Nat
  BY DEF IInv, Typed, Exclusive, Filed, Leads, Playing
<1>2. /\ cursor.block \in 1 .. Len(blocks) /\ IsInput(b)
      /\ cursor.data <= j
      /\ OwnFrame(b.frames, j, cursor.data)
      /\ machine.history = RunBlock(h, Cut(b, j - 1))
      /\ j \in 1 .. Len(b.frames) + 1 /\ j <= Len(b.frames)
  BY <1>1 DEF Plays, HasFrame
<1>3. b \in InputBlocks /\ h \in Histories
  BY <1>1, <1>2, ListEntry, BlockKinds, ListPrefix, ReplayAppend
<1>4. Len(b.frames) \in Nat /\ j \in 1 .. Len(b.frames)
  <2>1. Len(b.frames) \in Nat
    BY <1>3, InputKind, LenProperties
  <2> HIDE DEF b, j
  <2> QED BY <1>2, <2>1
<1>5. RunBlock(h, Cut(b, j)) = FrameStep(b, j, machine.history)
  BY <1>2, <1>3, <1>4, CutRun
<1>6. Reads(b, j) = b.frames[cursor.data].ins /\ Reads(b, j) \in Ins
  BY <1>1, <1>2, <1>3, <1>4, ReadsOwn, FrameEntry
<1>7. Played = IF b.frames[j].instructions = 0 THEN machine.history
               ELSE Append(machine.history, Reads(b, j))
  BY <1>6 DEF Played
<1>8. machine.history \in Histories
  BY <1>1, AfterType
<1> HIDE DEF b, h, j
<1>9. Played \in Histories
  BY <1>6, <1>7, <1>8, LastOfAppend
<1>10. z80_interrupt(Played) = RunBlock(h, Cut(b, j))
  BY <1>5, <1>7 DEF FrameStep
<1>11. z80_interrupt(Played) \in Histories
       /\ z80_interrupt(z80_interrupt(Played)) = z80_interrupt(Played)
  BY <1>9, Interrupted
<1> QED BY <1>1, <1>2, <1>3, <1>4, <1>9, <1>10, <1>11 DEF b, h, j

\* Playback goes on when what has been played leads to the new cursor.
LEMMA PlaybackGoesOn ==
  ASSUME IInv, rzx_playback,
         UNCHANGED <<blocks, rzx_recording, rzx_playback, rzx_competition_mode,
                     rzx_autosaves, autosave_frame_count, unaged, file,
                     recorded>>,
         machine' \in States, retrigger' \in BOOLEAN,
         cursor' \in [block : Nat, frame : Nat, data : Nat],
         Plays(blocks', cursor', machine'),
         EmptyBlocks = FALSE => HasFrame'
  PROVE  IInv'
<1>1. rzx_recording = FALSE /\ rzx_recording' = FALSE /\ rzx_playback'
  BY DEF IInv, Exclusive, Typed
<1>2. Typed'
  BY DEF IInv, Typed
<1>3. Exclusive' /\ Recorded' /\ Spaced'
  BY <1>1 DEF Exclusive, Idle, Recorded, Spaced
<1>4. Filed' /\ Playing' /\ Framed'
  BY <1>1 DEF IInv, Filed, Playing, Framed
<1> QED BY <1>2, <1>3, <1>4 DEF IInv

LEMMA EndOfFrameType ==
  ASSUME NEW h \in Histories, z80_interrupt(h) \in Histories, EndOfFrame(h)
  PROVE  /\ machine' \in States
         /\ machine'.history = z80_interrupt(h) /\ machine'.due = FALSE
         /\ retrigger' \in BOOLEAN
BY DEF EndOfFrame, States

LEMMA PlayFrameStep ==
  ASSUME IInv, PlayFrameOfBlock
  PROVE  IInv'
<1> DEFINE b == blocks[cursor.block]
           h == Replay(SubSeq(blocks, 1, cursor.block - 1))
           j == cursor.frame
           data == IF b.frames[j + 1].repeat_last THEN cursor.data ELSE j + 1
<1>1. /\ rzx_playback /\ HasFrame
      /\ j < Len(b.frames)
      /\ cursor' = [cursor EXCEPT !.frame = j + 1, !.data = data]
      /\ EndOfFrame(Played)
      /\ UNCHANGED <<blocks, rzx_recording, rzx_playback, rzx_competition_mode,
                     rzx_autosaves, autosave_frame_count, unaged, file,
                     recorded>>
  BY DEF PlayFrameOfBlock
<1>2. /\ blocks \in Lists
      /\ cursor.block \in 1 .. Len(blocks)
      /\ b \in InputBlocks
      /\ j \in 1 .. Len(b.frames)
      /\ cursor.data <= j /\ cursor.data \in Nat
      /\ OwnFrame(b.frames, j, cursor.data)
      /\ Played \in Histories
      /\ z80_interrupt(Played) = RunBlock(h, Cut(b, j))
      /\ z80_interrupt(Played) \in Histories
  BY <1>1, PlayedFrame
<1>3. Len(b.frames) \in Nat /\ IsInput(b) /\ cursor.block \in Nat
  BY <1>2, InputKind, LenProperties DEF InputBlocks, IsInput
<1>4. cursor \in [block : Nat, frame : Nat, data : Nat]
  BY DEF IInv, Typed
<1> HIDE DEF b, h, j
<1>5. j + 1 \in 1 .. Len(b.frames) /\ j + 1 \in 1 .. Len(b.frames) + 1
      /\ j \in Nat
  BY <1>1, <1>2, <1>3
<1>6. data \in Nat /\ data <= j + 1 /\ OwnFrame(b.frames, j + 1, data)
  <2>1. b.frames[j + 1].repeat_last \in BOOLEAN
    BY <1>2, <1>5, FrameEntry DEF FrameRecords
  <2>2. CASE b.frames[j + 1].repeat_last
    <3>1. data = cursor.data
      BY <2>2
    <3>2. cursor.data \in 1 .. j /\ ~ b.frames[cursor.data].repeat_last
          /\ \A m \in cursor.data + 1 .. j : b.frames[m].repeat_last
      BY <1>2 DEF OwnFrame
    <3>3. ASSUME NEW m \in cursor.data + 1 .. j + 1
          PROVE  b.frames[m].repeat_last
      <4>1. m = j + 1 \/ m \in cursor.data + 1 .. j
        BY <1>2, <1>5
      <4> QED BY <2>2, <3>2, <4>1
    <3>4. cursor.data \in 1 .. j + 1
      BY <1>5, <3>2
    <3>5. OwnFrame(b.frames, j + 1, cursor.data)
      BY <3>2, <3>3, <3>4 DEF OwnFrame
    <3> QED BY <1>2, <1>5, <3>1, <3>5
  <2>3. CASE ~ b.frames[j + 1].repeat_last
    <3>1. data = j + 1
      BY <2>3
    <3> QED BY <1>5, <2>3, <3>1 DEF OwnFrame
  <2> QED BY <2>1, <2>2, <2>3
<1> HIDE DEF data
<1>7. /\ cursor' \in [block : Nat, frame : Nat, data : Nat]
      /\ cursor'.block = cursor.block /\ cursor'.frame = j + 1
      /\ cursor'.data = data
  <2>1. j + 1 \in Nat
    BY <1>5
  <2> QED BY <1>1, <1>4, <1>6, <2>1
<1>8. /\ machine' \in States /\ machine'.due = FALSE /\ retrigger' \in BOOLEAN
      /\ machine'.history = RunBlock(h, Cut(b, (j + 1) - 1))
  <2>1. (j + 1) - 1 = j
    BY <1>5
  <2> QED BY <1>1, <1>2, <2>1, EndOfFrameType
<1>9. Plays(blocks, cursor', machine')
  BY <1>2, <1>3, <1>5, <1>6, <1>7, <1>8 DEF Plays, b, h
<1>10. Plays(blocks', cursor', machine') /\ HasFrame'
  BY <1>1, <1>3, <1>5, <1>7, <1>9 DEF HasFrame, b
<1> QED BY <1>1, <1>7, <1>8, <1>10, PlaybackGoesOn

\* The last frame of a block leaves what replaying up to the block does.
LEMMA PlayedBlock ==
  ASSUME IInv, rzx_playback, HasFrame,
         cursor.frame = Len(blocks[cursor.block].frames)
  PROVE  z80_interrupt(Played) = Replay(SubSeq(blocks, 1, cursor.block))
<1> DEFINE b == blocks[cursor.block]
           h == Replay(SubSeq(blocks, 1, cursor.block - 1))
<1>1. /\ blocks \in Lists
      /\ cursor.block \in 1 .. Len(blocks)
      /\ b \in InputBlocks /\ h \in Histories
      /\ z80_interrupt(Played) = RunBlock(h, Cut(b, cursor.frame))
  BY PlayedFrame
<1>2. RunBlock(h, Cut(b, Len(b.frames))) = RunBlock(h, b)
  BY <1>1, CutRun
<1>3. IsInput(b)
  BY <1>1 DEF InputBlocks, IsInput
<1>4. Replay(SubSeq(blocks, 1, cursor.block)) = BlockStep(b, h)
  BY <1>1, ListPrefix
<1> QED BY <1>1, <1>2, <1>3, <1>4 DEF BlockStep

LEMMA PlayNextStep ==
  ASSUME IInv, PlayNextBlock
  PROVE  IInv' /\ machine'.history = z80_interrupt(Played)
<1> DEFINE c == cursor.block
           n == NextInput(blocks, c)
           here == [history |-> Played, due |-> FALSE]
           state == SnapBetween(blocks, c, n, here)
           p(k) == Replay(SubSeq(blocks, 1, k))
<1>1. /\ rzx_playback /\ HasFrame
      /\ cursor.frame = Len(blocks[c].frames)
      /\ n # 0
      /\ cursor' = AtFrame(n)
      /\ EndOfFrame(state.history)
      /\ UNCHANGED <<blocks, rzx_recording, rzx_playback, rzx_competition_mode,
                     rzx_autosaves, autosave_frame_count, unaged, file,
                     recorded>>
  BY DEF PlayNextBlock
<1>2. /\ blocks \in Lists /\ Faithful(blocks)
      /\ c \in 1 .. Len(blocks)
      /\ Played \in Histories
      /\ z80_interrupt(Played) \in Histories
      /\ z80_interrupt(z80_interrupt(Played)) = z80_interrupt(Played)
  BY <1>1, PlayedFrame
<1>3. z80_interrupt(Played) = p(c)
  BY <1>1, PlayedBlock
<1>4. Len(blocks) \in Nat /\ c \in Nat
  BY <1>2, LenProperties DEF Lists
<1>5. /\ n \in 1 .. Len(blocks) /\ c < n /\ IsInput(blocks[n])
      /\ \A i \in c + 1 .. n - 1 : ~ IsInput(blocks[i])
  BY <1>1, <1>2, <1>4, NextInputIs
<1> HIDE DEF c, n
<1>6. ASSUME NEW k \in c .. n - 1  PROVE p(k) = p(c)
  <2>1. c \in 0 .. Len(blocks) /\ k \in 0 .. Len(blocks) /\ c <= k
        /\ \A i \in c + 1 .. k : ~ IsInput(blocks[i])
    BY <1>4, <1>5
  <2> QED BY <1>2, <2>1, ReplayBetween
<1>7. state.history \in Histories
      /\ z80_interrupt(state.history) = z80_interrupt(Played)
  <2>1. CASE state = here
    BY <1>2, <2>1
  <2>2. CASE \E x \in Snaps(blocks) :
               c < x /\ x < n /\ state = blocks[x].state
    <3>1. PICK x \in Snaps(blocks) :
            c < x /\ x < n /\ state = blocks[x].state
      BY <2>2
    <3>2. x \in 1 .. Len(blocks) /\ blocks[x].state \in States
      BY <1>2, SnapEntry
    <3>3. x \in c .. n - 1
      BY <1>4, <1>5, <3>1, <3>2
    <3>4. After(state) = z80_interrupt(Played)
      BY <1>2, <1>3, <1>6, <3>1, <3>3 DEF Faithful
    <3> HIDE DEF state
    <3>5. state.history \in Histories
          /\ z80_interrupt(After(state)) = z80_interrupt(state.history)
      BY <3>1, <3>2, AfterType
    <3> QED BY <1>2, <3>4, <3>5
  <2>3. c \in Int /\ n \in Int
    BY <1>4, <1>5
  <2> HIDE DEF here
  <2> QED BY <1>2, <2>1, <2>2, <2>3, SnapBetweenIs
<1> HIDE DEF state
<1>8. /\ machine' \in States /\ machine'.due = FALSE /\ retrigger' \in BOOLEAN
      /\ machine'.history = z80_interrupt(Played)
  BY <1>1, <1>2, <1>7, EndOfFrameType
<1>9. machine'.history = p(n - 1)
  <2>1. n - 1 \in c .. n - 1
    BY <1>4, <1>5
  <2> QED BY <1>3, <1>6, <1>8, <2>1
<1>10. /\ cursor' \in [block : Nat, frame : Nat, data : Nat]
       /\ Plays(blocks, cursor', machine')
       /\ Filled(blocks) => cursor'.frame <= Len(blocks[cursor'.block].frames)
  BY <1>1, <1>2, <1>5, <1>8, <1>9, AtBlock
<1>11. Plays(blocks', cursor', machine') /\ (EmptyBlocks = FALSE => HasFrame')
  <2>1. EmptyBlocks = FALSE => Filled(blocks)
    BY <1>1 DEF IInv, Framed, Playing
  <2> QED BY <1>1, <1>10, <2>1 DEF HasFrame
<1>12. IInv'
  BY <1>1, <1>8, <1>10, <1>11, PlaybackGoesOn
<1> QED BY <1>8, <1>12

LEMMA PlayLastStep ==
  ASSUME IInv, PlayLastFrame
  PROVE  IInv' /\ z80_interrupt(Played) = z80_interrupt(recorded)
<1> DEFINE c == cursor.block
<1>1. /\ rzx_playback /\ HasFrame
      /\ cursor.frame = Len(blocks[c].frames)
      /\ NextInput(blocks, c) = 0
      /\ StopPlayback
  BY DEF PlayLastFrame
<1>2. /\ blocks \in Lists /\ blocks = file
      /\ Leads(file, recorded)
      /\ c \in 1 .. Len(blocks)
      /\ z80_interrupt(z80_interrupt(Played)) = z80_interrupt(Played)
  BY <1>1, PlayedFrame
<1>3. z80_interrupt(Played) = Replay(SubSeq(blocks, 1, c))
  BY <1>1, PlayedBlock
<1>4. Len(blocks) \in Nat /\ c \in Nat
  BY <1>2, LenProperties DEF Lists
<1>5. \A i \in c + 1 .. Len(blocks) : ~ IsInput(blocks[i])
  BY <1>1, <1>2, <1>4, NextInputIs
<1> HIDE DEF c
<1>6. Replay(SubSeq(blocks, 1, Len(blocks))) = Replay(SubSeq(blocks, 1, c))
  <2>1. c \in 0 .. Len(blocks) /\ Len(blocks) \in 0 .. Len(blocks)
        /\ c <= Len(blocks)
    BY <1>2, <1>4
  <2> QED BY <1>2, <1>5, <2>1, ReplayBetween
<1>7. SubSeq(blocks, 1, Len(blocks)) = blocks
  BY <1>2, FullPrefix DEF Lists
<1>8. z80_interrupt(Played) = z80_interrupt(recorded)
  BY <1>2, <1>3, <1>6, <1>7 DEF Leads
<1> QED BY <1>1, <1>8, StoppedPlayback

-----------------------------------------------------------------------------
(* The theorems.                                                           *)

LEMMA StepInvariant ==
  ASSUME IInv, [Next]_vars
  PROVE  IInv'
<1>1. CASE UNCHANGED vars
  <2>1. UNCHANGED <<blocks, rzx_recording, rzx_playback, rzx_competition_mode,
                    rzx_autosaves, autosave_frame_count, unaged, machine,
                    retrigger, cursor, file, recorded>>
    BY <1>1 DEF vars
  <2>2. Typed' /\ Exclusive'
    BY <2>1 DEF IInv, Typed, Exclusive, Idle
  <2>3. Recorded' /\ Filed' /\ Playing' /\ Spaced' /\ Framed'
    BY <2>1 DEF IInv, Recorded, Filed, Playing, Spaced, Framed, HasFrame
  <2> QED BY <2>2, <2>3 DEF IInv
<1>2. ASSUME NEW embed \in BOOLEAN, NEW competition \in BOOLEAN,
             rzx_start_recording(embed, competition)
      PROVE  IInv'
  BY <1>2, StartRecordingStep
<1>3. ASSUME NEW ins \in Ins, Frame(ins) \/ z80_interrupt_event_fn(ins)
      PROVE  IInv'
  BY <1>3, RecordingStep
<1>4. CASE FrameAfterRollback \/ InterruptAfterRollback
  BY <1>4, RecordingStep, InsAssumption
<1>5. CASE RetriggerRefused
  BY <1>5, RefusedStep
<1>6. CASE menu_file_recording_insertsnapshot
  BY <1>6, InsertStep
<1>7. CASE rzx_rollback
  BY <1>7, RollbackStep DEF rzx_rollback
<1>8. ASSUME NEW which, rzx_rollback_to(which)
      PROVE  IInv'
  BY <1>8, RollbackStep
<1>9. CASE rzx_stop_recording
  BY <1>9, StopStep
<1>10. CASE rzx_continue_recording
  BY <1>10, ContinueStep
<1>11. CASE rzx_finalise_recording
  BY <1>11, FinaliseStep
<1>12. CASE rzx_start_playback
  BY <1>12, StartPlaybackStep
<1>13. CASE PlayFrameOfBlock
  BY <1>13, PlayFrameStep
<1>14. CASE PlayNextBlock
  BY <1>14, PlayNextStep
<1>15. CASE PlayLastFrame
  BY <1>15, PlayLastStep
<1>16. CASE rzx_stop_playback
  BY <1>16, StoppedPlayback DEF rzx_stop_playback
<1>17. CASE menu_options_rzx
  BY <1>17, OptionStep
<1> QED BY <1>1, <1>2, <1>3, <1>4, <1>5, <1>6, <1>7, <1>8, <1>9, <1>10, <1>11,
           <1>12, <1>13, <1>14, <1>15, <1>16, <1>17 DEF Next

LEMMA Invariance == Spec => []IInv
<1>1. Init => IInv
  BY InitInvariant
<1>2. IInv /\ [Next]_vars => IInv'
  BY StepInvariant
<1> QED BY <1>1, <1>2, PTL DEF Spec

\* The types of a recording: the last block is the one recorded to, the frame
\* that libspectrum_rzx_store_frame compares the next one with has bytes of its
\* own, and so has the first of every block; playback stays on an input block.
THEOREM TypeCorrect == Spec => []TypeOK
<1>1. ASSUME IInv  PROVE TypeOK
  <2> USE <1>1 DEF IInv
  <2>1. ~ (rzx_recording /\ rzx_playback)
    BY DEF Exclusive
  <2>2. ASSUME rzx_recording
        PROVE  LET input == Last(blocks)
               IN /\ IsInput(input)
                  /\ input.frames # <<>> =>
                       ~ input.frames[input.non_repeat].repeat_last
    <3>1. IsInput(Last(blocks)) /\ Compares(Last(blocks))
      BY <2>2 DEF Recorded, Follows
    <3> QED BY <3>1 DEF Compares, OwnFrame
  <2>3. ASSUME NEW k \in DOMAIN blocks, IsInput(blocks[k])
        PROVE  LET input == blocks[k]
               IN /\ \A j \in DOMAIN input.frames : input.frames[j] \in FrameRecords
                  /\ input.frames # <<>> => ~ input.frames[1].repeat_last
    <3>1. blocks \in Lists /\ DOMAIN blocks = 1 .. Len(blocks)
      BY LenProperties DEF Typed, Lists
    <3>2. blocks[k] \in InputBlocks
      BY <2>3, <3>1, ListEntry, BlockKinds
    <3>3. /\ blocks[k].frames \in Seq(FrameRecords)
          /\ blocks[k].frames # <<>> => ~ blocks[k].frames[1].repeat_last
      BY <3>2, InputKind
    <3>4. DOMAIN blocks[k].frames = 1 .. Len(blocks[k].frames)
      BY <3>3, LenProperties
    <3> QED BY <3>3, <3>4, ElementOfSeq
  <2>4. rzx_playback => /\ IsInput(blocks[cursor.block])
                        /\ cursor.data <= cursor.frame
    BY DEF Playing, Plays
  <2>5. /\ rzx_competition_mode \in BOOLEAN /\ rzx_autosaves \in BOOLEAN
        /\ autosave_frame_count \in Nat /\ unaged \in BOOLEAN
        /\ machine.due \in BOOLEAN /\ retrigger \in BOOLEAN
    BY AutosaveAssumption DEF Typed, States
  <2> QED BY <2>1, <2>2, <2>3, <2>4, <2>5 DEF TypeOK
<1> QED BY <1>1, Invariance, PTL

\* The inputs recorded, by themselves, lead to the machine as it is now, whatever
\* was rolled back, held off by an EI, pruned or continued on the way
\* (recording_frame, start_after_rollback and autosave_prune).
THEOREM RecordingReplays == Spec => []Replays
<1>1. IInv => Replays
  BY DEF IInv, Recorded, Follows, Replays
<1> QED BY <1>1, Invariance, PTL

\* Playing a file to its end leads to the state it was closed in, and each
\* snapshot on the way restores the state that playing had led to, for a file
\* continued or finalised too (libspectrum_rzx_playback_frame).
THEOREM PlaybackFaithful == Spec => PlaybackReproduces
<1> DEFINE A == /\ PlayLastFrame => z80_interrupt(Played) = z80_interrupt(recorded)
                /\ PlayNextBlock => machine'.history = z80_interrupt(Played)
<1>1. IInv /\ [Next]_vars => [A]_vars
  BY PlayLastStep, PlayNextStep
<1>2. PlaybackReproduces <=> [][A]_vars
  BY DEF PlaybackReproduces
<1> HIDE DEF A
<1> QED BY <1>1, <1>2, Invariance, PTL DEF Spec

\* Of two automatic snapshots next to each other, the younger no younger than one
\* of the ages at which autosave_prune thins them out, the older is older by that
\* age at least, although autosave_prune only looks at those of exactly that age
\* and a rollback takes frames away again (autosave_reset).  The option may be
\* taken off and put on again: it holds as long as no frame has gone by, and no
\* rollback been made, with the option off while there were such snapshots.
THEOREM AutosavesStaySparse == Spec => []AutosavesSparse
<1>1. ASSUME IInv, rzx_recording, ~ unaged, NEW k \in Autosaves(blocks),
             NEW age \in AutosaveAges, Age(blocks, k) >= age,
             {j \in Autosaves(blocks) : j < k} # {}
      PROVE  Age(blocks, Max({j \in Autosaves(blocks) : j < k})) - Age(blocks, k)
               >= age
  <2> DEFINE older == {j \in Autosaves(blocks) : j < k}
  <2>1. blocks \in Lists /\ Sparse(blocks)
    BY <1>1 DEF IInv, Typed, Spaced, Spacing
  <2>2. Len(blocks) \in Nat /\ older \subseteq 1 .. Len(blocks)
    BY <2>1, AutosaveEntry, LenProperties DEF Lists
  <2>3. Max(older) \in older
    <3> HIDE DEF older
    <3> QED BY <1>1, <2>2, MaxExists DEF older
  <2>4. PICK j \in Autosaves(blocks) : j < k /\ j = Max(older)
    BY <2>3
  <2> QED BY <1>1, <2>1, <2>4 DEF Sparse
<1>2. IInv => AutosavesSparse
  BY <1>1 DEF AutosavesSparse
<1> QED BY <1>2, Invariance, PTL

\* Closing an input block that has no frame is the only way for playback to reach
\* a block without one, over rollbacks, pruning, continuing and finalising
\* (libspectrum_rzx_playback_frame).
THEOREM PlaybackAlwaysHasFrame ==
  ASSUME EmptyBlocks = FALSE  PROVE Spec => []PlaybackHasFrame
<1>1. IInv => PlaybackHasFrame
  BY DEF IInv, Framed, PlaybackHasFrame
<1> QED BY <1>1, Invariance, PTL

=============================================================================
