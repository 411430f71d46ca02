--------------------------- MODULE FrameLoopProofs ---------------------------
(***************************************************************************)
(* For machines of any frame length and every order of events and of the   *)
(* user's actions: no count of T-states wraps, each frame is ended by one  *)
(* party, and no instruction starts where it would overrun the tables.     *)
(* The timer's event is always listed, even where counts wrap.             *)
(***************************************************************************)
EXTENDS FrameLoop, EventListProofs

-----------------------------------------------------------------------------
(* Queues: what is in them, and what the operations of event.c leave.      *)

Entry == [tstates : Dword, type : 0 .. 5]

Queue(q) ==
  /\ q \in [list : Seq(Entry), next : Dword]
  /\ Timed(q.list) /\ Ordered(q.list) /\ q.next = NextOf(q.list)

\* No entry of a type, one entry of it, and no entry before a time.
None(q, type) == \A i \in 1 .. Len(q.list) : q.list[i].type # type

Single(q, type, time) ==
  \E k \in 1 .. Len(q.list) :
    /\ q.list[k].tstates = time
    /\ \A i \in 1 .. Len(q.list) : q.list[i].type = type <=> i = k

From(q, time) == \A i \in 1 .. Len(q.list) : q.list[i].tstates >= time

\* AddedEntries, for lists of these entries.
LEMMA AddedPlace ==
  ASSUME NEW s \in Seq(Entry), NEW e \in Entry, NEW next
  PROVE  \E p \in 1 .. Len(s) + 1 :
           /\ Added(s, next, e) \in Seq(Entry)
           /\ Len(Added(s, next, e)) = Len(s) + 1
           /\ \A i \in 1 .. Len(s) + 1 :
                Added(s, next, e)[i] = IF i < p THEN s[i] ELSE IF i = p THEN e ELSE s[i - 1]
           /\ e.tstates < next => p = 1
BY AddedEntries

\* Adding an event keeps what else is in the queue.
LEMMA AddKeeps ==
  ASSUME NEW q, Queue(q), NEW time \in 0 .. Half - 1, NEW type \in 0 .. 5
  PROVE  LET r == Add(q, time, type)
         IN /\ Queue(r)
            /\ \A n \in Int : From(q, n) /\ time >= n => From(r, n)
            /\ \A ty : ty # type /\ None(q, ty) => None(r, ty)
            /\ \A ty, t : ty # type /\ Single(q, ty, t) => Single(r, ty, t)
            /\ None(q, type) => Single(r, type, time)
            /\ time < q.next => r.list # << >> /\ r.list[1].type = type
            /\ r.next = IF time < q.next THEN time ELSE q.next
<1> DEFINE s == q.list
           e == [tstates |-> time, type |-> type]
           r == Add(q, time, type)
           l == Added(s, q.next, e)
<1>1. s \in Seq(Entry) /\ e \in Entry /\ Timed(s) /\ Ordered(s) /\ q.next = NextOf(s)
      /\ Len(s) \in Nat /\ q.next \in Dword /\ Half \in Nat \ {0}
  BY HalfAssumption, LenProperties DEF Queue, Entry, Dword
<1>2. PICK p \in 1 .. Len(s) + 1 :
        /\ l \in Seq(Entry)
        /\ Len(l) = Len(s) + 1
        /\ \A i \in 1 .. Len(s) + 1 :
             l[i] = IF i < p THEN s[i] ELSE IF i = p THEN e ELSE s[i - 1]
        /\ e.tstates < q.next => p = 1
  <2>1. s \in Seq(Entry) /\ e \in Entry
    BY <1>1
  <2> HIDE DEF e, s
  <2> QED BY <2>1, AddedPlace, Zenon DEF l
<1>3. Ordered(l) /\ NextOf(l) = IF time < q.next THEN time ELSE q.next
  BY <1>1, AddedOrdered
<1>4. r = [list |-> l, next |-> IF time < q.next THEN time ELSE q.next]
  BY DEF Add
<1>5. r.list = l /\ r.next = NextOf(l) /\ r.next \in Dword
  BY <1>1, <1>3, <1>4 DEF Dword
<1> HIDE DEF l, r
<1>6. ASSUME NEW i \in 1 .. Len(l)
      PROVE  \/ i = p /\ l[i] = e
             \/ i # p /\ \E j \in 1 .. Len(s) : l[i] = s[j]
  <2>1. CASE i < p
    <3>1. i \in 1 .. Len(s) /\ l[i] = s[i]
      BY <1>1, <1>2, <2>1
    <3> QED BY <2>1, <3>1
  <2>2. CASE i > p
    <3>1. i - 1 \in 1 .. Len(s) /\ l[i] = s[i - 1]
      BY <1>1, <1>2, <2>2
    <3> QED BY <2>2, <3>1
  <2>3. CASE i = p
    BY <1>1, <1>2, <2>3
  <2> QED BY <1>1, <1>2, <2>1, <2>2, <2>3
<1>7. Timed(l)
  <2> SUFFICES ASSUME NEW i \in 1 .. Len(l) PROVE l[i].tstates \in 0 .. Half - 1
    BY DEF Timed
  <2>1. CASE l[i] = e
    BY <2>1
  <2>2. CASE \E j \in 1 .. Len(s) : l[i] = s[j]
    BY <1>1, <2>2 DEF Timed
  <2> QED BY <1>6, <2>1, <2>2
<1>8. Queue(r)
  BY <1>2, <1>3, <1>4, <1>5, <1>7 DEF Queue
<1>9. ASSUME NEW n \in Int, From(q, n), time >= n PROVE From(r, n)
  BY <1>5, <1>6, <1>9 DEF From
<1>10. ASSUME NEW ty, ty # type, None(q, ty) PROVE None(r, ty)
  BY <1>5, <1>6, <1>10 DEF None
<1>11. ASSUME NEW ty, NEW t, ty # type, Single(q, ty, t) PROVE Single(r, ty, t)
  <2>1. PICK k \in 1 .. Len(s) : /\ s[k].tstates = t
                                 /\ \A i \in 1 .. Len(s) : s[i].type = ty <=> i = k
    BY <1>11 DEF Single
  <2> DEFINE m == IF k < p THEN k ELSE k + 1
  <2>2. m \in 1 .. Len(l) /\ l[m] = s[k]
    BY <1>1, <1>2
  <2>3. ASSUME NEW i \in 1 .. Len(l) PROVE l[i].type = ty <=> i = m
    <3>1. CASE i = p
      BY <1>1, <1>2, <1>11, <2>1, <3>1
    <3>2. CASE i < p
      <4>1. l[i] = s[i] /\ i \in 1 .. Len(s)
        BY <1>1, <1>2, <3>2
      <4> QED BY <1>1, <2>1, <3>2, <4>1
    <3>3. CASE i > p
      <4>1. l[i] = s[i - 1] /\ i - 1 \in 1 .. Len(s)
        BY <1>1, <1>2, <3>3
      <4> QED BY <1>1, <2>1, <3>3, <4>1
    <3> QED BY <1>1, <1>2, <3>1, <3>2, <3>3
  <2> QED BY <1>5, <2>1, <2>2, <2>3 DEF Single
<1>12. ASSUME None(q, type) PROVE Single(r, type, time)
  <2>1. p \in 1 .. Len(l) /\ l[p] = e
    BY <1>1, <1>2
  <2>2. ASSUME NEW i \in 1 .. Len(l) PROVE l[i].type = type <=> i = p
    BY <1>1, <1>6, <1>12, <2>1 DEF None
  <2> QED BY <1>5, <2>1, <2>2 DEF Single
<1>13. ASSUME time < q.next PROVE r.list # << >> /\ r.list[1].type = type
  BY <1>1, <1>2, <1>5, <1>13
<1> QED BY <1>3, <1>5, <1>8, <1>9, <1>10, <1>11, <1>12, <1>13 DEF r

\* event_remove_type leaves none of its type and every other event.
LEMMA RemoveKeeps ==
  ASSUME NEW q, Queue(q), NEW type \in 1 .. 5
  PROVE  LET r == Remove(q, type)
         IN /\ Queue(r) /\ r.next = q.next
            /\ None(r, type)
            /\ \A n \in Int : From(q, n) => From(r, n)
            /\ \A ty \in 1 .. 5 : None(q, ty) => None(r, ty)
            /\ \A ty \in 1 .. 5 : \A t : ty # type /\ Single(q, ty, t) => Single(r, ty, t)
<1> DEFINE s == q.list
           r == Remove(q, type)
           l == Nulled(s, type)
<1>1. /\ s \in Seq(Entry) /\ Timed(s) /\ Ordered(s) /\ q.next = NextOf(s)
      /\ Len(s) \in Nat /\ q.next \in Dword
  BY LenProperties DEF Queue
<1>2. r.list = l /\ r.next = q.next /\ r \in [list : {l}, next : Dword]
  BY DEF Remove, Queue
<1>3. /\ l \in Seq(Entry) /\ Len(l) = Len(s)
      /\ \A i \in 1 .. Len(s) :
           /\ l[i].tstates = s[i].tstates
           /\ l[i].type = IF s[i].type = type THEN 0 ELSE s[i].type
  <2>1. \A i \in 1 .. Len(s) : s[i] \in Entry
    BY <1>1
  <2>2. \A i \in 1 .. Len(s) :
          IF s[i].type = type THEN [s[i] EXCEPT !.type = 0] \in Entry ELSE s[i] \in Entry
    BY <2>1 DEF Entry
  <2>3. l = [i \in 1 .. Len(s) |->
               IF s[i].type = type THEN [s[i] EXCEPT !.type = 0] ELSE s[i]]
    BY DEF Nulled, event_type_null
  <2> QED BY <1>1, <2>1, <2>2, <2>3 DEF Entry
<1> HIDE DEF l, r
<1>4. Ordered(l) /\ Timed(l)
  BY <1>1, <1>3 DEF Ordered, Timed
<1>5. NextOf(l) = NextOf(s)
  <2>1. CASE s = << >>
    <3>1. l = << >>
      BY <1>1, <1>3, <2>1
    <3> QED BY <2>1, <3>1
  <2>2. CASE s # << >>
    <3>1. 1 \in 1 .. Len(s) /\ l # << >> /\ Head(s) = s[1] /\ Head(l) = l[1]
      BY <1>1, <1>3, <2>2
    <3> QED BY <1>3, <2>2, <3>1 DEF NextOf
  <2> QED BY <2>1, <2>2
<1>6. Queue(r)
  BY <1>1, <1>2, <1>3, <1>4, <1>5 DEF Queue
<1>7. None(r, type)
  BY <1>2, <1>3 DEF None
<1>8. \A n \in Int : From(q, n) => From(r, n)
  BY <1>2, <1>3 DEF From
<1>9. \A ty \in 1 .. 5 : None(q, ty) => None(r, ty)
  BY <1>2, <1>3 DEF None
<1>10. \A ty \in 1 .. 5 : \A t : ty # type /\ Single(q, ty, t) => Single(r, ty, t)
  BY <1>2, <1>3 DEF Single
<1> QED BY <1>2, <1>6, <1>7, <1>8, <1>9, <1>10 DEF r

\* event_frame brings every event nearer by what none of them falls below.
LEMMA AgedKeeps ==
  ASSUME NEW q, Queue(q), NEW n \in Nat, From(q, n)
  PROVE  LET r == Aged(q, n)
         IN /\ Queue(r)
            /\ \A ty : None(q, ty) => None(r, ty)
            /\ \A ty, t : Single(q, ty, t) => Single(r, ty, t - n)
<1> DEFINE s == q.list
           r == Aged(q, n)
           l == Reduced(s, n)
<1>1. /\ s \in Seq(Entry) /\ Timed(s) /\ Ordered(s) /\ Len(s) \in Nat /\ Half \in Nat \ {0}
      /\ \A i \in 1 .. Len(s) : s[i] \in Entry /\ s[i].tstates \in n .. Half - 1
  BY HalfAssumption, LenProperties DEF Queue, Timed, From
<1>2. r = [list |-> l, next |-> NextOf(l)]
  BY DEF Aged
<1>3. /\ l \in Seq(Entry) /\ Len(l) = Len(s)
      /\ \A i \in 1 .. Len(s) : l[i].tstates = s[i].tstates - n /\ l[i].type = s[i].type
  <2>1. \A i \in 1 .. Len(s) : Minus(s[i].tstates, n) = s[i].tstates - n
    BY <1>1 DEF Minus
  <2>2. \A i \in 1 .. Len(s) : [s[i] EXCEPT !.tstates = s[i].tstates - n] \in Entry
    <3> SUFFICES ASSUME NEW i \in 1 .. Len(s)
                 PROVE  [s[i] EXCEPT !.tstates = s[i].tstates - n] \in Entry
      OBVIOUS
    <3>1. s[i] \in Entry /\ s[i].tstates - n \in Dword
      BY <1>1 DEF Dword
    <3> QED BY <3>1 DEF Entry
  <2>3. l = [i \in 1 .. Len(s) |-> [s[i] EXCEPT !.tstates = s[i].tstates - n]]
    BY <2>1 DEF Reduced
  <2> QED BY <1>1, <2>2, <2>3 DEF Entry
<1> HIDE DEF l, r
<1>4. Timed(l) /\ Ordered(l)
  <2>1. ASSUME NEW i \in 1 .. Len(l) PROVE l[i].tstates \in 0 .. Half - 1
    <3>1. s[i].tstates \in n .. Half - 1 /\ l[i].tstates = s[i].tstates - n
      BY <1>1, <1>3
    <3> QED BY <1>1, <3>1
  <2>2. ASSUME NEW i \in 1 .. Len(l), NEW j \in 1 .. Len(l), i <= j
        PROVE  l[i].tstates <= l[j].tstates
    <3>1. /\ s[i].tstates \in n .. Half - 1 /\ l[i].tstates = s[i].tstates - n
          /\ s[j].tstates \in n .. Half - 1 /\ l[j].tstates = s[j].tstates - n
          /\ s[i].tstates <= s[j].tstates
      BY <1>1, <1>3, <2>2 DEF Ordered
    <3> QED BY <1>1, <3>1
  <2> QED BY <2>1, <2>2 DEF Timed, Ordered
<1>5. NextOf(l) \in Dword
  <2>1. CASE l = << >>
    BY <1>1, <2>1 DEF NextOf, event_no_events, Dword
  <2>2. CASE l # << >>
    <3>1. Head(l) \in Entry
      BY <1>3, <2>2
    <3> QED BY <2>2, <3>1 DEF NextOf, Entry
  <2> QED BY <2>1, <2>2
<1>6. Queue(r)
  BY <1>2, <1>3, <1>4, <1>5 DEF Queue
<1>7. \A ty : None(q, ty) => None(r, ty)
  BY <1>2, <1>3 DEF None
<1>8. \A ty, t : Single(q, ty, t) => Single(r, ty, t - n)
  BY <1>1, <1>2, <1>3 DEF Single
<1> QED BY <1>6, <1>7, <1>8 DEF r

\* The event that is done is the earliest.
LEMMA PoppedKeeps ==
  ASSUME NEW q, Queue(q), q.list # << >>
  PROVE  LET r == Popped(q)
             e == Head(q.list)
         IN /\ Queue(r)
            /\ e \in Entry /\ e.tstates = q.next /\ e.tstates \in 0 .. Half - 1
            /\ e = q.list[1] /\ 1 \in 1 .. Len(q.list)
            /\ From(r, e.tstates)
            /\ \A n \in Int : From(q, n) => From(r, n)
            /\ \A ty : None(q, ty) => None(r, ty)
            /\ \A ty, t : Single(q, ty, t) => IF e.type = ty THEN None(r, ty) /\ e.tstates = t
                                              ELSE Single(r, ty, t)
<1> DEFINE s == q.list
           e == Head(s)
           r == Popped(q)
           l == Tail(s)
<1>1. /\ s \in Seq(Entry) /\ Timed(s) /\ Ordered(s) /\ q.next = NextOf(s) /\ Len(s) \in Nat
      /\ Half \in Nat \ {0}
  BY HalfAssumption, LenProperties DEF Queue
<1>2. r = [list |-> l, next |-> NextOf(l)]
  BY DEF Popped
<1>3. /\ 1 \in 1 .. Len(s) /\ e = s[1] /\ e \in Entry /\ e.tstates = q.next
      /\ e.tstates \in 0 .. Half - 1
  BY <1>1 DEF NextOf, Timed
<1>4. /\ l \in Seq(Entry) /\ Len(l) = Len(s) - 1 /\ Ordered(l)
      /\ \A i \in 1 .. Len(l) : l[i] = s[i + 1] /\ i + 1 \in 1 .. Len(s)
  BY <1>1, TailOrdered
<1> HIDE DEF l, r, e
<1>5. Timed(l)
  BY <1>1, <1>4 DEF Timed
<1>6. NextOf(l) \in Dword
  <2>1. CASE l = << >>
    BY <1>1, <2>1 DEF NextOf, event_no_events, Dword
  <2>2. CASE l # << >>
    <3>1. Head(l) \in Entry
      BY <1>4, <2>2
    <3> QED BY <2>2, <3>1 DEF NextOf, Entry
  <2> QED BY <2>1, <2>2
<1>7. Queue(r)
  BY <1>2, <1>4, <1>5, <1>6 DEF Queue
<1>8. From(r, e.tstates)
  BY <1>1, <1>2, <1>3, <1>4 DEF From, Ordered
<1>9. \A n \in Int : From(q, n) => From(r, n)
  BY <1>2, <1>4 DEF From
<1>10. \A ty : None(q, ty) => None(r, ty)
  BY <1>2, <1>4 DEF None
<1>11. ASSUME NEW ty, NEW t, Single(q, ty, t)
       PROVE  IF e.type = ty THEN None(r, ty) /\ e.tstates = t ELSE Single(r, ty, t)
  <2>1. PICK k \in 1 .. Len(s) : /\ s[k].tstates = t
                                 /\ \A i \in 1 .. Len(s) : s[i].type = ty <=> i = k
    BY <1>11 DEF Single
  <2>2. CASE e.type = ty
    <3>1. k = 1
      BY <1>3, <2>1, <2>2
    <3>2. None(r, ty)
      BY <1>1, <1>2, <1>4, <2>1, <3>1 DEF None
    <3> QED BY <1>3, <2>1, <2>2, <3>1, <3>2
  <2>3. CASE e.type # ty
    <3>1. k # 1 /\ k - 1 \in 1 .. Len(l) /\ l[k - 1] = s[k]
      BY <1>1, <1>3, <1>4, <2>1, <2>3
    <3>2. \A i \in 1 .. Len(l) : l[i].type = ty <=> i = k - 1
      BY <1>1, <1>4, <2>1
    <3>3. Single(r, ty, t)
      BY <1>2, <2>1, <3>1, <3>2 DEF Single
    <3> QED BY <2>3, <3>3
  <2> QED BY <2>2, <2>3
<1> QED BY <1>3, <1>7, <1>8, <1>9, <1>10, <1>11 DEF r, e

-----------------------------------------------------------------------------
(* The inductive invariant: what the globals hold where each call is made. *)

\* Recordings hold snapshots of the playback's own machine and T-state count,
\* and no machine is selected from the menu during playback.
Undisturbed == ~ OtherMachineSnaps /\ ~ DriftingSnaps /\ ~ SelectWhilePlaying

\* Two such counts add up to one that event_add_cmp still orders.
Early(t) == t \in Nat /\ 2 * t < Half

Globals ==
  [events : [list : Seq(Entry), next : Dword], tstates : Nat, machine : Machines,
   rzx_playback : BOOLEAN, instructions : 0 .. MaxInstructions, frames : 0 .. MaxFrames]

Sane(c) == c \in Globals /\ Queue(c.events) /\ Early(c.tstates)

\* Playback is guarded by one sentinel, at a time, and nothing else is.
Guarded(c, time) ==
  IF c.rzx_playback THEN Single(c.events, sentinel_event, time)
                    ELSE None(c.events, sentinel_event)

\* The event queue ends the frame, outside playback only.
Ends(c) ==
  IF c.rzx_playback THEN None(c.events, spectrum_frame_event)
                    ELSE Single(c.events, spectrum_frame_event, FrameTime(c))

\* The recorded frame is over, and its end the next event.
JustEnded(c) ==
  /\ c.rzx_playback
  /\ Single(c.events, spectrum_frame_event, c.tstates)
  /\ c.events.list # << >>
  /\ c.events.list[1].type = spectrum_frame_event
  /\ c.events.next = c.tstates

Ready(c) == Sane(c) /\ Guarded(c, RZX_SENTINEL_TIME) /\ Ends(c)

Running(c) == Sane(c) /\ Guarded(c, RZX_SENTINEL_TIME) /\ (Ends(c) \/ JustEnded(c))

\* Between the end of a recorded frame and that of the machine's frame.
Forcing(c) == Ready(c) /\ c.rzx_playback /\ From(c.events, c.tstates)

\* What spectrum_frame takes off.
FrameLength(c) == IF c.rzx_playback THEN c.tstates ELSE FrameTime(c)

\* The frame has ended for rzx_frame, and for spectrum_frame.
Ended(c) ==
  /\ Sane(c) /\ Guarded(c, RZX_SENTINEL_TIME) /\ None(c.events, spectrum_frame_event)
  /\ From(c.events, FrameTime(c)) /\ From(c.events, FrameLength(c))
  /\ c.rzx_playback \/ c.tstates >= FrameTime(c)

Shortening(c) ==
  /\ Sane(c) /\ Guarded(c, RZX_SENTINEL_TIME + c.tstates) /\ None(c.events, spectrum_frame_event)
  /\ From(c.events, FrameLength(c)) /\ c.tstates >= FrameLength(c)

\* spectrum_frame_event_fn is never entered from itself.
Phase(s, c) ==
  \/ s = << >> /\ Running(c)
  \/ s = <<"force">> /\ Forcing(c)
  \/ s = <<"do">> /\ Forcing(c) /\ c.tstates < FrameTime(c)
  \/ s = <<"frame">> /\ Ended(c)
  \/ s = <<"spectrum">> /\ Shortening(c)
  \/ s \in {<<"z80">>, <<"ui">>} /\ Ready(c)

IInv == Phase(stack, core) /\ user \in 0 .. MaxUser

-----------------------------------------------------------------------------
(* Counts, types of events, and the stack.                                 *)

\* What the assumptions say of the counts that are given.
LEMMA Counts ==
  /\ Half \in Nat \ {0} /\ RZX_SENTINEL_TIME \in Nat /\ Early(RZX_SENTINEL_TIME)
  /\ RZX_SENTINEL_TIME_REDUCE \in 0 .. RZX_SENTINEL_TIME
  /\ \A m \in Machines : /\ tstates_per_frame[m] \in 1 .. RZX_SENTINEL_TIME
                         /\ Early(tstates_per_frame[m])
  /\ \A d \in OpcodeTimes : /\ d \in Nat \ {0} /\ RZX_SENTINEL_TIME + d <= ULA_CONTENTION_SIZE
  /\ ULA_CONTENTION_SIZE \in Nat /\ Early(ULA_CONTENTION_SIZE)
  /\ \A d \in TimerDelays \cup MotorDelays \cup FileTimes : Early(d)
  /\ interrupt_length \in Nat /\ InterruptTime \in Nat
  /\ Early(interrupt_length + InterruptTime)
  /\ MaxUser \in Nat /\ MaxInstructions \in Nat /\ MaxFrames \in Nat
<1>1. /\ \A t \in {RZX_SENTINEL_TIME, ULA_CONTENTION_SIZE, interrupt_length + InterruptTime}
                   \cup TimerDelays \cup MotorDelays \cup FileTimes : Early(t)
      /\ RZX_SENTINEL_TIME_REDUCE \in 0 .. RZX_SENTINEL_TIME
      /\ OpcodeTimes \subseteq Nat /\ interrupt_length \in Nat /\ InterruptTime \in Nat
  BY TimesAssumption DEF Early
<1>2. RZX_SENTINEL_TIME \in Nat /\ ULA_CONTENTION_SIZE \in Nat
  BY <1>1 DEF Early
<1>3. \A m \in Machines : tstates_per_frame[m] \in 1 .. RZX_SENTINEL_TIME
  BY FrameAssumption
<1>4. \A m \in Machines : Early(tstates_per_frame[m])
  <2> SUFFICES ASSUME NEW m \in Machines PROVE Early(tstates_per_frame[m])
    OBVIOUS
  <2>1. Early(RZX_SENTINEL_TIME) /\ tstates_per_frame[m] \in 1 .. RZX_SENTINEL_TIME
    BY <1>1, <1>3
  <2> QED BY <1>2, <2>1, HalfAssumption DEF Early
<1>5. MaxUser \in Nat /\ MaxInstructions \in Nat /\ MaxFrames \in Nat
  BY FrameAssumption
<1>6. \A d \in OpcodeTimes : d > 0 /\ RZX_SENTINEL_TIME + d <= ULA_CONTENTION_SIZE
  BY FrameAssumption
<1>7. \A d \in OpcodeTimes : d \in Nat \ {0} /\ RZX_SENTINEL_TIME + d <= ULA_CONTENTION_SIZE
  BY <1>1, <1>6
<1>8. /\ Early(RZX_SENTINEL_TIME) /\ Early(ULA_CONTENTION_SIZE)
      /\ Early(interrupt_length + InterruptTime)
      /\ \A d \in TimerDelays \cup MotorDelays \cup FileTimes : Early(d)
  BY <1>1
<1>9. RZX_SENTINEL_TIME_REDUCE \in 0 .. RZX_SENTINEL_TIME
  BY <1>1
<1>10. interrupt_length \in Nat /\ InterruptTime \in Nat
  BY <1>1
<1> QED BY <1>2, <1>3, <1>4, <1>5, <1>7, <1>8, <1>9, <1>10, HalfAssumption

LEMMA Sums ==
  ASSUME NEW a, NEW b, Early(a), Early(b)
  PROVE  a \in 0 .. Half - 1 /\ a + b \in 0 .. Half - 1
BY HalfAssumption DEF Early

LEMMA EarlyTime ==
  ASSUME NEW a, Early(a)
  PROVE  a \in 0 .. Half - 1
BY HalfAssumption DEF Early

LEMMA Earlier ==
  ASSUME NEW a \in Nat, NEW b, Early(b), a <= b
  PROVE  Early(a)
BY HalfAssumption DEF Early

\* The events that end a frame and that guard one.
Watched == {spectrum_frame_event, sentinel_event}

\* The types that event_register hands out are distinct.
LEMMA Types ==
  /\ Watched \subseteq 1 .. 5 /\ spectrum_frame_event # sentinel_event
  /\ spectrum_frame_event \in Watched /\ sentinel_event \in Watched
  /\ \A ty \in {timer_event, z80_interrupt_event, motor_event, event_type_null} :
       ty \in 0 .. 5 /\ ty \notin Watched
  /\ motor_event \in 1 .. 5
BY DEF timer_event, spectrum_frame_event, z80_interrupt_event, sentinel_event, motor_event,
       event_type_null, Watched

LEMMA Stacks ==
  ASSUME NEW s, NEW a, NEW b, s = <<a>>
  PROVE  /\ s # << >> /\ s[Len(s)] = a
         /\ [s EXCEPT ![Len(s)] = b] = <<b>>
         /\ SubSeq(s, 1, Len(s) - 1) = << >>
         /\ Append(<< >>, a) = s
         /\ s = <<b>> => a = b
OBVIOUS

-----------------------------------------------------------------------------
(* Events other than the end of frame and the sentinel do not matter.      *)

Keeps(q, r) ==
  /\ Queue(r)
  /\ \A ty \in Watched : None(q, ty) => None(r, ty)
  /\ \A ty \in Watched : \A t : Single(q, ty, t) => Single(r, ty, t)

\* The other types of event come and go without disturbing the two.
LEMMA OthersKeep ==
  ASSUME NEW q, Queue(q)
  PROVE  /\ \A time \in 0 .. Half - 1 : \A type \in 0 .. 5 :
              type \notin Watched => Keeps(q, Add(q, time, type))
         /\ \A type \in 1 .. 5 : type \notin Watched => Keeps(q, Remove(q, type))
         /\ q.list # << >> /\ Head(q.list).type \notin Watched => Keeps(q, Popped(q))
<1>1. Watched \subseteq 1 .. 5
  BY Types
<1>2. ASSUME NEW time \in 0 .. Half - 1, NEW type \in 0 .. 5, type \notin Watched
      PROVE  Keeps(q, Add(q, time, type))
  BY <1>2, AddKeeps DEF Keeps
<1>3. ASSUME NEW type \in 1 .. 5, type \notin Watched
      PROVE  Keeps(q, Remove(q, type))
  BY <1>1, <1>3, RemoveKeeps DEF Keeps
<1>4. ASSUME q.list # << >>, Head(q.list).type \notin Watched
      PROVE  Keeps(q, Popped(q))
  BY <1>1, <1>4, PoppedKeeps DEF Keeps
<1> QED BY <1>2, <1>3, <1>4

\* One of the two is added where there was none.
LEMMA WatchedAdded ==
  ASSUME NEW q, Queue(q), NEW time \in 0 .. Half - 1, NEW type \in Watched, None(q, type),
         NEW other \in Watched, other # type
  PROVE  LET r == Add(q, time, type)
         IN /\ Queue(r) /\ Single(r, type, time)
            /\ None(q, other) => None(r, other)
            /\ \A t : Single(q, other, t) => Single(r, other, t)
<1>1. type \in 0 .. 5
  BY Types
<1> QED BY <1>1, AddKeeps, Zenon

LEMMA KeepsTwice ==
  ASSUME NEW q, NEW r, NEW s, Keeps(q, r), Keeps(r, s)
  PROVE  Keeps(q, s)
BY DEF Keeps

LEMMA KeepsFrame ==
  ASSUME NEW c, NEW d, Keeps(c.events, d.events),
         d.machine = c.machine, d.rzx_playback = c.rzx_playback
  PROVE  /\ \A t : Guarded(c, t) => Guarded(d, t)
         /\ Ends(c) => Ends(d)
BY DEF Keeps, Guarded, Ends, FrameTime, Watched

-----------------------------------------------------------------------------
(* The functions that the user and the recording call.                     *)

\* Selecting a machine leaves its timer and one end of frame.
LEMMA SelectReady ==
  ASSUME NEW c \in Globals, ~ c.rzx_playback, NEW m \in Machines
  PROVE  LET d == machine_select_machine(c, m) IN Ready(d) /\ ~ d.rzx_playback
<1> DEFINE d == machine_select_machine(c, m)
           q == Add(EmptyQueue, 0, timer_event)
           r == Add(q, tstates_per_frame[m], spectrum_frame_event)
<1>1. Queue(EmptyQueue) /\ \A ty \in Watched : None(EmptyQueue, ty)
  BY HalfAssumption DEF EmptyQueue, Queue, Timed, Ordered, NextOf, None, Dword, event_no_events
<1> HIDE DEF q, r
<1>2. tstates_per_frame[m] \in 0 .. Half - 1 /\ 0 \in 0 .. Half - 1 /\ Early(0)
  BY Counts, Sums DEF Early
<1>3. Keeps(EmptyQueue, q)
  BY <1>1, <1>2, Types, OthersKeep DEF q
<1>4. Queue(q) /\ None(q, spectrum_frame_event) /\ None(q, sentinel_event)
  BY <1>1, <1>3 DEF Keeps, Watched
<1>5. /\ Queue(r) /\ Single(r, spectrum_frame_event, tstates_per_frame[m])
      /\ None(r, sentinel_event)
  BY <1>2, <1>4, Types, WatchedAdded DEF r
<1>6. /\ d \in Globals /\ d.events = r /\ d.tstates = 0 /\ d.machine = m
      /\ d.rzx_playback = FALSE
  BY <1>5 DEF machine_select_machine, Globals, Queue, q, r
<1> HIDE DEF d
<1> QED BY <1>2, <1>5, <1>6 DEF Ready, Sane, Guarded, Ends, FrameTime, d

\* Opening a snapshot leaves the frame of the machine it selects.
LEMMA SnapshotReady ==
  ASSUME NEW c, Ready(c), ~ c.rzx_playback, NEW m \in Machines, NEW time \in FileTimes
  PROVE  LET d == snapshot_copy_from(c, m, time) IN Ready(d) /\ ~ d.rzx_playback
<1> DEFINE b == IF m # c.machine THEN machine_select_machine(c, m) ELSE c
           d == snapshot_copy_from(c, m, time)
<1>1. Ready(b) /\ ~ b.rzx_playback
  BY SelectReady DEF Ready, Sane
<1>2. d = [b EXCEPT !.tstates = time]
  BY DEF snapshot_copy_from
<1> HIDE DEF b, d
<1>3. time \in Nat /\ Early(time)
  BY Counts DEF Early
<1>4. /\ d \in Globals /\ d.events = b.events /\ d.tstates = time /\ d.machine = b.machine
      /\ d.rzx_playback = b.rzx_playback
  BY <1>1, <1>2, <1>3 DEF Ready, Sane, Globals
<1> QED BY <1>1, <1>3, <1>4 DEF Ready, Sane, Guarded, Ends, FrameTime, d

\* The end of playback puts the end of frame back.
LEMMA StopReady ==
  ASSUME NEW c, Sane(c), None(c.events, spectrum_frame_event)
  PROVE  LET d == rzx_stop_playback(c, TRUE)
         IN /\ Ready(d) /\ ~ d.rzx_playback
            /\ d.tstates <= c.tstates /\ d.tstates <= FrameTime(c)
            /\ d.machine = c.machine
<1> DEFINE d == rzx_stop_playback(c, TRUE)
           q == Remove(c.events, sentinel_event)
           r == Add(q, FrameTime(c), spectrum_frame_event)
           t == IF c.tstates > FrameTime(c) THEN FrameTime(c) ELSE c.tstates
<1>1. /\ c \in Globals /\ Queue(c.events) /\ Early(c.tstates) /\ c.machine \in Machines
      /\ c.tstates \in Nat
  BY DEF Sane, Globals
<1>2. /\ FrameTime(c) \in 0 .. Half - 1 /\ FrameTime(c) \in Nat /\ Early(FrameTime(c))
  BY <1>1, Counts, Sums DEF FrameTime
<1> HIDE DEF q, r, t
<1>3. Queue(q) /\ None(q, sentinel_event) /\ None(q, spectrum_frame_event)
  BY <1>1, Types, RemoveKeeps DEF q
<1>4. /\ Queue(r) /\ Single(r, spectrum_frame_event, FrameTime(c)) /\ None(r, sentinel_event)
  BY <1>2, <1>3, Types, WatchedAdded DEF r
<1>5. t \in Nat /\ Early(t) /\ t <= c.tstates /\ t <= FrameTime(c)
  BY <1>1, <1>2 DEF t
<1>6. d = [c EXCEPT !.rzx_playback = FALSE, !.events = r, !.tstates = t]
  BY <1>1 DEF rzx_stop_playback, Globals, q, r, t, FrameTime
<1>7. /\ d \in Globals /\ d.events = r /\ d.tstates = t /\ d.machine = c.machine
      /\ d.rzx_playback = FALSE
  BY <1>1, <1>4, <1>5, <1>6 DEF Globals, Queue
<1> HIDE DEF d
<1> QED BY <1>4, <1>5, <1>7 DEF Ready, Sane, Guarded, Ends, FrameTime, d

\* Starting playback puts the sentinel in the place of the end of frame.
LEMMA StartReady ==
  ASSUME NEW c, Ready(c), ~ c.rzx_playback, NEW time \in FileTimes,
         NEW n \in 0 .. MaxInstructions, NEW f \in 0 .. MaxFrames
  PROVE  Ready(start_playback(c, time, n, f))
<1> DEFINE d == start_playback(c, time, n, f)
           q == Remove(c.events, spectrum_frame_event)
           r == Add(q, RZX_SENTINEL_TIME, sentinel_event)
<1>1. /\ c \in Globals /\ Queue(c.events) /\ None(c.events, sentinel_event)
  BY DEF Ready, Sane, Guarded
<1>2. /\ time \in Nat /\ Early(time) /\ RZX_SENTINEL_TIME \in 0 .. Half - 1
  BY Counts, Sums DEF Early
<1> HIDE DEF q, r
<1>3. Queue(q) /\ None(q, sentinel_event) /\ None(q, spectrum_frame_event)
  BY <1>1, Types, RemoveKeeps DEF q
<1>4. /\ Queue(r) /\ Single(r, sentinel_event, RZX_SENTINEL_TIME)
      /\ None(r, spectrum_frame_event)
  BY <1>2, <1>3, Types, WatchedAdded DEF r
<1>5. d = [c EXCEPT !.instructions = n, !.frames = f, !.events = r, !.tstates = time,
                    !.rzx_playback = TRUE]
  BY <1>1 DEF start_playback, WithFrame, Globals, q, r
<1>6. /\ d \in Globals /\ d.events = r /\ d.tstates = time /\ d.rzx_playback = TRUE
  BY <1>1, <1>2, <1>4, <1>5 DEF Globals, Queue
<1> HIDE DEF d
<1> QED BY <1>2, <1>4, <1>6 DEF Ready, Sane, Guarded, Ends, d

\* What a snapshot or a recording leaves is in order.
LEMMA FilesReady ==
  ASSUME NEW c, Ready(c), ~ c.rzx_playback
  PROVE  /\ \A d \in Opened(c) : Ready(d) /\ ~ d.rzx_playback
         /\ \A d \in Played(c) : Ready(d)
<1>1. \A d \in Opened(c) : Ready(d) /\ ~ d.rzx_playback
  BY SnapshotReady DEF Opened
<1>2. ASSUME NEW d \in Played(c) PROVE Ready(d)
  <2>1. PICK b \in Opened(c), t \in FileTimes, n \in 0 .. MaxInstructions, f \in 0 .. MaxFrames :
          d = start_playback(b, t, n, f)
    BY DEF Played
  <2> QED BY <1>1, <2>1, StartReady
<1> QED BY <1>1, <1>2

-----------------------------------------------------------------------------
(* Steps of the processor.                                                 *)

\* The cached time is that of no event or of an earlier one.
LEMMA NextFirst ==
  ASSUME NEW q, Queue(q), NEW ty, NEW t, Single(q, ty, t)
  PROVE  q.next <= t
<1>1. q.list \in Seq(Entry) /\ Ordered(q.list) /\ q.next = NextOf(q.list) /\ Len(q.list) \in Nat
  BY LenProperties DEF Queue
<1>2. PICK k \in 1 .. Len(q.list) : q.list[k].tstates = t
  BY DEF Single
<1>3. q.list # << >> /\ Head(q.list) = q.list[1] /\ 1 \in 1 .. Len(q.list) /\ 1 <= k
  BY <1>1, <1>2
<1> QED BY <1>1, <1>2, <1>3 DEF Ordered, NextOf

\* A new queue that keeps the watched events, and a new count.
LEMMA KeptReady ==
  ASSUME NEW c, Ready(c), NEW q, Keeps(c.events, q), NEW t \in Nat, Early(t)
  PROVE  LET d == [c EXCEPT !.events = q, !.tstates = t]
         IN /\ Ready(d) /\ d.events = q /\ d.tstates = t
            /\ d.machine = c.machine /\ d.rzx_playback = c.rzx_playback
<1> DEFINE d == [c EXCEPT !.events = q, !.tstates = t]
<1>1. c \in Globals /\ Queue(q)
  BY DEF Ready, Sane, Keeps
<1>2. /\ d \in Globals /\ d.events = q /\ d.tstates = t
      /\ d.machine = c.machine /\ d.rzx_playback = c.rzx_playback
  BY <1>1 DEF Globals, Queue
<1> HIDE DEF d
<1>3. Guarded(d, RZX_SENTINEL_TIME) /\ Ends(d)
  BY <1>2, KeepsFrame DEF Ready
<1> QED BY <1>1, <1>2, <1>3 DEF Ready, Sane, d

LEMMA KeptEvents ==
  ASSUME NEW c, Ready(c), NEW q, Keeps(c.events, q)
  PROVE  LET d == [c EXCEPT !.events = q]
         IN /\ Ready(d) /\ d.events = q /\ d.tstates = c.tstates
            /\ d.machine = c.machine /\ d.rzx_playback = c.rzx_playback
<1>1. c \in Globals /\ c.tstates \in Nat /\ Early(c.tstates)
  BY DEF Ready, Sane, Globals
<1>2. [c EXCEPT !.events = q] = [c EXCEPT !.events = q, !.tstates = c.tstates]
  BY <1>1 DEF Globals
<1>3. Ready([c EXCEPT !.events = q, !.tstates = c.tstates])
  BY <1>1, KeptReady
<1>4. LET d == [c EXCEPT !.events = q]
      IN /\ d.events = q /\ d.tstates = c.tstates
         /\ d.machine = c.machine /\ d.rzx_playback = c.rzx_playback
  BY <1>1 DEF Globals
<1> QED BY <1>2, <1>3, <1>4

\* Where an instruction starts, the frame has not ended.
LEMMA ExecutingReady ==
  ASSUME IInv, Executing
  PROVE  /\ stack = << >> /\ Ready(core) /\ core \in Globals
         /\ core.tstates \in Nat /\ core.tstates < RZX_SENTINEL_TIME
         /\ ~ core.rzx_playback => core.tstates < FrameTime(core)
<1>1. stack = << >> /\ Running(core)
  BY DEF Executing, IInv, Phase
<1>2. Sane(core) /\ core \in Globals /\ core.tstates \in Nat /\ core.events.next \in Int
  BY <1>1 DEF Running, Sane, Globals, Dword
<1>3. Ready(core)
  BY <1>1, <1>2 DEF Executing, Running, JustEnded, Ready
<1>4. CASE core.rzx_playback
  <2>1. core.events.next <= RZX_SENTINEL_TIME
    BY <1>2, <1>3, <1>4, NextFirst DEF Ready, Guarded, Sane
  <2> QED BY <1>1, <1>2, <1>3, <1>4, <2>1, Counts DEF Executing
<1>5. CASE ~ core.rzx_playback
  <2>1. core.events.next <= FrameTime(core)
    BY <1>2, <1>3, <1>5, NextFirst DEF Ready, Ends, Sane
  <2>2. FrameTime(core) \in 1 .. RZX_SENTINEL_TIME
    BY <1>2, Counts DEF FrameTime, Globals
  <2> QED BY <1>1, <1>2, <1>3, <1>5, <2>1, <2>2, Counts DEF Executing
<1> QED BY <1>4, <1>5

\* n T-states of an instruction that takes d.
LEMMA ExecutedReady ==
  ASSUME NEW c, Ready(c), c.tstates <= RZX_SENTINEL_TIME,
         c.rzx_playback => c.instructions > 0,
         NEW d \in OpcodeTimes, NEW n \in 0 .. d
  PROVE  LET e == Executed(c, n)
         IN /\ Ready(e) /\ e.events = c.events /\ e.tstates = c.tstates + n
            /\ e.machine = c.machine /\ e.rzx_playback = c.rzx_playback
            /\ e.tstates \in Nat /\ c.tstates + d \in Nat /\ Early(c.tstates + d)
<1> DEFINE e == Executed(c, n)
<1>1. c \in Globals /\ Queue(c.events) /\ c.tstates \in Nat
  BY DEF Ready, Sane, Globals
<1>2. /\ d \in Nat /\ n \in Nat /\ c.tstates + n \in Nat /\ c.tstates + d \in Nat
      /\ Early(c.tstates + d) /\ Early(c.tstates + n)
  <2>1. /\ d \in Nat /\ n \in Nat /\ RZX_SENTINEL_TIME \in Nat /\ ULA_CONTENTION_SIZE \in Nat
        /\ RZX_SENTINEL_TIME + d <= ULA_CONTENTION_SIZE /\ Early(ULA_CONTENTION_SIZE)
    BY Counts
  <2>2. c.tstates + d <= ULA_CONTENTION_SIZE /\ c.tstates + n <= ULA_CONTENTION_SIZE
    BY <1>1, <2>1
  <2> QED BY <1>1, <2>1, <2>2, Earlier
<1>3. /\ e \in Globals /\ e.events = c.events /\ e.tstates = c.tstates + n
      /\ e.machine = c.machine /\ e.rzx_playback = c.rzx_playback
  <2> DEFINE k == IF c.rzx_playback THEN c.instructions - 1 ELSE c.instructions
  <2>1. c.instructions \in 0 .. MaxInstructions /\ MaxInstructions \in Nat
    BY <1>1, Counts DEF Globals
  <2>2. k \in 0 .. MaxInstructions
    BY <2>1
  <2>3. e = [c EXCEPT !.tstates = c.tstates + n, !.instructions = k]
    BY <1>1 DEF Executed, Globals
  <2> HIDE DEF e, k
  <2> QED BY <1>1, <1>2, <2>2, <2>3 DEF Globals
<1> HIDE DEF e
<1> QED BY <1>1, <1>2, <1>3 DEF Ready, Sane, Guarded, Ends, FrameTime, e

LEMMA ExecutedCore ==
  ASSUME IInv, Executing, InstructionsLeft, NEW d \in OpcodeTimes, NEW n \in 0 .. d
  PROVE  LET e == Executed(core, n)
         IN /\ Ready(e) /\ e.tstates = core.tstates + n /\ e.rzx_playback = core.rzx_playback
            /\ core.tstates \in Nat /\ core.tstates + d \in Nat /\ Early(core.tstates + d)
<1>1. /\ Ready(core) /\ core.tstates \in Nat /\ core.tstates <= RZX_SENTINEL_TIME
      /\ core.rzx_playback => core.instructions > 0
  BY ExecutingReady, Counts DEF InstructionsLeft
<1> QED BY <1>1, ExecutedReady

\* How the steps that leave the stack alone keep the invariant.
LEMMA ReadyStep ==
  ASSUME IInv, stack = << >>, Ready(core'), UNCHANGED <<stack, user>>
  PROVE  IInv'
<1>1. Phase(stack', core')
  BY DEF Phase, Running, Ready
<1> QED BY <1>1 DEF IInv

LEMMA OpcodeKeeps ==
  ASSUME IInv, Opcode PROVE IInv'
<1>1. PICK d \in OpcodeTimes : core' = Executed(core, d)
  BY DEF Opcode
<1>2. d \in 0 .. d
  BY Counts
<1>3. Ready(core')
  BY <1>1, <1>2, ExecutedCore DEF Opcode
<1> QED BY <1>3, ExecutingReady, ReadyStep DEF Opcode

LEMMA MotorKeeps ==
  ASSUME IInv, fdd_motoron PROVE IInv'
<1>1. PICK d \in OpcodeTimes, delay \in MotorDelays : \E n \in 0 .. d - 1 :
        LET c == Executed(core, n)
        IN core' = [c EXCEPT !.events = Add(Remove(@, motor_event), c.tstates + delay, motor_event),
                             !.tstates = @ + d - n]
  BY DEF fdd_motoron
<1>2. PICK n \in 0 .. d - 1 :
        LET c == Executed(core, n)
        IN core' = [c EXCEPT !.events = Add(Remove(@, motor_event), c.tstates + delay, motor_event),
                             !.tstates = @ + d - n]
  BY <1>1
<1> DEFINE c == Executed(core, n)
           q == Remove(c.events, motor_event)
           r == Add(q, c.tstates + delay, motor_event)
<1>3. n \in 0 .. d /\ n \in Nat /\ d \in Nat
  BY Counts
<1>4. /\ Ready(c) /\ c.tstates = core.tstates + n /\ core.tstates \in Nat
      /\ core.tstates + d \in Nat /\ Early(core.tstates + d)
  BY <1>3, ExecutedCore DEF fdd_motoron
<1>5. core' = [c EXCEPT !.events = r, !.tstates = core.tstates + d]
  <2>1. c.tstates + d - n = core.tstates + d
    BY <1>3, <1>4
  <2> QED BY <1>2, <2>1
<1> HIDE DEF c, q, r
<1>6. Keeps(c.events, q)
  BY <1>4, Types, OthersKeep DEF q, Ready, Sane
<1>7. c.tstates + delay \in 0 .. Half - 1
  BY <1>4, Counts, Sums DEF Ready, Sane
<1>8. Keeps(q, r)
  BY <1>6, <1>7, Types, OthersKeep DEF r, Keeps
<1>9. Ready(core')
  BY <1>4, <1>5, <1>6, <1>8, KeepsTwice, KeptReady
<1> QED BY <1>9, ExecutingReady, ReadyStep DEF fdd_motoron

LEMMA ReadportKeeps ==
  ASSUME IInv, readport_internal PROVE IInv'
<1>1. PICK d \in OpcodeTimes : \E n \in 0 .. d - 1 :
        LET c == rzx_stop_playback(Executed(core, n), TRUE)
        IN core' = [c EXCEPT !.events = Add(@, c.tstates, event_type_null),
                             !.tstates = @ + d - n]
  BY DEF readport_internal
<1>2. PICK n \in 0 .. d - 1 :
        LET c == rzx_stop_playback(Executed(core, n), TRUE)
        IN core' = [c EXCEPT !.events = Add(@, c.tstates, event_type_null),
                             !.tstates = @ + d - n]
  BY <1>1
<1> DEFINE b == Executed(core, n)
           c == rzx_stop_playback(b, TRUE)
           r == Add(c.events, c.tstates, event_type_null)
<1>3. n \in 0 .. d /\ n \in Nat /\ d \in Nat
  BY Counts
<1>4. /\ Ready(b) /\ b.tstates = core.tstates + n /\ core.tstates \in Nat /\ b.rzx_playback
      /\ core.tstates + d \in Nat /\ Early(core.tstates + d)
  BY <1>3, ExecutedCore DEF readport_internal
<1> HIDE DEF b
<1>5. Ready(c) /\ c.tstates <= b.tstates
  BY <1>4, StopReady DEF Ready, Ends
<1>6. core' = [c EXCEPT !.events = r, !.tstates = c.tstates + d - n]
  BY <1>2 DEF b
<1> HIDE DEF c, r
<1>7. c.tstates \in Nat /\ Early(c.tstates)
  BY <1>5 DEF Ready, Sane, Globals
<1>8. c.tstates + d - n \in Nat /\ c.tstates + d - n <= core.tstates + d
  BY <1>3, <1>4, <1>5, <1>7
<1>9. Keeps(c.events, r)
  <2>1. c.tstates \in 0 .. Half - 1
    BY <1>7, EarlyTime
  <2> QED BY <1>5, <2>1, Types, OthersKeep DEF r, Ready, Sane
<1>10. Ready(core')
  BY <1>4, <1>5, <1>6, <1>8, <1>9, Earlier, KeptReady
<1> QED BY <1>10, ExecutingReady, ReadyStep DEF readport_internal

\* The end of a recorded frame becomes the next event.
LEMMA RzxFrameDueKeeps ==
  ASSUME IInv, RzxFrameDue PROVE IInv'
<1> DEFINE r == Add(core.events, core.tstates, spectrum_frame_event)
<1>1. /\ stack = << >> /\ Ready(core) /\ core \in Globals /\ core.tstates \in Nat
      /\ core.tstates < core.events.next /\ core.rzx_playback
      /\ Queue(core.events) /\ Early(core.tstates)
  BY ExecutingReady DEF RzxFrameDue, InstructionsLeft, Executing, Ready, Sane
<1>2. core' = [core EXCEPT !.events = r]
  BY DEF RzxFrameDue
<1>3. core.tstates \in 0 .. Half - 1 /\ spectrum_frame_event \in 0 .. 5
  BY <1>1, EarlyTime, Types
<1>4. /\ Queue(r) /\ Single(r, spectrum_frame_event, core.tstates)
      /\ \A t : Single(core.events, sentinel_event, t) => Single(r, sentinel_event, t)
  BY <1>1, <1>3, Types, WatchedAdded DEF Ready, Ends
<1>5. /\ r.list # << >> /\ r.list[1].type = spectrum_frame_event /\ r.next = core.tstates
  BY <1>1, <1>3, AddKeeps
<1> HIDE DEF r
<1>6. /\ core' \in Globals /\ core'.events = r /\ core'.tstates = core.tstates
      /\ core'.rzx_playback = core.rzx_playback
  BY <1>1, <1>2, <1>4 DEF Globals, Queue
<1>7. Running(core')
  BY <1>1, <1>4, <1>5, <1>6 DEF Running, Sane, Guarded, JustEnded, Ready
<1>8. Phase(stack', core')
  BY <1>1, <1>7 DEF Phase, RzxFrameDue
<1> QED BY <1>8 DEF IInv, RzxFrameDue

-----------------------------------------------------------------------------
(* Events that are handled.                                                *)

\* Where an event is due, it is the head of the list.
LEMMA DueFacts ==
  ASSUME IInv, NEW type, Due(type)
  PROVE  LET e == Head(core.events.list)
         IN /\ stack = << >> \/ stack = <<"do">>
            /\ Sane(core) /\ core \in Globals /\ core.tstates \in Nat
            /\ core.events.list # << >> /\ e.type = type /\ e.tstates = core.events.next
            /\ e.tstates \in 0 .. Half - 1 /\ e.tstates <= core.tstates
            /\ stack = << >> => Running(core)
            /\ stack = <<"do">> => Forcing(core) /\ core.tstates < FrameTime(core)
            /\ type # spectrum_frame_event => Ready(core)
<1> DEFINE e == Head(core.events.list)
<1>1. /\ stack = << >> \/ stack = <<"do">>
      /\ stack = << >> => Running(core)
      /\ stack = <<"do">> => Forcing(core) /\ core.tstates < FrameTime(core)
  BY Stacks DEF Due, Top, IInv, Phase
<1>2. Sane(core) /\ core \in Globals /\ core.tstates \in Nat
  BY <1>1 DEF Running, Forcing, Ready, Sane, Globals
<1>3. core.tstates \in 0 .. Half - 1 /\ Half \in Nat \ {0}
  BY <1>2, EarlyTime, Counts DEF Sane
<1>4. core.events.list # << >>
  <2>1. event_no_events > core.tstates
    BY <1>3 DEF event_no_events
  <2>2. core.events.next = NextOf(core.events.list) /\ core.events.next <= core.tstates
    BY <1>2 DEF Sane, Queue, Due
  <2> QED BY <1>3, <2>1, <2>2 DEF NextOf, event_no_events
<1>5. e.tstates = core.events.next /\ e.tstates \in 0 .. Half - 1 /\ e = core.events.list[1]
  BY <1>2, <1>4, PoppedKeeps DEF Sane
<1>6. e.type = type /\ e.tstates <= core.tstates
  BY <1>5 DEF Due
<1>7. ASSUME type # spectrum_frame_event PROVE Ready(core)
  BY <1>1, <1>5, <1>6, <1>7 DEF Running, JustEnded, Forcing, Ready
<1> QED BY <1>1, <1>2, <1>4, <1>5, <1>6, <1>7

\* What an event leaves; in event_force_events it takes no time.
LEMMA HandledStep ==
  ASSUME IInv, NEW type, Due(type), UNCHANGED <<stack, user>>, Ready(core'),
         stack = <<"do">> => /\ core'.rzx_playback = core.rzx_playback
                             /\ core'.machine = core.machine
                             /\ core'.tstates = core.tstates
                             /\ From(core'.events, core.tstates)
  PROVE  IInv'
<1>1. CASE stack = << >>
  BY <1>1, ReadyStep
<1>2. CASE stack = <<"do">>
  <2>1. Forcing(core') /\ core'.tstates < FrameTime(core')
    BY <1>2, DueFacts DEF Forcing, FrameTime
  <2>2. Phase(stack', core')
    BY <1>2, <2>1 DEF Phase
  <2> QED BY <2>2 DEF IInv
<1> QED BY <1>1, <1>2, DueFacts

\* The events that are not watched, each handled by adding at most one more.
LEMMA OtherHandled ==
  ASSUME IInv, NEW type, type \notin Watched, Due(type), UNCHANGED <<stack, user>>,
         NEW q, Keeps(Popped(core.events), q), core' = [core EXCEPT !.events = q],
         \A n \in Int : From(Popped(core.events), n) /\ core.events.next >= n => From(q, n)
  PROVE  IInv'
<1> DEFINE p == Popped(core.events)
<1>1. /\ Ready(core) /\ core.events.list # << >> /\ core.tstates \in Nat
      /\ Head(core.events.list).type \notin Watched /\ Queue(core.events)
      /\ core.events.next \in Int
  BY DueFacts, Types DEF Ready, Sane, Queue, Dword
<1>2. Keeps(core.events, p)
  BY <1>1, OthersKeep
<1>3. Keeps(core.events, q)
  BY <1>2, KeepsTwice
<1>4. /\ Ready(core') /\ core'.events = q /\ core'.tstates = core.tstates
      /\ core'.machine = core.machine /\ core'.rzx_playback = core.rzx_playback
  BY <1>1, <1>3, KeptEvents
<1>5. ASSUME stack = <<"do">> PROVE From(core'.events, core.tstates)
  <2>1. From(core.events, core.tstates)
    BY <1>5, DueFacts DEF Forcing
  <2>2. core.events.next >= core.tstates
    <3>1. 1 \in 1 .. Len(core.events.list) /\ core.events.list[1].tstates = core.events.next
      BY <1>1, PoppedKeeps
    <3> QED BY <2>1, <3>1 DEF From
  <2>3. From(p, core.tstates)
    BY <1>1, <2>1, PoppedKeeps
  <2> QED BY <1>1, <1>4, <2>2, <2>3
<1> QED BY <1>4, <1>5, HandledStep

LEMMA PoppedQueue ==
  ASSUME IInv, NEW type, Due(type)
  PROVE  /\ AfterPop = [core EXCEPT !.events = Popped(core.events)]
         /\ Queue(Popped(core.events)) /\ Keeps(Popped(core.events), Popped(core.events))
         /\ core.events.next = EventTime /\ EventTime \in 0 .. Half - 1
         /\ EventTime <= core.tstates
         /\ AfterPop.events = Popped(core.events) /\ AfterPop.tstates = core.tstates
         /\ \A q : [AfterPop EXCEPT !.events = q] = [core EXCEPT !.events = q]
         /\ AfterPop.machine = core.machine /\ AfterPop.rzx_playback = core.rzx_playback
<1>1. /\ core.events.list # << >> /\ Queue(core.events) /\ core \in Globals
      /\ Head(core.events.list).tstates = core.events.next
      /\ Head(core.events.list).tstates \in 0 .. Half - 1
      /\ Head(core.events.list).tstates <= core.tstates
  BY DueFacts DEF Sane
<1>2. Queue(Popped(core.events))
  BY <1>1, PoppedKeeps
<1>3. AfterPop = [core EXCEPT !.events = Popped(core.events)]
  BY DEF AfterPop
<1>4. Keeps(Popped(core.events), Popped(core.events))
  BY <1>2 DEF Keeps
<1>5. /\ AfterPop.events = Popped(core.events) /\ AfterPop.tstates = core.tstates
      /\ \A q : [AfterPop EXCEPT !.events = q] = [core EXCEPT !.events = q]
      /\ AfterPop.machine = core.machine /\ AfterPop.rzx_playback = core.rzx_playback
  BY <1>1, <1>3 DEF Globals
<1> QED BY <1>1, <1>2, <1>3, <1>4, <1>5 DEF EventTime

\* An event that is only taken off.
LEMMA PoppedStep ==
  ASSUME IInv, NEW type, type \notin Watched, Due(type), UNCHANGED <<stack, user>>,
         core' = AfterPop
  PROVE  IInv'
BY PoppedQueue, OtherHandled

\* An event that is replaced by one no earlier.
LEMMA ReplacedStep ==
  ASSUME IInv, NEW type, type \notin Watched, Due(type), UNCHANGED <<stack, user>>,
         NEW time \in 0 .. Half - 1, time >= EventTime, NEW ty \in 0 .. 5, ty \notin Watched,
         core' = [AfterPop EXCEPT !.events = Add(Popped(core.events), time, ty)]
  PROVE  IInv'
<1> DEFINE p == Popped(core.events)
           q == Add(p, time, ty)
<1>1. Queue(p) /\ core' = [core EXCEPT !.events = q] /\ core.events.next = EventTime
  BY PoppedQueue
<1>2. Keeps(p, q)
  BY <1>1, OthersKeep
<1>3. EventTime \in Int
  BY PoppedQueue
<1>4. ASSUME NEW n \in Int, From(p, n), core.events.next >= n PROVE From(q, n)
  <2>1. time >= n
    BY <1>1, <1>3, <1>4
  <2> QED BY <1>1, <1>4, <2>1, AddKeeps
<1> HIDE DEF p, q
<1> QED BY <1>1, <1>2, <1>4, OtherHandled DEF p

LEMMA TimerKeeps ==
  ASSUME IInv, timer_frame PROVE IInv'
<1>1. PICK d \in TimerDelays \cup {FrameTime(core)} :
        core' = [AfterPop EXCEPT !.events = Add(@, EventTime + d, timer_event)]
  BY DEF timer_frame, Handle
<1>2. Due(timer_event) /\ UNCHANGED <<stack, user>>
  BY DEF timer_frame, Handle
<1>3. /\ core' = [AfterPop EXCEPT !.events = Add(Popped(core.events), EventTime + d, timer_event)]
  BY <1>1, <1>2, PoppedQueue
<1>4. Early(d) /\ d \in Nat
  BY <1>1, <1>2, DueFacts, Counts DEF Early, FrameTime, Globals
<1>5. Early(EventTime) /\ EventTime \in Nat
  BY <1>2, DueFacts, PoppedQueue, Earlier DEF Sane
<1>6. EventTime + d \in 0 .. Half - 1
  BY <1>4, <1>5, Sums
<1>7. EventTime + d >= EventTime
  BY <1>4, <1>5
<1> QED BY <1>2, <1>3, <1>6, <1>7, Types, ReplacedStep

LEMMA InterruptEventKeeps ==
  ASSUME IInv, z80_interrupt_event_fn PROVE IInv'
<1>1. /\ Due(z80_interrupt_event) /\ UNCHANGED <<stack, user>>
      /\ core' \in IF core.rzx_playback THEN {AfterPop} ELSE z80_interrupt(AfterPop)
  BY DEF z80_interrupt_event_fn, Handle
<1>2. CASE core' = AfterPop
  BY <1>1, <1>2, Types, PoppedStep
<1>3. CASE core' # AfterPop
  <2>1. /\ ~ core.rzx_playback
        /\ core.tstates < interrupt_length
        /\ \/ core' = [AfterPop EXCEPT !.tstates = @ + InterruptTime]
           \/ core' = [AfterPop EXCEPT !.events = Add(@, AfterPop.tstates + 1, z80_interrupt_event)]
    BY <1>1, <1>3, PoppedQueue DEF z80_interrupt
  <2>2. stack # <<"do">>
    BY <1>1, <2>1, DueFacts DEF Forcing
  <2>3. /\ Ready(core) /\ core.tstates \in Nat
    BY <1>1, Types, DueFacts
  <2>4. /\ interrupt_length \in Nat /\ InterruptTime \in Nat
        /\ Early(interrupt_length + InterruptTime)
    BY Counts
  <2>5. CASE core' = [AfterPop EXCEPT !.tstates = @ + InterruptTime]
    <3>1. Keeps(core.events, Popped(core.events))
      BY <1>1, DueFacts, Types, OthersKeep DEF Sane
    <3>2. core.tstates + InterruptTime \in Nat /\ Early(core.tstates + InterruptTime)
      BY <2>1, <2>3, <2>4, Earlier
    <3>3. core' = [core EXCEPT !.events = Popped(core.events),
                               !.tstates = core.tstates + InterruptTime]
      BY <1>1, <2>3, <2>5, PoppedQueue DEF Ready, Sane, Globals
    <3>4. Ready(core')
      BY <2>3, <3>1, <3>2, <3>3, KeptReady
    <3> QED BY <1>1, <2>2, <3>4, HandledStep
  <2>6. CASE core' = [AfterPop EXCEPT !.events = Add(@, AfterPop.tstates + 1, z80_interrupt_event)]
    <3>1. core' = [AfterPop EXCEPT !.events =
                     Add(Popped(core.events), core.tstates + 1, z80_interrupt_event)]
      BY <1>1, <2>6, PoppedQueue
    <3>2. core.tstates + 1 \in 0 .. Half - 1
      <4>1. core.tstates + 1 \in Nat /\ core.tstates + 1 <= interrupt_length + InterruptTime
        BY <2>1, <2>3, <2>4
      <4>2. Early(core.tstates + 1)
        BY <2>4, <4>1, Earlier
      <4> QED BY <4>2, EarlyTime
    <3>3. core.tstates + 1 >= EventTime
      BY <1>1, <2>3, PoppedQueue
    <3> QED BY <1>1, <3>1, <3>2, <3>3, Types, ReplacedStep
  <2> QED BY <2>1, <2>5, <2>6
<1> QED BY <1>2, <1>3

\* The sentinel takes time off and guards again.
LEMMA SentinelKeeps ==
  ASSUME IInv, rzx_sentinel PROVE IInv'
<1> DEFINE q == Popped(core.events)
           r == Add(q, RZX_SENTINEL_TIME, sentinel_event)
           t == core.tstates - RZX_SENTINEL_TIME_REDUCE
<1>1. /\ Due(sentinel_event) /\ UNCHANGED <<stack, user>>
      /\ core' = [AfterPop EXCEPT !.tstates = Minus(@, RZX_SENTINEL_TIME_REDUCE),
                                  !.events = Add(@, RZX_SENTINEL_TIME, sentinel_event)]
  BY DEF rzx_sentinel, Handle
<1>2. /\ Ready(core) /\ core \in Globals /\ core.tstates \in Nat /\ Early(core.tstates)
      /\ core.events.list # << >> /\ Queue(core.events)
      /\ Head(core.events.list).type = sentinel_event
      /\ Head(core.events.list).tstates <= core.tstates
  BY <1>1, Types, DueFacts DEF Sane
<1>3. core.rzx_playback
  <2>1. ~ None(core.events, sentinel_event)
    BY <1>2, PoppedKeeps DEF None
  <2> QED BY <1>2, <2>1 DEF Ready, Guarded
<1>4. Head(core.events.list).tstates = RZX_SENTINEL_TIME /\ None(q, sentinel_event)
  BY <1>2, <1>3, PoppedKeeps DEF Ready, Guarded
<1>5. Queue(q) /\ None(q, spectrum_frame_event)
  BY <1>2, <1>3, PoppedKeeps DEF Ready, Ends
<1>6. RZX_SENTINEL_TIME \in 0 .. Half - 1 /\ RZX_SENTINEL_TIME \in Nat
  BY Counts, EarlyTime
<1>7. Queue(r) /\ Single(r, sentinel_event, RZX_SENTINEL_TIME) /\ None(r, spectrum_frame_event)
  BY <1>5, <1>4, <1>6, Types, WatchedAdded
<1>8. /\ RZX_SENTINEL_TIME_REDUCE \in Nat /\ RZX_SENTINEL_TIME_REDUCE <= core.tstates
  BY <1>2, <1>4, <1>6, Counts
<1>9. t \in Nat /\ Early(t) /\ Minus(core.tstates, RZX_SENTINEL_TIME_REDUCE) = t
  BY <1>2, <1>8, Earlier DEF Minus
<1> HIDE DEF q, r, t
<1>10. core' = [core EXCEPT !.events = r, !.tstates = t]
  BY <1>1, <1>2, <1>9, PoppedQueue DEF Globals, q, r
<1>11. /\ core' \in Globals /\ core'.events = r /\ core'.tstates = t
       /\ core'.rzx_playback = core.rzx_playback
  BY <1>2, <1>7, <1>9, <1>10 DEF Globals, Queue
<1>12. Ready(core')
  BY <1>3, <1>7, <1>9, <1>11 DEF Ready, Sane, Guarded, Ends
<1>13. stack # <<"do">>
  <2>1. FrameTime(core) \in 1 .. RZX_SENTINEL_TIME
    BY <1>2, Counts DEF FrameTime, Globals
  <2> QED BY <1>1, <1>2, <1>4, <1>6, <2>1, DueFacts
<1> QED BY <1>1, <1>12, <1>13, HandledStep

-----------------------------------------------------------------------------
(* The end of a frame.                                                     *)

\* No event is before the cached time.
LEMMA FromNext ==
  ASSUME NEW q, Queue(q)
  PROVE  \A n \in Int : n <= q.next => From(q, n)
<1>1. /\ q.list \in Seq(Entry) /\ Ordered(q.list) /\ q.next = NextOf(q.list)
      /\ Len(q.list) \in Nat /\ q.next \in Int
  BY LenProperties DEF Queue, Dword
<1>2. ASSUME NEW i \in 1 .. Len(q.list)
      PROVE  q.list[i].tstates >= q.next /\ q.list[i].tstates \in Int
  <2>1. q.list # << >> /\ 1 \in 1 .. Len(q.list) /\ Head(q.list) = q.list[1] /\ 1 <= i
    BY <1>1, <1>2
  <2>2. q.list[i] \in Entry /\ q.list[1] \in Entry
    BY <1>1, <2>1
  <2> QED BY <1>1, <2>1, <2>2 DEF Ordered, NextOf, Entry, Dword
<1> QED BY <1>1, <1>2 DEF From

\* Only the frame's own event, or the recording's, ends it.
LEMMA FrameEventKeeps ==
  ASSUME IInv, FrameEvent PROVE IInv'
<1> DEFINE q == Popped(core.events)
<1>1. /\ Due(spectrum_frame_event) /\ core' = AfterPop /\ user' = user
      /\ stack' = Append(stack, IF core.rzx_playback THEN "force" ELSE "frame")
  BY DEF FrameEvent
<1>2. /\ Sane(core) /\ core \in Globals /\ core.tstates \in Nat /\ core.events.list # << >>
      /\ Queue(core.events) /\ Head(core.events.list).type = spectrum_frame_event
  BY <1>1, DueFacts DEF Sane
<1>3. /\ Queue(q) /\ core'.events = q /\ core'.tstates = core.tstates
      /\ core'.machine = core.machine /\ core'.rzx_playback = core.rzx_playback
      /\ EventTime <= core.tstates /\ EventTime = Head(core.events.list).tstates
      /\ core' = [core EXCEPT !.events = q]
  BY <1>1, PoppedQueue DEF EventTime
<1>4. core' \in Globals /\ Sane(core')
  BY <1>2, <1>3 DEF Globals, Queue, Sane
<1>5. ~ None(core.events, spectrum_frame_event)
  BY <1>2, PoppedKeeps DEF None
<1>6. stack = << >> /\ Running(core)
  BY <1>1, <1>2, <1>5, DueFacts DEF Forcing, Ready, Ends
<1>7. Guarded(core', RZX_SENTINEL_TIME)
  <2>1. /\ None(core.events, sentinel_event) => None(q, sentinel_event)
        /\ \A t : Single(core.events, sentinel_event, t) => Single(q, sentinel_event, t)
    BY <1>2, Types, PoppedKeeps
  <2> QED BY <1>3, <1>6, <2>1 DEF Guarded, Running
<1>8. From(q, EventTime)
  BY <1>2, <1>3, PoppedKeeps
<1>9. ASSUME NEW t, Single(core.events, spectrum_frame_event, t)
      PROVE  None(q, spectrum_frame_event) /\ EventTime = t
  BY <1>2, <1>3, <1>9, PoppedKeeps
<1> HIDE DEF q
<1>10. CASE core.rzx_playback
  <2>1. JustEnded(core)
    BY <1>5, <1>6, <1>10 DEF Running, Ends
  <2>2. None(q, spectrum_frame_event) /\ EventTime = core.tstates
    BY <1>9, <2>1 DEF JustEnded
  <2>3. Forcing(core')
    BY <1>3, <1>4, <1>7, <1>8, <1>10, <2>2 DEF Forcing, Ready, Ends
  <2>4. stack' = <<"force">>
    BY <1>1, <1>6, <1>10
  <2>5. Phase(stack', core')
    BY <2>3, <2>4 DEF Phase
  <2> QED BY <1>1, <2>5 DEF IInv
<1>11. CASE ~ core.rzx_playback
  <2>1. Single(core.events, spectrum_frame_event, FrameTime(core))
    BY <1>6, <1>11 DEF Running, Ends, JustEnded
  <2>2. None(q, spectrum_frame_event) /\ EventTime = FrameTime(core)
    BY <1>9, <2>1
  <2>3. FrameTime(core) \in Nat /\ FrameTime(core') = FrameTime(core)
    BY <1>2, <1>3, Counts DEF FrameTime, Globals
  <2>4. Ended(core')
    BY <1>2, <1>3, <1>4, <1>7, <1>8, <1>11, <2>2, <2>3 DEF Ended, FrameLength
  <2>5. stack' = <<"frame">>
    BY <1>1, <1>6, <1>11
  <2>6. Phase(stack', core')
    BY <2>4, <2>5 DEF Phase
  <2> QED BY <1>1, <2>6 DEF IInv
<1> QED BY <1>10, <1>11

\* Where a call is reached, and where Goto and FrameReturn lead.
LEMMA InFacts ==
  ASSUME IInv, NEW pc \in {"force", "do", "frame", "spectrum", "z80", "ui"}, In(pc)
  PROVE  /\ stack = <<pc>>
         /\ pc \in {"force", "do"} => Forcing(core)
         /\ pc = "do" => core.tstates < FrameTime(core)
         /\ pc = "frame" => Ended(core)
         /\ pc = "spectrum" => Shortening(core)
         /\ pc \in {"z80", "ui"} => Ready(core)
         /\ Sane(core) /\ core \in Globals /\ core.tstates \in Nat /\ Queue(core.events)
         /\ FrameTime(core) \in 1 .. RZX_SENTINEL_TIME /\ Early(FrameTime(core))
         /\ \A to : Goto(to) => stack' = <<to>>
         /\ FrameReturn => stack' = << >>
<1>1. stack = <<pc>>
  BY Stacks DEF In, Top, IInv, Phase
<1>2. /\ pc \in {"force", "do"} => Forcing(core)
      /\ pc = "do" => core.tstates < FrameTime(core)
      /\ pc = "frame" => Ended(core)
      /\ pc = "spectrum" => Shortening(core)
      /\ pc \in {"z80", "ui"} => Ready(core)
  BY <1>1, Stacks DEF IInv, Phase
<1>3. Sane(core) /\ core \in Globals /\ core.tstates \in Nat /\ Queue(core.events)
  BY <1>2 DEF Forcing, Ended, Shortening, Ready, Sane, Globals
<1>4. FrameTime(core) \in 1 .. RZX_SENTINEL_TIME /\ Early(FrameTime(core))
  BY <1>3, Counts DEF FrameTime, Globals
<1>5. /\ \A to : Goto(to) => stack' = <<to>>
      /\ FrameReturn => stack' = << >>
  BY <1>1, Stacks DEF Goto, FrameReturn
<1> QED BY <1>1, <1>2, <1>3, <1>4, <1>5

LEMMA ForceKeeps ==
  ASSUME IInv, ForceNext \/ ForceDone \/ ForceReturn PROVE IInv'
<1>1. CASE ForceNext
  <2>1. /\ stack = <<"force">> /\ stack' = <<"do">> /\ Forcing(core) /\ user' = user
        /\ core' = [core EXCEPT !.tstates = core.events.next]
        /\ core.events.next < FrameTime(core)
    BY <1>1, InFacts DEF ForceNext
  <2>2. /\ core \in Globals /\ Queue(core.events) /\ FrameTime(core) \in 1 .. RZX_SENTINEL_TIME
        /\ Early(FrameTime(core)) /\ core.events.next \in Nat
    BY <1>1, InFacts DEF ForceNext, Queue, Dword
  <2>3. Early(core.events.next)
    BY <2>1, <2>2, Counts, Earlier
  <2>4. /\ core' \in Globals /\ core'.events = core.events /\ core'.tstates = core.events.next
        /\ core'.machine = core.machine /\ core'.rzx_playback = core.rzx_playback
    BY <2>1, <2>2 DEF Globals
  <2>5. From(core'.events, core'.tstates)
    BY <2>2, <2>4, FromNext
  <2>6. Forcing(core') /\ core'.tstates < FrameTime(core')
    BY <2>1, <2>2, <2>3, <2>4, <2>5 DEF Forcing, Ready, Sane, Guarded, Ends, FrameTime
  <2>7. Phase(stack', core')
    BY <2>1, <2>6 DEF Phase
  <2> QED BY <2>1, <2>7 DEF IInv
<1>2. CASE ForceDone
  <2>1. stack' = <<"force">> /\ Forcing(core) /\ UNCHANGED <<core, user>>
    BY <1>2, InFacts DEF ForceDone
  <2>2. Phase(stack', core')
    BY <2>1 DEF Phase
  <2> QED BY <2>1, <2>2 DEF IInv
<1>3. CASE ForceReturn
  <2>1. /\ stack' = <<"frame">> /\ Forcing(core) /\ UNCHANGED <<core, user>>
        /\ core.events.next >= FrameTime(core)
    BY <1>3, InFacts DEF ForceReturn
  <2>2. Queue(core.events) /\ core.events.next \in Int /\ FrameTime(core) \in Int
    BY <1>3, InFacts DEF ForceReturn, Queue, Dword
  <2>3. From(core.events, FrameTime(core))
    BY <2>1, <2>2, FromNext
  <2>4. Ended(core)
    BY <2>1, <2>3 DEF Forcing, Ready, Ended, Ends, FrameLength
  <2>5. Phase(stack', core')
    BY <2>1, <2>4 DEF Phase
  <2> QED BY <2>1, <2>5 DEF IInv
<1> QED BY <1>1, <1>2, <1>3

\* The playback is ended by its last frame or by an error.
LEMMA StopShortens ==
  ASSUME NEW c, Ended(c), c.rzx_playback
  PROVE  Shortening(rzx_stop_playback(c, FALSE))
<1> DEFINE d == rzx_stop_playback(c, FALSE)
           q == Remove(c.events, sentinel_event)
<1>1. /\ c \in Globals /\ Queue(c.events) /\ From(c.events, FrameTime(c))
      /\ None(c.events, spectrum_frame_event)
  BY DEF Ended, Sane
<1>2. FrameTime(c) \in Nat /\ Early(FrameTime(c))
  BY <1>1, Counts DEF FrameTime, Globals
<1>3. /\ Queue(q) /\ None(q, sentinel_event) /\ None(q, spectrum_frame_event)
      /\ From(q, FrameTime(c))
  BY <1>1, <1>2, Types, RemoveKeeps
<1> HIDE DEF q
<1>4. d = [c EXCEPT !.rzx_playback = FALSE, !.events = q, !.tstates = FrameTime(c)]
  BY <1>1 DEF rzx_stop_playback, Globals, q, FrameTime
<1>5. /\ d \in Globals /\ d.events = q /\ d.tstates = FrameTime(c) /\ d.rzx_playback = FALSE
      /\ d.machine = c.machine
  BY <1>1, <1>2, <1>3, <1>4 DEF Globals, Queue
<1> HIDE DEF d
<1>6. FrameLength(d) = FrameTime(c)
  BY <1>5 DEF FrameTime, FrameLength
<1>7. Sane(d) /\ Guarded(d, RZX_SENTINEL_TIME + d.tstates)
  BY <1>2, <1>3, <1>5 DEF Sane, Guarded
<1>8. Shortening(d)
  BY <1>2, <1>3, <1>5, <1>6, <1>7 DEF Shortening
<1> QED BY <1>8 DEF d

\* The sentinel is moved out by as much as spectrum_frame takes off.
LEMMA MovedShortens ==
  ASSUME NEW c, Ended(c), c.rzx_playback, NEW n \in 0 .. MaxInstructions,
         NEW f \in 0 .. MaxFrames
  PROVE  /\ Shortening(WithFrame(SentinelMovedOut(c), n, f))
         /\ SentinelMovedOut(c) \in Globals
         /\ SentinelMovedOut(c).machine = c.machine /\ SentinelMovedOut(c).tstates = c.tstates
<1> DEFINE b == SentinelMovedOut(c)
           d == WithFrame(b, n, f)
           q == Remove(c.events, sentinel_event)
           t == RZX_SENTINEL_TIME + c.tstates
           r == Add(q, t, sentinel_event)
<1>1. /\ c \in Globals /\ Queue(c.events) /\ From(c.events, c.tstates)
      /\ None(c.events, spectrum_frame_event) /\ c.tstates \in Nat /\ Early(c.tstates)
  BY DEF Ended, Sane, FrameLength, Globals
<1>2. t \in 0 .. Half - 1
  BY <1>1, Counts, Sums
<1>3. t >= c.tstates
  BY <1>1, Counts
<1> HIDE DEF q, r, t
<1>4. /\ Queue(q) /\ None(q, sentinel_event) /\ None(q, spectrum_frame_event)
      /\ From(q, c.tstates)
  BY <1>1, Types, RemoveKeeps DEF q
<1>5. Queue(r) /\ Single(r, sentinel_event, t) /\ None(r, spectrum_frame_event)
  BY <1>2, <1>4, Types, WatchedAdded DEF r
<1>6. From(r, c.tstates)
  <2>1. sentinel_event \in 0 .. 5 /\ c.tstates \in Int
    BY <1>1, Types
  <2> QED BY <1>2, <1>3, <1>4, <2>1, AddKeeps DEF r
<1>7. b = [c EXCEPT !.events = r]
  BY DEF SentinelMovedOut, q, r, t
<1>8. b \in Globals /\ b.machine = c.machine /\ b.tstates = c.tstates
  BY <1>1, <1>5, <1>7 DEF Globals, Queue
<1>9. d = [c EXCEPT !.events = r, !.instructions = n, !.frames = f]
  BY <1>1, <1>7 DEF WithFrame, Globals
<1>10. /\ d \in Globals /\ d.events = r /\ d.tstates = c.tstates
       /\ d.rzx_playback = c.rzx_playback /\ d.machine = c.machine
  BY <1>1, <1>5, <1>9 DEF Globals, Queue
<1> HIDE DEF b, d
<1>11. Shortening(d)
  BY <1>1, <1>5, <1>6, <1>10 DEF Shortening, Sane, Guarded, FrameLength, t
<1> QED BY <1>8, <1>11 DEF b, d

\* rzx_frame leaves nothing that spectrum_frame would take below zero.
LEMMA RzxFrameKeeps ==
  ASSUME IInv, Undisturbed, RzxFrame PROVE IInv'
<1>1. /\ stack' = <<"spectrum">> /\ Ended(core) /\ core \in Globals /\ user' = user
      /\ core' \in rzx_frame(core)
  BY InFacts DEF RzxFrame
<1>2. CASE ~ core.rzx_playback
  <2>1. core' = core
    BY <1>1, <1>2 DEF rzx_frame
  <2> QED BY <1>1, <1>2, <2>1 DEF Ended, Shortening, Guarded, FrameLength, IInv, Phase
<1>3. CASE core.rzx_playback
  <2>1. core' \in playback_frame(core)
    BY <1>1, <1>3 DEF rzx_frame
  <2> DEFINE Moved == {SentinelMovedOut(core)} \cup
                         {snapshot_copy_from(SentinelMovedOut(core), s[1], s[2]) :
                            s \in MidSnapshots(core)}
             Read == {WithFrame(d, n, core.frames - 1) : n \in 0 .. MaxInstructions, d \in Moved}
  <2>2. playback_frame(core) =
          {rzx_stop_playback(core, FALSE)} \cup (IF core.frames = 0 THEN {} ELSE Read)
    BY DEF playback_frame
  <2> HIDE DEF Read
  <2>3. Shortening(core')
    <3>1. CASE core' = rzx_stop_playback(core, FALSE)
      BY <1>1, <1>3, <3>1, StopShortens
    <3>2. CASE core' # rzx_stop_playback(core, FALSE)
      <4>1. core.frames # 0 /\ core' \in Read
        BY <2>1, <2>2, <3>2
      <4>2. PICK n \in 0 .. MaxInstructions, d \in Moved :
              core' = WithFrame(d, n, core.frames - 1)
        BY <4>1 DEF Read
      <4>3. core.frames - 1 \in 0 .. MaxFrames
        BY <1>1, <4>1, Counts DEF Globals
      <4>4. /\ Shortening(WithFrame(SentinelMovedOut(core), n, core.frames - 1))
            /\ SentinelMovedOut(core) \in Globals
            /\ SentinelMovedOut(core).machine = core.machine
            /\ SentinelMovedOut(core).tstates = core.tstates
        BY <1>1, <1>3, <4>3, MovedShortens
      <4>5. d = SentinelMovedOut(core)
        <5>1. ASSUME NEW s \in MidSnapshots(core)
              PROVE  snapshot_copy_from(SentinelMovedOut(core), s[1], s[2]) =
                       SentinelMovedOut(core)
          <6>1. s[1] = core.machine /\ s[2] = core.tstates
            BY <5>1 DEF MidSnapshots, Undisturbed
          <6> QED BY <4>4, <6>1 DEF snapshot_copy_from, Globals
        <5> QED BY <4>2, <5>1
      <4> QED BY <4>2, <4>4, <4>5
    <3> QED BY <3>1, <3>2
  <2>4. Phase(stack', core')
    BY <1>1, <2>3 DEF Phase
  <2> QED BY <1>1, <2>4 DEF IInv
<1> QED BY <1>2, <1>3

\* The next frame begins as the one before did.
LEMMA SpectrumFrameKeeps ==
  ASSUME IInv, SpectrumFrame PROVE IInv'
<1> DEFINE n == FrameLength(core)
           q == Aged(core.events, n)
           r == IF core.rzx_playback THEN q ELSE Add(q, FrameTime(core), spectrum_frame_event)
<1>1. /\ stack' = <<"z80">> /\ Shortening(core) /\ core \in Globals /\ user' = user
      /\ core' = spectrum_frame(core) /\ Queue(core.events) /\ core.tstates \in Nat
      /\ Early(core.tstates) /\ FrameTime(core) \in 1 .. RZX_SENTINEL_TIME
      /\ Early(FrameTime(core))
  BY InFacts DEF SpectrumFrame, Sane
<1>2. n \in Nat /\ n <= core.tstates /\ From(core.events, n)
  BY <1>1, Counts DEF Shortening, FrameLength
<1>3. /\ Queue(q) /\ None(q, spectrum_frame_event)
      /\ None(core.events, sentinel_event) => None(q, sentinel_event)
      /\ \A t : Single(core.events, sentinel_event, t) => Single(q, sentinel_event, t - n)
  BY <1>1, <1>2, AgedKeeps DEF Shortening
<1>4. core' = [core EXCEPT !.tstates = core.tstates - n, !.events = r]
  BY <1>1, <1>2 DEF spectrum_frame, FrameLength, Minus, Globals
<1> HIDE DEF q
<1>5. ASSUME core.rzx_playback PROVE Single(q, sentinel_event, RZX_SENTINEL_TIME)
  <2>1. n = core.tstates
    BY <1>5 DEF FrameLength
  <2>2. (RZX_SENTINEL_TIME + core.tstates) - n = RZX_SENTINEL_TIME
    BY <1>1, <2>1, Counts
  <2>3. Single(core.events, sentinel_event, RZX_SENTINEL_TIME + core.tstates)
    BY <1>1, <1>5 DEF Shortening, Guarded
  <2>4. Single(q, sentinel_event, (RZX_SENTINEL_TIME + core.tstates) - n)
    BY <1>3, <2>3
  <2> QED BY <2>2, <2>4
<1>6. /\ Queue(r)
      /\ core.rzx_playback => /\ Single(r, sentinel_event, RZX_SENTINEL_TIME)
                              /\ None(r, spectrum_frame_event)
      /\ ~ core.rzx_playback => /\ None(r, sentinel_event)
                                /\ Single(r, spectrum_frame_event, FrameTime(core))
  <2>1. CASE core.rzx_playback
    BY <1>3, <1>5, <2>1
  <2>2. CASE ~ core.rzx_playback
    <3>1. FrameTime(core) \in 0 .. Half - 1 /\ None(q, sentinel_event)
      BY <1>1, <1>3, <2>2, EarlyTime DEF Shortening, Guarded
    <3> QED BY <1>3, <2>2, <3>1, Types, WatchedAdded
  <2> QED BY <2>1, <2>2
<1>7. core.tstates - n \in Nat /\ Early(core.tstates - n)
  BY <1>1, <1>2, Earlier
<1> HIDE DEF r, n
<1>8. /\ core' \in Globals /\ core'.events = r /\ core'.tstates = core.tstates - n
      /\ core'.rzx_playback = core.rzx_playback /\ core'.machine = core.machine
  BY <1>1, <1>4, <1>6, <1>7 DEF Globals, Queue
<1>9. Ready(core')
  BY <1>6, <1>7, <1>8 DEF Ready, Sane, Guarded, Ends, FrameTime
<1>10. Phase(stack', core')
  BY <1>1, <1>9 DEF Phase
<1> QED BY <1>1, <1>10 DEF IInv

LEMMA InterruptKeeps ==
  ASSUME IInv, Interrupt PROVE IInv'
<1>1. /\ stack' = <<"ui">> /\ Ready(core) /\ core \in Globals /\ user' = user
      /\ core' \in z80_interrupt(core) /\ Queue(core.events) /\ core.tstates \in Nat
  BY InFacts DEF Interrupt
<1>2. /\ interrupt_length \in Nat /\ InterruptTime \in Nat
      /\ Early(interrupt_length + InterruptTime)
  BY Counts
<1>3. Keeps(core.events, core.events)
  BY <1>1 DEF Keeps
<1>4. CASE core' = core
  <2>1. Phase(stack', core')
    BY <1>1, <1>4 DEF Phase
  <2> QED BY <1>1, <2>1 DEF IInv
<1>5. CASE core' # core
  <2>1. /\ core.tstates < interrupt_length
        /\ \/ core' = [core EXCEPT !.tstates = @ + InterruptTime]
           \/ core' = [core EXCEPT !.events = Add(@, core.tstates + 1, z80_interrupt_event)]
    BY <1>1, <1>5 DEF z80_interrupt
  <2>2. CASE core' = [core EXCEPT !.tstates = @ + InterruptTime]
    <3>1. core.tstates + InterruptTime \in Nat /\ Early(core.tstates + InterruptTime)
      BY <1>1, <1>2, <2>1, Earlier
    <3>2. core' = [core EXCEPT !.events = core.events,
                               !.tstates = core.tstates + InterruptTime]
      BY <1>1, <2>2 DEF Globals
    <3>3. Ready(core')
      BY <1>1, <1>3, <3>1, <3>2, KeptReady
    <3>4. Phase(stack', core')
      BY <1>1, <3>3 DEF Phase
    <3> QED BY <1>1, <3>4 DEF IInv
  <2>3. CASE core' = [core EXCEPT !.events = Add(@, core.tstates + 1, z80_interrupt_event)]
    <3>1. core.tstates + 1 \in 0 .. Half - 1
      <4>1. core.tstates + 1 \in Nat /\ core.tstates + 1 <= interrupt_length + InterruptTime
        BY <1>1, <1>2, <2>1
      <4>2. Early(core.tstates + 1)
        BY <1>2, <4>1, Earlier
      <4> QED BY <4>2, EarlyTime
    <3>2. Keeps(core.events, Add(core.events, core.tstates + 1, z80_interrupt_event))
      BY <1>1, <3>1, Types, OthersKeep
    <3>3. Ready(core')
      BY <1>1, <2>3, <3>2, KeptEvents
    <3>4. Phase(stack', core')
      BY <1>1, <3>3 DEF Phase
    <3> QED BY <1>1, <3>4 DEF IInv
  <2> QED BY <2>1, <2>2, <2>3
<1> QED BY <1>4, <1>5

-----------------------------------------------------------------------------
(* The user.                                                               *)

LEMMA IdleKeeps ==
  ASSUME IInv, UiIdle PROVE IInv'
<1>1. stack' = << >> /\ Ready(core) /\ UNCHANGED <<core, user>>
  BY InFacts DEF UiIdle
<1>2. Phase(stack', core')
  BY <1>1 DEF Phase, Running, Ready
<1> QED BY <1>1, <1>2 DEF IInv

LEMMA ActsKeep ==
  ASSUME IInv, NEW Results, UserActs(Results), \A d \in Results : Ready(d)
  PROVE  IInv'
<1>1. /\ stack' = << >> /\ Ready(core') /\ user < MaxUser /\ user' = user + 1
  BY InFacts DEF UserActs
<1>2. Phase(stack', core')
  BY <1>1 DEF Phase, Running, Ready
<1>3. user' \in 0 .. MaxUser
  BY <1>1, Counts DEF IInv
<1> QED BY <1>2, <1>3 DEF IInv

LEMMA StoppedReady ==
  ASSUME IInv, In("ui")
  PROVE  Ready(Stopped) /\ ~ Stopped.rzx_playback
<1>1. Ready(core)
  BY InFacts
<1>2. CASE core.rzx_playback
  BY <1>1, <1>2, StopReady DEF Stopped, Ready, Ends
<1>3. CASE ~ core.rzx_playback
  BY <1>1, <1>3 DEF Stopped
<1> QED BY <1>2, <1>3

\* Whatever the user does, the globals are in order.
LEMMA UserKeeps ==
  ASSUME IInv, Undisturbed, User PROVE IInv'
<1>1. CASE menu_file_recording_stop
  <2>1. core.rzx_playback /\ UserActs({rzx_stop_playback(core, TRUE)}) /\ In("ui")
    BY <1>1 DEF menu_file_recording_stop, UserActs
  <2>2. Ready(rzx_stop_playback(core, TRUE))
    BY <2>1, InFacts, StopReady DEF Ready, Ends
  <2> QED BY <2>1, <2>2, ActsKeep
<1>2. CASE menu_machine_select
  <2>1. /\ ~ core.rzx_playback /\ In("ui")
        /\ UserActs({machine_select_machine(core, m) : m \in Machines})
    BY <1>2 DEF menu_machine_select, UserActs, Undisturbed
  <2>2. \A m \in Machines : Ready(machine_select_machine(core, m))
    BY <2>1, InFacts, SelectReady
  <2> QED BY <2>1, <2>2, ActsKeep
<1>3. CASE OpenSnapshot
  <2>1. UserActs(Opened(Stopped)) /\ In("ui")
    BY <1>3 DEF OpenSnapshot, UserActs
  <2> QED BY <2>1, StoppedReady, FilesReady, ActsKeep
<1>4. CASE OpenRecording
  <2>1. UserActs(Played(Stopped)) /\ In("ui")
    BY <1>4 DEF OpenRecording, UserActs
  <2> QED BY <2>1, StoppedReady, FilesReady, ActsKeep
<1> QED BY <1>1, <1>2, <1>3, <1>4 DEF User

-----------------------------------------------------------------------------
(* The invariant holds always, and implies what the runs check.            *)

LEMMA InvInit ==
  Init => IInv
<1> SUFFICES ASSUME Init PROVE IInv
  OBVIOUS
<1>1. PICK m \in Machines :
        core \in {Selected(m)} \cup Opened(Selected(m)) \cup Played(Selected(m))
  BY DEF Init
<1>2. Ready(Selected(m)) /\ ~ Selected(m).rzx_playback
  <2> DEFINE b == [events |-> EmptyQueue, tstates |-> 0, machine |-> m,
                   rzx_playback |-> FALSE, instructions |-> 0, frames |-> 0]
  <2>1. EmptyQueue \in [list : Seq(Entry), next : Dword]
    BY HalfAssumption DEF EmptyQueue, Dword, event_no_events
  <2>2. b \in Globals /\ ~ b.rzx_playback
    BY <2>1, Counts DEF Globals
  <2> HIDE DEF b
  <2> QED BY <2>2, SelectReady DEF Selected, b
<1>3. Ready(core)
  BY <1>1, <1>2, FilesReady
<1>4. Phase(stack, core)
  BY <1>3 DEF Phase, Running, Ready, Init
<1> QED BY <1>4, Counts DEF IInv, Init

LEMMA InvNext ==
  ASSUME Undisturbed PROVE IInv /\ [Next]_vars => IInv'
<1> SUFFICES ASSUME IInv, [Next]_vars PROVE IInv'
  OBVIOUS
<1>1. CASE Opcode
  BY <1>1, OpcodeKeeps
<1>2. CASE fdd_motoron
  BY <1>2, MotorKeeps
<1>3. CASE readport_internal
  BY <1>3, ReadportKeeps
<1>4. CASE RzxFrameDue
  BY <1>4, RzxFrameDueKeeps
<1>5. CASE timer_frame
  BY <1>5, TimerKeeps
<1>6. CASE rzx_sentinel
  BY <1>6, SentinelKeeps
<1>7. CASE z80_interrupt_event_fn
  BY <1>7, InterruptEventKeeps
<1>8. CASE fdd_event
  BY <1>8, Types, PoppedStep DEF fdd_event, Handle
<1>9. CASE NullEvent
  BY <1>9, Types, PoppedStep DEF NullEvent, Handle
<1>10. CASE FrameEvent
  BY <1>10, FrameEventKeeps
<1>11. CASE ForceNext \/ ForceDone \/ ForceReturn
  BY <1>11, ForceKeeps
<1>12. CASE RzxFrame
  BY <1>12, RzxFrameKeeps
<1>13. CASE SpectrumFrame
  BY <1>13, SpectrumFrameKeeps
<1>14. CASE Interrupt
  BY <1>14, InterruptKeeps
<1>15. CASE UiIdle
  BY <1>15, IdleKeeps
<1>16. CASE User
  BY <1>16, UserKeeps
<1>17. CASE UNCHANGED vars
  BY <1>17 DEF vars, IInv
<1> QED
  BY <1>1, <1>2, <1>3, <1>4, <1>5, <1>6, <1>7, <1>8, <1>9, <1>10, <1>11, <1>12, <1>13,
     <1>14, <1>15, <1>16, <1>17 DEF Next, Emulate

LEMMA InvAlways ==
  ASSUME Undisturbed PROVE Spec => []IInv
BY InvInit, InvNext, PTL DEF Spec

LEMMA InvSane ==
  ASSUME IInv
  PROVE  /\ Sane(core) /\ core \in Globals /\ Queue(core.events)
         /\ stack = << >> \/ \E pc \in {"force", "do", "frame", "spectrum", "z80", "ui"} :
                               stack = <<pc>>
BY DEF IInv, Phase, Running, Forcing, Ended, Shortening, Ready, Sane

\* Every global keeps its type, and a frame event is never handled within another.
THEOREM TypeCorrect ==
  ASSUME Undisturbed PROVE Spec => []TypeOK
<1>1. ASSUME IInv PROVE TypeOK
  <2>1. /\ core \in Globals /\ core.tstates \in 0 .. Half - 1 /\ Half \in Nat \ {0}
    BY <1>1, InvSane, EarlyTime, Counts DEF Sane
  <2> DEFINE Calls == {"force", "do", "frame", "spectrum", "z80", "ui"}
  <2>2. stack \in Seq(Calls)
    <3>1. << >> \in Seq(Calls) /\ \A pc \in Calls : <<pc>> \in Seq(Calls)
      OBVIOUS
    <3> QED BY <1>1, <3>1, InvSane
  <2>3. core.tstates \in Dword
    BY <2>1 DEF Dword
  <2> QED BY <1>1, <2>1, <2>2, <2>3 DEF TypeOK, IInv, Globals, Entry
<1> QED BY <1>1, InvAlways, PTL

\* No T-state count of the processor or of an event wraps at the end of a frame.
THEOREM CountsNeverWrap ==
  ASSUME Undisturbed PROVE Spec => []NothingWraps
<1>1. ASSUME IInv PROVE NothingWraps
  <2>1. /\ Queue(core.events) /\ core.tstates \in 0 .. Half - 1 /\ Half \in Nat \ {0}
    BY <1>1, InvSane, EarlyTime, Counts DEF Sane
  <2>2. \A t \in Times : t < Half
    BY <2>1 DEF Times, Queue, Timed
  <2> QED BY <2>1, <2>2 DEF NothingWraps, Queue
<1> QED BY <1>1, InvAlways, PTL

\* While opcodes run, the frame is ended by one event, or by the recording.
THEOREM FrameEndsOnce ==
  ASSUME Undisturbed PROVE Spec => []OneFrameEvent
<1>1. ASSUME IInv PROVE OneFrameEvent
  <2> DEFINE l == core.events.list
             L == Live(core, spectrum_frame_event)
  <2> SUFFICES ASSUME stack = << >>
               PROVE  LET due == {l[i].tstates : i \in L}
                      IN IF core.rzx_playback THEN due \subseteq {core.tstates}
                         ELSE due = {FrameTime(core)} /\ Cardinality(L) = 1
    BY DEF OneFrameEvent
  <2>1. Running(core)
    BY <1>1 DEF IInv, Phase
  <2>2. ASSUME NEW t, Single(core.events, spectrum_frame_event, t)
        PROVE  {l[i].tstates : i \in L} = {t} /\ Cardinality(L) = 1
    <3>1. PICK k \in 1 .. Len(l) :
            /\ l[k].tstates = t
            /\ \A i \in 1 .. Len(l) : l[i].type = spectrum_frame_event <=> i = k
      BY <2>2 DEF Single
    <3>2. L = {k}
      BY <3>1 DEF Live
    <3>3. Cardinality({k}) = 1
      BY FS_Singleton
    <3> QED BY <3>1, <3>2, <3>3
  <2>3. CASE core.rzx_playback
    <3>1. CASE None(core.events, spectrum_frame_event)
      BY <2>3, <3>1 DEF None, Live
    <3>2. CASE Single(core.events, spectrum_frame_event, core.tstates)
      BY <2>2, <2>3, <3>2
    <3> QED BY <2>1, <2>3, <3>1, <3>2 DEF Running, Ends, JustEnded
  <2>4. CASE ~ core.rzx_playback
    BY <2>1, <2>2, <2>4 DEF Running, Ends, JustEnded
  <2> QED BY <2>3, <2>4
<1> QED BY <1>1, InvAlways, PTL

\* No instruction starts where its delays are past the end of the contention tables.
THEOREM TablesNeverOverrun ==
  ASSUME Undisturbed PROVE Spec => []NoOverrun
<1>1. ASSUME IInv PROVE NoOverrun
  <2> SUFFICES ASSUME Executing, NEW d \in OpcodeTimes
               PROVE  core.tstates + d <= ULA_CONTENTION_SIZE
    BY DEF NoOverrun
  <2> QED BY <1>1, ExecutingReady, Counts
<1> QED BY <1>1, InvAlways, PTL

\* Outside playback every instruction starts within the frame of its machine.
THEOREM StaysWithinFrame ==
  ASSUME Undisturbed PROVE Spec => []WithinFrame
<1>1. ASSUME IInv PROVE WithinFrame
  BY <1>1, ExecutingReady DEF WithinFrame
<1> QED BY <1>1, InvAlways, PTL

-----------------------------------------------------------------------------
(* The timer's event, whatever disturbs the counts.                        *)

\* What the queue and the globals hold even where a count has wrapped.
AnyEvent == [tstates : Int, type : 0 .. 5]

AnyQueue == [list : Seq(AnyEvent), next : Int]

AnyGlobals ==
  [events : AnyQueue, tstates : Int, machine : Machines, rzx_playback : BOOLEAN,
   instructions : Int, frames : Int]

\* One entry of the queue is the timer's.
Timing(q) ==
  \E k \in 1 .. Len(q.list) :
    \A i \in 1 .. Len(q.list) : q.list[i].type = timer_event <=> i = k

Steady(c) == c \in AnyGlobals /\ Timing(c.events)

\* The emulation is slowed to its speed by one timer: its event is never lost, and never
\* there twice.
OneTimer == Cardinality(Live(core, timer_event)) = 1

LEMMA TimerNumbers ==
  /\ \A m \in Machines : tstates_per_frame[m] \in Int
  /\ \A d \in OpcodeTimes \cup TimerDelays \cup MotorDelays \cup FileTimes : d \in Int
  /\ {RZX_SENTINEL_TIME, RZX_SENTINEL_TIME_REDUCE, InterruptTime, MaxInstructions, MaxFrames}
       \subseteq Int
  /\ Half \in Nat \ {0}
BY FrameAssumption, TimesAssumption, HalfAssumption

LEMMA MinusIsInt == \A a, b \in Int : Minus(a, b) \in Int
BY HalfAssumption DEF Minus

\* The cached time of the next event is a number.
LEMMA NextOfIsInt == ASSUME NEW s \in Seq(AnyEvent)  PROVE NextOf(s) \in Int
<1>1. CASE s = << >>
  BY <1>1, HalfAssumption DEF NextOf, event_no_events
<1>2. CASE s # << >>
  <2>1. Head(s) \in AnyEvent
    BY <1>2
  <2> QED BY <1>2, <2>1 DEF NextOf, AnyEvent
<1> QED BY <1>1, <1>2

\* AddedEntries, for lists of these.
LEMMA AnyAddedPlace ==
  ASSUME NEW s \in Seq(AnyEvent), NEW e \in AnyEvent, NEW next
  PROVE  \E p \in 1 .. Len(s) + 1 :
           /\ Added(s, next, e) \in Seq(AnyEvent)
           /\ Len(Added(s, next, e)) = Len(s) + 1
           /\ \A i \in 1 .. Len(s) + 1 :
                Added(s, next, e)[i] = IF i < p THEN s[i] ELSE IF i = p THEN e ELSE s[i - 1]
BY AddedEntries

\* Adding an event adds just that.
LEMMA AddTiming ==
  ASSUME NEW q \in AnyQueue, NEW time \in Int, NEW type \in 0 .. 5
  PROVE  LET r == Add(q, time, type)
         IN /\ r \in AnyQueue
            /\ type # timer_event /\ Timing(q) => Timing(r)
            /\ type = timer_event /\ None(q, timer_event) => Timing(r)
            /\ type # timer_event /\ None(q, timer_event) => None(r, timer_event)
<1> DEFINE s == q.list
           e == [tstates |-> time, type |-> type]
           r == Add(q, time, type)
           l == Added(s, q.next, e)
<1>1. s \in Seq(AnyEvent) /\ e \in AnyEvent /\ Len(s) \in Nat /\ q.next \in Int
  BY LenProperties DEF AnyQueue, AnyEvent
<1>2. PICK p \in 1 .. Len(s) + 1 :
        /\ l \in Seq(AnyEvent)
        /\ Len(l) = Len(s) + 1
        /\ \A i \in 1 .. Len(s) + 1 :
             l[i] = IF i < p THEN s[i] ELSE IF i = p THEN e ELSE s[i - 1]
  <2>1. s \in Seq(AnyEvent) /\ e \in AnyEvent
    BY <1>1
  <2> HIDE DEF e, s
  <2> QED BY <2>1, AnyAddedPlace DEF l
<1>3. r.list = l /\ r \in AnyQueue
  BY <1>1, <1>2 DEF Add, AnyQueue
<1>4. e.type = type
  OBVIOUS
<1> HIDE DEF l, r, e
<1>5. ASSUME type # timer_event, Timing(q)  PROVE Timing(r)
  <2>1. PICK k \in 1 .. Len(s) : \A i \in 1 .. Len(s) : s[i].type = timer_event <=> i = k
    BY <1>5 DEF Timing
  <2> DEFINE n == IF k < p THEN k ELSE k + 1
  <2>2. n \in 1 .. Len(l)
    BY <1>1, <1>2
  <2>3. ASSUME NEW i \in 1 .. Len(l)  PROVE l[i].type = timer_event <=> i = n
    <3>1. CASE i < p
      BY <1>1, <1>2, <2>1, <3>1
    <3>2. CASE i = p
      BY <1>1, <1>2, <1>4, <1>5, <3>2
    <3>3. CASE i > p
      <4>1. i - 1 \in 1 .. Len(s) /\ l[i] = s[i - 1]
        BY <1>1, <1>2, <3>3
      <4> QED BY <1>1, <1>2, <2>1, <3>3, <4>1
    <3> QED BY <1>1, <1>2, <3>1, <3>2, <3>3
  <2> HIDE DEF n
  <2> QED BY <1>3, <2>2, <2>3 DEF Timing
<1>6. ASSUME type = timer_event, None(q, timer_event)  PROVE Timing(r)
  <2>1. p \in 1 .. Len(l)
    BY <1>2
  <2>2. ASSUME NEW i \in 1 .. Len(l)  PROVE l[i].type = timer_event <=> i = p
    <3>1. CASE i = p
      BY <1>2, <1>4, <1>6, <3>1
    <3>2. CASE i < p
      BY <1>1, <1>2, <1>6, <3>2 DEF None
    <3>3. CASE i > p
      <4>1. i - 1 \in 1 .. Len(s) /\ l[i] = s[i - 1]
        BY <1>1, <1>2, <3>3
      <4> QED BY <1>6, <3>3, <4>1 DEF None
    <3> QED BY <1>1, <1>2, <3>1, <3>2, <3>3
  <2> QED BY <1>3, <2>1, <2>2 DEF Timing
<1>7. ASSUME type # timer_event, None(q, timer_event)  PROVE None(r, timer_event)
  BY <1>1, <1>2, <1>3, <1>4, <1>7 DEF None
<1> QED BY <1>3, <1>5, <1>6, <1>7 DEF r

\* Removing another type leaves it, and so does ageing.
LEMMA RemoveTiming ==
  ASSUME NEW q \in AnyQueue, NEW type \in 0 .. 5, type # timer_event
  PROVE  /\ Remove(q, type) \in AnyQueue
         /\ Timing(q) => Timing(Remove(q, type))
<1> DEFINE s == q.list
           l == Nulled(s, type)
           r == Remove(q, type)
<1>1. s \in Seq(AnyEvent) /\ Len(s) \in Nat /\ q.next \in Int
  BY LenProperties DEF AnyQueue
<1>2. r.list = l /\ r \in [list : {l}, next : Int]
  BY <1>1 DEF Remove, AnyQueue
<1>3. /\ l \in Seq(AnyEvent) /\ Len(l) = Len(s)
      /\ \A i \in 1 .. Len(s) : l[i].type = IF s[i].type = type THEN 0 ELSE s[i].type
  <2>1. \A i \in 1 .. Len(s) : s[i] \in AnyEvent
    BY <1>1
  <2>2. \A i \in 1 .. Len(s) :
          IF s[i].type = type THEN [s[i] EXCEPT !.type = 0] \in AnyEvent ELSE s[i] \in AnyEvent
    BY <2>1 DEF AnyEvent
  <2>3. l = [i \in 1 .. Len(s) |->
               IF s[i].type = type THEN [s[i] EXCEPT !.type = 0] ELSE s[i]]
    BY DEF Nulled, event_type_null
  <2> QED BY <1>1, <2>1, <2>2, <2>3 DEF AnyEvent
<1> HIDE DEF l, r
<1>4. r \in AnyQueue
  BY <1>2, <1>3 DEF AnyQueue
<1>5. timer_event # 0
  BY DEF timer_event
<1>6. ASSUME Timing(q)  PROVE Timing(r)
  <2>1. PICK k \in 1 .. Len(s) : \A i \in 1 .. Len(s) : s[i].type = timer_event <=> i = k
    BY <1>6 DEF Timing
  <2>2. \A i \in 1 .. Len(l) : l[i].type = timer_event <=> i = k
    BY <1>3, <1>5, <2>1
  <2> QED BY <1>2, <1>3, <2>1, <2>2 DEF Timing
<1> QED BY <1>4, <1>6 DEF r

LEMMA AgedTiming ==
  ASSUME NEW q \in AnyQueue, NEW n \in Int
  PROVE  /\ Aged(q, n) \in AnyQueue
         /\ Timing(q) => Timing(Aged(q, n))
<1> DEFINE s == q.list
           l == Reduced(s, n)
           r == Aged(q, n)
<1>1. s \in Seq(AnyEvent) /\ Len(s) \in Nat
  BY LenProperties DEF AnyQueue
<1>2. r = [list |-> l, next |-> NextOf(l)]
  BY DEF Aged
<1>3. /\ l \in Seq(AnyEvent) /\ Len(l) = Len(s)
      /\ \A i \in 1 .. Len(s) : l[i].type = s[i].type
  <2>1. ASSUME NEW i \in 1 .. Len(s)  PROVE s[i] \in AnyEvent /\ s[i].tstates \in Int
    <3>1. s[i] \in AnyEvent
      BY <1>1
    <3> QED BY <3>1 DEF AnyEvent
  <2>2. \A i \in 1 .. Len(s) : s[i] \in AnyEvent /\ Minus(s[i].tstates, n) \in Int
    BY <2>1, MinusIsInt
  <2>3. l = [i \in 1 .. Len(s) |-> [s[i] EXCEPT !.tstates = Minus(s[i].tstates, n)]]
    BY DEF Reduced
  <2>4. \A i \in 1 .. Len(s) :
          [s[i] EXCEPT !.tstates = Minus(s[i].tstates, n)] \in AnyEvent
    BY <2>2 DEF AnyEvent
  <2> QED BY <1>1, <2>2, <2>3, <2>4 DEF AnyEvent
<1>4. NextOf(l) \in Int
  BY <1>3, NextOfIsInt
<1> HIDE DEF l, r
<1>5. r \in AnyQueue
  BY <1>2, <1>3, <1>4 DEF AnyQueue
<1>6. ASSUME Timing(q)  PROVE Timing(r)
  <2>1. PICK k \in 1 .. Len(s) : \A i \in 1 .. Len(s) : s[i].type = timer_event <=> i = k
    BY <1>6 DEF Timing
  <2>2. \A i \in 1 .. Len(l) : l[i].type = timer_event <=> i = k
    BY <1>3, <2>1
  <2> QED BY <1>2, <1>3, <2>1, <2>2 DEF Timing
<1> QED BY <1>5, <1>6 DEF r

\* What is done is the first entry, of its own type.
LEMMA PoppedTiming ==
  ASSUME NEW q \in AnyQueue, Timing(q)
  PROVE  /\ Popped(q) \in AnyQueue
         /\ Head(q.list) \in AnyEvent
         /\ Head(q.list).type # timer_event => Timing(Popped(q))
         /\ Head(q.list).type = timer_event => None(Popped(q), timer_event)
<1> DEFINE s == q.list
           l == Tail(s)
           r == Popped(q)
<1>1. s \in Seq(AnyEvent) /\ Len(s) \in Nat
  BY LenProperties DEF AnyQueue
<1>2. r = [list |-> l, next |-> NextOf(l)]
  BY DEF Popped
<1>3. PICK k \in 1 .. Len(s) : \A i \in 1 .. Len(s) : s[i].type = timer_event <=> i = k
  BY DEF Timing
<1>4. /\ s # << >> /\ Head(s) = s[1] /\ Head(s) \in AnyEvent /\ 1 \in 1 .. Len(s)
      /\ l \in Seq(AnyEvent) /\ Len(l) = Len(s) - 1
      /\ \A i \in 1 .. Len(l) : l[i] = s[i + 1] /\ i + 1 \in 1 .. Len(s)
  BY <1>1, <1>3
<1>5. NextOf(l) \in Int
  BY <1>4, NextOfIsInt
<1> HIDE DEF l, r
<1>6. r \in AnyQueue
  BY <1>2, <1>4, <1>5 DEF AnyQueue
<1>7. ASSUME s[1].type # timer_event  PROVE Timing(r)
  <2>1. k - 1 \in 1 .. Len(l)
    BY <1>1, <1>3, <1>4, <1>7
  <2>2. \A i \in 1 .. Len(l) : l[i].type = timer_event <=> i = k - 1
    BY <1>1, <1>3, <1>4
  <2> QED BY <1>2, <2>1, <2>2 DEF Timing
<1>8. ASSUME s[1].type = timer_event  PROVE None(r, timer_event)
  BY <1>1, <1>2, <1>3, <1>4, <1>8 DEF None
<1> QED BY <1>4, <1>6, <1>7, <1>8 DEF r

\* The types of the events.
LEMMA TimerTypes ==
  /\ {event_type_null, spectrum_frame_event, z80_interrupt_event, sentinel_event, motor_event}
       \subseteq 0 .. 5
  /\ timer_event \in 0 .. 5
  /\ timer_event \notin {event_type_null, spectrum_frame_event, z80_interrupt_event,
                         sentinel_event, motor_event}
BY DEF event_type_null, timer_event, spectrum_frame_event, z80_interrupt_event,
       sentinel_event, motor_event

\* Selecting a machine adds the event to an empty queue.
LEMMA SelectSteady ==
  ASSUME NEW c \in AnyGlobals, NEW m \in Machines
  PROVE  Steady(machine_select_machine(c, m))
<1> DEFINE p == Add(EmptyQueue, 0, timer_event)
           q == Add(p, tstates_per_frame[m], spectrum_frame_event)
<1>1. EmptyQueue \in AnyQueue /\ None(EmptyQueue, timer_event) /\ 0 \in Int
  BY HalfAssumption DEF EmptyQueue, AnyQueue, event_no_events, None
<1>2. p \in AnyQueue /\ Timing(p)
  BY <1>1, TimerTypes, AddTiming
<1> HIDE DEF p
<1>3. q \in AnyQueue /\ Timing(q)
  BY <1>2, TimerTypes, TimerNumbers, AddTiming
<1> HIDE DEF q
<1>4. machine_select_machine(c, m) = [c EXCEPT !.machine = m, !.tstates = 0, !.events = q]
  BY DEF machine_select_machine, p, q
<1>5. /\ [c EXCEPT !.machine = m, !.tstates = 0, !.events = q] \in AnyGlobals
      /\ [c EXCEPT !.machine = m, !.tstates = 0, !.events = q].events = q
  BY <1>1, <1>3 DEF AnyGlobals
<1> QED BY <1>3, <1>4, <1>5 DEF Steady

LEMMA SnapshotSteady ==
  ASSUME NEW c, Steady(c), NEW m \in Machines, NEW time \in Int
  PROVE  Steady(snapshot_copy_from(c, m, time))
<1> DEFINE d == IF m # c.machine THEN machine_select_machine(c, m) ELSE c
<1>1. Steady(d)
  BY SelectSteady DEF Steady
<1>2. snapshot_copy_from(c, m, time) = [d EXCEPT !.tstates = time]
  BY DEF snapshot_copy_from
<1> HIDE DEF d
<1> QED BY <1>1, <1>2 DEF Steady, AnyGlobals

LEMMA StopSteady ==
  ASSUME NEW c, Steady(c), NEW add_interrupt \in BOOLEAN
  PROVE  Steady(rzx_stop_playback(c, add_interrupt))
<1> DEFINE p == Remove(c.events, sentinel_event)
           q == Add(p, FrameTime(c), spectrum_frame_event)
<1>1. c \in AnyGlobals /\ c.events \in AnyQueue /\ FrameTime(c) \in Int
  BY TimerNumbers DEF Steady, AnyGlobals, FrameTime
<1>2. p \in AnyQueue /\ Timing(p)
  BY <1>1, TimerTypes, RemoveTiming DEF Steady
<1> HIDE DEF p
<1>3. q \in AnyQueue /\ Timing(q)
  BY <1>1, <1>2, TimerTypes, AddTiming
<1> HIDE DEF q
<1>4. rzx_stop_playback(c, add_interrupt) =
        IF add_interrupt
        THEN [c EXCEPT !.rzx_playback = FALSE, !.events = q,
                       !.tstates = IF c.tstates > FrameTime(c) THEN FrameTime(c) ELSE c.tstates]
        ELSE [c EXCEPT !.rzx_playback = FALSE, !.events = p, !.tstates = FrameTime(c)]
  BY <1>1 DEF rzx_stop_playback, p, q, AnyGlobals
<1> QED BY <1>1, <1>2, <1>3, <1>4 DEF Steady, AnyGlobals

LEMMA StartSteady ==
  ASSUME NEW c, Steady(c), NEW time \in Int, NEW n \in Int, NEW f \in Int
  PROVE  Steady(start_playback(c, time, n, f))
<1> DEFINE p == Remove(c.events, spectrum_frame_event)
           q == Add(p, RZX_SENTINEL_TIME, sentinel_event)
<1>1. c \in AnyGlobals /\ c.events \in AnyQueue
  BY DEF Steady, AnyGlobals
<1>2. p \in AnyQueue /\ Timing(p)
  BY <1>1, TimerTypes, RemoveTiming DEF Steady
<1> HIDE DEF p
<1>3. q \in AnyQueue /\ Timing(q)
  BY <1>2, TimerTypes, TimerNumbers, AddTiming
<1> HIDE DEF q
<1>4. start_playback(c, time, n, f) =
        [c EXCEPT !.instructions = n, !.frames = f, !.events = q, !.tstates = time,
                  !.rzx_playback = TRUE]
  BY <1>1 DEF start_playback, WithFrame, p, q, AnyGlobals
<1> QED BY <1>1, <1>3, <1>4 DEF Steady, AnyGlobals

\* Opening files adds no timer and takes none.
LEMMA FilesSteady ==
  ASSUME NEW c, Steady(c)
  PROVE  /\ \A d \in Opened(c) : Steady(d)
         /\ \A d \in Played(c) : Steady(d)
<1>1. \A d \in Opened(c) : Steady(d)
  BY TimerNumbers, SnapshotSteady DEF Opened
<1>2. ASSUME NEW d \in Played(c)  PROVE Steady(d)
  <2>1. PICK e \in Opened(c), t \in FileTimes, n \in 0 .. MaxInstructions, f \in 0 .. MaxFrames :
          d = start_playback(e, t, n, f)
    BY DEF Played
  <2>2. Steady(e) /\ t \in Int /\ n \in Int /\ f \in Int
    BY <1>1, <2>1, TimerNumbers
  <2> QED BY <2>1, <2>2, StartSteady
<1> QED BY <1>1, <1>2

LEMMA FrameSteady ==
  ASSUME NEW c, Steady(c)
  PROVE  \A d \in rzx_frame(c) : Steady(d)
<1> DEFINE p == Remove(c.events, sentinel_event)
           q == Add(p, RZX_SENTINEL_TIME + c.tstates, sentinel_event)
           e == SentinelMovedOut(c)
<1>1. c \in AnyGlobals /\ c.events \in AnyQueue /\ RZX_SENTINEL_TIME + c.tstates \in Int
  BY TimerNumbers DEF Steady, AnyGlobals
<1>2. p \in AnyQueue /\ Timing(p)
  BY <1>1, TimerTypes, RemoveTiming DEF Steady
<1>3. q \in AnyQueue /\ Timing(q)
  <2> HIDE DEF p
  <2> QED BY <1>1, <1>2, TimerTypes, AddTiming
<1>4. Steady(e)
  <2>1. e = [c EXCEPT !.events = q]
    BY <1>1 DEF SentinelMovedOut, AnyGlobals
  <2> HIDE DEF q, e
  <2> QED BY <1>1, <1>3, <2>1 DEF Steady, AnyGlobals
<1> HIDE DEF p, q, e
<1>5. ASSUME NEW d, Steady(d), NEW n \in 0 .. MaxInstructions, c.frames # 0
      PROVE  Steady(WithFrame(d, n, c.frames - 1))
  <2>1. n \in Int /\ c.frames - 1 \in Int
    BY <1>1, TimerNumbers DEF AnyGlobals
  <2> QED BY <1>5, <2>1 DEF WithFrame, Steady, AnyGlobals
<1>6. ASSUME NEW s \in MidSnapshots(c)  PROVE Steady(snapshot_copy_from(e, s[1], s[2]))
  <2>1. s[1] \in Machines /\ s[2] \in Int
    BY <1>1, TimerNumbers DEF MidSnapshots, AnyGlobals
  <2> QED BY <1>4, <2>1, SnapshotSteady
<1> DEFINE Moved == {e} \cup {snapshot_copy_from(e, s[1], s[2]) : s \in MidSnapshots(c)}
           Read == {WithFrame(d, n, c.frames - 1) : n \in 0 .. MaxInstructions, d \in Moved}
<1>7. playback_frame(c) =
        {rzx_stop_playback(c, FALSE)} \cup (IF c.frames = 0 THEN {} ELSE Read)
  BY DEF playback_frame, e
<1>8. \A d \in Moved : Steady(d)
  BY <1>4, <1>6
<1> HIDE DEF Moved
<1>9. ASSUME c.frames # 0, NEW d \in Read  PROVE Steady(d)
  BY <1>5, <1>8, <1>9
<1> HIDE DEF Read
<1>10. \A d \in playback_frame(c) : Steady(d)
  BY <1>7, <1>9, StopSteady
<1> QED BY <1>10 DEF rzx_frame

\* The end of the frame, and the interrupt.
LEMMA SpectrumSteady ==
  ASSUME NEW c, Steady(c)
  PROVE  Steady(spectrum_frame(c))
<1> DEFINE n == IF c.rzx_playback THEN c.tstates ELSE FrameTime(c)
           p == Aged(c.events, n)
           q == Add(p, FrameTime(c), spectrum_frame_event)
<1>1. /\ c \in AnyGlobals /\ c.events \in AnyQueue /\ FrameTime(c) \in Int /\ n \in Int
      /\ Minus(c.tstates, n) \in Int
  BY TimerNumbers, MinusIsInt DEF Steady, AnyGlobals, FrameTime
<1> HIDE DEF n
<1>2. p \in AnyQueue /\ Timing(p)
  BY <1>1, AgedTiming DEF Steady
<1> HIDE DEF p
<1>3. q \in AnyQueue /\ Timing(q)
  BY <1>1, <1>2, TimerTypes, AddTiming
<1> HIDE DEF q
<1>4. spectrum_frame(c) = [c EXCEPT !.tstates = Minus(c.tstates, n),
                                    !.events = IF c.rzx_playback THEN p ELSE q]
  BY <1>1 DEF spectrum_frame, n, p, q, AnyGlobals
<1> QED BY <1>1, <1>2, <1>3, <1>4 DEF Steady, AnyGlobals

LEMMA InterruptSteady ==
  ASSUME NEW c, Steady(c)
  PROVE  \A d \in z80_interrupt(c) : Steady(d)
<1> DEFINE q == Add(c.events, c.tstates + 1, z80_interrupt_event)
<1>1. c \in AnyGlobals /\ c.events \in AnyQueue /\ c.tstates + 1 \in Int
      /\ c.tstates + InterruptTime \in Int
  BY TimerNumbers DEF Steady, AnyGlobals
<1>2. q \in AnyQueue /\ Timing(q)
  BY <1>1, TimerTypes, AddTiming DEF Steady
<1>3. \A d \in z80_interrupt(c) : \/ d = c
                                  \/ d = [c EXCEPT !.tstates = c.tstates + InterruptTime]
                                  \/ d = [c EXCEPT !.events = q]
  BY DEF z80_interrupt
<1> HIDE DEF q
<1> QED BY <1>1, <1>2, <1>3 DEF Steady, AnyGlobals

\* An instruction.
LEMMA ExecutedSteady ==
  ASSUME NEW c, Steady(c), NEW d \in Int
  PROVE  Steady(Executed(c, d))
<1> DEFINE n == IF c.rzx_playback THEN c.instructions - 1 ELSE c.instructions
<1>1. c \in AnyGlobals /\ c.tstates + d \in Int /\ n \in Int
  BY DEF Steady, AnyGlobals
<1>2. Executed(c, d) = [c EXCEPT !.tstates = c.tstates + d, !.instructions = n]
  BY <1>1 DEF Executed, AnyGlobals
<1> HIDE DEF n
<1> QED BY <1>1, <1>2 DEF Steady, AnyGlobals

\* What an instruction adds after it has begun, before the rest of its T-states.
LEMMA AddedSteady ==
  ASSUME NEW c, Steady(c), NEW q \in AnyQueue, Timing(q), NEW d \in Int
  PROVE  Steady([c EXCEPT !.events = q, !.tstates = @ + d])
<1>1. c \in AnyGlobals /\ c.tstates + d \in Int
  BY DEF Steady, AnyGlobals
<1>2. [c EXCEPT !.events = q, !.tstates = @ + d] = [c EXCEPT !.events = q, !.tstates = c.tstates + d]
  BY <1>1 DEF AnyGlobals
<1> QED BY <1>1, <1>2 DEF Steady, AnyGlobals

LEMMA OpcodesSteady ==
  ASSUME Steady(core), Opcode \/ fdd_motoron \/ readport_internal \/ RzxFrameDue
  PROVE  Steady(core')
<1>1. core \in AnyGlobals /\ core.events \in AnyQueue /\ Timing(core.events) /\ core.tstates \in Int
  BY DEF Steady, AnyGlobals
<1>2. CASE Opcode
  BY <1>2, TimerNumbers, ExecutedSteady DEF Opcode
<1>3. CASE fdd_motoron
  <2>1. PICK d \in OpcodeTimes, delay \in MotorDelays : \E n \in 0 .. d - 1 :
          LET c == Executed(core, n)
          IN core' = [c EXCEPT !.events = Add(Remove(@, motor_event), c.tstates + delay, motor_event),
                               !.tstates = @ + d - n]
    BY <1>3 DEF fdd_motoron
  <2>2. PICK n \in 0 .. d - 1 :
          core' = [Executed(core, n) EXCEPT
                     !.events = Add(Remove(@, motor_event),
                                    Executed(core, n).tstates + delay, motor_event),
                     !.tstates = @ + d - n]
    BY <2>1
  <2> DEFINE c == Executed(core, n)
             p == Remove(c.events, motor_event)
             q == Add(p, c.tstates + delay, motor_event)
  <2>3. n \in Int /\ d - n \in Int /\ d \in Int /\ delay \in Int
    BY TimerNumbers
  <2>4. Steady(c)
    BY <2>3, ExecutedSteady
  <2>5. /\ Steady(c) /\ c \in AnyGlobals /\ c.events \in AnyQueue /\ c.tstates \in Int
        /\ c.tstates + delay \in Int
    <3> HIDE DEF c
    <3> QED BY <2>3, <2>4 DEF Steady, AnyGlobals
  <2>6. core' = [c EXCEPT !.events = q, !.tstates = @ + d - n]
    BY <2>2, <2>5 DEF Steady, AnyGlobals
  <2> HIDE DEF c
  <2>7. p \in AnyQueue /\ Timing(p)
    BY <2>5, TimerTypes, RemoveTiming DEF Steady
  <2> HIDE DEF p
  <2>8. q \in AnyQueue /\ Timing(q)
    BY <2>5, <2>7, TimerTypes, AddTiming
  <2> HIDE DEF q
  <2>9. core' = [c EXCEPT !.events = q, !.tstates = @ + (d - n)]
    BY <2>3, <2>5, <2>6
  <2> QED BY <2>3, <2>5, <2>8, <2>9, AddedSteady
<1>4. CASE readport_internal
  <2>1. PICK d \in OpcodeTimes : \E n \in 0 .. d - 1 :
          LET c == rzx_stop_playback(Executed(core, n), TRUE)
          IN core' = [c EXCEPT !.events = Add(@, c.tstates, event_type_null),
                               !.tstates = @ + d - n]
    BY <1>4 DEF readport_internal
  <2>2. PICK n \in 0 .. d - 1 :
          LET c == rzx_stop_playback(Executed(core, n), TRUE)
          IN core' = [c EXCEPT !.events = Add(@, c.tstates, event_type_null),
                               !.tstates = @ + d - n]
    BY <2>1
  <2> DEFINE c == rzx_stop_playback(Executed(core, n), TRUE)
             q == Add(c.events, c.tstates, event_type_null)
  <2>3. n \in Int /\ d - n \in Int /\ d \in Int
    BY TimerNumbers
  <2>4. Steady(c)
    BY <2>3, ExecutedSteady, StopSteady
  <2>5. c \in AnyGlobals /\ c.events \in AnyQueue /\ c.tstates \in Int /\ Timing(c.events)
    BY <2>4 DEF Steady, AnyGlobals
  <2> HIDE DEF c
  <2>6. core' = [c EXCEPT !.events = q, !.tstates = @ + d - n]
    BY <2>2, <2>5 DEF c, AnyGlobals
  <2>7. q \in AnyQueue /\ Timing(q)
    BY <2>5, TimerTypes, AddTiming
  <2> HIDE DEF q
  <2>8. core' = [c EXCEPT !.events = q, !.tstates = @ + (d - n)]
    BY <2>3, <2>5, <2>6
  <2> QED BY <2>3, <2>4, <2>7, <2>8, AddedSteady
<1>5. CASE RzxFrameDue
  <2> DEFINE q == Add(core.events, core.tstates, spectrum_frame_event)
  <2>1. q \in AnyQueue /\ Timing(q)
    BY <1>1, TimerTypes, AddTiming
  <2>2. core' = [core EXCEPT !.events = q]
    BY <1>1, <1>5 DEF RzxFrameDue
  <2> HIDE DEF q
  <2> QED BY <1>1, <2>1, <2>2 DEF Steady, AnyGlobals
<1> QED BY <1>2, <1>3, <1>4, <1>5

\* An event is done: only the timer's handler takes its event, and adds it again.
LEMMA HandlersSteady ==
  ASSUME Steady(core),
         timer_frame \/ rzx_sentinel \/ z80_interrupt_event_fn \/ fdd_event \/ NullEvent
           \/ FrameEvent
  PROVE  Steady(core')
<1> DEFINE q == Popped(core.events)
<1>1. /\ core \in AnyGlobals /\ core.events \in AnyQueue /\ Timing(core.events)
      /\ core.tstates \in Int
  BY DEF Steady, AnyGlobals
<1>2. /\ q \in AnyQueue /\ EventTime \in Int
      /\ Head(core.events.list).type # timer_event => Timing(q)
      /\ Head(core.events.list).type = timer_event => None(q, timer_event)
  BY <1>1, PoppedTiming DEF EventTime, AnyEvent
<1>3. AfterPop = [core EXCEPT !.events = q] /\ AfterPop.events = q /\ AfterPop \in AnyGlobals
      /\ AfterPop.tstates = core.tstates
  <2>1. AfterPop = [core EXCEPT !.events = q]
    BY <1>1 DEF AfterPop, AnyGlobals
  <2> HIDE DEF q
  <2> QED BY <1>1, <1>2, <2>1 DEF AnyGlobals
<1> HIDE DEF q
<1>4. ASSUME Head(core.events.list).type # timer_event  PROVE Steady(AfterPop)
  BY <1>2, <1>3, <1>4 DEF Steady
<1>5. CASE timer_frame
  <2>1. PICK d \in TimerDelays \cup {FrameTime(core)} :
          /\ core' = [AfterPop EXCEPT !.events = Add(@, EventTime + d, timer_event)]
          /\ Head(core.events.list).type = timer_event
    BY <1>5 DEF timer_frame, Handle, Due
  <2>2. EventTime + d \in Int
    BY <1>1, <1>2, TimerNumbers DEF FrameTime, AnyGlobals
  <2> DEFINE r == Add(q, EventTime + d, timer_event)
  <2>3. r \in AnyQueue /\ Timing(r)
    BY <1>2, <2>1, <2>2, TimerTypes, AddTiming
  <2>4. core' = [AfterPop EXCEPT !.events = r]
    BY <1>3, <2>1
  <2> HIDE DEF r
  <2> QED BY <1>3, <2>3, <2>4 DEF Steady, AnyGlobals
<1>6. CASE rzx_sentinel
  <2> DEFINE r == Add(q, RZX_SENTINEL_TIME, sentinel_event)
             t == Minus(core.tstates, RZX_SENTINEL_TIME_REDUCE)
  <2>1. /\ core' = [AfterPop EXCEPT !.tstates = t, !.events = r]
        /\ Head(core.events.list).type # timer_event
    BY <1>3, <1>6, TimerTypes DEF rzx_sentinel, Handle, Due
  <2>2. r \in AnyQueue /\ Timing(r) /\ t \in Int
    BY <1>1, <1>2, <2>1, TimerTypes, TimerNumbers, AddTiming, MinusIsInt
  <2> HIDE DEF r, t
  <2> QED BY <1>3, <2>1, <2>2 DEF Steady, AnyGlobals
<1>7. CASE z80_interrupt_event_fn
  <2>1. /\ core' \in {AfterPop} \cup z80_interrupt(AfterPop)
        /\ Head(core.events.list).type # timer_event
    BY <1>7, TimerTypes DEF z80_interrupt_event_fn, Handle, Due
  <2> QED BY <1>4, <2>1, InterruptSteady
<1>8. CASE fdd_event \/ NullEvent \/ FrameEvent
  <2>1. core' = AfterPop /\ Head(core.events.list).type # timer_event
    BY <1>8, TimerTypes DEF fdd_event, NullEvent, FrameEvent, Handle, Due
  <2> QED BY <1>4, <2>1
<1> QED BY <1>5, <1>6, <1>7, <1>8

\* The calls of the frame's handler.
LEMMA CallsSteady ==
  ASSUME Steady(core),
         \/ ForceNext \/ ForceDone \/ ForceReturn
         \/ RzxFrame \/ SpectrumFrame \/ Interrupt \/ UiIdle
  PROVE  Steady(core')
<1>1. CASE ForceNext
  <2>1. core' = [core EXCEPT !.tstates = core.events.next] /\ core.events.next \in Int
    BY <1>1 DEF ForceNext, Steady, AnyGlobals, AnyQueue
  <2> QED BY <2>1 DEF Steady, AnyGlobals
<1>2. CASE ForceDone \/ ForceReturn \/ UiIdle
  BY <1>2 DEF ForceDone, ForceReturn, UiIdle
<1>3. CASE RzxFrame
  BY <1>3, FrameSteady DEF RzxFrame
<1>4. CASE SpectrumFrame
  BY <1>4, SpectrumSteady DEF SpectrumFrame
<1>5. CASE Interrupt
  BY <1>5, InterruptSteady DEF Interrupt
<1> QED BY <1>1, <1>2, <1>3, <1>4, <1>5

LEMMA UserSteady ==
  ASSUME Steady(core), User
  PROVE  Steady(core')
<1>1. Steady(Stopped)
  BY StopSteady DEF Stopped
<1>2. CASE menu_file_recording_stop
  BY <1>2, StopSteady DEF menu_file_recording_stop, UserActs
<1>3. CASE menu_machine_select
  BY <1>3, SelectSteady DEF menu_machine_select, UserActs, Steady
<1>4. CASE OpenSnapshot \/ OpenRecording
  BY <1>1, <1>4, FilesSteady DEF OpenSnapshot, OpenRecording, UserActs
<1> QED BY <1>2, <1>3, <1>4 DEF User

LEMMA SteadyInit == Init => Steady(core)
<1> SUFFICES ASSUME Init  PROVE Steady(core)
  OBVIOUS
<1>1. PICK m \in Machines :
        core \in {Selected(m)} \cup Opened(Selected(m)) \cup Played(Selected(m))
  BY DEF Init
<1> DEFINE b == [events |-> EmptyQueue, tstates |-> 0, machine |-> m,
                 rzx_playback |-> FALSE, instructions |-> 0, frames |-> 0]
<1>2. EmptyQueue \in AnyQueue
  BY HalfAssumption DEF EmptyQueue, AnyQueue, event_no_events
<1>3. b \in AnyGlobals
  BY <1>2 DEF AnyGlobals
<1> HIDE DEF b
<1>4. Steady(Selected(m))
  BY <1>3, SelectSteady DEF Selected, b
<1> QED BY <1>1, <1>4, FilesSteady

LEMMA SteadyNext == Steady(core) /\ [Next]_vars => Steady(core)'
<1> SUFFICES ASSUME Steady(core), [Next]_vars  PROVE Steady(core')
  BY DEF Steady
<1>1. CASE UNCHANGED vars
  BY <1>1 DEF vars
<1> QED BY <1>1, OpcodesSteady, HandlersSteady, CallsSteady, UserSteady DEF Next, Emulate

(***************************************************************************)
(* timer_frame is called for as long as the program runs, by one event,    *)
(* which it adds again: machine_select_machine adds it where event_reset   *)
(* has taken it, and nothing else withdraws it, ages it out of the list or *)
(* adds a second, whatever is in files and whatever the user selects.      *)
(***************************************************************************)
THEOREM TimerListed == Spec => []OneTimer
<1>1. Steady(core) => OneTimer
  <2> SUFFICES ASSUME Steady(core)  PROVE OneTimer
    OBVIOUS
  <2>1. PICK k \in 1 .. Len(core.events.list) :
          \A i \in 1 .. Len(core.events.list) :
            core.events.list[i].type = timer_event <=> i = k
    BY DEF Steady, Timing
  <2>2. Live(core, timer_event) = {k}
    BY <2>1 DEF Live
  <2> QED BY <2>2, FS_Singleton DEF OneTimer
<1>2. Spec => []Steady(core)
  BY SteadyInit, SteadyNext, PTL DEF Spec
<1> QED BY <1>1, <1>2, PTL

=============================================================================
