-------------------------- MODULE EventQueueProofs --------------------------
(***************************************************************************)
(* The event queue of fuse/event.c keeps its list ordered, its cached time *)
(* right and its event_t blocks apart, and implements EventSchedule, for   *)
(* every set of types, every frame length and every nesting of handlers.   *)
(***************************************************************************)
EXTENDS EventQueue, EventListProofs

\* The four invariants are inductive together.
IInv == TypeOK /\ ListOrdered /\ NextEventCached /\ OneOwner

LEMMA TypeNumbers ==
  /\ MaxTime \in Nat /\ event_no_events \in Nat /\ MaxTime < event_no_events /\ Half \in Nat \ {0}
  /\ event_type_null = 0 /\ Types \subseteq Nat
BY HalfAssumption, TimeAssumption, TypesAssumption DEF event_no_events, event_type_null

LEMMA InitIInv == Init => IInv
<1> SUFFICES ASSUME Init PROVE IInv
  OBVIOUS
<1>1. TypeOK
  BY TypeNumbers DEF Init, TypeOK, event_no_events
<1>2. ListOrdered /\ NextEventCached /\ OneOwner
  BY DEF Init, ListOrdered, Ordered, NextEventCached, NextOf, OneOwner
<1> QED BY <1>1, <1>2 DEF IInv

\* What the invariant says of the entries of the list.
LEMMA ListFacts ==
  ASSUME IInv
  PROVE  /\ event_list \in Seq(Listed) /\ Len(event_list) \in Nat
         /\ \A i \in 1 .. Len(event_list) : event_list[i] \in Listed
         /\ Timed(event_list) /\ Ordered(event_list)
         /\ event_next_event = NextOf(event_list)
         /\ tstates \in 0 .. MaxTime
         /\ event_next_event \in 0 .. MaxTime \cup {event_no_events}
<1>1. /\ event_list \in Seq(Listed) /\ Len(event_list) \in Nat
      /\ \A i \in 1 .. Len(event_list) : event_list[i] \in Listed
  BY ElementOfSeq, LenProperties DEF IInv, TypeOK
<1>2. Timed(event_list)
  BY <1>1, TimeAssumption, HalfAssumption DEF Timed, Listed
<1> QED BY <1>1, <1>2 DEF IInv, TypeOK, ListOrdered, NextEventCached

\* What it says of the handlers under way.
LEMMA StackFacts ==
  ASSUME IInv
  PROVE  /\ stack \in Seq(Running) /\ Len(stack) \in Nat
         /\ \A i \in 1 .. Len(stack) :
              /\ stack[i] \in Running /\ stack[i].event \in Listed
              /\ stack[i].event.block \in Blocks /\ stack[i].event.block # NoBlock
<1>1. stack \in Seq(Running) /\ Len(stack) \in Nat
  BY LenProperties DEF IInv, TypeOK
<1>2. ASSUME NEW i \in 1 .. Len(stack)
      PROVE  /\ stack[i] \in Running /\ stack[i].event \in Listed
             /\ stack[i].event.block \in Blocks /\ stack[i].event.block # NoBlock
  <2>1. stack[i] \in Running
    BY <1>1, ElementOfSeq
  <2>2. stack[i].event \in Listed
    BY <2>1 DEF Running
  <2> QED BY <2>1, <2>2, BlocksAssumption DEF Listed
<1> QED BY <1>1, <1>2

\* When something is due the list has a head, which is what is due.
LEMMA DueHead ==
  ASSUME IInv, event_next_event <= tstates
  PROVE  /\ event_list # << >> /\ Len(event_list) >= 1
         /\ Head(event_list) = event_list[1]
         /\ event_list[1].tstates = event_next_event
<1>1. event_list # << >>
  BY ListFacts, TypeNumbers DEF NextOf
<1>2. Len(event_list) >= 1
  BY <1>1, ListFacts, EmptySeq
<1>3. Head(event_list) = event_list[1]
  BY <1>1, ListFacts
<1> QED BY <1>1, <1>2, <1>3, ListFacts DEF NextOf

\* The list without its head: what both forms of a turn of event_do_events do.
LEMMA TailFacts ==
  ASSUME IInv, event_next_event <= tstates
  PROVE  /\ Tail(event_list) \in Seq(Listed)
         /\ Ordered(Tail(event_list))
         /\ NextOf(Tail(event_list)) \in 0 .. MaxTime \cup {event_no_events}
         /\ Len(Tail(event_list)) = Len(event_list) - 1
         /\ \A i \in 1 .. Len(event_list) - 1 : Tail(event_list)[i] = event_list[i + 1]
<1>1. /\ Tail(event_list) \in Seq(Listed)
      /\ Len(Tail(event_list)) = Len(event_list) - 1
      /\ \A i \in 1 .. Len(event_list) - 1 : Tail(event_list)[i] = event_list[i + 1]
      /\ Ordered(Tail(event_list))
  BY ListFacts, DueHead, TailOrdered
<1>2. CASE Tail(event_list) = << >>
  BY <1>1, <1>2 DEF NextOf
<1>3. CASE Tail(event_list) # << >>
  <2>1. Head(Tail(event_list)) \in Listed
    BY <1>1, <1>3, HeadTailProperties
  <2> QED BY <1>1, <1>3, <2>1 DEF NextOf, Listed
<1> QED BY <1>1, <1>2, <1>3

-----------------------------------------------------------------------------

\* Actions that leave the list and the blocks alone.
LEMMA StackModeKeepsIInv ==
  ASSUME IInv, stack # << >>, NEW m \in Mode, stack' = WithMode(m),
         tstates' \in 0 .. MaxTime,
         UNCHANGED <<event_list, event_next_event, event_free>>
  PROVE  IInv'
<1>0. stack \in Seq(Running) /\ Len(stack) \in Nat \ {0}
  BY EmptySeq, LenProperties DEF IInv, TypeOK
<1>1. /\ stack' \in Seq(Running) /\ Len(stack') = Len(stack)
      /\ \A i \in 1 .. Len(stack) : stack'[i].event = stack[i].event
  <2> DEFINE n == Len(stack)
             t == [stack[n] EXCEPT !.mode = m]
  <2>1. n \in 1 .. Len(stack) /\ stack[n] \in Running
    BY <1>0, ElementOfSeq
  <2>2. t \in Running /\ t.event = stack[n].event
    BY <2>1 DEF Running
  <2>3. stack' = [stack EXCEPT ![n] = t]
    BY DEF WithMode
  <2> HIDE DEF n, t
  <2> QED BY <1>0, <2>1, <2>2, <2>3, ExceptSeq
<1>2. TypeOK'
  BY <1>1 DEF IInv, TypeOK
<1>3. OneOwner'
  <2>1. OneOwner
    BY DEF IInv
  <2>2. \A i \in 1 .. Len(stack)' : stack'[i].event = stack[i].event
    BY <1>1
  <2>3. 1 .. Len(stack)' = 1 .. Len(stack)
    BY <1>1
  <2> QED BY <2>1, <2>2, <2>3 DEF OneOwner
<1> QED BY <1>2, <1>3 DEF IInv, ListOrdered, NextEventCached

LEMMA OpcodeStep == ASSUME IInv, Opcode PROVE IInv'
<1>1. TypeOK'
  BY TypeNumbers DEF IInv, TypeOK, Opcode
<1> QED BY <1>1 DEF IInv, Opcode, ListOrdered, NextEventCached, OneOwner

\* The block of a new event is nobody else's.
LEMMA AllocatedFresh ==
  ASSUME IInv, NEW b \in Blocks, Allocated(b)
  PROVE  /\ \A i \in 1 .. Len(event_list) : event_list[i].block # b
         /\ \A i \in 1 .. Len(stack) : stack[i].event.block # b
BY DEF IInv, OneOwner, Allocated, InUse

LEMMA AddStep ==
  ASSUME IInv, NEW time \in 0 .. MaxTime, NEW type \in Types, NEW data \in UserData,
         event_add_with_data(time, type, data)
  PROVE  IInv'
<1>1. PICK b \in Blocks :
        /\ Allocated(b)
        /\ event_list' = Added(event_list, event_next_event,
             [tstates |-> time, type |-> type, user_data |-> data, block |-> b])
  BY DEF event_add_with_data
<1> DEFINE e == [tstates |-> time, type |-> type, user_data |-> data, block |-> b]
<1>2. e \in Listed /\ e.tstates = time /\ e.block = b /\ e.tstates \in 0 .. Half - 1
  BY TimeAssumption, HalfAssumption DEF Listed
<1>3. event_list' = Added(event_list, event_next_event, e)
  BY <1>1
<1> HIDE DEF e
<1>4. PICK p \in 1 .. Len(event_list) + 1 :
        /\ event_list' \in Seq(Listed)
        /\ Len(event_list') = Len(event_list) + 1
        /\ \A i \in 1 .. Len(event_list) + 1 :
             event_list'[i] =
               IF i < p THEN event_list[i] ELSE IF i = p THEN e ELSE event_list[i - 1]
  BY <1>2, <1>3, ListFacts, AddedEntries
<1>5. /\ Ordered(event_list')
      /\ NextOf(event_list') = IF time < event_next_event THEN time ELSE event_next_event
  BY <1>2, <1>3, ListFacts, AddedOrdered
<1>6. UNCHANGED <<tstates, stack>> /\ event_free' = NoBlock
      /\ event_next_event' = NextOf(event_list')
  BY <1>5 DEF event_add_with_data
<1>7. TypeOK'
  BY <1>4, <1>5, <1>6 DEF IInv, TypeOK
<1>8. OneOwner'
  <2>1. /\ \A i \in 1 .. Len(event_list) : event_list[i].block # b
        /\ \A i \in 1 .. Len(stack) : stack[i].event.block # b
    BY <1>1, AllocatedFresh
  <2>2. ASSUME NEW i \in 1 .. Len(event_list)', NEW j \in 1 .. Len(event_list)', i < j
        PROVE  event_list'[i].block # event_list'[j].block
    <3>0. Len(event_list) \in Nat
      BY ListFacts
    <3>1. \A m, n \in 1 .. Len(event_list) : m # n => event_list[m].block # event_list[n].block
      BY DEF IInv, OneOwner
    <3>2. CASE i < p /\ p < j
      <4>1. event_list'[i] = event_list[i] /\ event_list'[j] = event_list[j - 1]
        BY <1>4, <3>0, <3>2
      <4>2. i \in 1 .. Len(event_list) /\ j - 1 \in 1 .. Len(event_list) /\ i # j - 1
        BY <1>4, <3>0, <3>2
      <4> QED BY <3>1, <4>1, <4>2
    <3>3. CASE i = p
      <4>1. event_list'[i] = e /\ event_list'[j] = event_list[j - 1]
            /\ j - 1 \in 1 .. Len(event_list)
        BY <1>4, <2>2, <3>0, <3>3
      <4> QED BY <1>2, <2>1, <4>1
    <3>4. CASE j = p
      <4>1. event_list'[j] = e /\ event_list'[i] = event_list[i] /\ i \in 1 .. Len(event_list)
        BY <1>4, <2>2, <3>0, <3>4
      <4> QED BY <1>2, <2>1, <4>1
    <3>5. CASE j < p
      <4>1. event_list'[i] = event_list[i] /\ event_list'[j] = event_list[j]
            /\ i \in 1 .. Len(event_list) /\ j \in 1 .. Len(event_list)
        BY <1>4, <2>2, <3>0, <3>5
      <4> QED BY <2>2, <3>1, <4>1
    <3>6. CASE p < i
      <4>1. event_list'[i] = event_list[i - 1] /\ event_list'[j] = event_list[j - 1]
        BY <1>4, <2>2, <3>0, <3>6
      <4>2. i - 1 \in 1 .. Len(event_list) /\ j - 1 \in 1 .. Len(event_list) /\ i - 1 # j - 1
        BY <1>4, <2>2, <3>0, <3>6
      <4> QED BY <3>1, <4>1, <4>2
    <3> QED BY <2>2, <3>2, <3>3, <3>4, <3>5, <3>6, <3>0, <1>4
  <2>3. ASSUME NEW i \in 1 .. Len(event_list)'
        PROVE  /\ event_list'[i].block \in Blocks
               /\ \A j \in 1 .. Len(stack) : event_list'[i].block # stack[j].event.block
    <3>1. event_list'[i] = e \/ \E k \in 1 .. Len(event_list) : event_list'[i] = event_list[k]
      BY <1>4, ListFacts
    <3> QED BY <1>2, <2>1, <3>1, ListFacts DEF IInv, OneOwner, Listed
  <2>4. \A i \in 1 .. Len(stack) : stack[i].event.block \in Blocks
    BY StackFacts
  <2>5. \A i, j \in 1 .. Len(event_list)' :
          event_list'[i].block = event_list'[j].block => i = j
    BY <1>4, <2>2, ListFacts
  <2> QED BY <1>6, <2>3, <2>4, <2>5, BlocksAssumption DEF IInv, OneOwner
<1> QED BY <1>5, <1>6, <1>7, <1>8 DEF IInv, ListOrdered, NextEventCached

\* The head moves from the list to the stack.
LEMMA DoEventsStep == ASSUME IInv, event_do_events PROVE IInv'
<1> DEFINE h == [event |-> event_list[1], mode |-> "body"]
<1>0. event_next_event <= tstates
  BY DEF event_do_events
<1>1. /\ event_list' \in Seq(Listed) /\ Ordered(event_list')
      /\ event_next_event' \in 0 .. MaxTime \cup {event_no_events}
      /\ Len(event_list') = Len(event_list) - 1
      /\ \A i \in 1 .. Len(event_list) - 1 : event_list'[i] = event_list[i + 1]
      /\ event_next_event' = NextOf(event_list')
  BY <1>0, TailFacts DEF event_do_events
<1>2. /\ event_list[1] \in Listed /\ Len(event_list) \in Nat /\ 1 \in 1 .. Len(event_list)
      /\ Head(event_list) = event_list[1]
  BY <1>0, DueHead, ListFacts
<1>3. h \in Running /\ h.event = event_list[1]
  BY <1>2 DEF Running, Mode
<1>4. stack' = Append(stack, h) /\ UNCHANGED <<event_free, tstates>>
  BY <1>2 DEF event_do_events
<1> HIDE DEF h
<1>5. /\ stack' \in Seq(Running) /\ Len(stack') = Len(stack) + 1
      /\ \A i \in 1 .. Len(stack) : stack'[i] = stack[i]
      /\ stack'[Len(stack) + 1] = h
  BY <1>3, <1>4, StackFacts, AppendProperties
<1>6. TypeOK'
  BY <1>1, <1>4, <1>5 DEF IInv, TypeOK
<1>7. OneOwner'
  <2>0. OneOwner /\ Len(stack) \in Nat
    BY StackFacts DEF IInv
  <2>1. \A i \in 1 .. Len(event_list)' :
          i + 1 \in 1 .. Len(event_list) /\ event_list'[i] = event_list[i + 1]
    BY <1>1, <1>2
  <2>2. \A i, j \in 1 .. Len(event_list)' :
          event_list'[i].block = event_list'[j].block => i = j
    BY <2>0, <2>1, <1>2 DEF OneOwner
  <2>3. \A i \in 1 .. Len(event_list)' : event_list'[i].block # event_list[1].block
    BY <2>0, <2>1, <1>2 DEF OneOwner
  <2>4. \A i \in 1 .. Len(stack)' :
          \/ i \in 1 .. Len(stack) /\ stack'[i] = stack[i]
          \/ i = Len(stack) + 1 /\ stack'[i].event = event_list[1]
    BY <1>3, <1>5, <2>0
  <2>5. \A i \in 1 .. Len(stack) : stack[i].event.block # event_list[1].block
    BY <2>0, <1>2 DEF OneOwner
  <2>6. \A i, j \in 1 .. Len(stack)' :
          stack'[i].event.block = stack'[j].event.block => i = j
    BY <2>0, <2>4, <2>5 DEF OneOwner
  <2>7. \A i \in 1 .. Len(event_list)', j \in 1 .. Len(stack)' :
          event_list'[i].block # stack'[j].event.block
    <3> SUFFICES ASSUME NEW i \in 1 .. Len(event_list)', NEW j \in 1 .. Len(stack)'
                 PROVE  event_list'[i].block # stack'[j].event.block
      OBVIOUS
    <3>1. CASE j \in 1 .. Len(stack) /\ stack'[j] = stack[j]
      BY <2>0, <2>1, <3>1 DEF OneOwner
    <3>2. CASE stack'[j].event = event_list[1]
      BY <2>3, <3>2
    <3> QED BY <2>4, <3>1, <3>2
  <2>8. \A i \in 1 .. Len(event_list)' : event_list'[i].block # event_free'
    BY <1>4, <2>0, <2>1 DEF OneOwner
  <2>9. \A i \in 1 .. Len(stack)' : stack'[i].event.block # event_free'
    BY <1>2, <1>4, <2>0, <2>4 DEF OneOwner
  <2> QED BY <2>2, <2>6, <2>7, <2>8, <2>9 DEF OneOwner
<1> QED BY <1>1, <1>6, <1>7 DEF IInv, ListOrdered, NextEventCached

LEMMA DiscardNullStep == ASSUME IInv, DiscardNull PROVE IInv'
<1>0. event_next_event <= tstates
  BY DEF DiscardNull
<1>1. /\ event_list' \in Seq(Listed) /\ Ordered(event_list')
      /\ event_next_event' \in 0 .. MaxTime \cup {event_no_events}
      /\ Len(event_list') = Len(event_list) - 1
      /\ \A i \in 1 .. Len(event_list) - 1 : event_list'[i] = event_list[i + 1]
      /\ event_next_event' = NextOf(event_list')
      /\ UNCHANGED <<tstates, stack>>
  BY <1>0, TailFacts DEF DiscardNull
<1>2. /\ event_list[1] \in Listed /\ Len(event_list) \in Nat /\ 1 \in 1 .. Len(event_list)
      /\ Head(event_list) = event_list[1]
  BY <1>0, DueHead, ListFacts
<1>3. event_free' = event_list[1].block \/ event_free' = event_free
  BY <1>2 DEF DiscardNull, Recycle
<1>4. TypeOK'
  BY <1>1, <1>2, <1>3 DEF IInv, TypeOK, Listed
<1>5. OneOwner'
  <2>0. OneOwner /\ Len(stack) \in Nat /\ stack' = stack
    BY <1>1, StackFacts DEF IInv
  <2>1. \A i \in 1 .. Len(event_list)' :
          i + 1 \in 1 .. Len(event_list) /\ event_list'[i] = event_list[i + 1]
    BY <1>1, <1>2
  <2>2. \A i, j \in 1 .. Len(event_list)' :
          event_list'[i].block = event_list'[j].block => i = j
    BY <2>0, <2>1, <1>2 DEF OneOwner
  <2>3. \A i \in 1 .. Len(event_list)' : event_list'[i].block # event_free'
    BY <2>0, <2>1, <1>2, <1>3 DEF OneOwner
  <2>4. \A i \in 1 .. Len(stack) : stack[i].event.block # event_free'
    BY <2>0, <1>2, <1>3 DEF OneOwner
  <2>5. \A i \in 1 .. Len(event_list)', j \in 1 .. Len(stack) :
          event_list'[i].block # stack[j].event.block
    BY <2>0, <2>1 DEF OneOwner
  <2>6. \A i, j \in 1 .. Len(stack) :
          stack[i].event.block = stack[j].event.block => i = j
    BY <2>0 DEF OneOwner
  <2> QED BY <2>0, <2>2, <2>3, <2>4, <2>5, <2>6 DEF OneOwner
<1> QED BY <1>1, <1>4, <1>5 DEF IInv, ListOrdered, NextEventCached

LEMMA ReturnStep == ASSUME IInv, HandlerReturn PROVE IInv'
<1> DEFINE n == Len(stack)
<1>1. n \in Nat \ {0} /\ n \in 1 .. n
  BY StackFacts, EmptySeq DEF HandlerReturn
<1>2. /\ event_free' = stack[n].event.block \/ event_free' = event_free
      /\ stack' = SubSeq(stack, 1, n - 1)
      /\ UNCHANGED <<event_list, event_next_event, tstates>>
  BY DEF HandlerReturn, Recycle, Top
<1>3. /\ stack' \in Seq(Running) /\ Len(stack') = n - 1
      /\ \A i \in 1 .. n - 1 : stack'[i] = stack[i]
  <2>1. \A i \in 1 .. n - 1 : stack[i] \in Running
    BY <1>1, StackFacts
  <2>2. 1 \in Int /\ n - 1 \in Int
    BY <1>1
  <2>3. /\ SubSeq(stack, 1, n - 1) \in Seq(Running)
        /\ Len(SubSeq(stack, 1, n - 1)) = IF 1 <= n - 1 THEN n - 1 - 1 + 1 ELSE 0
        /\ \A i \in 1 .. n - 1 - 1 + 1 : SubSeq(stack, 1, n - 1)[i] = stack[1 + i - 1]
    <3> HIDE DEF n
    <3> QED BY <2>1, <2>2, SubSeqProperties
  <2>4. /\ (IF 1 <= n - 1 THEN n - 1 - 1 + 1 ELSE 0) = n - 1
        /\ n - 1 - 1 + 1 = n - 1
        /\ \A i \in 1 .. n - 1 : 1 + i - 1 = i
    <3> HIDE DEF n
    <3>1. n \in Int /\ n >= 1
      BY <1>1
    <3> QED BY <3>1
  <2>5. stack' = SubSeq(stack, 1, n - 1)
    BY <1>2
  <2> HIDE DEF n
  <2> QED BY <2>3, <2>4, <2>5
<1>4. TypeOK'
  BY <1>1, <1>2, <1>3, StackFacts DEF IInv, TypeOK
<1>5. OneOwner'
  <2>0. OneOwner /\ event_list' = event_list
    BY <1>2 DEF IInv
  <2>1. \A i \in 1 .. Len(stack)' : i \in 1 .. n /\ i # n /\ stack'[i] = stack[i]
    BY <1>1, <1>3
  <2>2. \A i, j \in 1 .. Len(stack)' :
          stack'[i].event.block = stack'[j].event.block => i = j
    BY <2>0, <2>1 DEF OneOwner
  <2>3. \A i \in 1 .. Len(stack)' : stack'[i].event.block # event_free'
    BY <2>0, <2>1, <1>1, <1>2 DEF OneOwner
  <2>4. \A i \in 1 .. Len(event_list) : event_list[i].block # event_free'
    BY <2>0, <1>1, <1>2 DEF OneOwner
  <2>5. \A i \in 1 .. Len(event_list), j \in 1 .. Len(stack)' :
          event_list[i].block # stack'[j].event.block
    BY <2>0, <2>1 DEF OneOwner
  <2>6. \A i, j \in 1 .. Len(event_list) :
          event_list[i].block = event_list[j].block => i = j
    BY <2>0 DEF OneOwner
  <2> QED BY <2>0, <2>2, <2>3, <2>4, <2>5, <2>6 DEF OneOwner
<1> QED BY <1>2, <1>4, <1>5 DEF IInv, ListOrdered, NextEventCached

\* Handlers may change entries in place; none moves, and the blocks stay put.
LEMMA InPlaceKeepsOneOwner ==
  ASSUME IInv, Len(event_list') = Len(event_list),
         \A i \in 1 .. Len(event_list) : event_list'[i].block = event_list[i].block,
         UNCHANGED <<event_free, stack>>
  PROVE  OneOwner'
<1>1. OneOwner
  BY DEF IInv
<1>2. 1 .. Len(event_list)' = 1 .. Len(event_list)
  OBVIOUS
<1> QED BY <1>1, <1>2 DEF OneOwner

LEMMA FrameStep ==
  ASSUME IInv, NEW n \in 1 .. MaxTime, event_frame(n) PROVE IInv'
<1>0. /\ \A i \in 1 .. Len(event_list) : event_list[i] \in Listed /\ n <= event_list[i].tstates
      /\ n <= tstates /\ Len(event_list) \in Nat
  BY ListFacts DEF event_frame
<1>1. /\ event_list' = [i \in 1 .. Len(event_list) |->
                          [event_list[i] EXCEPT !.tstates = Minus(@, n)]]
      /\ event_next_event' = NextOf(event_list')
      /\ tstates' = tstates - n
      /\ UNCHANGED <<event_free, stack>>
  BY DEF event_frame, Reduced
<1>2. ASSUME NEW i \in 1 .. Len(event_list)
      PROVE  /\ event_list'[i] \in Listed
             /\ event_list'[i].tstates = event_list[i].tstates - n
             /\ event_list'[i].block = event_list[i].block
  <2>1. /\ event_list[i].tstates \in 0 .. MaxTime
        /\ Minus(event_list[i].tstates, n) = event_list[i].tstates - n
        /\ event_list[i].tstates - n \in 0 .. MaxTime
    BY <1>0, TypeNumbers DEF Minus, Listed
  <2>2. event_list'[i] = [event_list[i] EXCEPT !.tstates = event_list[i].tstates - n]
    BY <1>1, <2>1
  <2> QED BY <1>0, <2>1, <2>2 DEF Listed
<1>3. event_list' \in Seq(Listed) /\ Len(event_list') = Len(event_list)
  BY <1>0, <1>1, <1>2
<1>4. Ordered(event_list')
  <2>1. \A i, j \in 1 .. Len(event_list) : i <= j => event_list[i].tstates <= event_list[j].tstates
    BY ListFacts DEF Ordered
  <2>2. \A i \in 1 .. Len(event_list) : event_list[i].tstates \in Int
    BY <1>0, TypeNumbers DEF Listed
  <2> QED BY <1>2, <1>3, <2>1, <2>2 DEF Ordered
<1>5. event_next_event' \in 0 .. MaxTime \cup {event_no_events}
  <2>1. CASE event_list' = << >>
    BY <1>1, <2>1 DEF NextOf
  <2>2. CASE event_list' # << >>
    BY <1>1, <1>3, <2>2, HeadTailProperties DEF NextOf, Listed
  <2> QED BY <2>1, <2>2
<1>6. TypeOK'
  BY <1>0, <1>1, <1>3, <1>5, TypeNumbers DEF IInv, TypeOK
<1>7. OneOwner'
  BY <1>1, <1>2, <1>3, InPlaceKeepsOneOwner
<1> QED BY <1>1, <1>4, <1>6, <1>7 DEF IInv, ListOrdered, NextEventCached

\* A list whose entries only change type.
LEMMA RetypedStep ==
  ASSUME IInv, Len(event_list') = Len(event_list), event_list' \in Seq(Listed),
         \A i \in 1 .. Len(event_list) :
            /\ event_list'[i].block = event_list[i].block
            /\ event_list'[i].tstates = event_list[i].tstates,
         UNCHANGED <<event_next_event, event_free, tstates, stack>>
  PROVE  IInv'
<1>1. Ordered(event_list')
  BY ListFacts DEF Ordered
<1>2. NextOf(event_list') = NextOf(event_list)
  <2>1. CASE event_list = << >>
    BY <2>1, ListFacts, EmptySeq
  <2>2. CASE event_list # << >>
    <3>1. event_list' # << >> /\ 1 \in 1 .. Len(event_list)
      BY <2>2, ListFacts, EmptySeq
    <3>2. Head(event_list) = event_list[1] /\ Head(event_list') = event_list'[1]
      BY <2>2, <3>1, ListFacts
    <3> QED BY <2>2, <3>1, <3>2 DEF NextOf
  <2> QED BY <2>1, <2>2
<1>3. TypeOK'
  BY DEF IInv, TypeOK
<1>4. OneOwner'
  BY InPlaceKeepsOneOwner
<1> QED BY <1>1, <1>2, <1>3, <1>4 DEF IInv, ListOrdered, NextEventCached

\* An entry made null is an entry still.
LEMMA NullEntry ==
  ASSUME NEW e \in Listed
  PROVE  LET f == [e EXCEPT !.type = event_type_null]
         IN  f \in Listed /\ f.block = e.block /\ f.tstates = e.tstates
BY DEF Listed

LEMMA RemoveTypeStep ==
  ASSUME IInv, NEW type \in Types, event_remove_type(type) PROVE IInv'
<1>1. event_list' = [i \in 1 .. Len(event_list) |->
        IF event_list[i].type = type
          THEN [event_list[i] EXCEPT !.type = event_type_null] ELSE event_list[i]]
  BY DEF event_remove_type, Nulled
<1>2. \A i \in 1 .. Len(event_list) :
        /\ event_list'[i] \in Listed
        /\ event_list'[i].block = event_list[i].block
        /\ event_list'[i].tstates = event_list[i].tstates
  BY <1>1, ListFacts, NullEntry
<1>3. event_list' \in Seq(Listed) /\ Len(event_list') = Len(event_list)
  BY <1>1, <1>2, ListFacts
<1> QED BY <1>2, <1>3, RetypedStep DEF event_remove_type

LEMMA RemoveDataStep ==
  ASSUME IInv, NEW type \in Types, NEW data \in UserData,
         event_remove_type_user_data(type, data) PROVE IInv'
<1>1. event_list' = [i \in 1 .. Len(event_list) |->
        IF event_list[i].type = type /\ event_list[i].user_data = data
          THEN [event_list[i] EXCEPT !.type = event_type_null] ELSE event_list[i]]
  BY DEF event_remove_type_user_data, NulledData
<1>2. \A i \in 1 .. Len(event_list) :
        /\ event_list'[i] \in Listed
        /\ event_list'[i].block = event_list[i].block
        /\ event_list'[i].tstates = event_list[i].tstates
  BY <1>1, ListFacts, NullEntry
<1>3. event_list' \in Seq(Listed) /\ Len(event_list') = Len(event_list)
  BY <1>1, <1>2, ListFacts
<1> QED BY <1>2, <1>3, RetypedStep DEF event_remove_type_user_data

LEMMA ResetStep == ASSUME IInv, event_reset PROVE IInv'
<1>1. TypeOK'
  BY DEF IInv, TypeOK, event_reset
<1>2. ListOrdered' /\ NextEventCached'
  BY DEF event_reset, ListOrdered, Ordered, NextEventCached, NextOf
<1>3. OneOwner'
  <2>1. \A i \in 1 .. Len(stack) : stack[i].event.block # NoBlock
    BY StackFacts
  <2> QED BY <2>1 DEF IInv, OneOwner, event_reset
<1> QED BY <1>1, <1>2, <1>3 DEF IInv

\* The loop of event_force_events moves the clock to the next event at most.
LEMMA ForceSteps ==
  ASSUME IInv, event_force_events \/ ForceNext \/ DoReturn \/ ForceReturn PROVE IInv'
<1>1. stack # << >>
  BY DEF event_force_events, ForceNext, DoReturn, ForceReturn
<1>2. \E m \in Mode : stack' = WithMode(m)
  BY DEF event_force_events, ForceNext, DoReturn, ForceReturn, Mode
<1>3. tstates' \in 0 .. MaxTime
  BY ListFacts, TimeAssumption, TypeNumbers
     DEF event_force_events, ForceNext, DoReturn, ForceReturn
<1>4. UNCHANGED <<event_list, event_next_event, event_free>>
  BY DEF event_force_events, ForceNext, DoReturn, ForceReturn
<1> QED BY <1>1, <1>2, <1>3, <1>4, StackModeKeepsIInv

LEMMA StutterStep == ASSUME IInv, UNCHANGED vars PROVE IInv'
BY DEF vars, IInv, TypeOK, ListOrdered, NextEventCached, OneOwner

LEMMA NextIInv == IInv /\ [Next]_vars => IInv'
<1> SUFFICES ASSUME IInv, [Next]_vars PROVE IInv'
  OBVIOUS
<1>1. CASE Opcode
  BY <1>1, OpcodeStep
<1>2. CASE \E t \in 0 .. MaxTime, y \in Types, d \in UserData : event_add_with_data(t, y, d)
  BY <1>2, AddStep
<1>3. CASE event_do_events
  BY <1>3, DoEventsStep
<1>4. CASE DiscardNull
  BY <1>4, DiscardNullStep
<1>5. CASE HandlerReturn
  BY <1>5, ReturnStep
<1>6. CASE \E n \in 1 .. MaxTime : event_frame(n)
  BY <1>6, FrameStep
<1>7. CASE event_force_events \/ ForceNext \/ DoReturn \/ ForceReturn
  BY <1>7, ForceSteps
<1>8. CASE \E y \in Types : event_remove_type(y)
  BY <1>8, RemoveTypeStep
<1>9. CASE \E y \in Types, d \in UserData : event_remove_type_user_data(y, d)
  BY <1>9, RemoveDataStep
<1>10. CASE event_reset
  BY <1>10, ResetStep
<1>11. CASE UNCHANGED vars
  BY <1>11, StutterStep
<1> QED BY <1>1, <1>2, <1>3, <1>4, <1>5, <1>6, <1>7, <1>8, <1>9, <1>10, <1>11 DEF Next

\* The inductive invariant holds in every state of the queue.
LEMMA Inductive == Spec => []IInv
BY InitIInv, NextIInv, PTL DEF Spec

(***************************************************************************)
(* Type correctness of the queue of event.c.                               *)
(***************************************************************************)
THEOREM TypeCorrect == Spec => []TypeOK
<1>1. IInv => TypeOK
  BY DEF IInv
<1> QED BY <1>1, Inductive, PTL

(***************************************************************************)
(* event_add_with_data puts every event at its correct place (event.c:94), *)
(* and nothing event_frame or event_remove_type does to entries in place   *)
(* takes the list out of order, for times below half the dword range.      *)
(***************************************************************************)
THEOREM StaysOrdered == Spec => []ListOrdered
<1>1. IInv => ListOrdered
  BY DEF IInv
<1> QED BY <1>1, Inductive, PTL

(***************************************************************************)
(* event_next_event always agrees with the list, so that the loops of      *)
(* z80_do_opcodes and event_do_events may test it instead of the list.     *)
(***************************************************************************)
THEOREM CacheAgrees == Spec => []NextEventCached
<1>1. IInv => NextEventCached
  BY DEF IInv
<1> QED BY <1>1, Inductive, PTL

(***************************************************************************)
(* No event_t is in two places: the slot event_free never holds one that   *)
(* is listed or whose handler runs, however handlers nest, add and reset.  *)
(***************************************************************************)
THEOREM BlocksApart == Spec => []OneOwner
<1>1. IInv => OneOwner
  BY DEF IInv
<1> QED BY <1>1, Inductive, PTL

-----------------------------------------------------------------------------
(* What a step is for EventSchedule: a handler is only called for an event *)
(* that is due and that no pending event precedes, and an event withdrawn  *)
(* by type is never called.                                                *)

LEMMA PendingIs ==
  \A e : e \in Pending <=> \E i \in 1 .. Len(event_list) :
                             event_list[i] = e /\ e.type # event_type_null
BY DEF Pending

LEMMA PendingIsNext ==
  \A e : e \in Pending' <=> \E i \in 1 .. Len(event_list)' :
                             event_list'[i] = e /\ e.type # event_type_null
BY DEF Pending

LEMMA SameStackSameActive ==
  ASSUME Len(stack') = Len(stack), \A i \in 1 .. Len(stack) : stack'[i].event = stack[i].event
  PROVE  Active' = Active
BY DEF Active

LEMMA ScheduleInit == Init => Schedule!Init
BY DEF Init, Schedule!Init, Pending, Active

\* Steps that only move the clock.
LEMMA AdvanceRefines ==
  ASSUME IInv, tstates' \in Nat, event_list' = event_list, Active' = Active
  PROVE  Schedule!Next
<1>1. Pending' = Pending
  BY DEF Pending
<1> QED BY <1>1 DEF Schedule!Next, Schedule!Advance

LEMMA AddRefines ==
  ASSUME IInv, NEW time \in 0 .. MaxTime, NEW type \in Types, NEW data \in UserData,
         event_add_with_data(time, type, data)
  PROVE  Schedule!Next
<1>1. PICK b \in Blocks :
        /\ Allocated(b)
        /\ event_list' = Added(event_list, event_next_event,
             [tstates |-> time, type |-> type, user_data |-> data, block |-> b])
  BY DEF event_add_with_data
<1> DEFINE e == [tstates |-> time, type |-> type, user_data |-> data, block |-> b]
<1>2. e \in Listed /\ e.block = b /\ e.type # event_type_null
  BY TypesAssumption DEF Listed
<1>3. event_list' = Added(event_list, event_next_event, e)
  BY <1>1
<1> HIDE DEF e
<1>4. PICK p \in 1 .. Len(event_list) + 1 :
        /\ event_list' \in Seq(Listed)
        /\ Len(event_list') = Len(event_list) + 1
        /\ \A i \in 1 .. Len(event_list) + 1 :
             event_list'[i] =
               IF i < p THEN event_list[i] ELSE IF i = p THEN e ELSE event_list[i - 1]
  <2>1. event_list \in Seq(Listed) /\ e \in Listed
    BY <1>2, ListFacts
  <2>2. \E p \in 1 .. Len(event_list) + 1 :
          /\ Added(event_list, event_next_event, e) \in Seq(Listed)
          /\ Len(Added(event_list, event_next_event, e)) = Len(event_list) + 1
          /\ \A i \in 1 .. Len(event_list) + 1 :
               Added(event_list, event_next_event, e)[i] =
                 IF i < p THEN event_list[i] ELSE IF i = p THEN e ELSE event_list[i - 1]
    BY <2>1, AddedEntries
  <2> QED BY <1>3, <2>2
<1>5. \A f : f \in Pending' <=> f \in Pending \cup {e}
  <2>0. Len(event_list) \in Nat
    BY ListFacts
  <2>1. ASSUME NEW f \in Pending' PROVE f \in Pending \cup {e}
    <3>1. PICK i \in 1 .. Len(event_list)' : event_list'[i] = f /\ f.type # event_type_null
      BY PendingIsNext
    <3>2. CASE i < p
      BY <1>4, <2>0, <3>1, <3>2, PendingIs
    <3>3. CASE i = p
      BY <1>4, <2>0, <3>1, <3>3
    <3>4. CASE p < i
      <4>1. event_list'[i] = event_list[i - 1] /\ i - 1 \in 1 .. Len(event_list)
        BY <1>4, <2>0, <3>4
      <4> QED BY <3>1, <4>1, PendingIs
    <3> QED BY <1>4, <2>0, <3>2, <3>3, <3>4
  <2>2. ASSUME NEW f \in Pending PROVE f \in Pending'
    <3>1. PICK i \in 1 .. Len(event_list) : event_list[i] = f /\ f.type # event_type_null
      BY PendingIs
    <3>2. CASE i < p
      <4>1. i \in 1 .. Len(event_list)' /\ event_list'[i] = f
        BY <1>4, <2>0, <3>1, <3>2
      <4> QED BY <3>1, <4>1, PendingIsNext
    <3>3. CASE ~ (i < p)
      <4>1. i + 1 \in 1 .. Len(event_list)' /\ event_list'[i + 1] = event_list[i + 1 - 1]
            /\ i + 1 - 1 = i
        BY <1>4, <2>0, <3>3
      <4> QED BY <3>1, <4>1, PendingIsNext
    <3> QED BY <3>2, <3>3
  <2>3. e \in Pending'
    <3>1. p \in 1 .. Len(event_list)' /\ event_list'[p] = e
      BY <1>4, <2>0
    <3> QED BY <1>2, <3>1, PendingIsNext
  <2> QED BY <2>1, <2>2, <2>3
<1>6. e \notin Pending
  BY <1>1, <1>2, AllocatedFresh, PendingIs
<1>7. UNCHANGED <<tstates, stack>>
  BY DEF event_add_with_data
<1>8. Active' = Active
  BY <1>7 DEF Active
<1>9. Pending' = Pending \cup {e}
  BY <1>5
<1> QED
  BY <1>2, <1>6, <1>7, <1>8, <1>9 DEF Schedule!Next, Schedule!Schedule

LEMMA DoEventsRefines == ASSUME IInv, event_do_events PROVE Schedule!Next
<1> DEFINE h == event_list[1]
<1>0. event_next_event <= tstates
  BY DEF event_do_events
<1>1. /\ Len(event_list) \in Nat /\ 1 \in 1 .. Len(event_list)
      /\ Head(event_list) = h /\ h.tstates = event_next_event
      /\ h.type # event_type_null
  BY <1>0, DueHead, ListFacts DEF event_do_events
<1>2. /\ Len(event_list') = Len(event_list) - 1
      /\ \A i \in 1 .. Len(event_list) - 1 : event_list'[i] = event_list[i + 1]
  BY <1>0, TailFacts DEF event_do_events
<1>3. h \in Pending
  BY <1>1, PendingIs
<1>4. \A f \in Pending : h.tstates <= f.tstates
  BY <1>1, ListFacts, PendingIs DEF Ordered
<1>5. \A i \in 1 .. Len(event_list) : event_list[i] = h => i = 1
  BY <1>1 DEF IInv, OneOwner
<1>6. \A f : f \in Pending' <=> f \in Pending \ {h}
  <2>1. ASSUME NEW f \in Pending' PROVE f \in Pending /\ f # h
    <3>1. PICK i \in 1 .. Len(event_list)' : event_list'[i] = f /\ f.type # event_type_null
      BY PendingIsNext
    <3>2. i + 1 \in 1 .. Len(event_list) /\ event_list[i + 1] = f /\ i + 1 # 1
      BY <1>1, <1>2, <3>1
    <3> QED BY <1>5, <3>1, <3>2, PendingIs
  <2>2. ASSUME NEW f \in Pending, f # h PROVE f \in Pending'
    <3>1. PICK i \in 1 .. Len(event_list) : event_list[i] = f /\ f.type # event_type_null
      BY PendingIs
    <3>2. i # 1
      BY <2>2, <3>1
    <3>3. i - 1 \in 1 .. Len(event_list)' /\ event_list'[i - 1] = event_list[i - 1 + 1]
          /\ i - 1 + 1 = i
      BY <1>1, <1>2, <3>2
    <3> QED BY <3>1, <3>3, PendingIsNext
  <2> QED BY <2>1, <2>2
<1>7. Active' = Append(Active, h)
  <2> DEFINE r == [event |-> h, mode |-> "body"]
  <2>1. stack' = Append(stack, r) /\ r.event = h
    BY <1>1 DEF event_do_events
  <2>2. r \in Running
    BY <1>1, ListFacts DEF Running, Mode
  <2>3. /\ Len(stack) \in Nat /\ Len(stack') = Len(stack) + 1
        /\ \A i \in 1 .. Len(stack) : stack'[i] = stack[i]
        /\ stack'[Len(stack) + 1] = r
    <3> HIDE DEF r
    <3> QED BY <2>1, <2>2, StackFacts, AppendProperties
  <2>4. Active \in Seq(Listed) /\ Len(Active) = Len(stack)
        /\ \A i \in 1 .. Len(stack) : Active[i] = stack[i].event
    BY StackFacts DEF Active
  <2>5. Active' \in Seq(Listed) /\ Len(Active') = Len(stack) + 1
        /\ \A i \in 1 .. Len(stack) + 1 : Active'[i] = stack'[i].event
    <3>1. \A i \in 1 .. Len(stack) + 1 : stack'[i].event \in Listed
      BY <1>1, <2>1, <2>3, ListFacts, StackFacts
    <3> QED BY <2>3, <3>1 DEF Active
  <2>6. h \in Listed
    BY <1>1, ListFacts
  <2>7. /\ Append(Active, h) \in Seq(Listed) /\ Len(Append(Active, h)) = Len(stack) + 1
        /\ \A i \in 1 .. Len(stack) : Append(Active, h)[i] = Active[i]
        /\ Append(Active, h)[Len(stack) + 1] = h
    <3> HIDE DEF h
    <3> QED BY <2>4, <2>6, AppendProperties
  <2>8. \A i \in 1 .. Len(stack) + 1 : Active'[i] = Append(Active, h)[i]
    BY <2>1, <2>3, <2>4, <2>5, <2>7
  <2> HIDE DEF h
  <2> QED BY <2>5, <2>7, <2>8, SeqEqual
<1>8. UNCHANGED tstates /\ h.tstates <= tstates
  BY <1>0, <1>1 DEF event_do_events
<1>9. Pending' = Pending \ {h}
  BY <1>6
<1> QED
  BY <1>3, <1>4, <1>7, <1>8, <1>9 DEF Schedule!Next, Schedule!Call

LEMMA DiscardNullRefines == ASSUME IInv, DiscardNull PROVE UNCHANGED Schedule!vars
<1>0. event_next_event <= tstates
  BY DEF DiscardNull
<1>1. /\ Len(event_list) \in Nat /\ 1 \in 1 .. Len(event_list)
      /\ event_list[1].type = event_type_null
  BY <1>0, DueHead, ListFacts DEF DiscardNull
<1>2. /\ Len(event_list') = Len(event_list) - 1
      /\ \A i \in 1 .. Len(event_list) - 1 : event_list'[i] = event_list[i + 1]
  BY <1>0, TailFacts DEF DiscardNull
<1>3. \A f : f \in Pending' <=> f \in Pending
  <2>1. ASSUME NEW f \in Pending' PROVE f \in Pending
    <3>1. PICK i \in 1 .. Len(event_list)' : event_list'[i] = f /\ f.type # event_type_null
      BY PendingIsNext
    <3>2. i + 1 \in 1 .. Len(event_list) /\ event_list[i + 1] = f
      BY <1>1, <1>2, <3>1
    <3> QED BY <3>1, <3>2, PendingIs
  <2>2. ASSUME NEW f \in Pending PROVE f \in Pending'
    <3>1. PICK i \in 1 .. Len(event_list) : event_list[i] = f /\ f.type # event_type_null
      BY PendingIs
    <3>2. i # 1
      BY <1>1, <3>1
    <3>3. i - 1 \in 1 .. Len(event_list)' /\ event_list'[i - 1] = event_list[i - 1 + 1]
          /\ i - 1 + 1 = i
      BY <1>1, <1>2, <3>2
    <3> QED BY <3>1, <3>3, PendingIsNext
  <2> QED BY <2>1, <2>2
<1>4. Pending' = Pending
  BY <1>3
<1>5. UNCHANGED <<tstates, stack>>
  BY DEF DiscardNull
<1>6. Active' = Active
  BY <1>5 DEF Active
<1> QED BY <1>4, <1>5, <1>6 DEF Schedule!vars

LEMMA ReturnRefines == ASSUME IInv, HandlerReturn PROVE Schedule!Next
<1> DEFINE n == Len(stack)
<1>1. n \in Nat /\ n >= 1
  BY StackFacts, EmptySeq DEF HandlerReturn
<1>2. stack' = SubSeq(stack, 1, n - 1) /\ UNCHANGED <<event_list, tstates>>
  BY DEF HandlerReturn
<1>3. Active \in Seq(Listed) /\ Len(Active) = n /\ \A i \in 1 .. n : Active[i] = stack[i].event
  BY StackFacts DEF Active
<1>4. /\ Len(stack') = n - 1
      /\ \A i \in 1 .. n - 1 : stack'[i] = stack[i]
  <2> HIDE DEF n
  <2>1. \A i \in 1 .. n - 1 : stack[i] \in Running
    BY <1>1, StackFacts DEF n
  <2>2. /\ Len(SubSeq(stack, 1, n - 1)) = IF 1 <= n - 1 THEN n - 1 - 1 + 1 ELSE 0
        /\ \A i \in 1 .. n - 1 - 1 + 1 : SubSeq(stack, 1, n - 1)[i] = stack[1 + i - 1]
    BY <1>1, <2>1, SubSeqProperties
  <2>3. /\ (IF 1 <= n - 1 THEN n - 1 - 1 + 1 ELSE 0) = n - 1
        /\ n - 1 - 1 + 1 = n - 1
        /\ \A i \in 1 .. n - 1 : 1 + i - 1 = i
    BY <1>1
  <2> QED BY <1>2, <2>2, <2>3
<1>5. /\ Len(SubSeq(Active, 1, n - 1)) = n - 1
      /\ SubSeq(Active, 1, n - 1) \in Seq(Listed)
      /\ \A i \in 1 .. n - 1 : SubSeq(Active, 1, n - 1)[i] = Active[i]
  <2> HIDE DEF n
  <2>1. \A i \in 1 .. n - 1 : Active[i] \in Listed
    BY <1>1, <1>3, ElementOfSeq
  <2>2. /\ Len(SubSeq(Active, 1, n - 1)) = IF 1 <= n - 1 THEN n - 1 - 1 + 1 ELSE 0
        /\ SubSeq(Active, 1, n - 1) \in Seq(Listed)
        /\ \A i \in 1 .. n - 1 - 1 + 1 : SubSeq(Active, 1, n - 1)[i] = Active[1 + i - 1]
    BY <1>1, <2>1, SubSeqProperties
  <2>3. /\ (IF 1 <= n - 1 THEN n - 1 - 1 + 1 ELSE 0) = n - 1
        /\ n - 1 - 1 + 1 = n - 1
        /\ \A i \in 1 .. n - 1 : 1 + i - 1 = i
    BY <1>1
  <2> QED BY <2>2, <2>3
<1>6. Active' = SubSeq(Active, 1, n - 1)
  <2>1. /\ Active' \in Seq(Listed) /\ Len(Active') = n - 1
        /\ \A i \in 1 .. n - 1 : Active'[i] = stack[i].event
    <3>1. \A i \in 1 .. n - 1 : stack'[i].event \in Listed /\ stack'[i] = stack[i]
      BY <1>1, <1>4, StackFacts
    <3> QED BY <1>1, <1>4, <3>1 DEF Active
  <2>2. \A i \in 1 .. n - 1 : Active'[i] = SubSeq(Active, 1, n - 1)[i]
    BY <1>1, <1>3, <1>5, <2>1
  <2> HIDE DEF n
  <2> QED BY <1>5, <2>1, <2>2, SeqEqual
<1>7. Active # << >> /\ Len(Active) = n
  BY <1>1, <1>3
<1>8. Pending' = Pending
  BY <1>2 DEF Pending
<1> QED BY <1>2, <1>6, <1>7, <1>8 DEF Schedule!Next, Schedule!Return

LEMMA FrameRefines ==
  ASSUME IInv, NEW n \in 1 .. MaxTime, event_frame(n) PROVE Schedule!Next
<1>0. /\ \A i \in 1 .. Len(event_list) : event_list[i] \in Listed /\ n <= event_list[i].tstates
      /\ n <= tstates /\ tstates \in 0 .. MaxTime /\ Len(event_list) \in Nat
  BY ListFacts DEF event_frame
<1>1. /\ event_list' = [i \in 1 .. Len(event_list) |->
                          [event_list[i] EXCEPT !.tstates = Minus(@, n)]]
      /\ tstates' = tstates - n
      /\ UNCHANGED <<event_free, stack>>
  BY DEF event_frame, Reduced
<1>2. /\ Len(event_list') = Len(event_list)
      /\ \A i \in 1 .. Len(event_list) :
           /\ event_list'[i] = [event_list[i] EXCEPT !.tstates = @ - n]
           /\ event_list'[i].type = event_list[i].type
  <2>1. ASSUME NEW i \in 1 .. Len(event_list)
        PROVE  Minus(event_list[i].tstates, n) = event_list[i].tstates - n
    BY <1>0, TypeNumbers DEF Minus, Listed
  <2> QED BY <1>0, <1>1, <2>1 DEF Listed
<1>3. tstates' \in 0 .. tstates /\ tstates - tstates' = n
  BY <1>0, <1>1, TypeNumbers
<1>4. \A f : f \in Pending' <=> f \in {[e EXCEPT !.tstates = @ - n] : e \in Pending}
  <2>1. ASSUME NEW f \in Pending'
        PROVE  \E e \in Pending : f = [e EXCEPT !.tstates = @ - n]
    <3>1. PICK i \in 1 .. Len(event_list)' : event_list'[i] = f /\ f.type # event_type_null
      BY PendingIsNext
    <3>2. i \in 1 .. Len(event_list)
      BY <1>2, <3>1
    <3>3. event_list[i] \in Pending
      BY <1>2, <3>1, <3>2, PendingIs
    <3> QED BY <1>2, <3>1, <3>2, <3>3
  <2>2. ASSUME NEW e \in Pending
        PROVE  [e EXCEPT !.tstates = @ - n] \in Pending'
    BY <1>2, PendingIs, PendingIsNext
  <2> QED BY <2>1, <2>2
<1>5. Pending' = {[e EXCEPT !.tstates = @ - (tstates - tstates')] : e \in Pending}
  BY <1>3, <1>4
<1>6. Active' = Active
  BY <1>1 DEF Active
<1> QED BY <1>3, <1>5, <1>6 DEF Schedule!Next, Schedule!EndFrame

\* Removal by type only makes entries null, and a null entry is not pending.
LEMMA RemoveRefines ==
  ASSUME IInv, Len(event_list') = Len(event_list),
         \A i \in 1 .. Len(event_list) :
            event_list'[i] = event_list[i] \/ event_list'[i].type = event_type_null,
         UNCHANGED <<tstates, stack>>
  PROVE  Schedule!Next
<1>1. Pending' \subseteq Pending
  BY PendingIs, PendingIsNext
<1>2. Active' = Active
  BY DEF Active
<1> QED BY <1>1, <1>2 DEF Schedule!Next, Schedule!Withdraw

LEMMA RemoveTypeRefines ==
  ASSUME IInv, NEW type \in Types, event_remove_type(type) PROVE Schedule!Next
<1>1. /\ event_list' = [i \in 1 .. Len(event_list) |->
           IF event_list[i].type = type
             THEN [event_list[i] EXCEPT !.type = event_type_null] ELSE event_list[i]]
      /\ UNCHANGED <<tstates, stack>>
  BY DEF event_remove_type, Nulled
<1>2. \A i \in 1 .. Len(event_list) :
        event_list'[i] = event_list[i] \/ event_list'[i].type = event_type_null
  BY <1>1, ListFacts DEF Listed
<1>3. Len(event_list') = Len(event_list)
  BY <1>1, ListFacts
<1> QED BY <1>1, <1>2, <1>3, RemoveRefines

LEMMA RemoveDataRefines ==
  ASSUME IInv, NEW type \in Types, NEW data \in UserData,
         event_remove_type_user_data(type, data) PROVE Schedule!Next
<1>1. /\ event_list' = [i \in 1 .. Len(event_list) |->
           IF event_list[i].type = type /\ event_list[i].user_data = data
             THEN [event_list[i] EXCEPT !.type = event_type_null] ELSE event_list[i]]
      /\ UNCHANGED <<tstates, stack>>
  BY DEF event_remove_type_user_data, NulledData
<1>2. \A i \in 1 .. Len(event_list) :
        event_list'[i] = event_list[i] \/ event_list'[i].type = event_type_null
  BY <1>1, ListFacts DEF Listed
<1>3. Len(event_list') = Len(event_list)
  BY <1>1, ListFacts
<1> QED BY <1>1, <1>2, <1>3, RemoveRefines

LEMMA ResetRefines == ASSUME IInv, event_reset PROVE Schedule!Next
<1>1. Pending' \subseteq Pending
  BY DEF event_reset, Pending
<1>2. Active' = Active /\ UNCHANGED tstates
  BY DEF event_reset, Active
<1> QED BY <1>1, <1>2 DEF Schedule!Next, Schedule!Withdraw

LEMMA OpcodeRefines == ASSUME IInv, Opcode PROVE Schedule!Next
<1>1. tstates' \in Nat /\ event_list' = event_list /\ Active' = Active
  BY ListFacts, TypeNumbers DEF Opcode, Active
<1> QED BY <1>1, AdvanceRefines

LEMMA ForceRefines ==
  ASSUME IInv, event_force_events \/ ForceNext \/ DoReturn \/ ForceReturn
  PROVE  Schedule!Next
<1>1. stack # << >> /\ event_list' = event_list
  BY DEF event_force_events, ForceNext, DoReturn, ForceReturn
<1>2. PICK m \in Mode : stack' = WithMode(m)
  BY DEF event_force_events, ForceNext, DoReturn, ForceReturn, Mode
<1>3. tstates' \in Nat
  BY ListFacts, TimeAssumption, TypeNumbers
     DEF event_force_events, ForceNext, DoReturn, ForceReturn
<1>4. /\ Len(stack') = Len(stack)
      /\ \A i \in 1 .. Len(stack) : stack'[i].event = stack[i].event
  <2> DEFINE n == Len(stack)
             t == [stack[n] EXCEPT !.mode = m]
  <2>1. n \in 1 .. Len(stack) /\ stack[n] \in Running
    BY <1>1, StackFacts, EmptySeq
  <2>2. t \in Running /\ t.event = stack[n].event
    BY <2>1 DEF Running
  <2>3. stack' = [stack EXCEPT ![n] = t]
    BY <1>2 DEF WithMode
  <2> HIDE DEF n, t
  <2> QED BY <2>1, <2>2, <2>3, StackFacts, ExceptSeq
<1> QED BY <1>1, <1>3, <1>4, SameStackSameActive, AdvanceRefines

LEMMA StutterRefines == UNCHANGED vars => UNCHANGED Schedule!vars
BY DEF vars, Schedule!vars, Pending, Active

LEMMA NextRefines == IInv /\ [Next]_vars => [Schedule!Next]_Schedule!vars
<1> SUFFICES ASSUME IInv, [Next]_vars PROVE [Schedule!Next]_Schedule!vars
  OBVIOUS
<1>1. CASE Opcode
  BY <1>1, OpcodeRefines
<1>2. CASE \E t \in 0 .. MaxTime, y \in Types, d \in UserData : event_add_with_data(t, y, d)
  BY <1>2, AddRefines
<1>3. CASE event_do_events
  BY <1>3, DoEventsRefines
<1>4. CASE DiscardNull
  BY <1>4, DiscardNullRefines
<1>5. CASE HandlerReturn
  BY <1>5, ReturnRefines
<1>6. CASE \E n \in 1 .. MaxTime : event_frame(n)
  BY <1>6, FrameRefines
<1>7. CASE event_force_events \/ ForceNext \/ DoReturn \/ ForceReturn
  BY <1>7, ForceRefines
<1>8. CASE \E y \in Types : event_remove_type(y)
  BY <1>8, RemoveTypeRefines
<1>9. CASE \E y \in Types, d \in UserData : event_remove_type_user_data(y, d)
  BY <1>9, RemoveDataRefines
<1>10. CASE event_reset
  BY <1>10, ResetRefines
<1>11. CASE UNCHANGED vars
  BY <1>11, StutterRefines
<1> QED BY <1>1, <1>2, <1>3, <1>4, <1>5, <1>6, <1>7, <1>8, <1>9, <1>10, <1>11 DEF Next

(***************************************************************************)
(* event.c keeps the promise its callers rely on: the handler called next  *)
(* belongs to the earliest pending event, no sooner than it is due, and    *)
(* events withdrawn by event_remove_type or event_reset are not called.    *)
(***************************************************************************)
THEOREM Refinement == Spec => ImplementsSchedule
<1>1. Schedule!Init /\ [][Schedule!Next]_Schedule!vars => Schedule!Spec
  BY DEF Schedule!Spec
<1>2. Spec => Schedule!Init /\ [][Schedule!Next]_Schedule!vars
  BY ScheduleInit, NextRefines, Inductive, PTL DEF Spec
<1> QED BY <1>1, <1>2 DEF ImplementsSchedule

=============================================================================
