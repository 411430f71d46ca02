----------------------------- MODULE EventQueue -----------------------------
(***************************************************************************)
(* The event queue of fuse/event.c, with the callers it is written for:    *)
(* the main loop runs opcodes until an event is due and then calls         *)
(* event_do_events; the handlers it calls add and remove events, end the   *)
(* frame, reset the queue and (in RZX playback) re-enter it through        *)
(* event_force_events.  The nest of handlers under way is the stack.       *)
(***************************************************************************)
EXTENDS EventList

CONSTANTS
  Types,            \* registered event types (null excluded)
  UserData,         \* what an event can carry
  Blocks,           \* the addresses malloc can return for an event_t
  NoBlock,          \* the NULL of event_free
  tstates_per_frame,
  MaxTime,          \* bound: no caller asks for a later time
  MaxDepth          \* bound: how deep handlers nest

ASSUME TypesAssumption == Types \subseteq Nat \ {event_type_null}
ASSUME BlocksAssumption == NoBlock \notin Blocks
\* Times stay in the half of the dword range where event_add_cmp is right.
ASSUME TimeAssumption ==
  /\ tstates_per_frame \in Nat \ {0}
  /\ MaxTime \in Nat
  /\ tstates_per_frame <= MaxTime
  /\ MaxTime < Half
ASSUME DepthAssumption == MaxDepth \in Nat \ {0}

VARIABLES
  event_list,
  event_next_event,
  event_free,
  tstates,
  stack     \* handlers under way, innermost last

vars == <<event_list, event_next_event, event_free, tstates, stack>>

\* An event_t, with its address.
Listed == [tstates : 0 .. MaxTime, type : Types \cup {event_type_null},
           user_data : UserData, block : Blocks]

\* "body": the handler's own code runs; "force": it is in the loop of
\* event_force_events; "do": in the event_do_events called from that loop.
Mode == {"body", "force", "do"}

Running == [event : Listed, mode : Mode]

Top == stack[Len(stack)]
WithMode(m) == [stack EXCEPT ![Len(stack)].mode = m]

\* Opcodes or a handler's code are running, and may call the functions below.
Calling == stack # << >> => Top.mode = "body"

\* An event_do_events loop is running.
InDoEvents == stack # << >> => Top.mode = "do"

InUse == {event_list[i].block : i \in 1 .. Len(event_list)}
            \cup {stack[i].event.block : i \in 1 .. Len(stack)}
            \cup ({event_free} \ {NoBlock})

-----------------------------------------------------------------------------

Init ==
  /\ event_list = << >>
  /\ event_next_event = event_no_events
  /\ event_free = NoBlock
  /\ tstates = 0
  /\ stack = << >>

\* One instruction of the loop of z80_do_opcodes.
Opcode ==
  /\ stack = << >>
  /\ tstates < event_next_event
  /\ tstates' \in tstates + 1 .. MaxTime
  /\ UNCHANGED <<event_list, event_next_event, event_free, stack>>

\* An event_t: the one kept for reuse if there is one, a new one otherwise.
Allocated(b) == IF event_free # NoBlock THEN b = event_free ELSE b \in Blocks \ InUse

\* Mutant: the event_t that is reused is not forgotten.
event_add_keeps_free(time, type, data) ==
  /\ Calling
  /\ \E b \in Blocks :
       /\ Allocated(b)
       /\ event_list' = Added(event_list, event_next_event,
            [tstates |-> time, type |-> type, user_data |-> data, block |-> b])
  /\ event_next_event' = IF time < event_next_event THEN time ELSE event_next_event
  /\ UNCHANGED <<event_free, tstates, stack>>

event_add_with_data(time, type, data) ==
  /\ Calling
  /\ \E b \in Blocks :
       /\ Allocated(b)
       /\ event_list' = Added(event_list, event_next_event,
            [tstates |-> time, type |-> type, user_data |-> data, block |-> b])
  /\ event_free' = NoBlock
  /\ event_next_event' = IF time < event_next_event THEN time ELSE event_next_event
  /\ UNCHANGED <<tstates, stack>>

\* A processed event_t is kept for reuse, or freed if one is kept already.
Recycle(b) == event_free' = IF event_free = NoBlock THEN b ELSE event_free

\* Mutant: an event is taken one T-state before it is due.
event_do_events_early ==
  /\ InDoEvents
  /\ event_list # << >>
  /\ event_next_event <= tstates + 1
  /\ Head(event_list).type # event_type_null
  /\ Len(stack) < MaxDepth
  /\ event_list' = Tail(event_list)
  /\ event_next_event' = NextOf(Tail(event_list))
  /\ stack' = Append(stack, [event |-> Head(event_list), mode |-> "body"])
  /\ UNCHANGED <<event_free, tstates>>

\* One turn of the loop of event_do_events up to the call of the handler: the
\* event leaves the list before it is processed.
event_do_events ==
  /\ InDoEvents
  /\ event_next_event <= tstates
  /\ Head(event_list).type # event_type_null
  /\ Len(stack) < MaxDepth
  /\ event_list' = Tail(event_list)
  /\ event_next_event' = NextOf(Tail(event_list))
  /\ stack' = Append(stack, [event |-> Head(event_list), mode |-> "body"])
  /\ UNCHANGED <<event_free, tstates>>

\* The same for a null event, which has no handler.
DiscardNull ==
  /\ InDoEvents
  /\ event_next_event <= tstates
  /\ Head(event_list).type = event_type_null
  /\ event_list' = Tail(event_list)
  /\ event_next_event' = NextOf(Tail(event_list))
  /\ Recycle(Head(event_list).block)
  /\ UNCHANGED <<tstates, stack>>

\* The rest of the turn, when the handler returns.
HandlerReturn ==
  /\ stack # << >>
  /\ Top.mode = "body"
  /\ Recycle(Top.event.block)
  /\ stack' = SubSeq(stack, 1, Len(stack) - 1)
  /\ UNCHANGED <<event_list, event_next_event, tstates>>

\* Mutant: the cached time is not aged with the list.
event_frame_stale(n) ==
  /\ stack # << >>
  /\ Calling
  /\ n <= tstates
  /\ \A i \in 1 .. Len(event_list) : n <= event_list[i].tstates
  /\ event_list' = Reduced(event_list, n)
  /\ tstates' = tstates - n
  /\ UNCHANGED <<event_next_event, event_free, stack>>

(***************************************************************************)
(* spectrum_frame calls event_frame and takes the same count from tstates. *)
(* That no listed event is due before the end of the frame is what the     *)
(* callers owe this function; module FrameLoop checks that they keep it.   *)
(***************************************************************************)
event_frame(n) ==
  /\ stack # << >>
  /\ Calling
  /\ n <= tstates
  /\ \A i \in 1 .. Len(event_list) : n <= event_list[i].tstates
  /\ event_list' = Reduced(event_list, n)
  /\ event_next_event' = NextOf(Reduced(event_list, n))
  /\ tstates' = tstates - n
  /\ UNCHANGED <<event_free, stack>>

\* The loop of event_force_events, entered from a handler, ...
event_force_events ==
  /\ stack # << >>
  /\ Calling
  /\ Len(stack) < MaxDepth
  /\ stack' = WithMode("force")
  /\ UNCHANGED <<event_list, event_next_event, event_free, tstates>>

\* Mutant: the end of the frame is not looked at.
ForceNextUnbounded ==
  /\ stack # << >>
  /\ Top.mode = "force"
  /\ tstates' = event_next_event
  /\ stack' = WithMode("do")
  /\ UNCHANGED <<event_list, event_next_event, event_free>>

\* ... jumps to the next event of the frame and calls event_do_events, ...
ForceNext ==
  /\ stack # << >>
  /\ Top.mode = "force"
  /\ event_next_event < tstates_per_frame
  /\ tstates' = event_next_event
  /\ stack' = WithMode("do")
  /\ UNCHANGED <<event_list, event_next_event, event_free>>

\* ... which returns when nothing more is due, ...
DoReturn ==
  /\ stack # << >>
  /\ Top.mode = "do"
  /\ event_next_event > tstates
  /\ stack' = WithMode("force")
  /\ UNCHANGED <<event_list, event_next_event, event_free, tstates>>

\* ... until the frame holds no more events.
ForceReturn ==
  /\ stack # << >>
  /\ Top.mode = "force"
  /\ event_next_event >= tstates_per_frame
  /\ stack' = WithMode("body")
  /\ UNCHANGED <<event_list, event_next_event, event_free, tstates>>

event_remove_type(type) ==
  /\ Calling
  /\ event_list' = Nulled(event_list, type)
  /\ UNCHANGED <<event_next_event, event_free, tstates, stack>>

event_remove_type_user_data(type, data) ==
  /\ Calling
  /\ event_list' = NulledData(event_list, type, data)
  /\ UNCHANGED <<event_next_event, event_free, tstates, stack>>

event_reset ==
  /\ Calling
  /\ event_list' = << >>
  /\ event_next_event' = event_no_events
  /\ event_free' = NoBlock
  /\ UNCHANGED <<tstates, stack>>

Next ==
  \/ Opcode
  \/ \E t \in 0 .. MaxTime, y \in Types, d \in UserData :
       event_add_with_data(t, y, d)
  \/ event_do_events
  \/ DiscardNull
  \/ HandlerReturn
  \/ \E n \in 1 .. MaxTime : event_frame(n)
  \/ event_force_events
  \/ ForceNext
  \/ DoReturn
  \/ ForceReturn
  \/ \E y \in Types : event_remove_type(y)
  \/ \E y \in Types, d \in UserData : event_remove_type_user_data(y, d)
  \/ event_reset

Spec == Init /\ [][Next]_vars

-----------------------------------------------------------------------------

\* Every variable has its type; times stay within what callers ask for.
TypeOK ==
  /\ event_list \in Seq(Listed)
  /\ event_next_event \in 0 .. MaxTime \cup {event_no_events}
  /\ event_free \in Blocks \cup {NoBlock}
  /\ tstates \in 0 .. MaxTime
  /\ stack \in Seq(Running)

(***************************************************************************)
(* "Add an event at the correct place in the event list" (event.c:94):     *)
(* whatever handlers do between the turns of event_do_events, the list     *)
(* stays in time order although event_frame and event_remove_type change   *)
(* entries in place and an early event is prepended without a search.      *)
(***************************************************************************)
ListOrdered == Ordered(event_list)

(***************************************************************************)
(* event_next_event, which the opcode loop and event_do_events test        *)
(* without looking at the list, is the time of its head; so the head that  *)
(* event_do_events dereferences exists whenever something is due.          *)
(***************************************************************************)
NextEventCached == event_next_event = NextOf(event_list)

(***************************************************************************)
(* An event_t is in one place only: one entry of the list, one handler     *)
(* call under way or the slot kept for reuse, although a handler may reset *)
(* the queue or add events while its own event_t is still to be recycled.  *)
(***************************************************************************)
OneOwner ==
  /\ \A i, j \in 1 .. Len(event_list) :
       event_list[i].block = event_list[j].block => i = j
  /\ \A i, j \in 1 .. Len(stack) :
       stack[i].event.block = stack[j].event.block => i = j
  /\ \A i \in 1 .. Len(event_list), j \in 1 .. Len(stack) :
       event_list[i].block # stack[j].event.block
  /\ \A i \in 1 .. Len(event_list) : event_list[i].block # event_free
  /\ \A i \in 1 .. Len(stack) : stack[i].event.block # event_free

(***************************************************************************)
(* The queue implements EventSchedule: null entries are withdrawn events,  *)
(* and the event at the head is always the earliest that is pending.       *)
(***************************************************************************)
Pending == {event_list[i] : i \in {k \in 1 .. Len(event_list) :
                                     event_list[k].type # event_type_null}}

Active == [i \in 1 .. Len(stack) |-> stack[i].event]

Schedule == INSTANCE EventSchedule WITH
  Events <- Listed, pending <- Pending, now <- tstates, active <- Active

ImplementsSchedule == Schedule!Spec

=============================================================================
