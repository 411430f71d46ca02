----------------------------- MODULE EventList -----------------------------
(***************************************************************************)
(* The list operations of fuse/event.c as operators on a sequence of       *)
(* events.  An event is due at a T-state count held in an unsigned dword;  *)
(* the list is kept by insertion, popped from its head and aged in place   *)
(* at the end of each frame.                                               *)
(***************************************************************************)
EXTENDS Integers, Sequences

CONSTANTS
  Half     \* half the range of a dword: 2^31 in the code

ASSUME HalfAssumption == Half \in Nat \ {0}

\* Dwords are the integers 0 .. 2 * Half - 1.
Dword == 0 .. 2 * Half - 1

event_no_events == 2 * Half - 1

\* Types are the indices event_register hands out; the first is the null type.
event_type_null == 0

\* Unsigned subtraction of two dwords.
Minus(a, b) == IF a >= b THEN a - b ELSE a - b + 2 * Half

\* Mutant: the operands of the subtraction are swapped.
CmpSwapped(a, b) ==
  \/ /\ a.tstates # b.tstates
     /\ Minus(b.tstates, a.tstates) >= Half
  \/ /\ a.tstates = b.tstates
     /\ a.type <= b.type

(***************************************************************************)
(* event_add_cmp(a, b) <= 0.  The unsigned difference of the two times is  *)
(* returned as a signed int, so it is negative when it is at least Half.   *)
(***************************************************************************)
CmpNotAfter(a, b) ==
  \/ /\ a.tstates # b.tstates
     /\ Minus(a.tstates, b.tstates) >= Half
  \/ /\ a.tstates = b.tstates
     /\ a.type <= b.type

\* s with e inserted before position i.
InsertBefore(s, i, e) ==
  [j \in 1 .. Len(s) + 1 |-> IF j < i THEN s[j] ELSE IF j = i THEN e ELSE s[j - 1]]

\* Where g_slist_insert_sorted puts e: before the first entry it does not follow.
InsertPosition(s, e) ==
  CHOOSE i \in 1 .. Len(s) + 1 :
    /\ i = Len(s) + 1 \/ CmpNotAfter(e, s[i])
    /\ \A j \in 1 .. i - 1 : ~ CmpNotAfter(e, s[j])

\* event_add_with_data: the list after e is added, next being the cached
\* time of the next event.
Added(s, next, e) ==
  IF e.tstates < next THEN <<e>> \o s
                      ELSE InsertBefore(s, InsertPosition(s, e), e)

\* The value event_next_event is given from the head of the list.
NextOf(s) == IF s = << >> THEN event_no_events ELSE Head(s).tstates

\* event_frame: every entry is n T-states nearer.
Reduced(s, n) ==
  [i \in 1 .. Len(s) |-> [s[i] EXCEPT !.tstates = Minus(@, n)]]

\* event_remove_type: entries of the type stay where they are, as null events.
Nulled(s, type) ==
  [i \in 1 .. Len(s) |->
    IF s[i].type = type THEN [s[i] EXCEPT !.type = event_type_null] ELSE s[i]]

\* event_remove_type_user_data
NulledData(s, type, data) ==
  [i \in 1 .. Len(s) |->
    IF s[i].type = type /\ s[i].user_data = data
      THEN [s[i] EXCEPT !.type = event_type_null] ELSE s[i]]

\* No entry is due before one that precedes it.
Ordered(s) == \A i, j \in 1 .. Len(s) : i <= j => s[i].tstates <= s[j].tstates

=============================================================================
