--------------------------- MODULE EventSchedule ---------------------------
(***************************************************************************)
(* What fuse/event.c promises its callers, with no list and no cached      *)
(* time: events are scheduled and withdrawn, and the one called next is    *)
(* always a pending event that is due and that no pending event precedes.  *)
(***************************************************************************)
EXTENDS Integers, Sequences

CONSTANT Events      \* records with a tstates, a type and the address of their block

VARIABLES
  pending,    \* the events scheduled and neither called nor withdrawn
  now,        \* the T-state count
  active      \* the events whose handlers are under way, innermost last

vars == <<pending, now, active>>

Init == pending = {} /\ now = 0 /\ active = << >>

Advance == now' \in Nat /\ UNCHANGED <<pending, active>>

Schedule ==
  \E e \in pending' :
    /\ e \in Events \ pending
    /\ pending' = pending \cup {e}
    /\ UNCHANGED <<now, active>>

Withdraw == pending' \subseteq pending /\ UNCHANGED <<now, active>>

\* The earliest pending event is called, no sooner than it is due.
Call ==
  \E e \in pending :
    /\ e.tstates <= now
    /\ \A f \in pending : e.tstates <= f.tstates
    /\ pending' = pending \ {e}
    /\ active' = Append(active, e)
    /\ UNCHANGED now

Return ==
  /\ active # << >>
  /\ active' = SubSeq(active, 1, Len(active) - 1)
  /\ UNCHANGED <<pending, now>>

\* The end of a frame moves every event and the clock back by the same count.
EndFrame ==
  /\ now' \in 0 .. now
  /\ pending' = {[e EXCEPT !.tstates = @ - (now - now')] : e \in pending}
  /\ UNCHANGED active

Next == Advance \/ Schedule \/ Withdraw \/ Call \/ Return \/ EndFrame

Spec == Init /\ [][Next]_vars

=============================================================================
