---------------------------- MODULE StartupOrder ----------------------------
(***************************************************************************)
(* What the start-up manager promises the modules of the emulator: each is *)
(* started once, when all it depends on have been, and is ended only when  *)
(* nothing that depends on it is still to be ended.                        *)
(***************************************************************************)
CONSTANTS
  Module,
  Ends       \* the modules with an end function

VARIABLES
  needs,     \* the modules each depends on
  started,   \* the modules started so far
  live       \* those of them whose end function has not been called

Init ==
  /\ needs \in [Module -> SUBSET Module]
  /\ started = {} /\ live = {}

Start(m) ==
  /\ m \notin started
  /\ needs[m] \subseteq started
  /\ needs[m] \cap Ends \subseteq live
  /\ started' = started \cup {m}
  /\ live' = live \cup ({m} \cap Ends)
  /\ UNCHANGED needs

End(m) ==
  /\ m \in live
  /\ \A n \in live : m \notin needs[n]
  /\ live' = live \ {m}
  /\ UNCHANGED <<needs, started>>

Next == \E m \in Module : Start(m) \/ End(m)

Spec == Init /\ [][Next]_<<needs, started, live>>

=============================================================================
