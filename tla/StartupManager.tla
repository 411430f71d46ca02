--------------------------- MODULE StartupManager ---------------------------
(***************************************************************************)
(* The start-up manager (startup_manager.c): the parts of the emulator     *)
(* register a function that starts them, what they depend on and perhaps a *)
(* function that ends them.  The list of those left is walked while        *)
(* entries are taken out of it, the last one moving into the gap.          *)
(***************************************************************************)
EXTENDS Integers, Sequences

CONSTANTS
  Module,
  Graph,     \* the programs that use the manager
  OrderOf,   \* the order in which each registers modules
  NeedsOf,   \* what it says they depend on
  Inits,     \* the modules with an init function
  Ends,      \* the modules with an end function
  Uses,      \* the modules whose state an end function uses, declared or not
  Overtaken  \* those of them that have been ended all the same

\* No module is registered twice.
ASSUME StartupAssumption ==
  /\ OrderOf \in [Graph -> Seq(Module)]
  /\ NeedsOf \in [Graph -> [Module -> SUBSET Module]]
  /\ \A g \in Graph : \A j, k \in DOMAIN OrderOf[g] : OrderOf[g][j] = OrderOf[g][k] => j = k
  /\ Inits \subseteq Module /\ Ends \subseteq Module
  /\ Uses \in [Module -> SUBSET Module] /\ Overtaken \subseteq Module

VARIABLES
  graph,               \* the program that runs
  registered_modules,
  end_functions,       \* named by the modules they belong to
  pc,                  \* "register", "run", "emulate", "end" and how it ended
  i,                   \* the index of the walk
  progress_made,
  started              \* the modules started so far

vars == <<graph, registered_modules, end_functions, pc, i, progress_made, started>>

order == OrderOf[graph]
needs == NeedsOf[graph]

Init ==
  /\ graph \in Graph
  /\ registered_modules = <<>> /\ end_functions = <<>>
  /\ pc = "register" /\ i = 1 /\ progress_made = FALSE
  /\ started = {}

\* The next of the register functions run_startup_manager calls.
startup_manager_register ==
  /\ pc = "register"
  /\ Len(registered_modules) < Len(order)
  /\ LET m == order[Len(registered_modules) + 1]
     IN registered_modules' = Append(registered_modules,
                                     [module |-> m, dependencies |-> needs[m]])
  /\ UNCHANGED <<graph, end_functions, pc, i, progress_made, started>>

startup_manager_run ==
  /\ pc = "register"
  /\ Len(registered_modules) = Len(order)
  /\ pc' = "run" /\ i' = 1 /\ progress_made' = FALSE
  /\ UNCHANGED <<graph, registered_modules, end_functions, started>>

\* Mutant: only the entries after the one just started are told.
remove_dependency_after(m) ==
  [k \in DOMAIN registered_modules |->
     IF k < i THEN registered_modules[k]
     ELSE [registered_modules[k] EXCEPT !.dependencies = @ \ {m}]]

remove_dependency(m) ==
  [k \in DOMAIN registered_modules |->
     [registered_modules[k] EXCEPT !.dependencies = @ \ {m}]]

\* g_array_remove_index_fast: the last entry moves into the gap.
RemoveIndexFast(list, k) ==
  [j \in 1 .. Len(list) - 1 |-> IF j = k THEN list[Len(list)] ELSE list[j]]

AtEntry == pc = "run" /\ i \in DOMAIN registered_modules

Ready == AtEntry /\ registered_modules[i].dependencies = {}

\* Mutant: an end function is put before those of earlier modules.
WithEnd_first(m) == IF m \in Ends THEN <<m>> \o end_functions ELSE end_functions

WithEnd(m) == IF m \in Ends THEN Append(end_functions, m) ELSE end_functions

StartModule ==
  /\ Ready
  /\ LET m == registered_modules[i].module
     IN /\ end_functions' = WithEnd(m)
        /\ registered_modules' = RemoveIndexFast(remove_dependency(m), i)
        /\ started' = started \cup {m}
  /\ progress_made' = TRUE
  /\ UNCHANGED <<graph, pc, i>>

PassOver ==
  /\ AtEntry /\ ~Ready
  /\ i' = i + 1
  /\ UNCHANGED <<graph, registered_modules, end_functions, pc, progress_made, started>>

\* An init function returns an error: main gives up without ending anything.
InitFails ==
  /\ Ready /\ registered_modules[i].module \in Inits
  /\ pc' = "failed"
  /\ UNCHANGED <<graph, registered_modules, end_functions, i, progress_made, started>>

Finished == pc = "run" /\ i \notin DOMAIN registered_modules

GoesOn == progress_made /\ registered_modules # <<>>

NextPass ==
  /\ Finished /\ GoesOn
  /\ i' = 1 /\ progress_made' = FALSE
  /\ UNCHANGED <<graph, registered_modules, end_functions, pc, started>>

\* "startup modules could not be called", or all have been.
RunReturns ==
  /\ Finished /\ ~GoesOn
  /\ pc' = IF registered_modules = <<>> THEN "emulate" ELSE "stuck"
  /\ UNCHANGED <<graph, registered_modules, end_functions, i, progress_made, started>>

\* Mutant: it begins one past the last.
startup_manager_run_end_late ==
  /\ pc = "emulate" /\ pc' = "end" /\ i' = Len(end_functions) + 1
  /\ UNCHANGED <<graph, registered_modules, end_functions, progress_made, started>>

\* fuse_end: after the emulation, or from an init function through fuse_abort.
startup_manager_run_end ==
  /\ \/ pc = "emulate"
     \/ Ready /\ registered_modules[i].module \in Inits
  /\ pc' = "end" /\ i' = Len(end_functions)
  /\ UNCHANGED <<graph, registered_modules, end_functions, progress_made, started>>

EndModule ==
  /\ pc = "end" /\ i > 0
  /\ i' = i - 1
  /\ UNCHANGED <<graph, registered_modules, end_functions, pc, progress_made, started>>

Next ==
  \/ startup_manager_register \/ startup_manager_run
  \/ StartModule \/ PassOver \/ InitFails
  \/ NextPass \/ RunReturns
  \/ startup_manager_run_end \/ EndModule

Spec == Init /\ [][Next]_vars

-----------------------------------------------------------------------------
Entry == [module : Module, dependencies : SUBSET Module]

\* The walk stays within the list or one past it.
TypeOK ==
  /\ graph \in Graph
  /\ registered_modules \in Seq(Entry)
  /\ end_functions \in Seq(Module)
  /\ pc \in {"register", "run", "failed", "stuck", "emulate", "end"}
  /\ i \in Nat
  /\ pc = "run" => i \in 1 .. Len(registered_modules) + 1
  /\ pc = "end" => i <= Len(end_functions)
  /\ progress_made \in BOOLEAN
  /\ started \subseteq Module

\* The modules whose end function has not been called.
Live ==
  IF pc = "end" THEN {end_functions[k] : k \in 1 .. i}
  ELSE {end_functions[k] : k \in DOMAIN end_functions}

(***************************************************************************)
(* "Loop until we can't make any more progress; this will either be        *)
(* because we've called every function (good!) or because there's a        *)
(* logical error in the dependency graph" (startup_manager.c:116): though  *)
(* entries move into gaps behind the walk, the manager neither misses one  *)
(* nor gives up while a module could still be started.                     *)
(***************************************************************************)
GivesUpOnlyWhenStuck ==
  LET all == {order[k] : k \in DOMAIN order}
  IN /\ pc = "emulate" => all \subseteq started
     /\ pc = "stuck" => /\ \E m \in all : m \notin started
                        /\ \A m \in all \ started : ~(needs[m] \subseteq started)

(***************************************************************************)
(* Each module is started after those it depends on and ended before them. *)
(***************************************************************************)
Order == INSTANCE StartupOrder WITH live <- Live

OrderSpec == Order!Spec

(***************************************************************************)
(* Of the modules that an end function uses, declared as dependencies or   *)
(* not, just those in Overtaken have been ended before it.  rzx_end        *)
(* "embeds the final snapshot" (rzx.c:197) of a recording under way and    *)
(* writes it with the creator: the creator, the settings and the memory    *)
(* are still there, but five of the interfaces, if in use, have freed what *)
(* their part of the snapshot is then read from.                           *)
(***************************************************************************)
EndUsesLive ==
  pc = "end" /\ i > 0 =>
    \A m \in Uses[end_functions[i]] \cap Ends \cap started : m \in Live <=> m \notin Overtaken

=============================================================================
