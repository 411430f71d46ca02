------------------------ MODULE StartupManagerProofs ------------------------
(***************************************************************************)
(* The start-up manager keeps to the order of the dependencies and misses  *)
(* no module, for every program that uses it.                              *)
(***************************************************************************)
EXTENDS FuseStartup, SequenceTheorems, FiniteSetTheorems, TLAPS

\* Those left are each waiting for exactly what has not been started.
Waiting ==
  /\ \A k \in DOMAIN registered_modules :
       /\ registered_modules[k].dependencies = needs[registered_modules[k].module] \ started
       /\ registered_modules[k].module \notin started
       /\ \E j \in DOMAIN order : order[j] = registered_modules[k].module
  /\ \A j, k \in DOMAIN registered_modules :
       registered_modules[j].module = registered_modules[k].module => j = k

Registering ==
  pc = "register" =>
    /\ started = {} /\ end_functions = <<>>
    /\ Len(registered_modules) <= Len(order)
    /\ \A k \in DOMAIN registered_modules : registered_modules[k].module = order[k]

\* Nobody is lost when an entry moves.
Reached ==
  pc # "register" =>
    \A k \in DOMAIN order :
      order[k] \in started \/ \E j \in DOMAIN registered_modules :
                                registered_modules[j].module = order[k]

\* A pass that has started nothing has been past waiting modules only.
Passed ==
  /\ pc = "run" /\ ~progress_made =>
       \A k \in DOMAIN registered_modules : k < i => registered_modules[k].dependencies # {}
  /\ pc = "stuck" => /\ registered_modules # <<>>
                     /\ \A k \in DOMAIN registered_modules :
                          registered_modules[k].dependencies # {}
  /\ pc = "emulate" => registered_modules = <<>>

\* The end functions are those of the modules started, in an order of the
\* dependencies.
EndsInOrder ==
  /\ \A k \in DOMAIN end_functions : end_functions[k] \in started \cap Ends
  /\ \A m \in started \cap Ends : \E k \in DOMAIN end_functions : end_functions[k] = m
  /\ \A j, k \in DOMAIN end_functions :
       /\ end_functions[j] = end_functions[k] => j = k
       /\ end_functions[j] \in needs[end_functions[k]] => j < k

\* The last conjunct is what keeps EndsInOrder: nothing that has been started
\* waits for a module yet to come.
IInv == TypeOK /\ Waiting /\ Registering /\ Reached /\ Passed /\ EndsInOrder
        /\ \A m \in started : needs[m] \subseteq started

LEMMA GraphFacts ==
  ASSUME graph \in Graph
  PROVE  /\ order \in Seq(Module) /\ Len(order) \in Nat /\ DOMAIN order = 1 .. Len(order)
         /\ \A k \in DOMAIN order : order[k] \in Module
         /\ \A j, k \in DOMAIN order : order[j] = order[k] => j = k
         /\ needs \in [Module -> SUBSET Module]
BY StartupAssumption, LenProperties, ElementOfSeq DEF order, needs

\* The lists as functions.
LEMMA ListFacts ==
  ASSUME TypeOK
  PROVE  /\ Len(registered_modules) \in Nat
         /\ DOMAIN registered_modules = 1 .. Len(registered_modules)
         /\ \A k \in DOMAIN registered_modules :
              /\ registered_modules[k] \in Entry
              /\ registered_modules[k].module \in Module
              /\ registered_modules[k].dependencies \in SUBSET Module
         /\ Len(end_functions) \in Nat
         /\ DOMAIN end_functions = 1 .. Len(end_functions)
         /\ \A k \in DOMAIN end_functions : end_functions[k] \in Module
<1>1. /\ Len(registered_modules) \in Nat
      /\ DOMAIN registered_modules = 1 .. Len(registered_modules)
      /\ \A k \in DOMAIN registered_modules : registered_modules[k] \in Entry
  BY LenProperties, ElementOfSeq DEF TypeOK
<1>2. /\ Len(end_functions) \in Nat
      /\ DOMAIN end_functions = 1 .. Len(end_functions)
      /\ \A k \in DOMAIN end_functions : end_functions[k] \in Module
  BY LenProperties, ElementOfSeq DEF TypeOK
<1> QED BY <1>1, <1>2 DEF Entry

LEMMA FunctionIsSeq ==
  ASSUME NEW S, NEW n \in Nat, NEW f \in [1 .. n -> S]
  PROVE  f \in Seq(S) /\ Len(f) = n /\ DOMAIN f = 1 .. n
OBVIOUS

\* What the list is after the module of entry i has been started: those of the
\* other entries, each no longer waiting for it.
LEMMA TakenOut ==
  ASSUME TypeOK, i \in DOMAIN registered_modules, NEW m \in Module,
         NEW new, new = RemoveIndexFast(remove_dependency(m), i)
  PROVE  /\ new \in Seq(Entry) /\ Len(new) = Len(registered_modules) - 1
         /\ DOMAIN new = 1 .. Len(registered_modules) - 1
         /\ \A j \in DOMAIN new :
              LET old == IF j = i THEN Len(registered_modules) ELSE j
              IN /\ old \in DOMAIN registered_modules /\ old # i
                 /\ new[j].module = registered_modules[old].module
                 /\ new[j].dependencies = registered_modules[old].dependencies \ {m}
         /\ \A k \in DOMAIN registered_modules :
              k # i => \E j \in DOMAIN new : new[j].module = registered_modules[k].module
<1> DEFINE n == Len(registered_modules)
           told == remove_dependency(m)
<1>1. n \in Nat /\ DOMAIN registered_modules = 1 .. n /\ i \in 1 .. n
  BY ListFacts
<1>2. /\ DOMAIN told = 1 .. n
      /\ \A k \in 1 .. n : /\ told[k] \in Entry
                           /\ told[k].module = registered_modules[k].module
                           /\ told[k].dependencies = registered_modules[k].dependencies \ {m}
  BY <1>1, ListFacts DEF remove_dependency, Entry
<1>3. told \in Seq(Entry) /\ Len(told) = n
  <2>1. told \in [1 .. n -> Entry]
    BY <1>1, <1>2 DEF remove_dependency
  <2> QED BY <1>1, <2>1, FunctionIsSeq
<1> HIDE DEF told, n
<1>4. new = [j \in 1 .. n - 1 |-> IF j = i THEN told[n] ELSE told[j]]
  BY <1>3 DEF RemoveIndexFast, told
<1>5. new \in [1 .. n - 1 -> Entry]
  BY <1>1, <1>2, <1>4
<1>6. new \in Seq(Entry) /\ Len(new) = n - 1 /\ DOMAIN new = 1 .. n - 1
  BY <1>1, <1>5, FunctionIsSeq
<1>7. ASSUME NEW j \in 1 .. n - 1
      PROVE  LET old == IF j = i THEN n ELSE j
             IN /\ old \in 1 .. n /\ old # i
                /\ new[j].module = registered_modules[old].module
                /\ new[j].dependencies = registered_modules[old].dependencies \ {m}
  BY <1>1, <1>2, <1>4
<1>8. ASSUME NEW k \in 1 .. n, k # i
      PROVE  \E j \in 1 .. n - 1 : new[j].module = registered_modules[k].module
  <2>1. CASE k < n
    BY <1>1, <1>2, <1>4, <1>8, <2>1
  <2>2. CASE k = n
    BY <1>1, <1>2, <1>4, <1>8, <2>2
  <2> QED BY <1>1, <2>1, <2>2
<1> QED BY <1>1, <1>6, <1>7, <1>8 DEF n

LEMMA InitIInv == Init => IInv
<1> SUFFICES ASSUME Init PROVE IInv
  OBVIOUS
<1>1. graph \in Graph /\ registered_modules = <<>> /\ end_functions = <<>> /\ started = {}
      /\ pc = "register" /\ i = 1 /\ progress_made = FALSE
  BY DEF Init
<1>2. TypeOK
  <2>1. progress_made \in BOOLEAN
    BY <1>1, Zenon
  <2> QED BY <1>1, <2>1 DEF TypeOK
<1>3. Len(order) \in Nat
  BY <1>1, GraphFacts
<1> QED BY <1>1, <1>2, <1>3 DEF IInv, Waiting, Registering, Reached, Passed, EndsInOrder

\* Only the state of the walk changes: what the list says goes on holding.
LEMMA SameLists ==
  ASSUME IInv, UNCHANGED <<graph, registered_modules, end_functions, started>>
  PROVE  /\ Waiting' /\ EndsInOrder' /\ (\A m \in started : needs[m] \subseteq started)'
         /\ (graph \in Graph)' /\ (registered_modules \in Seq(Entry))'
         /\ (end_functions \in Seq(Module))' /\ (started \subseteq Module)'
BY DEF IInv, Waiting, EndsInOrder, TypeOK, order, needs

LEMMA RegisterStep == ASSUME IInv, startup_manager_register PROVE IInv'
<1> DEFINE n == Len(registered_modules)
           m == order[n + 1]
           entry == [module |-> m, dependencies |-> needs[m]]
<1>1. TypeOK /\ pc = "register" /\ started = {} /\ end_functions = <<>>
  BY DEF IInv, Registering, startup_manager_register
<1>2. n \in Nat /\ n < Len(order) /\ Len(order) \in Nat /\ n + 1 \in DOMAIN order
      /\ DOMAIN registered_modules = 1 .. n /\ DOMAIN order = 1 .. Len(order)
  BY <1>1, ListFacts, GraphFacts DEF startup_manager_register, TypeOK
<1>3. m \in Module /\ needs[m] \in SUBSET Module /\ entry \in Entry
  BY <1>1, <1>2, GraphFacts DEF TypeOK, Entry
<1>4. registered_modules' = Append(registered_modules, entry)
      /\ UNCHANGED <<graph, end_functions, pc, i, progress_made, started>>
  BY DEF startup_manager_register
<1>5. /\ registered_modules' \in Seq(Entry) /\ Len(registered_modules') = n + 1
      /\ DOMAIN registered_modules' = 1 .. n + 1
      /\ \A k \in 1 .. n : registered_modules'[k] = registered_modules[k]
      /\ registered_modules'[n + 1] = entry
  BY <1>1, <1>2, <1>3, <1>4, AppendProperties, LenProperties DEF TypeOK
<1>6. order' = order /\ needs' = needs
  BY <1>4 DEF order, needs
<1>7. \A k \in 1 .. n + 1 :
        /\ registered_modules'[k].module = order[k]
        /\ registered_modules'[k].dependencies = needs[registered_modules'[k].module] \ started
  BY <1>1, <1>2, <1>5 DEF IInv, Registering, Waiting
<1> HIDE DEF entry, m, n
<1>8. TypeOK'
  BY <1>1, <1>4, <1>5 DEF TypeOK
<1>9. Waiting'
  <2>1. \A k \in 1 .. n + 1 : k \in DOMAIN order
    BY <1>2
  <2>2. \A j, k \in 1 .. n + 1 : order[j] = order[k] => j = k
    BY <1>1, <2>1, GraphFacts DEF TypeOK
  <2>3. \A j, k \in 1 .. n + 1 :
          registered_modules'[j].module = registered_modules'[k].module => j = k
    BY <1>7, <2>2
  <2>4. \A k \in 1 .. n + 1 : \E j \in DOMAIN order : order[j] = registered_modules'[k].module
    BY <1>7, <2>1
  <2> QED BY <1>1, <1>4, <1>5, <1>6, <1>7, <2>3, <2>4 DEF Waiting
<1>10. Registering' /\ Reached' /\ Passed'
  <2>1. n + 1 <= Len(order)
    BY <1>2
  <2> QED BY <1>1, <1>4, <1>5, <1>6, <1>7, <2>1 DEF Registering, Reached, Passed
<1>11. EndsInOrder' /\ (\A p \in started : needs[p] \subseteq started)'
  BY <1>1, <1>4 DEF EndsInOrder
<1> QED BY <1>8, <1>9, <1>10, <1>11 DEF IInv

LEMMA RunStep == ASSUME IInv, startup_manager_run PROVE IInv'
<1>1. TypeOK /\ Len(registered_modules) \in Nat /\ graph \in Graph
      /\ DOMAIN registered_modules = 1 .. Len(registered_modules)
      /\ pc = "register" /\ Len(registered_modules) = Len(order)
      /\ DOMAIN order = 1 .. Len(order)
  BY ListFacts, GraphFacts DEF IInv, TypeOK, startup_manager_run
<1>2. UNCHANGED <<graph, registered_modules, end_functions, started>>
      /\ pc' = "run" /\ i' = 1 /\ progress_made' = FALSE
  BY DEF startup_manager_run
<1>3. TypeOK'
  <2>1. progress_made' \in BOOLEAN
    BY <1>2, Zenon
  <2> QED BY <1>1, <1>2, <2>1 DEF TypeOK
<1>4. Reached' /\ Passed' /\ Registering'
  <2>1. \A k \in DOMAIN order : registered_modules[k].module = order[k]
    BY <1>1 DEF IInv, Registering
  <2>2. order' = order
    BY <1>2 DEF order
  <2> QED BY <1>1, <1>2, <2>1, <2>2 DEF Reached, Passed, Registering
<1> QED BY <1>2, <1>3, <1>4, SameLists DEF IInv

LEMMA PassOverStep == ASSUME IInv, PassOver PROVE IInv'
<1>1. TypeOK /\ Len(registered_modules) \in Nat
      /\ DOMAIN registered_modules = 1 .. Len(registered_modules)
      /\ pc = "run" /\ i \in DOMAIN registered_modules /\ i \in Nat
      /\ registered_modules[i].dependencies # {}
  BY ListFacts DEF IInv, TypeOK, PassOver, Ready, AtEntry
<1>2. UNCHANGED <<graph, registered_modules, end_functions, started, pc, progress_made>>
      /\ i' = i + 1
  BY DEF PassOver
<1>3. TypeOK'
  BY <1>1, <1>2 DEF TypeOK
<1>4. Passed'
  BY <1>1, <1>2 DEF IInv, Passed
<1>5. Reached' /\ Registering'
  BY <1>1, <1>2 DEF IInv, Reached, Registering, order
<1> QED BY <1>2, <1>3, <1>4, <1>5, SameLists DEF IInv

LEMMA FailStep == ASSUME IInv, InitFails PROVE IInv'
<1>1. pc = "run" /\ UNCHANGED <<graph, registered_modules, end_functions, started>>
      /\ UNCHANGED <<i, progress_made>> /\ pc' = "failed"
  BY DEF InitFails, Ready, AtEntry
<1>2. TypeOK' /\ Reached' /\ Registering' /\ Passed'
  BY <1>1 DEF IInv, TypeOK, Reached, Registering, Passed, order
<1> QED BY <1>1, <1>2, SameLists DEF IInv

LEMMA NextPassStep == ASSUME IInv, NextPass PROVE IInv'
<1>1. TypeOK /\ Len(registered_modules) \in Nat
      /\ DOMAIN registered_modules = 1 .. Len(registered_modules) /\ pc = "run"
  BY ListFacts DEF IInv, NextPass, Finished
<1>2. UNCHANGED <<graph, registered_modules, end_functions, started, pc>>
      /\ i' = 1 /\ progress_made' = FALSE
  BY DEF NextPass
<1>3. TypeOK'
  <2>1. progress_made' \in BOOLEAN
    BY <1>2, Zenon
  <2> QED BY <1>1, <1>2, <2>1 DEF TypeOK
<1>4. Reached' /\ Registering'
  BY <1>1, <1>2 DEF IInv, Reached, Registering, order
<1>5. Passed'
  BY <1>1, <1>2 DEF Passed
<1> QED BY <1>2, <1>3, <1>4, <1>5, SameLists DEF IInv

\* A last pass without progress has been past every entry.
LEMMA ReturnsStep == ASSUME IInv, RunReturns PROVE IInv'
<1>1. TypeOK /\ Len(registered_modules) \in Nat /\ i \in Nat
      /\ DOMAIN registered_modules = 1 .. Len(registered_modules)
      /\ pc = "run" /\ i \in 1 .. Len(registered_modules) + 1
      /\ i \notin DOMAIN registered_modules /\ ~GoesOn
  BY ListFacts DEF IInv, TypeOK, RunReturns, Finished
<1>2. UNCHANGED <<graph, registered_modules, end_functions, started, i, progress_made>>
      /\ pc' = IF registered_modules = <<>> THEN "emulate" ELSE "stuck"
  BY DEF RunReturns
<1>3. TypeOK' /\ Reached' /\ Registering'
  BY <1>1, <1>2 DEF IInv, TypeOK, Reached, Registering, order
<1>4. Passed'
  <2>1. CASE registered_modules = <<>>
    BY <1>2, <2>1 DEF Passed
  <2>2. CASE registered_modules # <<>>
    <3>1. ~progress_made /\ i = Len(registered_modules) + 1
      BY <1>1, <2>2 DEF GoesOn
    <3>2. \A k \in DOMAIN registered_modules : registered_modules[k].dependencies # {}
      BY <1>1, <3>1 DEF IInv, Passed
    <3> QED BY <1>2, <2>2, <3>2 DEF Passed
  <2> QED BY <2>1, <2>2
<1> QED BY <1>2, <1>3, <1>4, SameLists DEF IInv

LEMMA EndSteps == ASSUME IInv, startup_manager_run_end \/ EndModule PROVE IInv'
<1>1. TypeOK /\ Len(end_functions) \in Nat /\ pc \in {"run", "emulate", "end"} /\ i \in Nat
      /\ (pc = "end" => i <= Len(end_functions))
  BY ListFacts DEF IInv, TypeOK, startup_manager_run_end, EndModule, Ready, AtEntry
<1>2. UNCHANGED <<graph, registered_modules, end_functions, started, progress_made>>
      /\ pc' = "end" /\ i' \in Nat /\ i' <= Len(end_functions)
  BY <1>1 DEF startup_manager_run_end, EndModule
<1>3. TypeOK' /\ Reached' /\ Registering' /\ Passed'
  BY <1>1, <1>2 DEF IInv, TypeOK, Reached, Registering, Passed, order
<1> QED BY <1>2, <1>3, SameLists DEF IInv

\* The module that is started has been waiting, and no longer is.
LEMMA ReadyFacts ==
  ASSUME IInv, Ready, NEW m, m = registered_modules[i].module
  PROVE  /\ pc = "run" /\ i \in DOMAIN registered_modules /\ i \in Nat
         /\ m \in Module /\ m \notin started /\ needs[m] \subseteq started
<1>1. TypeOK /\ pc = "run" /\ i \in DOMAIN registered_modules
      /\ registered_modules[i].dependencies = {}
  BY DEF IInv, Ready, AtEntry
<1>2. m \in Module /\ i \in Nat
  BY <1>1, ListFacts DEF TypeOK
<1>3. m \notin started /\ registered_modules[i].dependencies = needs[m] \ started
  BY <1>1 DEF IInv, Waiting
<1> QED BY <1>1, <1>2, <1>3

LEMMA StartStep == ASSUME IInv, StartModule PROVE IInv'
<1> DEFINE n == Len(registered_modules)
           m == registered_modules[i].module
           e == Len(end_functions)
           new == RemoveIndexFast(remove_dependency(m), i)
<1>1. TypeOK /\ Ready /\ pc = "run" /\ graph \in Graph
      /\ i \in DOMAIN registered_modules /\ i \in Nat
      /\ m \in Module /\ m \notin started /\ needs[m] \subseteq started
  BY ReadyFacts DEF IInv, StartModule, TypeOK
<1>2. /\ registered_modules' = new /\ end_functions' = WithEnd(m)
      /\ started' = started \cup {m} /\ progress_made' = TRUE
      /\ graph' = graph /\ pc' = pc /\ i' = i
  BY DEF StartModule
<1>3. n \in Nat /\ DOMAIN registered_modules = 1 .. n /\ e \in Nat
      /\ end_functions \in Seq(Module) /\ DOMAIN end_functions = 1 .. e
  BY <1>1, ListFacts DEF TypeOK
<1>4. /\ new \in Seq(Entry) /\ Len(new) = n - 1 /\ DOMAIN new = 1 .. n - 1
      /\ \A j \in 1 .. n - 1 :
           LET old == IF j = i THEN n ELSE j
           IN /\ old \in 1 .. n /\ old # i
              /\ new[j].module = registered_modules[old].module
              /\ new[j].dependencies = registered_modules[old].dependencies \ {m}
      /\ \A k \in 1 .. n :
           k # i => \E j \in 1 .. n - 1 : new[j].module = registered_modules[k].module
  <2>1. new = RemoveIndexFast(remove_dependency(m), i)
    OBVIOUS
  <2> HIDE DEF new, m
  <2>2. /\ new \in Seq(Entry) /\ Len(new) = Len(registered_modules) - 1
        /\ DOMAIN new = 1 .. Len(registered_modules) - 1
        /\ \A j \in DOMAIN new :
             LET old == IF j = i THEN Len(registered_modules) ELSE j
             IN /\ old \in DOMAIN registered_modules /\ old # i
                /\ new[j].module = registered_modules[old].module
                /\ new[j].dependencies = registered_modules[old].dependencies \ {m}
        /\ \A k \in DOMAIN registered_modules :
             k # i => \E j \in DOMAIN new : new[j].module = registered_modules[k].module
    <3>1. TypeOK /\ i \in DOMAIN registered_modules /\ m \in Module
      BY <1>1
    <3> QED BY <3>1, <2>1, TakenOut
  <2>3. n = Len(registered_modules)
    OBVIOUS
  <2> HIDE DEF n
  <2>4. DOMAIN new = 1 .. n - 1 /\ DOMAIN registered_modules = 1 .. n
    BY <1>3, <2>2, <2>3
  <2>5. new \in Seq(Entry) /\ Len(new) = n - 1
    BY <2>2, <2>3
  <2>6. ASSUME NEW j \in 1 .. n - 1
        PROVE  LET old == IF j = i THEN n ELSE j
               IN /\ old \in 1 .. n /\ old # i
                  /\ new[j].module = registered_modules[old].module
                  /\ new[j].dependencies = registered_modules[old].dependencies \ {m}
    BY <2>2, <2>3, <2>4
  <2>7. ASSUME NEW k \in 1 .. n, k # i
        PROVE  \E j \in 1 .. n - 1 : new[j].module = registered_modules[k].module
    BY <2>2, <2>4, <2>7
  <2> QED BY <2>4, <2>5, <2>6, <2>7
<1>5. order' = order /\ needs' = needs
  BY <1>2 DEF order, needs
<1>6. m = registered_modules[i].module
  OBVIOUS
<1> HIDE DEF new, m
<1>7. /\ WithEnd(m) \in Seq(Module)
      /\ m \notin Ends => WithEnd(m) = end_functions
      /\ m \in Ends => /\ Len(WithEnd(m)) = e + 1 /\ DOMAIN WithEnd(m) = 1 .. e + 1
                       /\ \A k \in 1 .. e : WithEnd(m)[k] = end_functions[k]
                       /\ WithEnd(m)[e + 1] = m
  <2>1. CASE m \in Ends
    <3>1. /\ Append(end_functions, m) \in Seq(Module)
          /\ Len(Append(end_functions, m)) = e + 1
          /\ \A k \in 1 .. e : Append(end_functions, m)[k] = end_functions[k]
          /\ Append(end_functions, m)[e + 1] = m
      BY <1>1, <1>3, AppendProperties
    <3>2. DOMAIN Append(end_functions, m) = 1 .. e + 1
      BY <3>1, LenProperties
    <3> QED BY <2>1, <3>1, <3>2 DEF WithEnd
  <2>2. CASE m \notin Ends
    BY <1>3, <2>2 DEF WithEnd
  <2> QED BY <2>1, <2>2
<1>8. TypeOK'
  <2>1. progress_made' \in BOOLEAN
    BY <1>2, Zenon
  <2>2. i' \in 1 .. Len(registered_modules') + 1
    BY <1>1, <1>2, <1>3, <1>4
  <2>3. end_functions' \in Seq(Module)
    BY <1>2, <1>7
  <2> QED BY <1>1, <1>2, <1>4, <2>1, <2>2, <2>3 DEF TypeOK
<1>9. Waiting'
  <2>1. ASSUME NEW j \in 1 .. n - 1
        PROVE  /\ new[j].dependencies = needs[new[j].module] \ started'
               /\ new[j].module \notin started'
               /\ \E k \in DOMAIN order : order[k] = new[j].module
    <3> DEFINE old == IF j = i THEN n ELSE j
    <3>1. /\ old \in 1 .. n /\ old # i
          /\ new[j].module = registered_modules[old].module
          /\ new[j].dependencies = registered_modules[old].dependencies \ {m}
      BY <1>4
    <3> HIDE DEF old
    <3>2. /\ registered_modules[old].dependencies
                = needs[registered_modules[old].module] \ started
          /\ registered_modules[old].module \notin started
          /\ registered_modules[old].module # m
          /\ \E k \in DOMAIN order : order[k] = registered_modules[old].module
      BY <1>1, <1>3, <1>6, <3>1 DEF IInv, Waiting
    <3> QED BY <1>2, <3>1, <3>2
  <2>2. ASSUME NEW j \in 1 .. n - 1, NEW k \in 1 .. n - 1, new[j].module = new[k].module
        PROVE  j = k
    <3> DEFINE oldj == IF j = i THEN n ELSE j
               oldk == IF k = i THEN n ELSE k
    <3>1. /\ oldj \in 1 .. n /\ oldk \in 1 .. n
          /\ registered_modules[oldj].module = registered_modules[oldk].module
      BY <1>4, <2>2
    <3>2. oldj = oldk
      BY <1>3, <3>1 DEF IInv, Waiting
    <3> QED BY <1>3, <3>2
  <2> QED BY <1>2, <1>4, <1>5, <2>1, <2>2 DEF Waiting
<1>10. Registering' /\ Passed'
  BY <1>1, <1>2 DEF Registering, Passed
<1>11. Reached'
  <2>1. ASSUME NEW k \in DOMAIN order
        PROVE  order[k] \in started' \/ \E j \in 1 .. n - 1 : new[j].module = order[k]
    <3>1. CASE order[k] \in started
      BY <1>2, <3>1
    <3>2. CASE order[k] \notin started
      <4>1. PICK j \in 1 .. n : registered_modules[j].module = order[k]
        BY <1>1, <1>3, <3>2 DEF IInv, Reached
      <4> QED BY <1>2, <1>4, <1>6, <4>1
    <3> QED BY <3>1, <3>2
  <2> QED BY <1>2, <1>4, <1>5, <2>1 DEF Reached
<1>12. (\A p \in started : needs[p] \subseteq started)'
  BY <1>1, <1>2, <1>5 DEF IInv
<1>13. EndsInOrder'
  <2>1. \A k \in 1 .. e : /\ end_functions[k] \in started \cap Ends
                          /\ needs[end_functions[k]] \subseteq started
    BY <1>3 DEF IInv, EndsInOrder
  <2>2. CASE m \notin Ends
    <3>1. end_functions' = end_functions /\ started' \cap Ends = started \cap Ends
      BY <1>2, <1>7, <2>2
    <3> QED BY <1>5, <3>1 DEF IInv, EndsInOrder
  <2>3. CASE m \in Ends
    <3>1. /\ DOMAIN end_functions' = 1 .. e + 1
          /\ \A k \in 1 .. e : end_functions'[k] = end_functions[k]
          /\ end_functions'[e + 1] = m
          /\ \A k \in 1 .. e + 1 : k \in 1 .. e \/ k = e + 1
      BY <1>2, <1>3, <1>7, <2>3
    <3>2. \A k \in 1 .. e + 1 : end_functions'[k] \in started' \cap Ends
      BY <1>2, <2>1, <2>3, <3>1
    <3>3. ASSUME NEW p \in started' \cap Ends
          PROVE  \E k \in 1 .. e + 1 : end_functions'[k] = p
      <4>1. CASE p = m
        BY <1>3, <3>1, <4>1
      <4>2. CASE p \in started
        <5>1. PICK k \in 1 .. e : end_functions[k] = p
          BY <1>3, <3>3, <4>2 DEF IInv, EndsInOrder
        <5> QED BY <1>3, <3>1, <5>1
      <4> QED BY <1>2, <4>1, <4>2
    <3>4. ASSUME NEW j \in 1 .. e + 1, NEW k \in 1 .. e + 1
          PROVE  /\ end_functions'[j] = end_functions'[k] => j = k
                 /\ end_functions'[j] \in needs[end_functions'[k]] => j < k
      <4>1. CASE j \in 1 .. e /\ k \in 1 .. e
        BY <1>3, <3>1, <4>1 DEF IInv, EndsInOrder
      <4>2. CASE j \in 1 .. e /\ k = e + 1
        BY <1>1, <1>3, <2>1, <3>1, <4>2
      <4>3. CASE j = e + 1
        BY <1>1, <1>3, <2>1, <3>1, <4>3
      <4> QED BY <3>1, <4>1, <4>2, <4>3
    <3> QED BY <1>5, <3>1, <3>2, <3>3, <3>4 DEF EndsInOrder
  <2> QED BY <2>2, <2>3
<1> QED BY <1>8, <1>9, <1>10, <1>11, <1>12, <1>13 DEF IInv

LEMMA NextIInv == IInv /\ [Next]_vars => IInv'
<1> SUFFICES ASSUME IInv, [Next]_vars PROVE IInv'
  OBVIOUS
<1>1. CASE UNCHANGED vars
  <2>1. UNCHANGED <<graph, registered_modules, end_functions, started>>
        /\ UNCHANGED <<pc, i, progress_made>>
    BY <1>1 DEF vars
  <2>2. TypeOK' /\ Reached' /\ Registering' /\ Passed'
    BY <2>1 DEF IInv, TypeOK, Reached, Registering, Passed, order
  <2> QED BY <2>1, <2>2, SameLists DEF IInv
<1> QED BY <1>1, RegisterStep, RunStep, StartStep, PassOverStep, FailStep, NextPassStep,
           ReturnsStep, EndSteps DEF Next

LEMMA Inductive == Spec => []IInv
BY InitIInv, NextIInv, PTL DEF Spec

(***************************************************************************)
(* The walk stays within the list however its entries move.                *)
(***************************************************************************)
THEOREM TypeCorrect == Spec => []TypeOK
<1>1. IInv => TypeOK
  BY DEF IInv
<1> QED BY <1>1, Inductive, PTL

(***************************************************************************)
(* startup_manager_run starts every module registered, or leaves only      *)
(* modules that could not be started.                                      *)
(***************************************************************************)
THEOREM NoneLeftOut == Spec => []GivesUpOnlyWhenStuck
<1>1. ASSUME IInv PROVE GivesUpOnlyWhenStuck
  <2> DEFINE all == {order[k] : k \in DOMAIN order}
  <2>1. ASSUME pc \in {"emulate", "stuck"}, NEW m \in all, m \notin started
        PROVE  \E j \in DOMAIN registered_modules : registered_modules[j].module = m
    BY <1>1, <2>1 DEF IInv, Reached
  <2>2. ASSUME pc = "emulate" PROVE all \subseteq started
    <3>1. DOMAIN registered_modules = {}
      BY <1>1, <2>2 DEF IInv, Passed
    <3> QED BY <2>1, <2>2, <3>1
  <2>3. ASSUME pc = "stuck", NEW m \in all \ started PROVE ~(needs[m] \subseteq started)
    <3>1. PICK j \in DOMAIN registered_modules : registered_modules[j].module = m
      BY <2>1, <2>3
    <3> QED BY <1>1, <2>3, <3>1 DEF IInv, Passed, Waiting
  <2>4. ASSUME pc = "stuck" PROVE \E m \in all : m \notin started
    <3>1. 1 \in DOMAIN registered_modules
      BY <1>1, <2>4, ListFacts DEF IInv, Passed
    <3> QED BY <1>1, <3>1 DEF IInv, Waiting
  <2> QED BY <2>2, <2>3, <2>4 DEF GivesUpOnlyWhenStuck
<1> QED BY <1>1, Inductive, PTL

-----------------------------------------------------------------------------
(* The refinement of StartupOrder.                                         *)

LEMMA StartRefines ==
  ASSUME IInv, StartModule
  PROVE  Order!Start(registered_modules[i].module)
<1> DEFINE m == registered_modules[i].module
           e == Len(end_functions)
<1>1. TypeOK /\ Ready /\ pc = "run" /\ graph \in Graph
      /\ m \in Module /\ m \notin started /\ needs[m] \subseteq started
  BY ReadyFacts DEF IInv, StartModule, TypeOK
<1>2. /\ end_functions' = WithEnd(m) /\ started' = started \cup {m}
      /\ graph' = graph /\ pc' = pc
  BY DEF StartModule
<1> HIDE DEF m
<1>3. e \in Nat /\ end_functions \in Seq(Module) /\ DOMAIN end_functions = 1 .. e
  BY <1>1, ListFacts DEF TypeOK
<1>4. Live = {end_functions[k] : k \in 1 .. e}
  BY <1>1, <1>3 DEF Live
<1>5. Live' = {end_functions'[k] : k \in DOMAIN end_functions'}
  BY <1>1, <1>2 DEF Live
<1>6. Live' = Live \cup ({m} \cap Ends)
  <2>1. CASE m \notin Ends
    <3>1. end_functions' = end_functions
      BY <1>2, <2>1 DEF WithEnd
    <3>2. Live' = Live
      BY <1>3, <1>4, <1>5, <3>1
    <3> QED BY <2>1, <3>2
  <2>2. CASE m \in Ends
    <3>1. /\ end_functions' \in Seq(Module) /\ Len(end_functions') = e + 1
          /\ \A k \in 1 .. e : end_functions'[k] = end_functions[k]
          /\ end_functions'[e + 1] = m
      BY <1>1, <1>2, <1>3, <2>2, AppendProperties DEF WithEnd
    <3>2. DOMAIN end_functions' = 1 .. e + 1
      BY <3>1, LenProperties
    <3>3. \A k \in 1 .. e + 1 : k \in 1 .. e \/ k = e + 1
      BY <1>3
    <3>4. 1 .. e \subseteq 1 .. e + 1 /\ e + 1 \in 1 .. e + 1
      BY <1>3
    <3> HIDE DEF e
    <3>5. Live' = Live \cup {m}
      BY <1>4, <1>5, <3>1, <3>2, <3>3, <3>4
    <3> QED BY <2>2, <3>5
  <2> QED BY <2>1, <2>2
<1>7. needs[m] \cap Ends \subseteq Live
  BY <1>1, <1>3, <1>4 DEF IInv, EndsInOrder
<1>8. needs' = needs
  BY <1>2 DEF needs
<1> QED BY <1>1, <1>2, <1>6, <1>7, <1>8 DEF Order!Start, m

LEMMA EndRefines ==
  ASSUME IInv, EndModule
  PROVE  Order!End(end_functions[i])
<1>1. TypeOK /\ pc = "end" /\ i \in Nat /\ i > 0 /\ i <= Len(end_functions)
      /\ DOMAIN end_functions = 1 .. Len(end_functions) /\ Len(end_functions) \in Nat
  BY ListFacts DEF IInv, EndModule, TypeOK
<1>2. i' = i - 1 /\ pc' = pc /\ UNCHANGED <<graph, end_functions, started>>
  BY DEF EndModule
<1>3. Live = {end_functions[k] : k \in 1 .. i} /\ Live' = {end_functions[k] : k \in 1 .. i - 1}
  BY <1>1, <1>2 DEF Live
<1>4. \A k \in 1 .. i : k \in DOMAIN end_functions /\ (k \in 1 .. i - 1 \/ k = i)
  BY <1>1
<1>5. 1 .. i - 1 \subseteq 1 .. i /\ i \in 1 .. i /\ \A k \in 1 .. i - 1 : k # i /\ k < i
  BY <1>1
<1>6. \A j, k \in 1 .. i :
        /\ end_functions[j] = end_functions[k] => j = k
        /\ end_functions[j] \in needs[end_functions[k]] => j < k
  BY <1>4 DEF IInv, EndsInOrder
<1>7. Live' = Live \ {end_functions[i]}
  BY <1>3, <1>4, <1>5, <1>6
<1>8. \A n \in Live : end_functions[i] \notin needs[n]
  <2> SUFFICES ASSUME NEW k \in 1 .. i PROVE end_functions[i] \notin needs[end_functions[k]]
    BY <1>3
  <2> QED BY <1>1, <1>5, <1>6
<1>9. end_functions[i] \in Live /\ needs' = needs
  BY <1>2, <1>3, <1>5 DEF needs
<1> QED BY <1>2, <1>7, <1>8, <1>9 DEF Order!End

\* The other steps leave what has been started, and what is to be ended, alone.
LEMMA OthersStutter ==
  ASSUME IInv,
         \/ startup_manager_register \/ startup_manager_run \/ PassOver \/ InitFails
         \/ NextPass \/ RunReturns \/ startup_manager_run_end \/ UNCHANGED vars
  PROVE  UNCHANGED <<needs, started, Live>>
<1>1. UNCHANGED <<graph, end_functions, started>>
  BY DEF startup_manager_register, startup_manager_run, PassOver, InitFails, NextPass,
         RunReturns, startup_manager_run_end, vars
<1>2. DOMAIN end_functions = 1 .. Len(end_functions)
  BY ListFacts DEF IInv
<1>3. \/ pc # "end" /\ pc' # "end"
      \/ pc # "end" /\ pc' = "end" /\ i' = Len(end_functions)
      \/ pc' = pc /\ i' = i
  BY DEF startup_manager_register, startup_manager_run, PassOver, InitFails, NextPass,
         RunReturns, startup_manager_run_end, vars, Ready, AtEntry, Finished
<1>4. Live' = Live
  BY <1>1, <1>2, <1>3 DEF Live
<1> QED BY <1>1, <1>4 DEF needs

(***************************************************************************)
(* Modules are started after those they depend on and ended before them,   *)
(* in every program whose dependencies the manager is given.               *)
(***************************************************************************)
THEOREM KeepsOrder == Spec => OrderSpec
<1>1. Init => Order!Init
  <2> SUFFICES ASSUME Init PROVE Order!Init
    OBVIOUS
  <2>1. graph \in Graph /\ end_functions = <<>> /\ pc = "register" /\ started = {}
    BY DEF Init
  <2> QED BY <2>1, GraphFacts DEF Order!Init, Live
<1>2. IInv /\ [Next]_vars => [Order!Next]_<<needs, started, Live>>
  <2> SUFFICES ASSUME IInv, [Next]_vars PROVE [Order!Next]_<<needs, started, Live>>
    OBVIOUS
  <2>1. CASE StartModule
    <3>1. registered_modules[i].module \in Module
      BY <2>1, ReadyFacts DEF StartModule
    <3> QED BY <2>1, <3>1, StartRefines DEF Order!Next
  <2>2. CASE EndModule
    <3>1. end_functions[i] \in Module
      BY <2>2, ListFacts DEF IInv, EndModule, TypeOK
    <3> QED BY <2>2, <3>1, EndRefines DEF Order!Next
  <2> QED BY <2>1, <2>2, OthersStutter DEF Next
<1> QED BY <1>1, <1>2, Inductive, PTL DEF Spec, OrderSpec, Order!Spec

-----------------------------------------------------------------------------
(* The emulator's own modules: what a recording is written with is there.   *)

\* What the recorder's end function uses of the parts that every recording needs.
Core == {"creator", "memory", "machine", "event"}

At(k, m) == k \in DOMAIN registered_modules /\ registered_modules[k].module = m

\* Until the memory has been started the walk has not moved it, nor the pools,
\* nor, before the privileges are dropped, the module that drops them.  From then
\* on the entries up to the pools have all been passed in this pass, or the
\* creator is started on the way to the memory.
MemoryComes ==
  /\ At(20, "memory") /\ At(21, "mempool")
  /\ "setuid" \notin started => At(30, "setuid")
  /\ "creator" \notin started => At(3, "creator")
  /\ "setuid" \in started /\ i <= 21 => i <= 20 /\ (i > 3 => "creator" \in started)

\* An end function that comes after those four.
AfterUsed(k) ==
  \A m \in Core \cap Ends : \E j \in DOMAIN end_functions : j < k /\ end_functions[j] = m

EmulatorInv ==
  /\ \A m \in started : \E k \in DOMAIN order : order[k] = m
  /\ Emulator(graph) =>
       /\ "mempool" \in started => "memory" \in started
       /\ "memory" \in started => "creator" \in started
       /\ pc = "run" /\ "memory" \notin started => MemoryComes
       /\ \A k \in DOMAIN end_functions : end_functions[k] = "rzx" => AfterUsed(k)

\* The names that matter, and what they wait for.
LEMMA Names ==
  /\ DOMAIN Registered = 1 .. 44 /\ Len(Registered) = 44
  /\ Registered[3] = "creator" /\ Registered[20] = "memory" /\ Registered[21] = "mempool"
  /\ Registered[30] = "setuid"
  /\ {"creator", "memory", "mempool", "setuid", "debugger", "rzx"} \subseteq FuseModules
<1>1. /\ DOMAIN Registered = 1 .. 44 /\ Len(Registered) = 44
      /\ Registered[3] = "creator" /\ Registered[20] = "memory" /\ Registered[21] = "mempool"
      /\ Registered[30] = "setuid" /\ Registered[4] = "debugger" /\ Registered[27] = "rzx"
  BY DEF Registered
<1> QED BY <1>1 DEF FuseModules

LEMMA Dependencies ==
  /\ FuseNeeds["creator"] = {"setuid"} /\ FuseNeeds["memory"] = {"setuid"}
  /\ FuseNeeds["mempool"] = {"setuid"}
  /\ "mempool" \in FuseNeeds["debugger"]
  /\ {"debugger", "event", "machine"} \subseteq FuseNeeds["rzx"]
BY Names DEF FuseNeeds

\* All but three wait for the privileges to be dropped.
LEMMA OthersWait ==
  ASSUME NEW m \in FuseModules \ {"display", "libspectrum", "setuid"}
  PROVE  "setuid" \in FuseNeeds[m]
BY DEF FuseNeeds

\* The places in the order of what waits for the memory or the pools, and theirs.
Behind == <<1, 2, 4, 5, 6, 8, 12, 13, 20, 21, 22, 23, 27, 34, 36, 38, 40, 41, 42, 43, 44>>

LEMMA BehindIs ==
  /\ DOMAIN Behind = 1 .. 21
  /\ \A k \in 1 .. 21 : Behind[k] \in 1 .. 44
  /\ \A j, k \in 1 .. 21 : Behind[j] = Behind[k] => j = k
BY DEF Behind

LEMMA BehindWaits ==
  ASSUME NEW k \in 1 .. 21
  PROVE  LET m == Registered[Behind[k]]
         IN m \in {"memory", "mempool"} \/ FuseNeeds[m] \cap {"debugger", "memory"} # {}
              \/ m = "debugger"
<1> DEFINE m == Registered[Behind[k]]
<1>1. m \in {"memory", "mempool", "debugger", "if2", "usource", "beta", "didaktik",
             "disciple", "if1", "opus", "plusd", "speccyboot", "spectranet", "divide",
             "zxatasp", "zxcf", "ay", "ula", "rzx", "tape", "z80"}
  BY DEF Behind, Registered
<1>2. m \in FuseModules
  BY BehindIs, Names DEF FuseModules
<1> HIDE DEF m
<1>3. m \in {"if2", "usource", "beta", "didaktik",
             "disciple", "if1", "opus", "plusd", "speccyboot", "spectranet", "divide",
             "zxatasp", "zxcf"} => "memory" \in FuseNeeds[m]
  BY <1>2 DEF FuseNeeds
<1>4. m \in {"ay", "ula", "rzx", "tape", "z80"} => "debugger" \in FuseNeeds[m]
  BY <1>2 DEF FuseNeeds
<1> QED BY <1>1, <1>3, <1>4 DEF m

\* As many entries are left as there are modules not started.
LEMMA AtLeast ==
  ASSUME IInv, pc = "run", NEW n \in Nat, NEW f,
         \A k \in 1 .. n : f[k] \in DOMAIN order /\ order[f[k]] \notin started,
         \A j, k \in 1 .. n : f[j] = f[k] => j = k
  PROVE  n <= Len(registered_modules)
<1> DEFINE e == Len(registered_modules)
           place == [k \in 1 .. n |-> CHOOSE j \in 1 .. e :
                                        registered_modules[j].module = order[f[k]]]
<1>1. e \in Nat /\ DOMAIN registered_modules = 1 .. e /\ TypeOK /\ graph \in Graph
  BY ListFacts DEF IInv, TypeOK
<1>2. ASSUME NEW k \in 1 .. n
      PROVE  place[k] \in 1 .. e /\ registered_modules[place[k]].module = order[f[k]]
  <2>1. \E j \in 1 .. e : registered_modules[j].module = order[f[k]]
    BY <1>1 DEF IInv, Reached
  <2>2. place[k] = CHOOSE j \in 1 .. e : registered_modules[j].module = order[f[k]]
    OBVIOUS
  <2> HIDE DEF place
  <2> QED BY <2>1, <2>2
<1>3. place \in [1 .. n -> 1 .. e]
  BY <1>2
<1> HIDE DEF place
<1>4. \A j, k \in 1 .. n : place[j] = place[k] => j = k
  <2> SUFFICES ASSUME NEW j \in 1 .. n, NEW k \in 1 .. n, place[j] = place[k] PROVE j = k
    OBVIOUS
  <2>1. order[f[j]] = order[f[k]]
    BY <1>2
  <2>2. f[j] = f[k]
    BY <1>1, <2>1, GraphFacts
  <2> QED BY <2>2
<1>5. /\ IsFiniteSet(1 .. n) /\ IsFiniteSet(1 .. e)
      /\ Cardinality(1 .. n) = n /\ Cardinality(1 .. e) = e
  <2>1. 1 \in Int /\ n \in Int /\ e \in Int
    BY <1>1
  <2>2. /\ IsFiniteSet(1 .. n) /\ Cardinality(1 .. n) = IF 1 > n THEN 0 ELSE n - 1 + 1
        /\ IsFiniteSet(1 .. e) /\ Cardinality(1 .. e) = IF 1 > e THEN 0 ELSE e - 1 + 1
    <3> HIDE DEF e
    <3> QED BY <2>1, FS_Interval
  <2> QED BY <1>1, <2>2
<1>6. ~(e < n)
  <2> SUFFICES ASSUME e < n PROVE FALSE
    OBVIOUS
  <2> DEFINE S == 1 .. n
             T == 1 .. e
  <2>1. /\ IsFiniteSet(S) /\ IsFiniteSet(T) /\ Cardinality(T) < Cardinality(S)
        /\ place \in [S -> T] /\ \A j, k \in S : place[j] = place[k] => j = k
    BY <1>3, <1>4, <1>5
  <2> HIDE DEF S, T
  <2>2. \E j, k \in S : j # k /\ place[j] = place[k]
    BY <2>1, FS_PigeonHole
  <2> QED BY <2>1, <2>2
<1> QED BY <1>1, <1>6

\* What the emulator's program makes of the dependencies.
LEMMA EmulatorFacts ==
  ASSUME IInv, Emulator(graph)
  PROVE  /\ order = Registered /\ DOMAIN order = 1 .. 44
         /\ \A m \in FuseModules : needs[m] = FuseNeeds[m]
         /\ \A m \in started : needs[m] \subseteq started
BY Names DEF Emulator, order, needs, IInv

\* The memory and the pools are still in the list with all that waits for them.
LEMMA StillLong ==
  ASSUME IInv, Emulator(graph), pc = "run", "memory" \notin started, "mempool" \notin started,
         NEW m \in FuseModules, m \notin started, needs[m] \subseteq started,
         m \notin {"memory", "mempool"}
  PROVE  Len(registered_modules) >= 22
<1>1. /\ order = Registered /\ DOMAIN order = 1 .. 44
      /\ \A p \in FuseModules : needs[p] = FuseNeeds[p]
      /\ \A p \in started : needs[p] \subseteq started
  BY EmulatorFacts
<1>2. "debugger" \notin started
  BY <1>1, Names, Dependencies
<1>3. PICK place \in 1 .. 44 : Registered[place] = m
  BY Names DEF FuseModules
<1>4. ASSUME NEW k \in 1 .. 21
      PROVE  Registered[Behind[k]] \notin started /\ Registered[Behind[k]] # m
  <2> DEFINE p == Registered[Behind[k]]
  <2>1. p \in {"memory", "mempool"} \/ FuseNeeds[p] \cap {"debugger", "memory"} # {}
        \/ p = "debugger"
    BY BehindWaits
  <2>2. p \in FuseModules
    BY BehindIs, Names DEF FuseModules
  <2> HIDE DEF p
  <2>3. p = "debugger" => p # m /\ p \notin started
    BY <1>1, <1>2, Names, Dependencies
  <2>4. p \notin started /\ p # m
    BY <1>1, <1>2, <2>1, <2>2, <2>3
  <2> QED BY <2>4 DEF p
<1> DEFINE f == [k \in 1 .. 22 |-> IF k = 22 THEN place ELSE Behind[k]]
<1>5. \A k \in 1 .. 22 : k # 22 => k \in 1 .. 21
  OBVIOUS
<1>6. \A k \in 1 .. 22 : f[k] \in DOMAIN order /\ order[f[k]] \notin started
  BY <1>1, <1>3, <1>4, <1>5, BehindIs
<1>7. \A j, k \in 1 .. 22 : f[j] = f[k] => j = k
  BY <1>3, <1>4, <1>5, BehindIs
<1> HIDE DEF f
<1>8. 22 <= Len(registered_modules)
  BY <1>6, <1>7, AtLeast
<1> QED BY <1>8, ListFacts DEF IInv

\* Before the privileges are dropped nearly all are there.
LEMMA StillFull ==
  ASSUME IInv, Emulator(graph), pc = "run", "setuid" \notin started
  PROVE  Len(registered_modules) >= 31
<1>1. /\ order = Registered /\ DOMAIN order = 1 .. 44
      /\ \A p \in FuseModules : needs[p] = FuseNeeds[p]
      /\ \A p \in started : needs[p] \subseteq started
  BY EmulatorFacts
<1> DEFINE f == [k \in 1 .. 31 |-> IF k = 2 THEN 1 ELSE k + 13]
<1>3. ASSUME NEW k \in 1 .. 31  PROVE f[k] \in DOMAIN order /\ order[f[k]] \notin started
  <2>1. f[k] \in 1 .. 44 /\ f[k] # 7 /\ f[k] # 15
    OBVIOUS
  <2> DEFINE p == Registered[f[k]]
  <2> HIDE DEF f
  <2>2. p \in FuseModules /\ p # "display" /\ p # "libspectrum"
    BY <2>1 DEF FuseModules, Registered
  <2>3. p = "setuid" \/ "setuid" \in FuseNeeds[p]
    BY <2>2, OthersWait
  <2> QED BY <1>1, <2>1, <2>2, <2>3
<1>4. \A j, k \in 1 .. 31 : f[j] = f[k] => j = k
  OBVIOUS
<1> HIDE DEF f
<1>5. 31 <= Len(registered_modules)
  BY <1>3, <1>4, AtLeast
<1> QED BY <1>5, ListFacts DEF IInv

\* Where nothing is started and nothing is added to the walk.
LEMMA NotStarted ==
  ASSUME EmulatorInv, UNCHANGED <<graph, end_functions, started>>,
         Emulator(graph) /\ pc' = "run" /\ "memory" \notin started => MemoryComes'
  PROVE  EmulatorInv'
BY DEF EmulatorInv, Emulator, order, AfterUsed

LEMMA RunEmulator == ASSUME IInv, EmulatorInv, startup_manager_run PROVE EmulatorInv'
<1>1. /\ UNCHANGED <<graph, registered_modules, end_functions, started>>
      /\ i' = 1 /\ pc = "register" /\ Len(registered_modules) = Len(order)
  BY DEF startup_manager_run
<1>2. ASSUME Emulator(graph) PROVE MemoryComes'
  <2>1. DOMAIN registered_modules = 1 .. 44 /\ order = Registered
    BY <1>1, <1>2, ListFacts, EmulatorFacts, Names DEF IInv
  <2>2. \A k \in 1 .. 44 : registered_modules[k].module = Registered[k]
    BY <1>1, <2>1 DEF IInv, Registering
  <2>3. started = {}
    BY <1>1 DEF IInv, Registering
  <2> QED BY <1>1, <2>1, <2>2, <2>3, Names DEF MemoryComes, At
<1> QED BY <1>1, <1>2, NotStarted

\* Neither the creator nor the memory is passed once the privileges are dropped.
LEMMA PassOverEmulator == ASSUME IInv, EmulatorInv, PassOver PROVE EmulatorInv'
<1>1. /\ UNCHANGED <<graph, registered_modules, end_functions, started, pc>>
      /\ i' = i + 1 /\ i \in Nat /\ pc = "run" /\ i \in DOMAIN registered_modules
      /\ registered_modules[i].dependencies # {}
  BY DEF PassOver, AtEntry, Ready, IInv, TypeOK
<1>2. registered_modules[i].dependencies = needs[registered_modules[i].module] \ started
  BY <1>1 DEF IInv, Waiting
<1>3. ASSUME Emulator(graph), "memory" \notin started PROVE MemoryComes'
  <2>1. MemoryComes
    BY <1>1, <1>3 DEF EmulatorInv
  <2>2. needs["creator"] = {"setuid"} /\ needs["memory"] = {"setuid"}
    BY <1>3, EmulatorFacts, Names, Dependencies
  <2>3. "setuid" \in started /\ i <= 21 => i # 20 /\ (i = 3 => "creator" \in started)
    BY <1>1, <1>2, <2>1, <2>2 DEF MemoryComes, At
  <2> QED BY <1>1, <2>1, <2>3 DEF MemoryComes, At
<1> QED BY <1>1, <1>3, NotStarted

LEMMA OthersEmulator ==
  ASSUME IInv, EmulatorInv,
         \/ startup_manager_register \/ InitFails \/ NextPass \/ RunReturns
         \/ startup_manager_run_end \/ EndModule \/ UNCHANGED vars
  PROVE  EmulatorInv'
<1>1. UNCHANGED <<graph, end_functions, started>>
  BY DEF startup_manager_register, InitFails, NextPass, RunReturns,
         startup_manager_run_end, EndModule, vars
<1>2. ASSUME pc' = "run", "memory" \notin started, Emulator(graph) PROVE MemoryComes'
  <2>1. pc = "run" /\ registered_modules' = registered_modules /\ (i' = 1 \/ i' = i)
    BY <1>2 DEF startup_manager_register, InitFails, NextPass, RunReturns,
         startup_manager_run_end, EndModule, vars, Finished
  <2>2. MemoryComes
    BY <1>2, <2>1 DEF EmulatorInv
  <2> QED BY <1>1, <2>1, <2>2 DEF MemoryComes, At
<1> QED BY <1>1, <1>2, NotStarted

LEMMA StartEmulator == ASSUME IInv, EmulatorInv, StartModule PROVE EmulatorInv'
<1> DEFINE n == Len(registered_modules)
           m == registered_modules[i].module
<1>1. /\ TypeOK /\ pc = "run" /\ i \in DOMAIN registered_modules /\ i \in Nat
      /\ m \in Module /\ m \notin started /\ needs[m] \subseteq started
      /\ n \in Nat /\ DOMAIN registered_modules = 1 .. n /\ i \in 1 .. n
  BY ReadyFacts, ListFacts DEF IInv, StartModule
<1>2. /\ started' = started \cup {m} /\ end_functions' = WithEnd(m)
      /\ registered_modules' = RemoveIndexFast(remove_dependency(m), i)
      /\ graph' = graph /\ pc' = pc /\ i' = i
  BY DEF StartModule
<1>3. /\ DOMAIN registered_modules' = 1 .. n - 1
      /\ \A j \in 1 .. n - 1 : j # i => registered_modules'[j].module = registered_modules[j].module
  <2> HIDE DEF m
  <2>1. /\ DOMAIN registered_modules' = 1 .. Len(registered_modules) - 1
        /\ \A j \in DOMAIN registered_modules' :
             LET old == IF j = i THEN Len(registered_modules) ELSE j
             IN /\ old \in DOMAIN registered_modules /\ old # i
                /\ registered_modules'[j].module = registered_modules[old].module
                /\ registered_modules'[j].dependencies
                     = registered_modules[old].dependencies \ {m}
    <3>1. TypeOK /\ i \in DOMAIN registered_modules /\ m \in Module
      BY <1>1
    <3>2. registered_modules' = RemoveIndexFast(remove_dependency(m), i)
      BY <1>2
    <3> QED BY <3>1, <3>2, TakenOut
  <2> QED BY <2>1
<1>4. order' = order /\ (Emulator(graph)' <=> Emulator(graph))
      /\ \E k \in DOMAIN order : order[k] = m
  BY <1>1, <1>2 DEF order, Emulator, IInv, Waiting
<1>5. (\A p \in started : \E k \in DOMAIN order : order[k] = p)'
  BY <1>2, <1>4 DEF EmulatorInv
<1> HIDE DEF m, n
<1>6. ASSUME Emulator(graph) PROVE
        /\ "mempool" \in started' => "memory" \in started'
        /\ "memory" \in started' => "creator" \in started'
        /\ "memory" \notin started' => MemoryComes'
  <2>1. /\ order = Registered /\ DOMAIN order = 1 .. 44 /\ m \in FuseModules
        /\ \A p \in FuseModules : needs[p] = FuseNeeds[p]
        /\ \A p \in started : needs[p] \subseteq started
    BY <1>4, <1>6, EmulatorFacts, Names DEF FuseModules
  <2>2. CASE "memory" \in started
    BY <1>2, <1>6, <2>2 DEF EmulatorInv
  <2>3. CASE "memory" \notin started
    <3>1. "mempool" \notin started /\ MemoryComes
      BY <1>1, <1>6, <2>3 DEF EmulatorInv
    <3>2. m \in {"memory", "mempool"} => i \in {20, 21} /\ "setuid" \in started
      <4>1. m \in {"memory", "mempool"} => "setuid" \in needs[m]
        BY <2>1, Names, Dependencies
      <4>2. m = "memory" => i = 20
        BY <1>1, <3>1 DEF MemoryComes, At, IInv, Waiting, m
      <4>3. m = "mempool" => i = 21
        BY <1>1, <3>1 DEF MemoryComes, At, IInv, Waiting, m
      <4> QED BY <1>1, <4>1, <4>2, <4>3
    <3>3. m # "mempool"
      <4>1. m = "mempool" => i = 21
        BY <1>1, <3>1 DEF MemoryComes, At, IInv, Waiting, m
      <4> QED BY <3>1, <3>2, <4>1 DEF MemoryComes
    <3>4. m = "memory" => "creator" \in started
      BY <3>1, <3>2 DEF MemoryComes
    <3>5. ASSUME m # "memory" PROVE MemoryComes'
      <4>1. n >= 22
        BY <1>1, <1>6, <2>1, <2>3, <3>1, <3>3, <3>5, StillLong DEF n
      <4>2. i # 20 /\ i # 21
        BY <3>1, <3>3, <3>5 DEF MemoryComes, At, m
      <4>3. 20 \in 1 .. n - 1 /\ 21 \in 1 .. n - 1 /\ 3 \in 1 .. n - 1
        BY <1>1, <4>1
      <4>4. At(20, "memory")' /\ At(21, "mempool")'
        BY <1>3, <3>1, <4>2, <4>3 DEF MemoryComes, At
      <4>5. "creator" \notin started' => At(3, "creator")'
        BY <1>2, <1>3, <3>1, <4>3 DEF MemoryComes, At, m
      <4>6. ASSUME "setuid" \notin started' PROVE At(30, "setuid")'
        <5>1. n >= 31 /\ "setuid" \notin started
          BY <1>1, <1>2, <1>6, <4>6, StillFull DEF n
        <5>2. 30 \in 1 .. n - 1 /\ i # 30
          BY <1>1, <1>2, <3>1, <4>6, <5>1 DEF MemoryComes, At, m
        <5> QED BY <1>3, <3>1, <5>1, <5>2 DEF MemoryComes, At
      <4>7. ASSUME "setuid" \in started', i <= 21
            PROVE  i <= 20 /\ (i > 3 => "creator" \in started')
        <5>1. m = "setuid" => i = 30
          BY <1>1, <3>1 DEF MemoryComes, At, IInv, Waiting, m
        <5> QED BY <1>2, <3>1, <4>7, <5>1 DEF MemoryComes
      <4> QED BY <1>2, <4>4, <4>5, <4>6, <4>7 DEF MemoryComes
    <3> QED BY <1>2, <2>3, <3>1, <3>3, <3>4, <3>5
  <2> QED BY <2>2, <2>3
<1>7. ASSUME Emulator(graph), NEW k \in DOMAIN end_functions', end_functions'[k] = "rzx"
      PROVE  AfterUsed(k)'
  <2> DEFINE e == Len(end_functions)
  <2>1. e \in Nat /\ DOMAIN end_functions = 1 .. e /\ end_functions \in Seq(Module)
    BY <1>1, ListFacts DEF TypeOK
  <2>2. CASE m \notin Ends
    BY <1>2, <1>7, <2>2 DEF WithEnd, EmulatorInv, AfterUsed
  <2>3. CASE m \in Ends
    <3>1. /\ Len(end_functions') = e + 1
          /\ \A j \in 1 .. e : end_functions'[j] = end_functions[j]
          /\ end_functions'[e + 1] = m /\ end_functions' \in Seq(Module)
      BY <1>1, <1>2, <2>1, <2>3, AppendProperties DEF WithEnd
    <3>2. DOMAIN end_functions' = 1 .. e + 1
      BY <3>1, LenProperties
    <3>3. 1 .. e \subseteq 1 .. e + 1 /\ (k \in 1 .. e \/ k = e + 1)
      BY <1>7, <2>1, <3>2
    <3>4. CASE k \in 1 .. e
      <4>1. AfterUsed(k)
        BY <1>7, <2>1, <3>1, <3>4 DEF EmulatorInv
      <4>2. ASSUME NEW p \in Core \cap Ends
            PROVE  \E j \in 1 .. e + 1 : j < k /\ end_functions'[j] = p
        <5>1. PICK j \in 1 .. e : j < k /\ end_functions[j] = p
          BY <2>1, <4>1 DEF AfterUsed
        <5> QED BY <2>1, <3>1, <5>1
      <4> QED BY <3>2, <4>2 DEF AfterUsed
    <3>5. CASE k = e + 1
      <4>1. m = "rzx"
        BY <1>7, <3>1, <3>5
      <4>2. /\ \A p \in FuseModules : needs[p] = FuseNeeds[p]
            /\ \A p \in started : needs[p] \subseteq started
        BY <1>7, EmulatorFacts
      <4>3. {"debugger", "event", "machine"} \subseteq started
        BY <1>1, <4>1, <4>2, Names, Dependencies
      <4>4. "mempool" \in started
        BY <4>2, <4>3, Names, Dependencies
      <4>5. Core \subseteq started
        BY <1>7, <4>3, <4>4 DEF EmulatorInv, Core
      <4>6. ASSUME NEW p \in Core \cap Ends
            PROVE  \E j \in 1 .. e + 1 : j < k /\ end_functions'[j] = p
        <5>1. PICK j \in 1 .. e : end_functions[j] = p
          BY <2>1, <4>5 DEF IInv, EndsInOrder
        <5> QED BY <2>1, <3>1, <3>5, <5>1
      <4> QED BY <3>2, <4>6 DEF AfterUsed
    <3> QED BY <3>3, <3>4, <3>5
  <2> QED BY <2>2, <2>3
<1> QED BY <1>2, <1>4, <1>5, <1>6, <1>7 DEF EmulatorInv

LEMMA EmulatorAlways == Spec => []EmulatorInv
<1>1. Init => EmulatorInv
  BY DEF Init, EmulatorInv
<1>2. IInv /\ EmulatorInv /\ [Next]_vars => EmulatorInv'
  BY RunEmulator, StartEmulator, PassOverEmulator, OthersEmulator DEF Next
<1> QED BY <1>1, <1>2, Inductive, PTL DEF Spec

(***************************************************************************)
(* The recorder's end function writes a recording under way with the       *)
(* creator and the memory, which it has not declared, and for the machine. *)
(* They are still there, whichever init functions fail and whichever       *)
(* modules have end functions: by the order of registration the walk comes *)
(* to the creator and the memory before the pools the debugger waits for,  *)
(* and the recorder waits for the debugger.  Nothing is said of the        *)
(* interfaces whose state goes into the last snapshot: see EndUsesLive.    *)
(***************************************************************************)
CoreLive ==
  pc = "end" /\ i > 0 /\ end_functions[i] = "rzx" =>
    \A m \in Core \cap Ends \cap started : m \in Live

THEOREM CoreStillLive == ASSUME RecorderInEmulator PROVE Spec => []CoreLive
<1>1. ASSUME IInv, EmulatorInv PROVE CoreLive
  <2> SUFFICES ASSUME pc = "end", i > 0, end_functions[i] = "rzx",
                      NEW m \in Core \cap Ends \cap started
               PROVE  m \in Live
    BY DEF CoreLive
  <2>1. i \in Nat /\ i \in DOMAIN end_functions /\ end_functions[i] \in Module
        /\ DOMAIN end_functions = 1 .. Len(end_functions)
    BY <1>1, ListFacts DEF IInv, TypeOK
  <2>2. end_functions[i] = "rzx" /\ m \in Core
    OBVIOUS
  <2>3. "rzx" \in started /\ graph \in Graph
    BY <1>1, <2>1, <2>2 DEF IInv, EndsInOrder, TypeOK
  <2>4. Emulator(graph)
    BY <1>1, <2>3 DEF RecorderInEmulator, EmulatorInv, order
  <2>5. PICK j \in DOMAIN end_functions : j < i /\ end_functions[j] = m
    BY <1>1, <2>1, <2>2, <2>4 DEF EmulatorInv, AfterUsed
  <2>6. j \in 1 .. i
    BY <2>1, <2>5
  <2> QED BY <2>5, <2>6 DEF Live
<1> QED BY <1>1, Inductive, EmulatorAlways, PTL

=============================================================================
