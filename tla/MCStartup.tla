------------------------------ MODULE MCStartup ------------------------------
(* TLC instance of StartupManager: every graph of three modules, which may  *)
(* depend on each other, on themselves and on one that is not registered,   *)
(* and the graph of the emulator.                                           *)
EXTENDS FuseStartup

Small == {"a", "b", "c"}
MCModule == FuseModules \cup Small \cup {"absent"}

\* The small programs are named by what their modules depend on.
MCGraph == {<<>>} \cup [Small -> SUBSET (Small \cup {"absent"})]
MCOrder == [g \in MCGraph |-> IF g = <<>> THEN Registered ELSE <<"a", "b", "c">>]
MCNeeds == [g \in MCGraph |-> [m \in MCModule |->
  IF m \in DOMAIN g THEN g[m] ELSE IF g = <<>> /\ m \in FuseModules THEN FuseNeeds[m] ELSE {}]]

MCInits == FuseInits \cup {"b"}
MCEnds == FuseEnds \cup {"a", "c"}
MCUses == [m \in MCModule |-> IF m = "rzx" THEN RzxEndUses \cap MCModule ELSE {}]
MCOvertaken == {"beta", "didaktik", "disciple", "opus", "spectranet"} \cap MCModule

\* The theorem on what the recorder's end function finds is about this instance too.
ASSUME RecorderAssumption == RecorderInEmulator

=============================================================================
