----------------------------- MODULE FuseStartup -----------------------------
(* What the parts of the emulator register with the start-up manager.       *)
EXTENDS StartupManager

\* Mutant: the debugger, and with it the recorder that depends on it, can be
\* started in the first pass, and so before the creator and the memory.
Registered_debugger_later ==
  <<"display", "libspectrum", "setuid", "event", "mempool", "machine", "debugger", "rzx",
    "creator", "memory">>

\* The calls of run_startup_manager, in order.
Registered ==
  <<"ay", "beta", "creator", "debugger", "didaktik", "disciple", "display", "divide",
    "event", "fdd", "fuller", "if1", "if2", "kempmouse", "libspectrum", "libxml2",
    "machine", "machines_periph", "melodik", "memory", "mempool", "opus", "plusd",
    "printer", "profile", "psg", "rzx", "scld", "settings_end", "setuid", "simpleide",
    "slt", "sound", "speccyboot", "specdrum", "spectranet", "spectrum", "tape", "timer",
    "ula", "usource", "z80", "zxatasp", "zxcf">>

FuseModules == {Registered[k] : k \in DOMAIN Registered}

\* Nearly all of them wait for the root privileges to be dropped.
FuseNeeds == [m \in FuseModules |->
  CASE m = "display" -> {}
    [] m = "libspectrum" -> {"display"}
    [] m = "setuid" -> {"display", "libspectrum"}
    [] m \in {"fdd", "spectrum", "timer"} -> {"setuid", "event"}
    [] m = "debugger" -> {"setuid", "event", "mempool"}
    [] m \in {"ay", "ula"} -> {"setuid", "debugger"}
    [] m \in {"if2", "usource"} -> {"setuid", "memory"}
    [] m \in {"beta", "didaktik", "disciple", "if1", "opus", "plusd", "speccyboot",
              "spectranet"} -> {"setuid", "memory", "debugger"}
    [] m \in {"divide", "zxatasp", "zxcf"} -> {"setuid", "memory", "debugger", "display"}
    [] m = "printer" -> {"setuid", "machine"}
    [] m = "rzx" -> {"setuid", "debugger", "event", "machine"}
    [] m = "simpleide" -> {"setuid", "display"}
    [] m \in {"tape", "z80"} -> {"setuid", "debugger", "event"}
    [] OTHER -> {"setuid"}]

FuseInits == FuseModules \ {"settings_end", "sound"}

FuseEnds ==
  {"beta", "creator", "debugger", "didaktik", "disciple", "divide", "event", "if1",
   "machine", "memory", "mempool", "opus", "plusd", "printer", "psg", "rzx",
   "settings_end", "simpleide", "sound", "speccyboot", "spectranet", "tape", "timer",
   "usource", "zxatasp", "zxcf"} \cap FuseModules

\* The interfaces whose part of a snapshot, when they are in use, is read from
\* what their end functions free: disk controllers and the network chip.
Snapshotted == {"beta", "didaktik", "disciple", "opus", "plusd", "spectranet"}

\* A recording under way is ended with a snapshot and written with the creator.
RzxEndUses == {"creator", "memory", "machine", "event", "settings_end"} \cup Snapshotted

\* A program that registers what the emulator does.
Emulator(g) ==
  /\ OrderOf[g] = Registered
  /\ \A m \in FuseModules : NeedsOf[g][m] = FuseNeeds[m]

\* The recorder is only found in the emulator.
RecorderInEmulator ==
  \A g \in Graph : (\E k \in DOMAIN OrderOf[g] : OrderOf[g][k] = "rzx") => Emulator(g)

=============================================================================
