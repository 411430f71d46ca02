--------------------------- MODULE MCRzxRecording ---------------------------
(* RzxRecording with a program that reads a key or nothing in a frame.      *)
EXTENDS RzxRecording

MCIns == {"none", "key"}
MCEndsInEI == {"none"}
MCAutosaveAges == {4}
MCSwitchedAt == {3, 5}
=============================================================================
