------------------------------ MODULE MCW5100 ------------------------------
(* TLC instances of W5100.                                                  *)
EXTENDS W5100

=============================================================================
