------------------------------ MODULE MCLogFile ------------------------------
(* Model checking of LogFile: every kind of failure happens a bounded number  *)
(* of times.                                                                  *)
EXTENDS LogFile
==============================================================================
