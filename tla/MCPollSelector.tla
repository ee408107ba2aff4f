---------------------------- MODULE MCPollSelector ----------------------------
(* Model checking of PollSelector: the only bound is the set of descriptors.  *)
EXTENDS PollSelector
===============================================================================
