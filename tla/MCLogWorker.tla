---------------------------- MODULE MCLogWorker ----------------------------
(* Model checking of LogWorker: the bounds are the messages, the size of   *)
(* the pool, the size of a buffer and the number of flush() calls.         *)
EXTENDS LogWorker
=============================================================================
