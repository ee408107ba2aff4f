---------------------------- MODULE MCThreadPool ----------------------------
(* Model checking of ThreadPool: the bounds are the sets of threads and of *)
(* tasks and the size of the queue.                                        *)
EXTENDS ThreadPool
=============================================================================
