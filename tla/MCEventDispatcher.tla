------------------------- MODULE MCEventDispatcher -------------------------
(* Model checking of EventDispatcher: the bounds are the sets of callers   *)
(* and of functors, every functor being submitted at most once.            *)
EXTENDS EventDispatcher
=============================================================================
