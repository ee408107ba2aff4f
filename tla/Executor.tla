------------------------------ MODULE Executor ------------------------------
(***************************************************************************)
(* What EventDispatcher promises to the users of RunInEvd and              *)
(* SyncRunInEvd: a functor handed over by another thread is run by the     *)
(* loop thread at most once and in the order of the hand-overs; a functor  *)
(* submitted by the loop thread itself is run at once.                     *)
(* The promise says nothing about WHEN a handed over functor runs.         *)
(***************************************************************************)
EXTENDS Sequences, Naturals

CONSTANT Functors

VARIABLES
    posted,     \* functors handed over by other threads, in order
    ran,        \* those of them that the loop has run, in order
    inlined     \* functors the loop thread submitted to itself

execVars == <<posted, ran, inlined>>

Submitted == {posted[i] : i \in 1..Len(posted)} \cup inlined

Init ==
    /\ posted = <<>>
    /\ ran = <<>>
    /\ inlined = {}

Post(f) ==
    /\ f \notin Submitted
    /\ posted' = Append(posted, f)
    /\ UNCHANGED <<ran, inlined>>

RunNext ==
    /\ Len(ran) < Len(posted)
    /\ ran' = Append(ran, posted[Len(ran) + 1])
    /\ UNCHANGED <<posted, inlined>>

RunInline(f) ==
    /\ f \notin Submitted
    /\ inlined' = inlined \cup {f}
    /\ UNCHANGED <<posted, ran>>

Next ==
    \/ RunNext
    \/ \E f \in Functors : Post(f) \/ RunInline(f)

Spec == Init /\ [][Next]_execVars
=============================================================================
