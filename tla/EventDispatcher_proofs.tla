----------------------- MODULE EventDispatcher_proofs -----------------------
(***************************************************************************)
(* Proofs about EventDispatcher for any set of callers and functors.       *)
(***************************************************************************)
EXTENDS EventDispatcher, SeqLemmas

\* The batch is consumed before runPendingFunctor goes on.
BatchOnlyInRun == batch # <<>> => loop = "run"

\* A caller between its push and its return, and the functor it pushed.
InCall(c) ==
    pc[c] \in {"clear", "check", "wake", "spin"} /\ call[c].kind # "stop"

\* What makes SyncOutsideWindowRan inductive: a functor pushed outside the
\* Window is never found in the queue inside the Window, because the swap that
\* opens the Window takes it; so _pending_functor_done, set at the end of the
\* Window, speaks about it too.
PushOutsideWindow ==
    \A c \in Callers :
        InCall(c) /\ c \notin raced =>
            /\ call[c].f \in ToSet(posted)
            /\ call[c].f \in ToSet(pending) => loop \notin Window
            /\ done /\ pc[c] # "clear" => call[c].f \in ToSet(ran)

IInv == TypeOK /\ FunctorsConserved /\ BatchOnlyInRun /\ PushOutsideWindow

-----------------------------------------------------------------------------
\* The initial states are well typed.
LEMMA InitTypeOK == Init => TypeOK
<1> SUFFICES ASSUME Init PROVE TypeOK
  OBVIOUS
<1>1. [kind |-> "stop", f |-> NoFunctor] \in Calls
  BY DEF Calls
<1>2. call \in [Callers -> Calls] /\ pc \in [Callers -> CallStates]
  BY <1>1 DEF Init, CallStates
<1>3. <<>> \in Seq(Functors)
  BY EmptySeq
<1> QED
  BY <1>2, <1>3 DEF Init, TypeOK, LoopStates

\* Every step of the loop thread, of a caller and of a user keeps the types.
LEMMA NextTypeOK == TypeOK /\ [Next]_vars => TypeOK'
<1> SUFFICES ASSUME TypeOK, [Next]_vars PROVE TypeOK'
  OBVIOUS
<1> USE DEF TypeOK
<1>1. CASE UNCHANGED vars
  BY <1>1 DEF vars
<1>2. ASSUME NEW c \in Callers, NEW f \in Functors, NEW kind \in {"run", "sync"},
             Push(c, kind, f)
      PROVE  TypeOK'
  <2>1. [kind |-> kind, f |-> f] \in Calls
    BY DEF Calls
  <2>2. call' \in [Callers -> Calls] /\ pc' \in [Callers -> CallStates]
    BY <1>2, <2>1 DEF Push, CallStates
  <2>3. pending' \in Seq(Functors) /\ posted' \in Seq(Functors)
    BY <1>2 DEF Push
  <2>4. raced' \subseteq Callers
    BY <1>2 DEF Push
  <2>5. \A d \in Callers :
          /\ pc'[d] \in {"clear", "check"} => call'[d].kind \in {"run", "sync"}
          /\ pc'[d] = "spin" => call'[d].kind = "sync"
    BY <1>2 DEF Push
  <2> QED
    BY <1>2, <2>2, <2>3, <2>4, <2>5 DEF Push
<1>3. ASSUME NEW c \in Callers, ClearDone(c) PROVE TypeOK'
  BY <1>3 DEF ClearDone, CallStates, history
<1>4. ASSUME NEW c \in Callers, CheckCalling(c) PROVE TypeOK'
  BY <1>4 DEF CheckCalling, AfterWakeup, CallStates, evdVars, history
<1>5. ASSUME NEW c \in Callers, CallWakeup(c) PROVE TypeOK'
  BY <1>5 DEF CallWakeup, Wakeup, AfterWakeup, CallStates, history
<1>6. ASSUME NEW c \in Callers, SyncReturn(c) PROVE TypeOK'
  BY <1>6 DEF SyncReturn, CallStates, evdVars, history
<1>7. ASSUME NEW c \in Callers, Stop(c) PROVE TypeOK'
  <2>1. [kind |-> "stop", f |-> NoFunctor] \in Calls
    BY DEF Calls
  <2> QED
    BY <1>7, <2>1 DEF Stop, CallStates, history
<1>8. CASE Start
  BY <1>8 DEF Start, LoopStates, callVars, history
<1>9. CASE Select
  BY <1>9 DEF Select, LoopStates, callVars, history
<1>10. CASE HandleWakeup
  BY <1>10 DEF HandleWakeup, callVars, history
<1>11. ASSUME NEW f \in Functors, RunInline(f) PROVE TypeOK'
  BY <1>11 DEF RunInline, evdVars, callVars
<1>12. CASE StopInLoop
  BY <1>12 DEF StopInLoop, Wakeup, callVars, history
<1>13. CASE BeginCalling
  BY <1>13 DEF BeginCalling, LoopStates, callVars, history
<1>14. CASE SwapPending
  BY <1>14 DEF SwapPending, LoopStates, callVars, history
<1>15. CASE RunFunctor
  <2>1. ran' \in Seq(Functors) /\ batch' \in Seq(Functors)
    BY <1>15, HeadTailProperties, AppendProperties DEF RunFunctor
  <2> QED
    BY <1>15, <2>1 DEF RunFunctor, callVars
<1>16. CASE EndRun
  BY <1>16 DEF EndRun, LoopStates, callVars, history
<1>17. CASE EndCalling
  BY <1>17 DEF EndCalling, LoopStates, callVars, history
<1>18. CASE PublishDone
  BY <1>18 DEF PublishDone, LoopStates, callVars, history
<1>19. CASE CheckStop
  BY <1>19 DEF CheckStop, LoopStates, callVars, history
<1> QED
  BY <1>1, <1>2, <1>3, <1>4, <1>5, <1>6, <1>7, <1>8, <1>9, <1>10, <1>11,
     <1>12, <1>13, <1>14, <1>15, <1>16, <1>17, <1>18, <1>19
     DEF Next, LoopStep, CallerStep, Submit

\* The variables of the dispatcher and of its callers keep their types.
THEOREM TypeCorrect == Spec => []TypeOK
<1>1. Init => TypeOK
  BY InitTypeOK
<1>2. TypeOK /\ [Next]_vars => TypeOK'
  BY NextTypeOK
<1> QED
  BY <1>1, <1>2, PTL DEF Spec
-----------------------------------------------------------------------------
\* Pushes, the swap and the runs conserve the functors; only these three
\* actions touch the four sequences.
LEMMA NextConserved ==
    TypeOK /\ FunctorsConserved /\ BatchOnlyInRun /\ [Next]_vars
        => FunctorsConserved' /\ BatchOnlyInRun'
<1> SUFFICES ASSUME TypeOK, FunctorsConserved, BatchOnlyInRun, [Next]_vars
             PROVE  FunctorsConserved' /\ BatchOnlyInRun'
  OBVIOUS
<1>t. /\ pending \in Seq(Functors) /\ batch \in Seq(Functors)
      /\ posted \in Seq(Functors) /\ ran \in Seq(Functors)
  BY DEF TypeOK
<1>1. ASSUME NEW c \in Callers, NEW f \in Functors, NEW kind \in {"run", "sync"},
             Push(c, kind, f)
      PROVE  FunctorsConserved' /\ BatchOnlyInRun'
  <2>1. <<f>> \in Seq(Functors) /\ ran \o batch \in Seq(Functors)
    BY <1>t
  <2>2. /\ Append(posted, f) = posted \o <<f>>
        /\ Append(pending, f) = pending \o <<f>>
    BY <1>t, AppendIsConcat
  <2>3. (ran \o batch \o pending) \o <<f>> = (ran \o batch) \o (pending \o <<f>>)
    BY <1>t, <2>1, ConcatAssociative, SMTT(20)
  <2>4. FunctorsConserved'
    BY <1>1, <2>2, <2>3 DEF Push, FunctorsConserved
  <2> QED
    BY <1>1, <2>4 DEF Push, BatchOnlyInRun
<1>2. CASE SwapPending
  <2>1. batch = <<>>
    BY <1>2 DEF SwapPending, BatchOnlyInRun
  <2>2. posted = ran \o pending
    BY <2>1, <1>t, EmptyMiddle DEF FunctorsConserved
  <2>3. ran \o pending \o <<>> = ran \o pending
    BY <1>t, ConcatEmptySeq, ConcatProperties
  <2> QED
    BY <1>2, <2>2, <2>3
       DEF SwapPending, FunctorsConserved, BatchOnlyInRun, callVars, history
<1>3. CASE RunFunctor
  BY <1>3, <1>t, MoveHead, SMTT(20) DEF RunFunctor, FunctorsConserved, BatchOnlyInRun
<1>4. CASE UNCHANGED <<pending, batch, posted, ran>> /\ (batch # <<>> => loop' = "run")
  BY <1>4 DEF FunctorsConserved, BatchOnlyInRun
<1>5. CASE UNCHANGED vars
  BY <1>5, <1>4 DEF vars, BatchOnlyInRun
<1>6. ASSUME NEW c \in Callers, CallerStep(c)
      PROVE  UNCHANGED <<pending, batch, posted, ran, loop>>
  BY <1>6 DEF CallerStep, ClearDone, CheckCalling, CallWakeup, SyncReturn,
              evdVars, history
<1>7. ASSUME NEW c \in Callers, Stop(c)
      PROVE  UNCHANGED <<pending, batch, posted, ran, loop>>
  BY <1>7 DEF Stop, history
<1>8. ASSUME NEW f \in Functors, RunInline(f)
      PROVE  UNCHANGED <<pending, batch, posted, ran, loop>>
  BY <1>8 DEF RunInline, evdVars
<1>9. CASE Start \/ Select \/ HandleWakeup \/ BeginCalling \/ EndRun
            \/ EndCalling \/ PublishDone \/ CheckStop
  <2>1. UNCHANGED <<pending, batch, posted, ran>>
    BY <1>9 DEF Start, Select, HandleWakeup, BeginCalling, EndRun, EndCalling,
                PublishDone, CheckStop, history
  <2>2. batch # <<>> => loop' = "run"
    BY <1>9 DEF Start, Select, HandleWakeup, BeginCalling, EndRun, EndCalling,
                PublishDone, CheckStop, BatchOnlyInRun
  <2> QED
    BY <2>1, <2>2, <1>4
<1>10. CASE StopInLoop
  BY <1>10, <1>4 DEF StopInLoop, history, BatchOnlyInRun
<1> QED
  BY <1>1, <1>2, <1>3, <1>4, <1>5, <1>6, <1>7, <1>8, <1>9, <1>10
     DEF Next, LoopStep, Submit, BatchOnlyInRun

\* No functor is lost, duplicated or reordered between RunInEvd and the loop.
THEOREM Conservation == Spec => []FunctorsConserved
<1>1. Init => FunctorsConserved /\ BatchOnlyInRun
  BY EmptySeq, ConcatEmptySeq DEF Init, FunctorsConserved, BatchOnlyInRun
<1>2. TypeOK /\ FunctorsConserved /\ BatchOnlyInRun /\ [Next]_vars
        => FunctorsConserved' /\ BatchOnlyInRun'
  BY NextConserved
<1> QED
  BY <1>1, <1>2, TypeCorrect, PTL DEF Spec

-----------------------------------------------------------------------------
\* Every step keeps what is known about a functor pushed outside the Window.
LEMMA NextPushOutsideWindow == IInv /\ [Next]_vars => PushOutsideWindow'
<1> SUFFICES ASSUME IInv, [Next]_vars, NEW d \in Callers,
                    InCall(d)', d \notin raced'
             PROVE  /\ call'[d].f \in ToSet(posted')
                    /\ call'[d].f \in ToSet(pending') => loop' \notin Window
                    /\ done' /\ pc'[d] # "clear" => call'[d].f \in ToSet(ran')
  BY DEF PushOutsideWindow
<1> DEFINE Goal == /\ call'[d].f \in ToSet(posted')
                   /\ call'[d].f \in ToSet(pending') => loop' \notin Window
                   /\ done' /\ pc'[d] # "clear" => call'[d].f \in ToSet(ran')
<1>t. /\ pending \in Seq(Functors) /\ batch \in Seq(Functors)
      /\ posted \in Seq(Functors) /\ ran \in Seq(Functors)
      /\ pc \in [Callers -> CallStates] /\ call \in [Callers -> Calls]
  BY DEF IInv, TypeOK
<1>i. ASSUME InCall(d), d \notin raced
      PROVE  /\ call[d].f \in ToSet(posted)
             /\ call[d].f \in ToSet(pending) => loop \notin Window
             /\ done /\ pc[d] # "clear" => call[d].f \in ToSet(ran)
  BY <1>i DEF IInv, PushOutsideWindow
<1>1. ASSUME NEW c \in Callers, NEW f \in Functors, NEW kind \in {"run", "sync"},
             Push(c, kind, f)
      PROVE  Goal
  <2>1. /\ ToSet(posted') = ToSet(posted) \cup {f}
        /\ ToSet(pending') = ToSet(pending) \cup {f}
    BY <1>1, <1>t, ToSetAppend DEF Push
  <2>2. CASE c = d
    <3>1. call'[d].f = f /\ pc'[d] = "clear"
      BY <1>1, <1>t, <2>2 DEF Push
    <3>2. loop' \notin Window
      BY <1>1, <2>2 DEF Push
    <3> QED
      BY <2>1, <3>1, <3>2
  <2>3. CASE c # d
    <3>1. pc'[d] = pc[d] /\ call'[d] = call[d] /\ (d \notin raced)
      BY <1>1, <1>t, <2>3 DEF Push
    <3>2. InCall(d)
      BY <3>1 DEF InCall
    <3>3. call[d].f # f
      BY <1>1, <1>i, <3>1, <3>2 DEF Push, Submitted
    <3> QED
      BY <1>1, <1>i, <2>1, <3>1, <3>2, <3>3 DEF Push
  <2> QED
    BY <2>2, <2>3
<1>2. ASSUME NEW c \in Callers, ClearDone(c) PROVE Goal
  <2>1. InCall(d) /\ d \notin raced /\ call'[d] = call[d]
    BY <1>2, <1>t DEF ClearDone, InCall, history
  <2> QED
    BY <1>2, <1>i, <2>1 DEF ClearDone, history
<1>3. ASSUME NEW c \in Callers, CheckCalling(c) \/ CallWakeup(c) \/ SyncReturn(c)
      PROVE  Goal
  <2>1. /\ InCall(d) /\ d \notin raced /\ call'[d] = call[d]
        /\ pc'[d] # "clear" => pc[d] # "clear"
    BY <1>3, <1>t DEF CheckCalling, CallWakeup, SyncReturn, InCall, history
  <2>2. UNCHANGED <<pending, done, loop, posted, ran>>
    BY <1>3 DEF CheckCalling, CallWakeup, SyncReturn, evdVars, history
  <2> QED
    BY <1>i, <2>1, <2>2
<1>4. ASSUME NEW c \in Callers, Stop(c) PROVE Goal
  <2>1. InCall(d) /\ d \notin raced /\ call'[d] = call[d] /\ pc'[d] = pc[d]
    BY <1>4, <1>t DEF Stop, InCall, history
  <2> QED
    BY <1>4, <1>i, <2>1 DEF Stop, history
<1>5. CASE UNCHANGED <<pc, call, raced, posted>>
             /\ (done' => done) /\ ran' = ran
             /\ (loop' \in Window => loop \in Window)
             /\ pending' = pending
  <2>1. InCall(d) /\ d \notin raced
    BY <1>5 DEF InCall
  <2> QED
    BY <1>i, <1>5, <2>1
<1>6. CASE SwapPending
  <2>1. InCall(d) /\ d \notin raced /\ UNCHANGED <<pc, call, done, posted, ran>>
    BY <1>6 DEF SwapPending, InCall, callVars, history
  <2>2. ToSet(pending') = {}
    BY <1>6 DEF SwapPending, ToSet
  <2> QED
    BY <1>i, <2>1, <2>2
<1>7. CASE RunFunctor
  <2>1. InCall(d) /\ d \notin raced /\ UNCHANGED <<pc, call, done, posted, loop, pending>>
    BY <1>7 DEF RunFunctor, InCall, callVars
  <2>2. ToSet(ran) \subseteq ToSet(ran')
    BY <1>7, <1>t, HeadTailProperties, ToSetAppend DEF RunFunctor
  <2> QED
    BY <1>i, <2>1, <2>2
<1>8. CASE PublishDone
  <2>1. InCall(d) /\ d \notin raced /\ UNCHANGED <<pc, call, posted, ran, pending>>
    BY <1>8 DEF PublishDone, InCall, callVars, history
  <2>2. batch = <<>>
    BY <1>8 DEF PublishDone, IInv, BatchOnlyInRun
  <2>3. posted = ran \o pending
    BY <2>2, <1>t, EmptyMiddle DEF IInv, FunctorsConserved
  <2>4. call[d].f \in ToSet(ran) \cup ToSet(pending)
    BY <1>i, <1>t, <2>1, <2>3, ToSetConcat
  <2>5. call[d].f \notin ToSet(pending)
    BY <1>8, <1>i, <2>1 DEF PublishDone, Window
  <2> QED
    BY <1>i, <2>1, <2>4, <2>5
<1>9. CASE Start \/ Select \/ HandleWakeup \/ BeginCalling \/ EndRun
            \/ EndCalling \/ CheckStop \/ StopInLoop
  BY <1>9, <1>5 DEF Start, Select, HandleWakeup, BeginCalling, EndRun,
     EndCalling, CheckStop, StopInLoop, Window, callVars, history
<1>10. ASSUME NEW f \in Functors, RunInline(f) PROVE Goal
  BY <1>10, <1>5 DEF RunInline, evdVars, callVars
<1>11. CASE UNCHANGED vars
  BY <1>11, <1>5 DEF vars
<1> QED
  BY <1>1, <1>2, <1>3, <1>4, <1>6, <1>7, <1>8, <1>9, <1>10, <1>11
     DEF Next, LoopStep, CallerStep, Submit

\* The inductive invariant of the dispatcher.
THEOREM Inductive == Spec => []IInv
<1>1. Init => PushOutsideWindow
  BY DEF Init, PushOutsideWindow, InCall
<1>2. IInv /\ [Next]_vars => PushOutsideWindow'
  BY NextPushOutsideWindow
<1>3. TypeOK /\ FunctorsConserved /\ BatchOnlyInRun /\ [Next]_vars
        => FunctorsConserved' /\ BatchOnlyInRun'
  BY NextConserved
<1>4. Init => FunctorsConserved /\ BatchOnlyInRun
  BY EmptySeq, ConcatEmptySeq DEF Init, FunctorsConserved, BatchOnlyInRun
<1>5. IInv <=> TypeOK /\ FunctorsConserved /\ BatchOnlyInRun /\ PushOutsideWindow
  BY DEF IInv
<1> QED
  BY <1>1, <1>2, <1>3, <1>4, <1>5, TypeCorrect, PTL DEF Spec

\* SyncRunInEvd is synchronous when its push fell outside the Window.
THEOREM SyncOutsideWindow == Spec => []SyncOutsideWindowRan
<1>1. IInv => SyncOutsideWindowRan
  BY DEF IInv, PushOutsideWindow, InCall, SyncOutsideWindowRan, TypeOK, Calls
<1> QED
  BY <1>1, Inductive, PTL

-----------------------------------------------------------------------------
\* The functor that the loop runs next is the oldest one that has not run.
LEMMA HeadIsNext ==
    ASSUME TypeOK, FunctorsConserved, batch # <<>>
    PROVE  Len(ran) < Len(posted) /\ Head(batch) = posted[Len(ran) + 1]
<1>t. /\ pending \in Seq(Functors) /\ batch \in Seq(Functors)
      /\ posted \in Seq(Functors) /\ ran \in Seq(Functors)
  BY DEF TypeOK
<1>1. Len(batch) \in Nat \ {0} /\ Len(ran) \in Nat /\ Len(pending) \in Nat
  BY <1>t, EmptySeq, LenProperties
<1>2. /\ ran \o batch \in Seq(Functors)
      /\ Len(ran \o batch) = Len(ran) + Len(batch)
      /\ (ran \o batch)[Len(ran) + 1] = batch[1]
  BY <1>t, <1>1, ConcatProperties
<1>3. /\ Len(posted) = Len(ran) + Len(batch) + Len(pending)
      /\ posted[Len(ran) + 1] = (ran \o batch)[Len(ran) + 1]
  BY <1>t, <1>1, <1>2, ConcatProperties DEF FunctorsConserved
<1>4. Head(batch) = batch[1]
  BY <1>t
<1> QED
  BY <1>1, <1>2, <1>3, <1>4

\* RunInEvd and SyncRunInEvd keep the promise of Executor: functors of other
\* threads run once and in order, functors of the loop thread run at once.
THEOREM Refinement == Spec => ImplementsExecutor
<1>1. Init => Exec!Init
  BY DEF Init, Exec!Init
<1>2. TypeOK /\ FunctorsConserved /\ [Next]_vars => [Exec!Next]_Exec!execVars
  <2> SUFFICES ASSUME TypeOK, FunctorsConserved, [Next]_vars
               PROVE  Exec!Next \/ UNCHANGED <<posted, ran, inlined>>
    BY DEF Exec!execVars
  <2>s. Submitted = Exec!Submitted
    BY LenProperties DEF TypeOK, ToSet, Submitted, Exec!Submitted
  <2>1. ASSUME NEW c \in Callers, NEW f \in Functors,
               NEW kind \in {"run", "sync"}, Push(c, kind, f)
        PROVE  Exec!Next
    <3>1. Exec!Post(f)
      BY <2>1, <2>s DEF Push, Exec!Post
    <3> QED
      BY <3>1 DEF Exec!Next
  <2>2. ASSUME NEW f \in Functors, RunInline(f) PROVE Exec!Next
    <3>1. Exec!RunInline(f)
      BY <2>2, <2>s DEF RunInline, Exec!RunInline
    <3> QED
      BY <3>1 DEF Exec!Next
  <2>3. CASE RunFunctor
    BY <2>3, HeadIsNext DEF RunFunctor, Exec!RunNext, Exec!Next
  <2>4. ASSUME NEW c \in Callers, CallerStep(c) \/ Stop(c)
        PROVE  UNCHANGED <<posted, ran, inlined>>
    BY <2>4 DEF CallerStep, ClearDone, CheckCalling, CallWakeup, SyncReturn,
                Stop, history
  <2>5. CASE Start \/ Select \/ HandleWakeup \/ BeginCalling \/ SwapPending
              \/ EndRun \/ EndCalling \/ PublishDone \/ CheckStop \/ StopInLoop
    BY <2>5 DEF Start, Select, HandleWakeup, BeginCalling, SwapPending, EndRun,
                EndCalling, PublishDone, CheckStop, StopInLoop, history
  <2>6. CASE UNCHANGED vars
    BY <2>6 DEF vars
  <2> QED
    BY <2>1, <2>2, <2>3, <2>4, <2>5, <2>6 DEF Next, LoopStep, Submit
<1> QED
  BY <1>1, <1>2, TypeCorrect, Conservation, PTL
     DEF Spec, ImplementsExecutor, Exec!Spec
=============================================================================
