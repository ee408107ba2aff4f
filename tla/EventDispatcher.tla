-------------------------- MODULE EventDispatcher --------------------------
(***************************************************************************)
(* rpc/event_dispatcher.cpp: the event loop and the hand-over of functors  *)
(* to it from other threads.                                               *)
(*                                                                         *)
(* One thread, the one that constructed the dispatcher, runs Start.  The   *)
(* threads in Callers call RunInEvd, SyncRunInEvd and Stop at any time.    *)
(* Every access to _stop, _pending_functor_done and                        *)
(* _calling_pending_functor (atomics) and every critical section of _mutex *)
(* is one step.                                                            *)
(*                                                                         *)
(* Wakeup writes to _wakeup_fds[0], which the constructor never assigns    *)
(* (it assigns _wakeup_fds[1] twice): the write goes to whatever           *)
(* descriptor that memory happens to name, see Wakeup below.               *)
(***************************************************************************)
EXTENDS Sequences, Naturals, SequencesExt

CONSTANTS
    Callers,    \* threads other than the loop thread
    Functors,   \* every functor is submitted at most once (bound on calls)
    NoFunctor   \* the functor argument of Stop

ASSUME NoFunctorAssumption == NoFunctor \notin Functors

VARIABLES
    pending,    \* _pending_functors
    done,       \* _pending_functor_done
    calling,    \* _calling_pending_functor
    stop,       \* _stop
    wakeup,     \* the eventfd of the WakeupChannel is readable
    fired,      \* Select reported the WakeupChannel, not handled yet
    loop,       \* where the loop thread is in Start
    batch,      \* local "functors" of runPendingFunctor, what is left of it
    pc,         \* where each caller is
    call,       \* the call each caller is making
    aborted,    \* LOG(FATAL) or exit() ended the process
    posted,     \* history: functors pushed to _pending_functors, in order
    ran,        \* history: functors the loop took from the queue and ran
    inlined,    \* history: functors the loop thread ran for itself
    raced       \* history: callers whose push fell into the Window below

evdVars == <<pending, done, calling, stop, wakeup, fired, loop, batch>>
callVars == <<pc, call>>
history == <<posted, ran, inlined, raced>>
vars == <<pending, done, calling, stop, wakeup, fired, loop, batch,
          pc, call, aborted, posted, ran, inlined, raced>>

LoopStates == {"created", "select", "dispatch", "swap", "run",
               "uncall", "publish", "check", "exited"}
CallStates == {"idle", "clear", "check", "wake", "spin"}
Calls == [kind : {"run", "sync"}, f : Functors]
            \cup [kind : {"stop"}, f : {NoFunctor}]

\* From the swap of the queue to _pending_functor_done = true: what is pushed
\* in between is not in the batch whose completion is announced.
Window == {"run", "uncall", "publish"}

Submitted == ToSet(posted) \cup inlined

Init ==
    /\ pending = <<>> /\ done = TRUE /\ calling = FALSE /\ stop = FALSE
    /\ wakeup = FALSE /\ fired = FALSE /\ loop = "created" /\ batch = <<>>
    /\ pc = [c \in Callers |-> "idle"]
    /\ call = [c \in Callers |-> [kind |-> "stop", f |-> NoFunctor]]
    /\ aborted = FALSE
    /\ posted = <<>> /\ ran = <<>> /\ inlined = {}
    /\ raced = {}

-----------------------------------------------------------------------------
(* Wakeup: an uninitialised descriptor.  EBADF makes the write fail and    *)
(* LOG(FATAL) aborts; an unrelated open descriptor swallows the 8 bytes;   *)
(* by chance it is the eventfd.                                            *)
Wakeup ==
    \/ aborted' = TRUE /\ UNCHANGED wakeup
    \/ wakeup' = TRUE /\ UNCHANGED aborted
    \/ UNCHANGED <<wakeup, aborted>>

-----------------------------------------------------------------------------
(* Other threads.                                                          *)

\* RunInEvd / SyncRunInEvd, not in the loop thread: addPendingFunctor pushes
\* under _mutex ...
Push(c, kind, f) ==
    /\ pc[c] = "idle" /\ f \notin Submitted
    /\ pending' = Append(pending, f)
    /\ posted' = Append(posted, f)
    /\ call' = [call EXCEPT ![c] = [kind |-> kind, f |-> f]]
    /\ raced' = IF loop \in Window THEN raced \cup {c} ELSE raced \ {c}
    /\ pc' = [pc EXCEPT ![c] = "clear"]
    /\ UNCHANGED <<done, calling, stop, wakeup, fired, loop, batch, aborted,
                   ran, inlined>>

MutClearDone(c) ==
    /\ pc[c] = "clear"
    /\ pc' = [pc EXCEPT ![c] = "check"]
    /\ UNCHANGED <<evdVars, call, aborted, history>>

\* ... and clears _pending_functor_done after the unlock.
ClearDone(c) ==
    /\ pc[c] = "clear"
    /\ done' = FALSE
    /\ pc' = [pc EXCEPT ![c] = "check"]
    /\ UNCHANGED <<pending, calling, stop, wakeup, fired, loop, batch, call,
                   aborted, history>>

\* Where Wakeup returns to: SyncRunInEvd waits, RunInEvd and Stop are over.
AfterWakeup(c) == IF call[c].kind = "sync" THEN "spin" ELSE "idle"

\* if (_calling_pending_functor) Wakeup();
CheckCalling(c) ==
    /\ pc[c] = "check"
    /\ pc' = [pc EXCEPT ![c] = IF calling THEN "wake" ELSE AfterWakeup(c)]
    /\ UNCHANGED <<evdVars, call, aborted, history>>

CallWakeup(c) ==
    /\ pc[c] = "wake"
    /\ Wakeup
    /\ pc' = [pc EXCEPT ![c] = AfterWakeup(c)]
    /\ UNCHANGED <<pending, done, calling, stop, fired, loop, batch, call,
                   history>>

\* while (!_pending_functor_done) {}
SyncReturn(c) ==
    /\ pc[c] = "spin" /\ done
    /\ pc' = [pc EXCEPT ![c] = "idle"]
    /\ UNCHANGED <<evdVars, call, aborted, history>>

\* Stop from another thread: _stop = true, then Wakeup (CallWakeup).
Stop(c) ==
    /\ pc[c] = "idle"
    /\ ~stop     \* bound: a second Stop changes nothing but the eventfd
    /\ stop' = TRUE
    /\ call' = [call EXCEPT ![c] = [kind |-> "stop", f |-> NoFunctor]]
    /\ pc' = [pc EXCEPT ![c] = "wake"]
    /\ UNCHANGED <<pending, done, calling, wakeup, fired, loop, batch, aborted,
                   history>>

-----------------------------------------------------------------------------
(* The loop thread.                                                        *)

Start ==
    /\ loop = "created"
    /\ loop' = "select"
    /\ UNCHANGED <<pending, done, calling, stop, wakeup, fired, batch,
                   callVars, aborted, history>>

MutSelect ==
    /\ loop = "select" /\ wakeup
    /\ fired' = wakeup
    /\ loop' = "dispatch"
    /\ UNCHANGED <<pending, done, calling, stop, wakeup, batch, callVars,
                   aborted, history>>

\* Select(100, events): returns on an event or after 100ms, so the step does
\* not depend on wakeup.
Select ==
    /\ loop = "select"
    /\ fired' = wakeup
    /\ loop' = "dispatch"
    /\ UNCHANGED <<pending, done, calling, stop, wakeup, batch, callVars,
                   aborted, history>>

\* WakeupChannel::HandleRead; a read of less than 8 bytes ends the process.
HandleWakeup ==
    /\ loop = "dispatch" /\ fired
    /\ fired' = FALSE
    /\ wakeup' = FALSE
    /\ aborted' = ~wakeup
    /\ UNCHANGED <<pending, done, calling, stop, loop, batch, callVars,
                   history>>

\* A handler or a functor, or the owner before Start, calls RunInEvd or
\* SyncRunInEvd in the loop thread: isInEvd() holds and the functor runs.
RunInline(f) ==
    /\ loop \in {"created", "dispatch", "run"} /\ f \notin Submitted
    /\ inlined' = inlined \cup {f}
    /\ UNCHANGED <<evdVars, callVars, aborted, posted, ran, raced>>

\* A handler or a functor calls Stop in the loop thread.
StopInLoop ==
    /\ loop \in {"created", "dispatch", "run"} /\ ~stop
    /\ stop' = TRUE
    /\ Wakeup
    /\ UNCHANGED <<pending, done, calling, fired, loop, batch, callVars,
                   history>>

\* runPendingFunctor: _calling_pending_functor = true;
BeginCalling ==
    /\ loop = "dispatch" /\ ~fired
    /\ calling' = TRUE
    /\ loop' = "swap"
    /\ UNCHANGED <<pending, done, stop, wakeup, fired, batch, callVars,
                   aborted, history>>

MutSwapPending ==
    /\ loop = "swap"
    /\ batch' = pending
    /\ loop' = "run"
    /\ UNCHANGED <<pending, done, calling, stop, wakeup, fired, callVars,
                   aborted, history>>

\* functors.swap(_pending_functors), under _mutex.
SwapPending ==
    /\ loop = "swap"
    /\ batch' = pending
    /\ pending' = <<>>
    /\ loop' = "run"
    /\ UNCHANGED <<done, calling, stop, wakeup, fired, callVars, aborted,
                   history>>

\* functors[i]();
RunFunctor ==
    /\ loop = "run" /\ batch # <<>>
    /\ ran' = Append(ran, Head(batch))
    /\ batch' = Tail(batch)
    /\ UNCHANGED <<pending, done, calling, stop, wakeup, fired, loop,
                   callVars, aborted, posted, inlined, raced>>

EndRun ==
    /\ loop = "run" /\ batch = <<>>
    /\ loop' = "uncall"
    /\ UNCHANGED <<pending, done, calling, stop, wakeup, fired, batch,
                   callVars, aborted, history>>

\* _calling_pending_functor = false;
EndCalling ==
    /\ loop = "uncall"
    /\ calling' = FALSE
    /\ loop' = "publish"
    /\ UNCHANGED <<pending, done, stop, wakeup, fired, batch, callVars,
                   aborted, history>>

MutPublishDone ==
    /\ loop = "publish"
    /\ loop' = "check"
    /\ UNCHANGED <<pending, done, calling, stop, wakeup, fired, batch,
                   callVars, aborted, history>>

\* _pending_functor_done = true;
PublishDone ==
    /\ loop = "publish"
    /\ done' = TRUE
    /\ loop' = "check"
    /\ UNCHANGED <<pending, calling, stop, wakeup, fired, batch, callVars,
                   aborted, history>>

\* if (_stop) break;
CheckStop ==
    /\ loop = "check"
    /\ loop' = IF stop THEN "exited" ELSE "select"
    /\ UNCHANGED <<pending, done, calling, stop, wakeup, fired, batch,
                   callVars, aborted, history>>

-----------------------------------------------------------------------------
LoopStep ==
    /\ ~aborted
    /\ \/ Start \/ Select \/ HandleWakeup
       \/ BeginCalling \/ SwapPending \/ RunFunctor \/ EndRun
       \/ EndCalling \/ PublishDone \/ CheckStop

CallerStep(c) ==
    /\ ~aborted
    /\ ClearDone(c) \/ CheckCalling(c) \/ CallWakeup(c) \/ SyncReturn(c)

\* What the users of the dispatcher do: not subject to fairness.
Submit ==
    /\ ~aborted
    /\ \/ \E f \in Functors : RunInline(f)
       \/ StopInLoop
       \/ \E c \in Callers : Stop(c)
       \/ \E c \in Callers, f \in Functors, kind \in {"run", "sync"} :
             Push(c, kind, f)

Next == LoopStep \/ Submit \/ \E c \in Callers : CallerStep(c)

\* The scheduler lets every thread that can run make progress, the owner calls
\* Start after the construction (IoWorker::threadFunc), and the loop never
\* blocks for more than the 100ms of Select.
Fairness == WF_vars(LoopStep) /\ \A c \in Callers : WF_vars(CallerStep(c))

Spec == Init /\ [][Next]_vars
FairSpec == Spec /\ Fairness

-----------------------------------------------------------------------------
(* Properties.                                                             *)

\* Every variable of the dispatcher and of its callers keeps its type, and a
\* caller inside RunInEvd or SyncRunInEvd carries a functor.
TypeOK ==
    /\ pending \in Seq(Functors) /\ batch \in Seq(Functors)
    /\ posted \in Seq(Functors) /\ ran \in Seq(Functors)
    /\ inlined \subseteq Functors /\ raced \subseteq Callers
    /\ done \in BOOLEAN /\ calling \in BOOLEAN /\ stop \in BOOLEAN
    /\ wakeup \in BOOLEAN /\ fired \in BOOLEAN /\ aborted \in BOOLEAN
    /\ loop \in LoopStates
    /\ pc \in [Callers -> CallStates]
    /\ call \in [Callers -> Calls]
    /\ \A c \in Callers :
          /\ pc[c] \in {"clear", "check"} => call[c].kind \in {"run", "sync"}
          /\ pc[c] = "spin" => call[c].kind = "sync"

\* No functor handed to addPendingFunctor is lost, duplicated or overtaken by
\* a later one, whatever the interleaving of pushes with the swap of
\* runPendingFunctor: what ran, what is left of the batch and what is queued
\* are together, in order, exactly what was pushed.
FunctorsConserved == posted = ran \o batch \o pending

\* SyncRunInEvd is synchronous for every push outside the Window of
\* runPendingFunctor: when the spinning caller sees _pending_functor_done, its
\* functor has run.  (A push inside the Window has no such guarantee: the loop
\* announces the completion of the previous batch.)
SyncOutsideWindowRan ==
    \A c \in Callers :
        pc[c] = "spin" /\ done /\ c \notin raced
            => call[c].f \in ToSet(ran)

\* A functor handed over is eventually run, even when nobody wrote to the
\* eventfd, unless the loop is stopped first.
PostedEventuallyRun ==
    \A f \in Functors :
        (f \in ToSet(posted)) ~>
            (f \in ToSet(ran) \/ loop = "exited" \/ aborted)

\* The busy loop of SyncRunInEvd ends unless the event loop has exited: a
\* caller that comes too late for the last runPendingFunctor spins forever.
SyncEventuallyReturns ==
    \A c \in Callers :
        (pc[c] = "spin") ~> (pc[c] # "spin" \/ loop = "exited" \/ aborted)

\* The dispatcher keeps the promise of module Executor.
Exec == INSTANCE Executor
ImplementsExecutor == Exec!Spec
=============================================================================
