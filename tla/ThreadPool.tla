----------------------------- MODULE ThreadPool -----------------------------
(***************************************************************************)
(* base/thread_pool.cpp: worker threads, a task queue that is bounded when *)
(* MaxTaskSize > 0, and a destructor that stops and joins the workers.     *)
(*                                                                         *)
(* A critical section of _mutex is one step.  A thread in                  *)
(* condition_variable::wait is "waiting" until a notify (or a spurious     *)
(* wake-up) makes it "check" its predicate again under _mutex.             *)
(***************************************************************************)
EXTENDS Naturals, Sequences, FiniteSets, SequencesExt

CONSTANTS
    Workers,        \* threads running threadFunc
    Producers,      \* threads calling addTask
    Tasks,          \* bound: each task is added at most once
    MaxTaskSize,    \* _maxTaskSize, 0 for an unbounded queue
    NoTask

ASSUME ConstantsAssumption ==
    /\ MaxTaskSize \in Nat
    /\ NoTask \notin Tasks
    /\ Workers # {}

VARIABLES
    tasks,      \* _tasks
    stop,       \* _stop
    worker,     \* where each worker is
    job,        \* the task a worker is running
    producer,   \* where each producer is in addTask
    arg,        \* the task a producer is adding
    owner,      \* where the destructor is
    accepted,   \* history: tasks pushed, in order
    taken,      \* history: tasks popped by workers, in order
    executed    \* history: tasks that ran to the end

poolVars == <<tasks, stop>>
workerVars == <<worker, job>>
producerVars == <<producer, arg>>
vars == <<tasks, stop, worker, job, producer, arg, owner,
          accepted, taken, executed>>

WorkerStates == {"check", "waiting", "running", "exited"}
ProducerStates == {"idle", "waiting", "check"}
OwnerStates == {"running", "stopping", "joining", "destroyed"}

WaitingWorkers == {w \in Workers : worker[w] = "waiting"}
WaitingProducers == {p \in Producers : producer[p] = "waiting"}
Full == MaxTaskSize > 0 /\ Len(tasks) >= MaxTaskSize
Adding == {arg[p] : p \in {q \in Producers : producer[q] # "idle"}}

Init ==
    /\ tasks = <<>> /\ stop = FALSE
    /\ worker = [w \in Workers |-> "check"]
    /\ job = [w \in Workers |-> NoTask]
    /\ producer = [p \in Producers |-> "idle"]
    /\ arg = [p \in Producers |-> NoTask]
    /\ owner = "running"
    /\ accepted = <<>> /\ taken = <<>> /\ executed = {}

\* condition_variable::notify_one wakes some waiting thread, if there is one.
NotifyOneWorker ==
    \/ WaitingWorkers = {} /\ UNCHANGED worker
    \/ \E w \in WaitingWorkers : worker' = [worker EXCEPT ![w] = "check"]

NotifyOneProducer ==
    \/ WaitingProducers = {} /\ UNCHANGED producer
    \/ \E p \in WaitingProducers : producer' = [producer EXCEPT ![p] = "check"]

-----------------------------------------------------------------------------
(* addTask.                                                                *)

\* A producer with _mutex: blocks while the queue is full, gives up if the
\* pool is stopping, else pushes and wakes one worker.  Serves the first
\* entry and every return from _fullCondition.wait.
AddUnderLock(p, t) ==
    /\ arg' = [arg EXCEPT ![p] = t]
    /\ \/ /\ Full /\ ~stop
          /\ producer' = [producer EXCEPT ![p] = "waiting"]
          /\ UNCHANGED <<tasks, worker, accepted>>
       \/ /\ stop
          /\ producer' = [producer EXCEPT ![p] = "idle"]
          /\ UNCHANGED <<tasks, worker, accepted>>
       \/ /\ ~Full /\ ~stop
          /\ tasks' = Append(tasks, t)
          /\ accepted' = Append(accepted, t)
          /\ producer' = [producer EXCEPT ![p] = "idle"]
          /\ NotifyOneWorker
    /\ UNCHANGED <<stop, job, owner, taken, executed>>

AddTask(p, t) ==
    /\ producer[p] = "idle" /\ owner # "destroyed"
    /\ t \notin ToSet(accepted) \cup Adding
    /\ AddUnderLock(p, t)

MutResumeAdd(p) ==
    /\ producer[p] = "check"
    /\ ~stop
    /\ tasks' = Append(tasks, arg[p])
    /\ accepted' = Append(accepted, arg[p])
    /\ producer' = [producer EXCEPT ![p] = "idle"]
    /\ UNCHANGED <<stop, workerVars, arg, owner, taken, executed>>

ResumeAdd(p) ==
    /\ producer[p] = "check"
    /\ AddUnderLock(p, arg[p])

-----------------------------------------------------------------------------
(* threadFunc.                                                             *)

MutTakeWithoutNotify(w) ==
    /\ worker[w] = "check" /\ tasks # <<>>
    /\ job' = [job EXCEPT ![w] = Head(tasks)]
    /\ tasks' = Tail(tasks)
    /\ taken' = Append(taken, Head(tasks))
    /\ worker' = [worker EXCEPT ![w] = "running"]
    /\ UNCHANGED <<stop, producerVars, owner, accepted, executed>>

MutTakeWithoutPop(w) ==
    /\ worker[w] = "check" /\ tasks # <<>> /\ Len(taken) < Len(accepted)
    /\ job' = [job EXCEPT ![w] = Head(tasks)]
    /\ taken' = Append(taken, Head(tasks))
    /\ worker' = [worker EXCEPT ![w] = "running"]
    /\ UNCHANGED <<tasks, stop, producerVars, owner, accepted, executed>>

\* A worker with _mutex and a task in the queue takes the first one, and
\* notifies one blocked producer of a bounded queue.
TakeTask(w) ==
    /\ worker[w] = "check" /\ tasks # <<>>
    /\ job' = [job EXCEPT ![w] = Head(tasks)]
    /\ tasks' = Tail(tasks)
    /\ taken' = Append(taken, Head(tasks))
    /\ worker' = [worker EXCEPT ![w] = "running"]
    /\ IF MaxTaskSize > 0 THEN NotifyOneProducer ELSE UNCHANGED producer
    /\ UNCHANGED <<stop, arg, owner, accepted, executed>>

\* The predicate is false: the worker waits on _readyCondition.
WaitForTask(w) ==
    /\ worker[w] = "check" /\ tasks = <<>> /\ ~stop
    /\ worker' = [worker EXCEPT ![w] = "waiting"]
    /\ UNCHANGED <<poolVars, job, producerVars, owner, accepted, taken,
                   executed>>

MutExit(w) ==
    /\ worker[w] = "check" /\ stop
    /\ worker' = [worker EXCEPT ![w] = "exited"]
    /\ UNCHANGED <<poolVars, job, producerVars, owner, accepted, taken,
                   executed>>

\* if (_stop && _tasks.empty()) return;
Exit(w) ==
    /\ worker[w] = "check" /\ stop /\ tasks = <<>>
    /\ worker' = [worker EXCEPT ![w] = "exited"]
    /\ UNCHANGED <<poolVars, job, producerVars, owner, accepted, taken,
                   executed>>

\* task(), without _mutex.
RunTask(w) ==
    /\ worker[w] = "running"
    /\ executed' = executed \cup {job[w]}
    /\ job' = [job EXCEPT ![w] = NoTask]
    /\ worker' = [worker EXCEPT ![w] = "check"]
    /\ UNCHANGED <<poolVars, producerVars, owner, accepted, taken>>

-----------------------------------------------------------------------------
(* Destructor.                                                             *)

SetStop ==
    /\ owner = "running"
    /\ stop' = TRUE
    /\ owner' = "stopping"
    /\ UNCHANGED <<tasks, workerVars, producerVars, accepted, taken, executed>>

MutNotifyAll ==
    /\ owner = "stopping"
    /\ NotifyOneWorker
    /\ owner' = "joining"
    /\ UNCHANGED <<poolVars, job, producerVars, accepted, taken, executed>>

\* _readyCondition.notify_all(); _fullCondition is not notified.
NotifyAll ==
    /\ owner = "stopping"
    /\ worker' = [w \in Workers |->
                    IF worker[w] = "waiting" THEN "check" ELSE worker[w]]
    /\ owner' = "joining"
    /\ UNCHANGED <<poolVars, job, producerVars, accepted, taken, executed>>

\* All workers are joined; the queue and the condition variables go away.
Destroy ==
    /\ owner = "joining"
    /\ \A w \in Workers : worker[w] = "exited"
    /\ owner' = "destroyed"
    /\ UNCHANGED <<poolVars, workerVars, producerVars, accepted, taken,
                   executed>>

-----------------------------------------------------------------------------
\* The C++ standard lets any wait return without a notify.
SpuriousWakeup ==
    /\ \/ \E w \in WaitingWorkers :
            worker' = [worker EXCEPT ![w] = "check"] /\ UNCHANGED producer
       \/ \E p \in WaitingProducers :
            producer' = [producer EXCEPT ![p] = "check"] /\ UNCHANGED worker
    /\ UNCHANGED <<poolVars, job, arg, owner, accepted, taken, executed>>

WorkerStep(w) == TakeTask(w) \/ WaitForTask(w) \/ Exit(w) \/ RunTask(w)
OwnerStep == NotifyAll \/ Destroy

Next ==
    \/ \E w \in Workers : WorkerStep(w)
    \/ \E p \in Producers : ResumeAdd(p)
    \/ \E p \in Producers, t \in Tasks : AddTask(p, t)
    \/ SetStop \/ OwnerStep
    \/ SpuriousWakeup

\* Tasks end, a thread that can take _mutex gets it eventually, and a
\* destructor that has begun goes on.  Nothing forces a producer to call
\* addTask, the owner to destroy the pool or a wait to return spuriously.
Fairness ==
    /\ \A w \in Workers : WF_vars(WorkerStep(w))
    /\ \A p \in Producers : WF_vars(ResumeAdd(p))
    /\ WF_vars(OwnerStep)

Spec == Init /\ [][Next]_vars
FairSpec == Spec /\ Fairness

-----------------------------------------------------------------------------
(* Properties.                                                             *)

\* Types; a running worker has a task and a producer in addTask carries one.
TypeOK ==
    /\ tasks \in Seq(Tasks) /\ accepted \in Seq(Tasks) /\ taken \in Seq(Tasks)
    /\ stop \in BOOLEAN /\ executed \subseteq Tasks
    /\ worker \in [Workers -> WorkerStates]
    /\ job \in [Workers -> Tasks \cup {NoTask}]
    /\ producer \in [Producers -> ProducerStates]
    /\ arg \in [Producers -> Tasks \cup {NoTask}]
    /\ owner \in OwnerStates
    /\ \A w \in Workers : worker[w] = "running" => job[w] \in Tasks
    /\ \A p \in Producers : producer[p] # "idle" => arg[p] \in Tasks

\* Workers take the accepted tasks in the order of addTask and none is lost or
\* taken twice, however many workers and producers compete for _mutex.
TasksInOrder == accepted = taken \o tasks

\* The bound of the queue holds even when producers that were notified, woke
\* up spuriously or just arrived compete for one free place.
QueueBounded == MaxTaskSize > 0 => Len(tasks) <= MaxTaskSize

\* A worker only leaves when the queue is empty for good: after the first exit
\* nothing is pushed any more.
ExitedMeansDrained ==
    (\E w \in Workers : worker[w] = "exited") => stop /\ tasks = <<>>

\* thread_pool.cpp:12, the remaining tasks must be executed: every task that
\* addTask accepted is run, also when the pool is destroyed meanwhile.
AcceptedEventuallyExecuted ==
    \A t \in Tasks : (t \in ToSet(accepted)) ~> (t \in executed)

\* The destructor ends: no worker sleeps through the stop.
DestructorEnds == stop ~> (owner = "destroyed")

\* With at most MaxTaskSize producers every blocked one is released even by a
\* pool that is being destroyed: each of them is notified by one of the pops
\* that empty the queue, and none is left on a destroyed _fullCondition.
\* (With more producers than places the destructor may strand some of them.)
BlockedProducerReleased ==
    \A p \in Producers : (producer[p] = "waiting") ~> (producer[p] # "waiting")

\* The reason: never more blocked producers than pops to come.
WaitersCovered == Cardinality(WaitingProducers) <= Len(tasks)
=============================================================================
