-------------------------- MODULE ThreadPool_proofs --------------------------
(***************************************************************************)
(* Proofs about ThreadPool for any number of workers and producers, any    *)
(* tasks and any bound of the queue.                                       *)
(***************************************************************************)
EXTENDS ThreadPool, SeqLemmas, FiniteSetTheorems

\* The inductive invariant.  ExitedMeansDrained is part of it: a worker exits
\* only when the queue is empty, and _stop keeps it empty.
IInv == TypeOK /\ TasksInOrder /\ QueueBounded /\ ExitedMeansDrained

\* Waking a worker or a producer keeps the types and starts or ends nobody.
LEMMA NotifyTypes ==
    ASSUME TypeOK
    PROVE  /\ NotifyOneWorker =>
                /\ worker' \in [Workers -> WorkerStates]
                /\ \A w \in Workers : worker'[w] \in {"running", "exited"}
                                        => worker'[w] = worker[w]
           /\ NotifyOneProducer =>
                /\ producer' \in [Producers -> ProducerStates]
                /\ \A p \in Producers : producer'[p] # "idle" => producer[p] # "idle"
BY DEF TypeOK, NotifyOneWorker, NotifyOneProducer, WaitingWorkers,
       WaitingProducers, WorkerStates, ProducerStates

\* The constructor establishes the invariant.
LEMMA InitIInv == Init => IInv
<1> SUFFICES ASSUME Init PROVE IInv
  OBVIOUS
<1>1. <<>> \in Seq(Tasks) /\ Len(<<>>) = 0
  BY EmptySeq
<1>2. TypeOK
  BY <1>1 DEF Init, TypeOK, WorkerStates, ProducerStates, OwnerStates
<1>3. TasksInOrder
  BY <1>1, ConcatEmptySeq DEF Init, TasksInOrder
<1>4. QueueBounded /\ ExitedMeansDrained
  BY <1>1, ConstantsAssumption DEF Init, QueueBounded, ExitedMeansDrained
<1> QED
  BY <1>2, <1>3, <1>4 DEF IInv

\* addTask, on entry or after a wait.
LEMMA AddKeepsIInv ==
    ASSUME IInv, NEW p \in Producers, NEW t \in Tasks, AddUnderLock(p, t)
    PROVE  IInv'
<1>t. TypeOK /\ TasksInOrder /\ QueueBounded /\ ExitedMeansDrained
  BY DEF IInv
<1>s. /\ tasks \in Seq(Tasks) /\ accepted \in Seq(Tasks) /\ taken \in Seq(Tasks)
      /\ Len(tasks) \in Nat
  BY <1>t, LenProperties DEF TypeOK
<1>1. CASE UNCHANGED <<tasks, worker, accepted>>
             /\ \/ producer' = [producer EXCEPT ![p] = "waiting"]
                \/ producer' = [producer EXCEPT ![p] = "idle"]
  <2>1. TypeOK'
    BY <1>1, <1>t DEF AddUnderLock, TypeOK, ProducerStates
  <2>2. TasksInOrder' /\ QueueBounded' /\ ExitedMeansDrained'
    BY <1>1, <1>t DEF AddUnderLock, TasksInOrder, QueueBounded, ExitedMeansDrained
  <2> QED
    BY <2>1, <2>2 DEF IInv
<1>2. CASE /\ ~Full /\ ~stop /\ tasks' = Append(tasks, t)
           /\ accepted' = Append(accepted, t)
           /\ producer' = [producer EXCEPT ![p] = "idle"] /\ NotifyOneWorker
  <2>1. /\ tasks' \in Seq(Tasks) /\ Len(tasks') = Len(tasks) + 1
        /\ accepted' \in Seq(Tasks)
    BY <1>2, <1>s, AppendProperties
  <2>2. TypeOK'
    BY <1>2, <1>t, <2>1, NotifyTypes DEF AddUnderLock, TypeOK, ProducerStates
  <2>3. TasksInOrder'
    <3>1. /\ Append(accepted, t) = accepted \o <<t>>
          /\ Append(tasks, t) = tasks \o <<t>> /\ <<t>> \in Seq(Tasks)
      BY <1>s, AppendIsConcat
    <3>2. (taken \o tasks) \o <<t>> = taken \o (tasks \o <<t>>)
      BY <1>s, <3>1, ConcatAssociative
    <3>3. taken' = taken
      BY DEF AddUnderLock
    <3> QED
      BY <1>2, <1>t, <3>1, <3>2, <3>3 DEF TasksInOrder
  <2>4. QueueBounded'
    BY <1>2, <1>s, <2>1, ConstantsAssumption DEF QueueBounded, Full
  <2>5. ExitedMeansDrained'
    <3>1. \A w \in Workers : worker[w] # "exited"
      BY <1>2, <1>t DEF ExitedMeansDrained
    <3>2. \A w \in Workers : worker'[w] # "exited"
      BY <1>2, <1>t, <3>1, NotifyTypes
    <3> QED
      BY <3>2 DEF ExitedMeansDrained
  <2> QED
    BY <2>2, <2>3, <2>4, <2>5 DEF IInv
<1> QED
  BY <1>1, <1>2 DEF AddUnderLock

\* Every step keeps the invariant.
LEMMA NextIInv == IInv /\ [Next]_vars => IInv'
<1> SUFFICES ASSUME IInv, [Next]_vars PROVE IInv'
  OBVIOUS
<1>t. TypeOK /\ TasksInOrder /\ QueueBounded /\ ExitedMeansDrained
  BY DEF IInv
<1>s. tasks \in Seq(Tasks) /\ taken \in Seq(Tasks) /\ Len(tasks) \in Nat
  BY <1>t, LenProperties DEF TypeOK
<1>1. ASSUME NEW p \in Producers, NEW t \in Tasks, AddTask(p, t) PROVE IInv'
  BY <1>1, AddKeepsIInv DEF AddTask
<1>2. ASSUME NEW p \in Producers, ResumeAdd(p) PROVE IInv'
  <2>1. arg[p] \in Tasks
    BY <1>2, <1>t DEF ResumeAdd, TypeOK
  <2> QED
    BY <1>2, <2>1, AddKeepsIInv DEF ResumeAdd
<1>3. ASSUME NEW w \in Workers, TakeTask(w) PROVE IInv'
  <2>1. /\ Head(tasks) \in Tasks /\ Tail(tasks) \in Seq(Tasks)
        /\ Len(Tail(tasks)) = Len(tasks) - 1
    BY <1>3, <1>s, HeadTailProperties DEF TakeTask
  <2>2. taken' \in Seq(Tasks)
    BY <1>3, <1>s, <2>1, AppendProperties DEF TakeTask
  <2>3. /\ producer' \in [Producers -> ProducerStates]
        /\ \A p \in Producers : producer'[p] # "idle" => producer[p] # "idle"
    BY <1>3, <1>t, NotifyTypes DEF TakeTask, TypeOK
  <2>4. TypeOK'
    BY <1>3, <1>t, <2>1, <2>2, <2>3 DEF TakeTask, TypeOK, WorkerStates
  <2>5. TasksInOrder'
    <3>1. Append(taken, Head(tasks)) \o Tail(tasks) = taken \o tasks
      BY <1>3, <1>s, <2>1 DEF TakeTask
    <3> QED
      BY <1>3, <1>t, <3>1 DEF TakeTask, TasksInOrder
  <2>6. QueueBounded'
    BY <1>3, <1>t, <1>s, <2>1, ConstantsAssumption DEF TakeTask, QueueBounded
  <2>7. ExitedMeansDrained'
    <3>1. \A v \in Workers : worker[v] # "exited"
      BY <1>3, <1>t DEF TakeTask, ExitedMeansDrained
    <3>2. \A v \in Workers : worker'[v] # "exited"
      BY <1>3, <1>t, <3>1 DEF TakeTask, TypeOK
    <3> QED
      BY <3>2 DEF ExitedMeansDrained
  <2> QED
    BY <2>4, <2>5, <2>6, <2>7 DEF IInv
<1>4. ASSUME NEW w \in Workers, WaitForTask(w) \/ Exit(w) \/ RunTask(w)
      PROVE  IInv'
  <2>1. TypeOK'
    BY <1>4, <1>t DEF WaitForTask, Exit, RunTask, TypeOK, WorkerStates,
       poolVars, producerVars
  <2>2. TasksInOrder' /\ QueueBounded'
    BY <1>4, <1>t DEF WaitForTask, Exit, RunTask, TasksInOrder, QueueBounded,
       poolVars
  <2>3. ExitedMeansDrained'
    BY <1>4, <1>t DEF WaitForTask, Exit, RunTask, ExitedMeansDrained, TypeOK,
       poolVars
  <2> QED
    BY <2>1, <2>2, <2>3 DEF IInv
<1>5. CASE SetStop \/ NotifyAll \/ Destroy
  <2>1. TypeOK'
    BY <1>5, <1>t DEF SetStop, NotifyAll, Destroy, TypeOK, WorkerStates,
       OwnerStates, poolVars, workerVars, producerVars
  <2>2. TasksInOrder' /\ QueueBounded'
    BY <1>5, <1>t DEF SetStop, NotifyAll, Destroy, TasksInOrder, QueueBounded,
       poolVars
  <2>3. ExitedMeansDrained'
    BY <1>5, <1>t DEF SetStop, NotifyAll, Destroy, ExitedMeansDrained, TypeOK,
       poolVars, workerVars
  <2> QED
    BY <2>1, <2>2, <2>3 DEF IInv
<1>6. CASE SpuriousWakeup
  <2>1. TypeOK'
    BY <1>6, <1>t DEF SpuriousWakeup, WaitingWorkers, WaitingProducers, TypeOK,
       WorkerStates, ProducerStates, poolVars
  <2>2. TasksInOrder' /\ QueueBounded'
    BY <1>6, <1>t DEF SpuriousWakeup, TasksInOrder, QueueBounded, poolVars
  <2>3. ExitedMeansDrained'
    BY <1>6, <1>t DEF SpuriousWakeup, WaitingWorkers, ExitedMeansDrained,
       TypeOK, poolVars
  <2> QED
    BY <2>1, <2>2, <2>3 DEF IInv
<1>7. CASE UNCHANGED vars
  BY <1>7, <1>t DEF vars, IInv, TypeOK, TasksInOrder, QueueBounded,
     ExitedMeansDrained
<1> QED
  BY <1>1, <1>2, <1>3, <1>4, <1>5, <1>6, <1>7
     DEF Next, WorkerStep, OwnerStep

\* The types of the pool's variables.
THEOREM TypeCorrect == Spec => []TypeOK
<1>1. IInv => TypeOK
  BY DEF IInv
<1> QED
  BY <1>1, InitIInv, NextIInv, PTL DEF Spec

\* Tasks leave the queue once each and in the order of addTask.
THEOREM OrderKept == Spec => []TasksInOrder
<1>1. IInv => TasksInOrder
  BY DEF IInv
<1> QED
  BY <1>1, InitIInv, NextIInv, PTL DEF Spec

\* The queue never exceeds _maxTaskSize.
THEOREM BoundKept == Spec => []QueueBounded
<1>1. IInv => QueueBounded
  BY DEF IInv
<1> QED
  BY <1>1, InitIInv, NextIInv, PTL DEF Spec

\* No worker leaves a task behind.
THEOREM NothingLeftBehind == Spec => []ExitedMeansDrained
<1>1. IInv => ExitedMeansDrained
  BY DEF IInv
<1> QED
  BY <1>1, InitIInv, NextIInv, PTL DEF Spec

\* The configuration under which every blocked producer is counted by a task:
\* finitely many producers, and no more of them than a bounded queue has places.
FewProducers ==
    /\ IsFiniteSet(Producers)
    /\ MaxTaskSize > 0 => Cardinality(Producers) <= MaxTaskSize

\* WaitersCovered is inductive together with the fact that nobody blocks on an
\* unbounded queue, whose pops notify nobody.
CoverInv ==
    /\ IInv
    /\ WaitersCovered
    /\ MaxTaskSize = 0 => WaitingProducers = {}

\* How many producers are blocked can be counted, and a smaller set of blocked
\* producers needs no more pops.
LEMMA WaitersFinite ==
    ASSUME FewProducers, NEW S \in SUBSET WaitingProducers
    PROVE  /\ IsFiniteSet(WaitingProducers) /\ Cardinality(WaitingProducers) \in Nat
           /\ IsFiniteSet(S) /\ Cardinality(S) \in Nat
           /\ Cardinality(S) <= Cardinality(WaitingProducers)
<1>1. WaitingProducers \in SUBSET Producers
  BY DEF WaitingProducers
<1>2. IsFiniteSet(WaitingProducers)
  BY <1>1, FS_Subset DEF FewProducers
<1> QED
  BY <1>2, FS_Subset, FS_CardinalityType

\* A step that blocks nobody and pops nothing keeps the waiters covered.
LEMMA NobodyBlocks ==
    ASSUME FewProducers, CoverInv, IInv', Len(tasks) <= Len(tasks'),
           WaitingProducers' \subseteq WaitingProducers
    PROVE  CoverInv'
<1>1. /\ Cardinality(WaitingProducers') \in Nat /\ Cardinality(WaitingProducers) \in Nat
      /\ Cardinality(WaitingProducers') <= Cardinality(WaitingProducers)
  BY WaitersFinite
<1>2. Len(tasks) \in Nat /\ Len(tasks') \in Nat
  BY LenProperties DEF CoverInv, IInv, TypeOK
<1>3. WaitersCovered'
  BY <1>1, <1>2 DEF CoverInv, WaitersCovered
<1> QED
  BY <1>3 DEF CoverInv

\* addTask: a producer blocks only on a full queue, which has a task for every
\* producer there is.
LEMMA AddKeepsCover ==
    ASSUME FewProducers, CoverInv, IInv', NEW p \in Producers, NEW t \in Tasks,
           AddUnderLock(p, t)
    PROVE  CoverInv'
<1>s. tasks \in Seq(Tasks) /\ Len(tasks) \in Nat /\ TypeOK
  BY LenProperties DEF CoverInv, IInv, TypeOK
<1>1. CASE Full /\ UNCHANGED tasks
  <2>1. WaitingProducers' \in SUBSET Producers
    BY DEF WaitingProducers
  <2>2. /\ Cardinality(WaitingProducers') <= Cardinality(Producers)
        /\ Cardinality(WaitingProducers') \in Nat /\ Cardinality(Producers) \in Nat
    BY <2>1, FS_Subset, FS_CardinalityType DEF FewProducers
  <2>3. WaitersCovered'
    BY <1>1, <1>s, <2>2, ConstantsAssumption DEF Full, FewProducers, WaitersCovered
  <2>4. MaxTaskSize # 0
    BY <1>1, ConstantsAssumption DEF Full
  <2> QED
    BY <2>3, <2>4 DEF CoverInv
<1>2. CASE /\ producer' = [producer EXCEPT ![p] = "idle"]
           /\ UNCHANGED tasks \/ tasks' = Append(tasks, t)
  <2>1. Len(tasks) <= Len(tasks')
    BY <1>2, <1>s, AppendProperties
  <2>2. WaitingProducers' \subseteq WaitingProducers
    BY <1>2, <1>s DEF WaitingProducers, TypeOK
  <2> QED
    BY <2>1, <2>2, NobodyBlocks
<1> QED
  BY <1>1, <1>2 DEF AddUnderLock

\* threadFunc: the pop of a bounded queue releases one blocked producer.
LEMMA TakeKeepsCover ==
    ASSUME FewProducers, CoverInv, IInv', NEW w \in Workers, TakeTask(w)
    PROVE  CoverInv'
<1>s. tasks \in Seq(Tasks) /\ Len(tasks) \in Nat /\ TypeOK /\ tasks # <<>>
  BY LenProperties DEF CoverInv, IInv, TypeOK, TakeTask
<1>1. Len(tasks') = Len(tasks) - 1 /\ Len(tasks) > 0
  BY <1>s, HeadTailProperties, EmptySeq DEF TakeTask
<1>2. CASE WaitingProducers = {} /\ WaitingProducers' = {}
  <2>1. WaitersCovered'
    BY <1>1, <1>2, <1>s, FS_EmptySet DEF WaitersCovered
  <2> QED
    BY <1>2, <2>1 DEF CoverInv
<1>3. CASE WaitingProducers = {} /\ UNCHANGED producer
  BY <1>2, <1>3 DEF WaitingProducers
<1>4. CASE /\ MaxTaskSize > 0
           /\ \E p \in WaitingProducers : producer' = [producer EXCEPT ![p] = "check"]
  <2>1. PICK p \in WaitingProducers : producer' = [producer EXCEPT ![p] = "check"]
    BY <1>4
  <2>2. WaitingProducers' = WaitingProducers \ {p}
    BY <1>s, <2>1 DEF WaitingProducers, TypeOK
  <2>3. IsFiniteSet(WaitingProducers) /\ Cardinality(WaitingProducers) \in Nat
    BY WaitersFinite
  <2>4. Cardinality(WaitingProducers') = Cardinality(WaitingProducers) - 1
    BY <2>1, <2>2, <2>3, FS_RemoveElement
  <2>5. WaitersCovered'
    BY <1>1, <1>s, <2>3, <2>4 DEF CoverInv, WaitersCovered
  <2> QED
    BY <1>4, <2>5, ConstantsAssumption DEF CoverInv
<1>5. CASE ~(MaxTaskSize > 0) /\ UNCHANGED producer
  <2>1. WaitingProducers = {}
    BY <1>5, ConstantsAssumption DEF CoverInv
  <2> QED
    BY <1>3, <1>5, <2>1
<1> QED
  BY <1>3, <1>4, <1>5 DEF TakeTask, NotifyOneProducer

\* Every step keeps the waiters covered.
LEMMA NextCover ==
    ASSUME FewProducers, CoverInv, [Next]_vars
    PROVE  CoverInv'
<1>i. IInv' /\ IInv /\ TypeOK
  BY NextIInv DEF CoverInv, IInv
<1>s. Len(tasks) \in Nat
  BY <1>i, LenProperties DEF TypeOK
<1>1. ASSUME NEW p \in Producers, NEW t \in Tasks, AddTask(p, t) PROVE CoverInv'
  BY <1>1, <1>i, AddKeepsCover DEF AddTask
<1>2. ASSUME NEW p \in Producers, ResumeAdd(p) PROVE CoverInv'
  <2>1. arg[p] \in Tasks
    BY <1>2, <1>i DEF ResumeAdd, TypeOK
  <2> QED
    BY <1>2, <1>i, <2>1, AddKeepsCover DEF ResumeAdd
<1>3. ASSUME NEW w \in Workers, TakeTask(w) PROVE CoverInv'
  BY <1>3, <1>i, TakeKeepsCover
<1>4. CASE UNCHANGED <<tasks, producer>>
  BY <1>4, <1>i, <1>s, NobodyBlocks DEF WaitingProducers
<1>5. CASE SpuriousWakeup
  <2>1. UNCHANGED tasks /\ WaitingProducers' \subseteq WaitingProducers
    BY <1>5, <1>i DEF SpuriousWakeup, WaitingProducers, poolVars, TypeOK
  <2> QED
    BY <2>1, <1>i, <1>s, NobodyBlocks
<1> QED
  BY <1>1, <1>2, <1>3, <1>4, <1>5
     DEF Next, WorkerStep, OwnerStep, WaitForTask, Exit, RunTask, SetStop,
         NotifyAll, Destroy, poolVars, producerVars, vars

\* However the threads interleave, a bounded pool with at most as many producers
\* as places always holds a task, hence a pop to come, for each blocked producer;
\* an unbounded pool blocks nobody.
THEOREM NobodyStranded ==
    ASSUME FewProducers
    PROVE  Spec => []WaitersCovered
<1>1. Init => CoverInv
  <2> SUFFICES ASSUME Init PROVE CoverInv
    OBVIOUS
  <2>1. WaitingProducers = {} /\ Len(tasks) = 0
    BY EmptySeq DEF Init, WaitingProducers
  <2> QED
    BY <2>1, InitIInv, FS_EmptySet DEF CoverInv, WaitersCovered
<1>2. CoverInv /\ [Next]_vars => CoverInv'
  BY NextCover
<1>3. CoverInv => WaitersCovered
  BY DEF CoverInv
<1> QED
  BY <1>1, <1>2, <1>3, PTL DEF Spec
=============================================================================
