-------------------------- MODULE TimerQueue_proofs --------------------------
(***************************************************************************)
(* Proofs about TimerQueue for any timers, any delays and repetitions, any *)
(* number of identifiers and any clock: the tree holds exactly the waiting *)
(* timers, the timerfd is set early enough, and no callback overtakes a    *)
(* waiting timer.                                                          *)
(***************************************************************************)
EXTENDS TimerQueue, SeqLemmas, FiniteSetTheorems, WellFoundedInduction

TimerRecords ==
    [phase : Phases, id : 0..MaxId, time : Nat, elapse : Int, expire : Nat,
     attach : Timers \cup {NoTimer}]

Functors ==
    [op : {"add"}, timer : Timers, id : 0..MaxId]
        \cup [op : {"cancel"}, timer : {NoTimer}, id : 0..MaxId]

LoopRecords ==
    [pc : {"handlers", "expired", "callback", "functors"}, ready : BOOLEAN,
     due : SUBSET Timers, cur : Timers \cup {NoTimer}, todo : Nat]

\* The types, with what TypeOK leaves open: the fields of the timers, what is
\* in _ref, the queue, and that the loop never takes a functor of an empty queue.
Types ==
    /\ now \in 1..MaxTime /\ slot \in 0..MaxId /\ cancels \in 0..MaxCancels
    /\ timers \in [Timers -> TimerRecords]
    /\ DOMAIN ref \subseteq 0..MaxId
    /\ \A id \in DOMAIN ref : ref[id] \in Timers \cup {NoTimer}
    /\ DOMAIN tree \subseteq Timers /\ \A n \in DOMAIN tree : tree[n] \in Timers
    /\ armed \in Nat
    /\ queue \in Seq(Functors) /\ loop \in LoopRecords /\ loop.todo <= Len(queue)
    /\ fault \in {"none", "freed", "node", "read"}
    /\ moved \in BOOLEAN

\* The entries of the tree are the waiting timers, each once.
Entries ==
    /\ \A n \in DOMAIN tree : timers[tree[n]].phase = "tree"
    /\ \A t \in Timers : timers[t].phase = "tree" => \E n \in DOMAIN tree : tree[n] = t
    /\ \A n, m \in DOMAIN tree : tree[n] = tree[m] => n = m

\* A node is in use for the timer it was allocated for, or that timer was
\* cancelled and its node has taken over another entry.
Nodes ==
    /\ \A n \in DOMAIN tree : tree[n] = n \/ timers[n].phase = "freed"
    /\ ~moved => \A n \in DOMAIN tree : tree[n] = n

\* A timer is attached to the node allocated for it or to none.
Attached ==
    \A t \in Timers : /\ timers[t].attach \in {t, NoTimer}
                      /\ timers[t].phase = "tree" => timers[t].attach = t
                      /\ timers[t].phase = "tree" => timers[t].expire # 0

TreeInv == IsFiniteSet(DOMAIN tree) /\ Entries /\ Nodes /\ Attached

\* The timers PerTick has taken out: they expired before now.
InHand == loop.due \cup ({loop.cur} \ {NoTimer})

Taken ==
    \A t \in InHand : timers[t].phase \in {"due", "freed"} /\ timers[t].expire < now

\* Where the loop is, and what it has taken out.
LoopPlace ==
    /\ loop.cur \notin loop.due
    /\ loop.pc = "callback" <=> loop.cur # NoTimer
    /\ loop.pc \notin {"expired", "callback"} => loop.due = {}

IInv == Types /\ TreeInv /\ Taken /\ LoopPlace /\ ArmedInTime /\ NoOvertaking

-----------------------------------------------------------------------------
(* Least elements, which CHOOSE in nextId, Unlink and Rearm rely on.       *)

\* Expiries are times.
LEMMA ExpiryType ==
    ASSUME Types, NEW n \in DOMAIN tree
    PROVE  Expiry(n) \in Nat /\ tree[n] \in Timers /\ n \in Timers
BY DEF Types, TimerRecords, Expiry

\* Among nodes of the tree one expires first.
LEMMA Earliest ==
    ASSUME Types, NEW S \in SUBSET DOMAIN tree, S # {}
    PROVE  \E m \in S : \A o \in S : Expiry(m) <= Expiry(o)
<1> DEFINE E == {Expiry(m) : m \in S}
<1>1. E \in SUBSET Nat /\ E # {}
  BY ExpiryType
<1>2. PICK x \in E : \A y \in E : x <= y
  <2> HIDE DEF E
  <2> QED
    BY <1>1, LeastNatural
<1> QED
  BY <1>2

\* While an identifier is free the search of nextId ends, at one of 0..INT_MAX.
LEMMA NextIdInRange ==
    ASSUME Types, IdLeft
    PROVE  NextId \in 0..MaxId
<1> DEFINE N == MaxId + 1
           id(k) == (slot + k) % N
           K == {k \in 1..N : id(k) \notin DOMAIN ref}
<1>a. MaxId \in Nat /\ slot \in 0..MaxId
  BY TimerAssumption DEF Types
<1>1. \A k \in 1..N : id(k) \in 0..MaxId
  BY <1>a
<1>2. K # {}
  <2>1. PICK i \in 0..MaxId : i \notin DOMAIN ref
    BY DEF IdLeft
  <2>2. CASE i > slot
    <3>1. i - slot \in 1..N /\ slot + (i - slot) = i /\ i % N = i
      BY <1>a, <2>2
    <3> QED
      BY <2>1, <3>1
  <2>3. CASE i <= slot
    <3>1. i - slot + N \in 1..N /\ slot + (i - slot + N) = i + N /\ (i + N) % N = i
      BY <1>a, <2>3
    <3> QED
      BY <2>1, <3>1
  <2> QED
    BY <1>a, <2>2, <2>3
<1>3. PICK k \in K : \A j \in K : k <= j
  <2>1. K \in SUBSET Nat
    BY <1>a
  <2> HIDE DEF K
  <2> QED
    BY <1>2, <2>1, LeastNatural
<1>4. k \in 1..N /\ id(k) \notin DOMAIN ref /\ \A j \in 1..(k - 1) : id(j) \in DOMAIN ref
  <2>1. k \in 1..N /\ id(k) \notin DOMAIN ref
    OBVIOUS
  <2>2. ASSUME NEW j \in 1..(k - 1) PROVE id(j) \in DOMAIN ref
    <3>1. j \in 1..N /\ ~(k <= j)
      BY <1>a, <2>1, <2>2
    <3> HIDE DEF id
    <3> QED
      BY <1>3, <3>1
  <2> HIDE DEF id
  <2> QED
    BY <2>1, <2>2
<1> DEFINE first == CHOOSE f \in 1..N : /\ id(f) \notin DOMAIN ref
                                        /\ \A j \in 1..(f - 1) : id(j) \in DOMAIN ref
<1>5. first \in 1..N
  <2> HIDE DEF id, N
  <2> QED
    BY <1>4
<1>6. NextId = id(first)
  BY DEF NextId
<1> QED
  BY <1>1, <1>5, <1>6

-----------------------------------------------------------------------------
(* What the operations do to the tree.                                     *)

\* Every entry of the new tree expires when one of the old tree did.
NoNewExpiry ==
    \A n \in DOMAIN tree' : \E m \in DOMAIN tree : (Expiry(n))' = Expiry(m)

\* A change to a timer outside the tree that stays outside.
LEMMA OffTree ==
    ASSUME Types, TreeInv, NEW t \in Timers, NEW r \in TimerRecords,
           timers' = [timers EXCEPT ![t] = r], UNCHANGED <<tree, moved>>,
           timers[t].phase # "tree", r.phase # "tree",
           timers[t].phase = "freed" => r.phase = "freed", r.attach \in {t, NoTimer}
    PROVE  /\ timers' \in [Timers -> TimerRecords] /\ TreeInv' /\ NoNewExpiry
           /\ timers'[t] = r /\ \A u \in Timers : u # t => timers'[u] = timers[u]
<1>1. /\ timers' \in [Timers -> TimerRecords] /\ timers'[t] = r
      /\ \A u \in Timers : u # t => timers'[u] = timers[u]
  BY DEF Types
<1>2. \A n \in DOMAIN tree : tree[n] \in Timers /\ tree[n] # t /\ n \in Timers
  BY DEF Types, TreeInv, Entries, Nodes, Attached
<1>3. \A n \in DOMAIN tree : timers'[tree[n]] = timers[tree[n]]
  BY <1>1, <1>2
<1>4. NoNewExpiry
  BY <1>3 DEF NoNewExpiry, Expiry
<1>5. TreeInv'
  <2>1. \A u \in Timers : timers[u].phase = "freed" => timers'[u].phase = "freed"
    BY <1>1
  <2>2. \A u \in Timers : timers'[u].phase = "tree" => u # t /\ timers'[u] = timers[u]
    BY <1>1
  <2>3. \A u \in Timers : timers'[u].attach \in {u, NoTimer}
    BY <1>1 DEF TreeInv, Attached
  <2>4. IsFiniteSet(DOMAIN tree')
    BY DEF TreeInv
  <2> QED
    BY <1>2, <1>3, <2>1, <2>2, <2>3, <2>4 DEF TreeInv, Entries, Nodes, Attached
<1> QED
  BY <1>1, <1>4, <1>5

\* addTimer, for a timer that is neither in the tree nor freed.
LEMMA InsertInTree ==
    ASSUME Types, TreeInv, NEW t \in Timers, NEW tm \in TimerRecords,
           InsertTimer(t, tm), UNCHANGED moved,
           timers[t].phase \notin {"tree", "freed"}
    PROVE  /\ timers' \in [Timers -> TimerRecords] /\ TreeInv'
           /\ timers'[t].phase \in {"tree", "lost"} /\ timers'[t].expire = now + tm.time
           /\ \A u \in Timers : u # t => timers'[u] = timers[u]
           /\ DOMAIN tree' \subseteq DOMAIN tree \cup {t}
           /\ \A n \in DOMAIN tree' : tree'[n] \in Timers
           /\ \A n \in DOMAIN tree' :
                \/ n \in DOMAIN tree /\ (Expiry(n))' = Expiry(n)
                \/ (Expiry(n))' = now + tm.time
<1> DEFINE e == now + tm.time
           exists == \E n \in DOMAIN tree : Expiry(n) = e
           r == [tm EXCEPT !.expire = e, !.attach = t,
                           !.phase = IF exists THEN "lost" ELSE "tree"]
<1>e. e \in Nat /\ e # 0
  BY DEF Types, TimerRecords
<1>1. timers' = [timers EXCEPT ![t] = r] /\ tree' = IF exists THEN tree ELSE Store(tree, t, t)
  BY DEF InsertTimer
<1> HIDE DEF e
<1>2. /\ r \in TimerRecords /\ r.expire = e /\ r.attach = t
      /\ r.phase = IF exists THEN "lost" ELSE "tree"
  <2> HIDE DEF exists
  <2> QED
    BY <1>e DEF TimerRecords, Phases
<1> HIDE DEF r
<1>3. CASE exists
  <2>1. tree' = tree /\ r.phase = "lost"
    BY <1>1, <1>2, <1>3
  <2>2. /\ timers' \in [Timers -> TimerRecords] /\ TreeInv' /\ NoNewExpiry
        /\ timers'[t] = r /\ \A u \in Timers : u # t => timers'[u] = timers[u]
    <3> HIDE DEF exists
    <3> QED
      BY <1>1, <1>2, <2>1, OffTree
  <2>3. \A n \in DOMAIN tree : tree[n] \in Timers /\ tree[n] # t
    BY DEF Types, TreeInv, Entries, Nodes, Attached
  <2>4. \A n \in DOMAIN tree : (Expiry(n))' = Expiry(n)
    BY <2>1, <2>2, <2>3 DEF Expiry
  <2> QED
    BY <1>2, <2>1, <2>2, <2>3, <2>4 DEF e
<1>4. CASE ~exists
  <2>1. tree' = Store(tree, t, t) /\ r.phase = "tree"
    BY <1>1, <1>2, <1>4
  <2> HIDE DEF exists
  <2>2. /\ DOMAIN tree' = DOMAIN tree \cup {t} /\ tree'[t] = t
        /\ \A n \in DOMAIN tree : n # t => tree'[n] = tree[n]
    BY <2>1 DEF Store
  <2>3. /\ timers' \in [Timers -> TimerRecords] /\ timers'[t] = r
        /\ \A u \in Timers : u # t => timers'[u] = timers[u]
    BY <1>1, <1>2 DEF Types
  <2>4. \A n \in DOMAIN tree : n # t /\ tree[n] # t /\ tree[n] \in Timers /\ n \in Timers
    BY DEF Types, TreeInv, Entries, Nodes, Attached
  <2>5. \A n \in DOMAIN tree : tree'[n] = tree[n] /\ timers'[tree[n]] = timers[tree[n]]
                                /\ timers'[n] = timers[n]
    BY <2>2, <2>3, <2>4
  <2>6. IsFiniteSet(DOMAIN tree')
    BY <2>2, FS_AddElement DEF TreeInv
  <2>7. \A n \in DOMAIN tree' : timers'[tree'[n]].phase = "tree"
    BY <2>1, <2>2, <2>3, <2>5 DEF TreeInv, Entries, Nodes, Attached
  <2>8. ASSUME NEW u \in Timers, timers'[u].phase = "tree"
        PROVE  \E n \in DOMAIN tree' : tree'[n] = u
    <3>1. CASE u = t
      BY <2>2, <3>1
    <3>2. CASE u # t
      <4>1. PICK n \in DOMAIN tree : tree[n] = u
        BY <2>3, <2>8, <3>2 DEF TreeInv, Entries, Nodes, Attached
      <4> QED
        BY <2>2, <2>5, <4>1
    <3> QED
      BY <3>1, <3>2
  <2>9. \A n, m \in DOMAIN tree' : tree'[n] = tree'[m] => n = m
    BY <2>2, <2>4, <2>5 DEF TreeInv, Entries, Nodes, Attached
  <2>10. \A n \in DOMAIN tree' : tree'[n] = n \/ timers'[n].phase = "freed"
    BY <2>2, <2>5 DEF TreeInv, Entries, Nodes, Attached
  <2>11. ~moved' => \A n \in DOMAIN tree' : tree'[n] = n
    BY <2>2, <2>5 DEF TreeInv, Entries, Nodes, Attached
  <2>12. \A u \in Timers : /\ timers'[u].attach \in {u, NoTimer}
                           /\ timers'[u].phase = "tree" => timers'[u].attach = u
                           /\ timers'[u].phase = "tree" => timers'[u].expire # 0
    BY <1>2, <1>e, <2>3 DEF TreeInv, Entries, Nodes, Attached
  <2>13. TreeInv'
    <3>1. Entries'
      BY <2>7, <2>8, <2>9 DEF Entries
    <3>2. Nodes'
      BY <2>10, <2>11 DEF Nodes
    <3>3. Attached'
      BY <2>12 DEF Attached
    <3> QED
      BY <2>6, <3>1, <3>2, <3>3 DEF TreeInv
  <2>14. \A n \in DOMAIN tree' :
              \/ n \in DOMAIN tree /\ (Expiry(n))' = Expiry(n)
              \/ (Expiry(n))' = e
    BY <1>2, <2>2, <2>3, <2>5 DEF Expiry
  <2> QED
    BY <1>2, <2>1, <2>2, <2>3, <2>4, <2>5, <2>13, <2>14 DEF e
<1> QED
  BY <1>3, <1>4

\* cancelTimer, for a timer that is attached to a node of the tree.
LEMMA UnlinkFromTree ==
    ASSUME Types, TreeInv, NEW t \in Timers, Unlink(t),
           timers[t].phase # "freed", timers[t].attach \in DOMAIN tree,
           timers' = [timers EXCEPT ![t].phase = "freed"]
    PROVE  /\ timers' \in [Timers -> TimerRecords] /\ TreeInv' /\ NoNewExpiry
           /\ DOMAIN tree' \subseteq DOMAIN tree
           /\ \A n \in DOMAIN tree' : tree'[n] \in Timers
           /\ moved' \in BOOLEAN
           /\ timers'[t].phase = "freed" /\ timers'[t].expire = timers[t].expire
           /\ \A u \in Timers : u # t => timers'[u] = timers[u]
<1> DEFINE later == {m \in DOMAIN tree : Expiry(m) > Expiry(t)}
           next == CHOOSE m \in later : \A o \in later : Expiry(m) <= Expiry(o)
<1>n. NoTimer \notin Timers
  BY TimerAssumption
<1>1. timers[t].attach = t /\ t \in DOMAIN tree /\ tree[t] = t
  <2>1. timers[t].attach \in {t, NoTimer}
    BY DEF TreeInv, Attached
  <2>2. timers[t].attach = t /\ t \in DOMAIN tree
    BY <1>n, <2>1 DEF Types
  <2> QED
    BY <2>2 DEF TreeInv, Nodes
<1>2. /\ timers' \in [Timers -> TimerRecords]
      /\ timers'[t].phase = "freed" /\ timers'[t].expire = timers[t].expire
      /\ timers'[t].attach = timers[t].attach
      /\ \A u \in Timers : u # t => timers'[u] = timers[u]
  BY DEF Types, TimerRecords, Phases
<1>3. \A n \in DOMAIN tree : n # t => tree[n] # t /\ tree[n] \in Timers /\ n \in Timers
                                      /\ timers'[tree[n]] = timers[tree[n]]
                                      /\ timers'[n] = timers[n]
  BY <1>1, <1>2 DEF Types, TreeInv, Entries, Nodes, Attached
<1>a. \A u \in Timers : /\ timers'[u].attach \in {u, NoTimer}
                        /\ timers'[u].phase = "tree" =>
                              u # t /\ timers'[u].attach = u /\ timers'[u].expire # 0
  BY <1>2 DEF TreeInv, Attached
<1>4. CASE tree' = Restrict(tree, DOMAIN tree \ {t}) /\ UNCHANGED moved
  <2>1. /\ DOMAIN tree' = DOMAIN tree \ {t}
        /\ \A n \in DOMAIN tree' : tree'[n] = tree[n]
    BY <1>4 DEF Restrict
  <2>2. IsFiniteSet(DOMAIN tree')
    BY <2>1, FS_RemoveElement DEF TreeInv
  <2>3. ASSUME NEW u \in Timers, timers'[u].phase = "tree"
        PROVE  \E n \in DOMAIN tree' : tree'[n] = u
    <3>1. u # t /\ timers[u].phase = "tree"
      BY <1>2, <2>3
    <3>2. PICK n \in DOMAIN tree : tree[n] = u
      BY <3>1 DEF TreeInv, Entries, Nodes, Attached
    <3> QED
      BY <1>1, <2>1, <3>1, <3>2
  <2>6. \A n \in DOMAIN tree' : timers'[tree'[n]].phase = "tree"
    BY <1>3, <2>1 DEF TreeInv, Entries, Nodes, Attached
  <2>7. \A n, m \in DOMAIN tree' : tree'[n] = tree'[m] => n = m
    BY <2>1 DEF TreeInv, Entries, Nodes, Attached
  <2>8. \A n \in DOMAIN tree' : tree'[n] = n \/ timers'[n].phase = "freed"
    BY <1>3, <2>1 DEF TreeInv, Entries, Nodes, Attached
  <2>9. ~moved' => \A n \in DOMAIN tree' : tree'[n] = n
    BY <1>4, <2>1 DEF TreeInv, Entries, Nodes, Attached
  <2>4. TreeInv'
    <3>1. Entries'
      BY <2>3, <2>6, <2>7 DEF Entries
    <3>2. Nodes'
      BY <2>8, <2>9 DEF Nodes
    <3>3. Attached'
      BY <1>a DEF Attached
    <3> QED
      BY <2>2, <3>1, <3>2, <3>3 DEF TreeInv
  <2>5. NoNewExpiry
    BY <1>3, <2>1 DEF NoNewExpiry, Expiry
  <2> QED
    BY <1>2, <1>3, <1>4, <2>1, <2>4, <2>5 DEF Types
<1>5. CASE /\ later # {} /\ moved' = TRUE
           /\ tree' = [Restrict(tree, DOMAIN tree \ {next}) EXCEPT ![t] = tree[next]]
  <2>0. \E m \in later : \A o \in later : Expiry(m) <= Expiry(o)
    <3>1. later \in SUBSET DOMAIN tree
      OBVIOUS
    <3> HIDE DEF later
    <3> QED
      BY <1>5, <3>1, Earliest
  <2>1. next \in later
    <3> HIDE DEF later
    <3> QED
      BY <2>0
  <2> HIDE DEF next
  <2>2. next \in DOMAIN tree /\ next # t
    <3>1. next \in DOMAIN tree /\ Expiry(next) > Expiry(t)
      BY <2>1
    <3>2. Expiry(t) \in Nat
      BY <1>1, ExpiryType
    <3> QED
      BY <3>1, <3>2
  <2>3. /\ DOMAIN tree' = DOMAIN tree \ {next} /\ tree'[t] = tree[next]
        /\ \A n \in DOMAIN tree' : n # t => tree'[n] = tree[n]
    BY <1>1, <1>5, <2>2 DEF Restrict
  <2>4. IsFiniteSet(DOMAIN tree')
    BY <2>3, FS_RemoveElement DEF TreeInv
  <2>5. ASSUME NEW u \in Timers, timers'[u].phase = "tree"
        PROVE  \E n \in DOMAIN tree' : tree'[n] = u
    <3>1. u # t /\ timers[u].phase = "tree"
      BY <1>2, <2>5
    <3>2. PICK n \in DOMAIN tree : tree[n] = u
      BY <3>1 DEF TreeInv, Entries, Nodes, Attached
    <3>3. n # t
      BY <1>1, <3>1, <3>2
    <3>4. CASE n = next
      BY <1>1, <2>2, <2>3, <3>2, <3>4
    <3>5. CASE n # next
      BY <2>3, <3>2, <3>3, <3>5
    <3> QED
      BY <3>4, <3>5
  <2>6. \A n \in DOMAIN tree' : timers'[tree'[n]].phase = "tree"
    BY <1>3, <2>2, <2>3 DEF TreeInv, Entries, Nodes, Attached
  <2>7. \A n, m \in DOMAIN tree' : tree'[n] = tree'[m] => n = m
    BY <2>2, <2>3 DEF TreeInv, Entries, Nodes, Attached
  <2>8. \A n \in DOMAIN tree' : tree'[n] = n \/ timers'[n].phase = "freed"
    BY <1>2, <1>3, <2>3 DEF TreeInv, Entries, Nodes, Attached
  <2>9. TreeInv'
    <3>1. Entries'
      BY <2>5, <2>6, <2>7 DEF Entries
    <3>2. Nodes'
      BY <1>5, <2>8 DEF Nodes
    <3>3. Attached'
      BY <1>a DEF Attached
    <3> QED
      BY <2>4, <3>1, <3>2, <3>3 DEF TreeInv
  <2>10. NoNewExpiry
    BY <1>3, <2>2, <2>3 DEF NoNewExpiry, Expiry
  <2>11. \A n \in DOMAIN tree' : tree'[n] \in Timers
    BY <1>3, <2>2, <2>3 
  <2> QED
    BY <1>2, <1>5, <2>3, <2>9, <2>10, <2>11
<1> QED
  BY <1>1, <1>4, <1>5 DEF Unlink

-----------------------------------------------------------------------------
(* What the other parts of the invariant need of a step.                   *)

Inside(pc) == pc \in {"expired", "callback"}

\* The timerfd stays set in time if it is left alone and no timer is added.
LEMMA ArmedKept ==
    ASSUME ArmedInTime, NoNewExpiry, armed' = armed, Alive' => Alive,
           Inside(loop.pc) => Inside(loop'.pc)
    PROVE  ArmedInTime'
<1>1. SUFFICES ASSUME Alive', ~Inside(loop'.pc), NEW n \in DOMAIN tree'
               PROVE  armed' # 0 /\ armed' <= (Expiry(n))'
  BY DEF ArmedInTime, Inside
<1>2. PICK m \in DOMAIN tree : (Expiry(n))' = Expiry(m)
  BY DEF NoNewExpiry
<1> QED
  BY <1>1, <1>2 DEF ArmedInTime, Inside

\* The timers in hand stay ahead of the tree if none is added to either.
LEMMA TakenKept ==
    ASSUME Types, Taken, NoOvertaking, NoNewExpiry, Alive' => Alive,
           InHand' \subseteq InHand, now' \in Nat, now <= now',
           \A t \in InHand' : /\ timers'[t].expire = timers[t].expire
                              /\ timers'[t].phase \in {timers[t].phase, "freed"}
    PROVE  Taken' /\ NoOvertaking'
<1>1. Taken'
  <2>1. SUFFICES ASSUME NEW t \in InHand'
                 PROVE  timers'[t].phase \in {"due", "freed"} /\ timers'[t].expire < now'
    BY DEF Taken
  <2>2. t \in InHand /\ t \in Timers
    BY DEF Types, LoopRecords, InHand
  <2>3. timers[t].phase \in {"due", "freed"} /\ timers[t].expire < now
        /\ timers[t].expire \in Nat /\ now \in Nat
    BY <2>2 DEF Taken, Types, TimerRecords
  <2> QED
    BY <2>1, <2>3
<1>2. NoOvertaking'
  <2>1. SUFFICES ASSUME Alive', NEW t \in InHand', NEW n \in DOMAIN tree'
                 PROVE  timers'[t].expire < (Expiry(n))'
    BY DEF NoOvertaking, InHand
  <2>2. PICK m \in DOMAIN tree : (Expiry(n))' = Expiry(m)
    BY DEF NoNewExpiry
  <2>3. timers[t].expire < Expiry(m)
    BY <2>1 DEF NoOvertaking, InHand
  <2> QED
    BY <2>2, <2>3
<1> QED
  BY <1>1, <1>2

\* Adding a timer outside PerTick or in it: it expires now or later, so after
\* everything in hand, and the timerfd follows.
LEMMA InsertKeeps ==
    ASSUME IInv, Alive, NEW t \in Timers, NEW tm \in TimerRecords,
           InsertTimer(t, tm), UNCHANGED <<now, moved, fault>>,
           timers[t].phase \notin {"tree", "freed"},
           InHand' \subseteq InHand \ {t}, Inside(loop.pc) => Inside(loop'.pc)
    PROVE  Taken' /\ NoOvertaking' /\ ArmedInTime' /\ armed' \in Nat
<1> DEFINE e == now + tm.time
<1>0. Types /\ TreeInv /\ Taken /\ ArmedInTime /\ NoOvertaking
  BY DEF IInv
<1>1. now \in Nat /\ now # 0 /\ tm.time \in Nat /\ e \in Nat /\ e # 0 /\ now <= e
  BY <1>0 DEF Types, TimerRecords
<1>2. /\ timers' \in [Timers -> TimerRecords]
      /\ \A u \in Timers : u # t => timers'[u] = timers[u]
      /\ \A n \in DOMAIN tree' : \/ n \in DOMAIN tree /\ (Expiry(n))' = Expiry(n)
                                 \/ (Expiry(n))' = e
  BY <1>0, InsertInTree
<1>3. \A u \in InHand' : u \in InHand /\ u \in Timers /\ timers'[u] = timers[u]
  BY <1>0, <1>2 DEF Types, LoopRecords, InHand
<1>4. Taken'
  BY <1>0, <1>3 DEF Taken
<1>5. armed' = IF \A n \in DOMAIN tree : e <= Expiry(n) THEN e ELSE armed
  BY DEF InsertTimer
<1> HIDE DEF e
<1>6. NoOvertaking'
  <2>1. SUFFICES ASSUME NEW u \in InHand', NEW n \in DOMAIN tree'
                 PROVE  timers'[u].expire < (Expiry(n))'
    BY DEF NoOvertaking, InHand
  <2>2. timers'[u].expire = timers[u].expire /\ timers[u].expire < now
        /\ timers[u].expire \in Nat
    BY <1>0, <1>3 DEF Taken, Types, TimerRecords
  <2>3. CASE n \in DOMAIN tree /\ (Expiry(n))' = Expiry(n)
    <3>1. timers[u].expire < Expiry(n)
      BY <1>0, <1>3, <2>3 DEF NoOvertaking, InHand
    <3> QED
      BY <2>2, <2>3, <3>1
  <2>4. CASE (Expiry(n))' = e
    BY <1>1, <2>2, <2>4
  <2> QED
    BY <1>2, <2>3, <2>4
<1>7. ArmedInTime'
  <2>1. SUFFICES ASSUME ~Inside(loop'.pc), NEW n \in DOMAIN tree'
                 PROVE  armed' # 0 /\ armed' <= (Expiry(n))'
    BY DEF ArmedInTime, Inside
  <2>2. \A m \in DOMAIN tree : armed # 0 /\ armed <= Expiry(m)
    BY <1>0, <2>1 DEF ArmedInTime, Inside
  <2>3. \A m \in DOMAIN tree : Expiry(m) \in Nat
    BY <1>0, ExpiryType
  <2>4. armed \in Nat
    BY <1>0 DEF Types
  <2>5. CASE \A m \in DOMAIN tree : e <= Expiry(m)
    BY <1>1, <1>2, <1>5, <2>5
  <2>6. CASE ~ \A m \in DOMAIN tree : e <= Expiry(m)
    <3>1. PICK m \in DOMAIN tree : ~(e <= Expiry(m))
      BY <2>6
    <3>2. armed' = armed /\ armed # 0 /\ armed <= e
      BY <1>1, <1>5, <2>2, <2>3, <2>4, <2>6, <3>1
    <3> QED
      BY <1>2, <2>2, <3>2
  <2> QED
    BY <2>5, <2>6
<1>8. armed' \in Nat
  BY <1>0, <1>1, <1>5 DEF Types
<1> QED
  BY <1>4, <1>6, <1>7, <1>8

\* cancelTimer: whatever the identifier names, nothing is added to the tree.
LEMMA CancelKeeps ==
    ASSUME Types, TreeInv, NEW id \in 0..MaxId, CancelId(id)
    PROVE  /\ timers' \in [Timers -> TimerRecords] /\ TreeInv' /\ NoNewExpiry
           /\ DOMAIN ref' \subseteq 0..MaxId
           /\ \A i \in DOMAIN ref' : ref'[i] \in Timers \cup {NoTimer}
           /\ DOMAIN tree' \subseteq Timers /\ \A n \in DOMAIN tree' : tree'[n] \in Timers
           /\ moved' \in BOOLEAN /\ fault' \in {fault, "freed", "node"}
           /\ \A u \in Timers : /\ timers'[u].expire = timers[u].expire
                                /\ timers'[u].phase \in {timers[u].phase, "freed"}
<1> DEFINE t == IF id \in DOMAIN ref THEN ref[id] ELSE NoTimer
<1>0. t \in Timers \cup {NoTimer} /\ (t # NoTimer => t \in Timers)
  BY DEF Types
<1>r. UNCHANGED ref => /\ DOMAIN ref' \subseteq 0..MaxId
                       /\ \A i \in DOMAIN ref' : ref'[i] \in Timers \cup {NoTimer}
  BY DEF Types
<1>u. UNCHANGED <<timers, tree, moved>> =>
        /\ timers' \in [Timers -> TimerRecords] /\ TreeInv' /\ NoNewExpiry
        /\ DOMAIN tree' \subseteq Timers /\ \A n \in DOMAIN tree' : tree'[n] \in Timers
        /\ moved' \in BOOLEAN
        /\ \A u \in Timers : /\ timers'[u].expire = timers[u].expire
                             /\ timers'[u].phase \in {timers[u].phase, "freed"}
  BY DEF Types, TreeInv, Entries, Nodes, Attached, NoNewExpiry, Expiry
<1>1. CASE ref' = Store(ref, id, NoTimer) /\ UNCHANGED <<timers, tree, fault, moved>>
  <2>1. DOMAIN ref' \subseteq 0..MaxId
    BY <1>1 DEF Store, Types
  <2>2. \A i \in DOMAIN ref' : ref'[i] \in Timers \cup {NoTimer}
    BY <1>1 DEF Store, Types
  <2> QED
    BY <1>1, <1>u, <2>1, <2>2
<1>2. CASE fault' \in {"freed", "node"} /\ UNCHANGED <<timers, tree, ref, moved>>
  BY <1>2, <1>r, <1>u
<1>3. CASE /\ t # NoTimer /\ timers[t].phase # "freed" /\ timers[t].attach = NoTimer
           /\ timers' = [timers EXCEPT ![t].phase = "freed"]
           /\ UNCHANGED <<tree, ref, fault, moved>>
  <2> DEFINE r == [timers[t] EXCEPT !.phase = "freed"]
  <2>1. t \in Timers /\ NoTimer \notin Timers
    BY <1>0, <1>3, TimerAssumption
  <2> HIDE DEF t
  <2>2. /\ r \in TimerRecords /\ r.phase = "freed" /\ r.attach = NoTimer
        /\ r.expire = timers[t].expire /\ timers' = [timers EXCEPT ![t] = r]
    BY <1>3, <2>1, SMTT(20) DEF Types, TimerRecords, Phases
  <2>3. timers[t].phase # "tree"
    BY <1>3, <2>1 DEF TreeInv, Attached
  <2> HIDE DEF r
  <2>4. /\ timers' \in [Timers -> TimerRecords] /\ TreeInv' /\ NoNewExpiry
        /\ timers'[t] = r /\ \A u \in Timers : u # t => timers'[u] = timers[u]
    BY <1>3, <2>1, <2>2, <2>3, OffTree
  <2>5. \A u \in Timers : /\ timers'[u].expire = timers[u].expire
                          /\ timers'[u].phase \in {timers[u].phase, "freed"}
    BY <2>2, <2>4
  <2> QED
    BY <1>3, <1>r, <2>4, <2>5 DEF Types
<1>4. CASE /\ t # NoTimer /\ timers[t].phase # "freed"
           /\ timers[t].attach \in DOMAIN tree /\ Unlink(t)
           /\ timers' = [timers EXCEPT ![t].phase = "freed"]
           /\ UNCHANGED <<ref, fault>>
  <2>1. t \in Timers
    BY <1>0, <1>4
  <2> HIDE DEF t
  <2>2. /\ timers' \in [Timers -> TimerRecords] /\ TreeInv' /\ NoNewExpiry
        /\ DOMAIN tree' \subseteq DOMAIN tree
        /\ \A n \in DOMAIN tree' : tree'[n] \in Timers
        /\ moved' \in BOOLEAN
        /\ timers'[t].phase = "freed" /\ timers'[t].expire = timers[t].expire
        /\ \A u \in Timers : u # t => timers'[u] = timers[u]
    BY <1>4, <2>1, UnlinkFromTree
  <2>3. \A u \in Timers : /\ timers'[u].expire = timers[u].expire
                          /\ timers'[u].phase \in {timers[u].phase, "freed"}
    BY <2>2
  <2> QED
    BY <1>4, <1>r, <2>2, <2>3 DEF Types
<1> QED
  BY <1>1, <1>2, <1>3, <1>4 DEF CancelId

-----------------------------------------------------------------------------
(* The actions.                                                            *)

\* The invariant holds at the start.
LEMMA InitIInv == Init => IInv
<1> SUFFICES ASSUME Init PROVE IInv
  OBVIOUS
<1> USE DEF Init
<1>n. MaxId \in Nat /\ MaxTime \in Nat \ {0} /\ MaxCancels \in Nat
  BY TimerAssumption
<1>1. Types
  <2>1. timers \in [Timers -> TimerRecords]
    BY <1>n DEF NewTimer, TimerRecords, Phases
  <2>2. queue \in Seq(Functors) /\ Len(queue) = 0
    OBVIOUS
  <2>3. DOMAIN ref = {} /\ DOMAIN tree = {}
    OBVIOUS
  <2>4. loop \in LoopRecords /\ loop.todo = 0
    BY DEF LoopRecords
  <2>5. /\ now \in 1..MaxTime /\ slot \in 0..MaxId /\ cancels \in 0..MaxCancels
        /\ armed \in Nat /\ fault \in {"none", "freed", "node", "read"}
    BY <1>n
  <2>6. moved \in BOOLEAN
    OBVIOUS
  <2> HIDE DEF Init
  <2> QED
    BY <2>1, <2>2, <2>3, <2>4, <2>5, <2>6 DEF Types
<1>d. DOMAIN tree = {}
  OBVIOUS
<1>2. TreeInv
  <2>1. IsFiniteSet(DOMAIN tree)
    BY <1>d, FS_EmptySet
  <2>2. \A t \in Timers : timers[t].phase = "none" /\ timers[t].attach = NoTimer
    BY DEF NewTimer
  <2>3. Entries
    BY <1>d, <2>2 DEF Entries
  <2>4. Nodes
    BY <1>d DEF Nodes
  <2>5. Attached
    BY <2>2 DEF Attached
  <2> QED
    BY <2>1, <2>3, <2>4, <2>5 DEF TreeInv
<1>3. InHand = {}
  BY DEF InHand
<1>4. Taken /\ LoopPlace
  BY <1>3 DEF Taken, LoopPlace
<1>5. ArmedInTime /\ NoOvertaking
  BY <1>d DEF ArmedInTime, NoOvertaking
<1> QED
  BY <1>1, <1>2, <1>4, <1>5 DEF IInv

\* The clock goes on.
LEMMA TickIInv == IInv /\ Tick => IInv'
<1> SUFFICES ASSUME IInv, Tick PROVE IInv'
  OBVIOUS
<1>0. Types /\ TreeInv /\ Taken /\ LoopPlace /\ ArmedInTime /\ NoOvertaking
  BY DEF IInv
<1>1. /\ now \in Nat /\ now' = now + 1 /\ now' \in 1..MaxTime
      /\ UNCHANGED <<timers, ref, slot, tree, armed, queue, loop, fault, cancels, moved>>
  BY <1>0, TimerAssumption DEF Types, Tick
<1>2. Types'
  BY <1>0, <1>1 DEF Types
<1>3. TreeInv' /\ NoNewExpiry
  BY <1>0, <1>1 DEF TreeInv, Entries, Nodes, Attached, NoNewExpiry, Expiry
<1>4. Taken' /\ NoOvertaking'
  <2>1. /\ InHand' \subseteq InHand /\ now' \in Nat /\ now <= now' /\ Alive' = Alive
        /\ \A t \in InHand' : /\ timers'[t].expire = timers[t].expire
                              /\ timers'[t].phase \in {timers[t].phase, "freed"}
    BY <1>1 DEF InHand, Alive
  <2> QED
    BY <1>0, <1>3, <2>1, TakenKept
<1>5. ArmedInTime'
  BY <1>0, <1>1, <1>3, ArmedKept DEF Alive, Inside
<1>6. LoopPlace'
  BY <1>0, <1>1 DEF LoopPlace
<1> QED
  BY <1>2, <1>3, <1>4, <1>5, <1>6 DEF IInv

\* The loop moves on between its phases: nothing else changes.
LEMMA MovesOn ==
    ASSUME IInv, loop' \in LoopRecords, loop'.todo <= Len(queue), InHand' = InHand,
           LoopPlace', Inside(loop.pc) => Inside(loop'.pc),
           UNCHANGED <<now, timers, ref, slot, tree, armed, queue, fault, cancels, moved>>
    PROVE  IInv'
<1>0. Types /\ TreeInv /\ Taken /\ ArmedInTime /\ NoOvertaking
  BY DEF IInv
<1>1. Types'
  BY <1>0 DEF Types
<1>2. TreeInv' /\ NoNewExpiry
  BY <1>0 DEF TreeInv, Entries, Nodes, Attached, NoNewExpiry, Expiry
<1>3. Taken'
  BY <1>0 DEF Taken
<1>4. NoOvertaking'
  <2>1. NoOvertaking' <=> (Alive' => \A t \in InHand', n \in DOMAIN tree' :
                                        timers'[t].expire < (Expiry(n))')
    BY DEF NoOvertaking, InHand
  <2>2. NoOvertaking <=> (Alive => \A t \in InHand, n \in DOMAIN tree :
                                        timers[t].expire < Expiry(n))
    BY DEF NoOvertaking, InHand
  <2> QED
    BY <1>0, <2>1, <2>2 DEF Alive, Expiry
<1>5. ArmedInTime'
  BY <1>0, <1>2, ArmedKept DEF Alive
<1> QED
  BY <1>1, <1>2, <1>3, <1>4, <1>5 DEF IInv

\* Select and the start of the functors.
LEMMA BetweenIInv == IInv /\ (Select \/ BeginFunctors) => IInv'
<1> SUFFICES ASSUME IInv, Select \/ BeginFunctors PROVE IInv'
  OBVIOUS
<1>0. Types /\ LoopPlace
  BY DEF IInv
<1>r. Readable \in BOOLEAN
  BY DEF Readable
<1>l. /\ loop.ready \in BOOLEAN /\ loop.todo \in Nat /\ Len(queue) \in Nat
      /\ loop.todo <= Len(queue) /\ loop \in LoopRecords
  BY <1>0 DEF Types, LoopRecords
<1>1. CASE Select
  <2>1. /\ loop' = [loop EXCEPT !.pc = "handlers", !.ready = Readable] /\ loop.pc = "functors"
        /\ UNCHANGED <<now, timers, ref, slot, tree, armed, queue, fault, cancels, moved>>
    BY <1>1 DEF Select
  <2>2. /\ loop' \in LoopRecords /\ loop'.pc = "handlers" /\ loop'.todo = loop.todo
        /\ loop'.due = loop.due /\ loop'.cur = loop.cur
    BY <1>r, <1>l, <2>1 DEF LoopRecords
  <2>3. LoopPlace' /\ InHand' = InHand /\ loop'.todo <= Len(queue)
    BY <1>0, <1>l, <2>1, <2>2 DEF LoopPlace, InHand
  <2> QED
    BY <2>1, <2>2, <2>3, MovesOn DEF Inside
<1>2. CASE BeginFunctors
  <2>1. /\ loop' = [loop EXCEPT !.pc = "functors", !.todo = Len(queue)] /\ loop.pc = "handlers"
        /\ UNCHANGED <<now, timers, ref, slot, tree, armed, queue, fault, cancels, moved>>
    BY <1>2 DEF BeginFunctors
  <2>2. /\ loop' \in LoopRecords /\ loop'.pc = "functors" /\ loop'.todo = Len(queue)
        /\ loop'.due = loop.due /\ loop'.cur = loop.cur
    BY <1>l, <2>1 DEF LoopRecords
  <2>3. LoopPlace' /\ InHand' = InHand /\ loop'.todo <= Len(queue)
    BY <1>0, <1>l, <2>1, <2>2 DEF LoopPlace, InHand
  <2> QED
    BY <2>1, <2>2, <2>3, MovesOn DEF Inside
<1> QED
  BY <1>1, <1>2

\* AddTimer in another thread: the timer is not in the tree yet.
LEMMA OtherThreadIInv ==
    ASSUME IInv, NEW t \in Timers,
           (\E call \in Calls[t] : NameTimer(t, call)) \/ PublishTimer(t)
    PROVE  IInv'
<1>0. Types /\ TreeInv /\ Taken /\ LoopPlace /\ ArmedInTime /\ NoOvertaking
  BY DEF IInv
<1>1. PICK r \in TimerRecords :
        /\ timers' = [timers EXCEPT ![t] = r] /\ r.phase \notin {"tree", "freed"}
        /\ timers[t].phase \in {"none", "naming"} /\ r.attach \in {t, NoTimer}
  <2>1. CASE \E call \in Calls[t] : NameTimer(t, call)
    <3>0. PICK call \in Calls[t] : NameTimer(t, call)
      BY <2>1
    <3> DEFINE r == NewTimer(call, NextId, "naming")
    <3>1. /\ timers' = [timers EXCEPT ![t] = r] /\ timers[t].phase = "none"
          /\ NextId \in 0..MaxId
      BY <1>0, <3>0, NextIdInRange DEF NameTimer, Fresh
    <3>2. call.time \in Nat /\ call.interval \in Int
      BY TimerAssumption
    <3>3. r \in TimerRecords /\ r.phase = "naming" /\ r.attach = NoTimer
      BY <3>1, <3>2 DEF NewTimer, TimerRecords, Phases
    <3> QED
      BY <3>1, <3>3
  <2>2. CASE PublishTimer(t)
    <3> DEFINE r == [timers[t] EXCEPT !.phase = "queued"]
    <3>1. timers' = [timers EXCEPT ![t] = r] /\ timers[t].phase = "naming"
      BY <1>0, <2>2 DEF PublishTimer, Types
    <3>2. r \in TimerRecords /\ r.phase = "queued" /\ r.attach = timers[t].attach
      BY <1>0 DEF Types, TimerRecords, Phases
    <3>3. timers[t].attach \in {t, NoTimer}
      BY <1>0 DEF TreeInv, Attached
    <3> QED
      BY <3>1, <3>2, <3>3
  <2> QED
    BY <2>1, <2>2
<1>2. UNCHANGED <<now, tree, armed, loop, fault, cancels, moved>>
  BY DEF NameTimer, PublishTimer
<1>3. /\ timers' \in [Timers -> TimerRecords] /\ TreeInv' /\ NoNewExpiry
      /\ \A u \in Timers : u # t => timers'[u] = timers[u]
  BY <1>0, <1>1, <1>2, OffTree
<1>4. slot' \in 0..MaxId /\ DOMAIN ref' \subseteq 0..MaxId
      /\ (\A id \in DOMAIN ref' : ref'[id] \in Timers \cup {NoTimer})
      /\ queue' \in Seq(Functors) /\ Len(queue) <= Len(queue')
  <2>1. CASE \E call \in Calls[t] : NameTimer(t, call)
    BY <1>0, <2>1 DEF NameTimer, Types
  <2>2. CASE PublishTimer(t)
    <3>1. timers[t].id \in 0..MaxId
      BY <1>0 DEF Types, TimerRecords
    <3>2. [op |-> "add", timer |-> t, id |-> timers[t].id] \in Functors
      BY <3>1 DEF Functors
    <3>3. /\ slot' = timers[t].id /\ ref' = Store(ref, timers[t].id, t)
          /\ queue' = Append(queue, [op |-> "add", timer |-> t, id |-> timers[t].id])
      BY <2>2 DEF PublishTimer
    <3>4. DOMAIN ref' \subseteq 0..MaxId
      BY <1>0, <3>1, <3>3 DEF Store, Types
    <3>5. \A id \in DOMAIN ref' : ref'[id] \in Timers \cup {NoTimer}
      BY <1>0, <3>3 DEF Store, Types
    <3>6. queue' \in Seq(Functors) /\ Len(queue) <= Len(queue')
      BY <1>0, <3>2, <3>3 DEF Types
    <3> QED
      BY <3>1, <3>3, <3>4, <3>5, <3>6
  <2> QED
    BY <2>1, <2>2
<1>5. Types'
  <2>1. loop.todo \in Nat /\ Len(queue) \in Nat /\ Len(queue') \in Nat /\ loop'.todo <= Len(queue')
    BY <1>0, <1>2, <1>4 DEF Types, LoopRecords
  <2> QED
    BY <1>0, <1>2, <1>3, <1>4, <2>1 DEF Types
<1>6. Taken' /\ NoOvertaking'
  <2>1. InHand' = InHand /\ now' = now /\ now \in Nat /\ Alive' = Alive
    BY <1>0, <1>2 DEF InHand, Alive, Types
  <2>2. \A u \in InHand' : u \in Timers /\ u # t
    BY <1>0, <1>1, <2>1 DEF Taken, Types, LoopRecords, InHand
  <2> QED
    BY <1>0, <1>3, <2>1, <2>2, TakenKept
<1>7. ArmedInTime'
  BY <1>0, <1>2, <1>3, ArmedKept DEF Alive
<1>8. LoopPlace'
  BY <1>0, <1>2 DEF LoopPlace
<1> QED
  BY <1>3, <1>5, <1>6, <1>7, <1>8 DEF IInv

\* CancelTimer in another thread hands the cancellation over.
LEMMA CancelTimerIInv ==
    ASSUME IInv, NEW id \in 0..MaxId, CancelTimer(id)
    PROVE  IInv'
<1>0. Types /\ TreeInv /\ Taken /\ LoopPlace /\ ArmedInTime /\ NoOvertaking
  BY DEF IInv
<1>1. /\ cancels < MaxCancels /\ cancels' = cancels + 1
      /\ queue' = Append(queue, [op |-> "cancel", timer |-> NoTimer, id |-> id])
      /\ UNCHANGED <<now, timers, ref, slot, tree, armed, loop, fault, moved>>
  BY DEF CancelTimer
<1>2. [op |-> "cancel", timer |-> NoTimer, id |-> id] \in Functors
  BY DEF Functors
<1>3. queue' \in Seq(Functors) /\ loop'.todo <= Len(queue') /\ cancels' \in 0..MaxCancels
  BY <1>0, <1>1, <1>2, TimerAssumption DEF Types, LoopRecords
<1>4. Types'
  BY <1>0, <1>1, <1>3 DEF Types
<1>5. TreeInv'
  BY <1>0, <1>1 DEF TreeInv, Entries, Nodes, Attached
<1>6. Taken' /\ LoopPlace'
  BY <1>0, <1>1 DEF Taken, LoopPlace, InHand
<1>7. ArmedInTime' /\ NoOvertaking'
  BY <1>0, <1>1 DEF ArmedInTime, NoOvertaking, Alive, Expiry
<1> QED
  BY <1>4, <1>5, <1>6, <1>7 DEF IInv

\* AddTimer in the loop thread.
LEMMA AddInLoopIInv ==
    ASSUME IInv, NEW t \in Timers, NEW call \in Calls[t], AddInLoop(t, call)
    PROVE  IInv'
<1> DEFINE tm == NewTimer(call, NextId, "none")
<1>0. Types /\ TreeInv /\ Taken /\ LoopPlace
  BY DEF IInv
<1>1. /\ Alive /\ timers[t].phase = "none" /\ NextId \in 0..MaxId
      /\ slot' = NextId /\ ref' = Store(ref, NextId, t) /\ InsertTimer(t, tm)
      /\ UNCHANGED <<now, queue, loop, fault, cancels, moved>>
  BY <1>0, NextIdInRange DEF AddInLoop, Fresh
<1>2. tm \in TimerRecords
  <2>1. call.time \in Nat /\ call.interval \in Int
    BY TimerAssumption
  <2> QED
    BY <1>1, <2>1 DEF NewTimer, TimerRecords, Phases
<1> HIDE DEF tm
<1>3. /\ timers' \in [Timers -> TimerRecords] /\ TreeInv'
      /\ DOMAIN tree' \subseteq DOMAIN tree \cup {t}
      /\ \A n \in DOMAIN tree' : tree'[n] \in Timers
  BY <1>0, <1>1, <1>2, InsertInTree
<1>4. Taken' /\ NoOvertaking' /\ ArmedInTime' /\ armed' \in Nat
  <2>1. InHand' = InHand /\ t \notin InHand
    BY <1>0, <1>1 DEF InHand, Taken
  <2> QED
    BY <1>1, <1>2, <2>1, InsertKeeps
<1>5. Types'
  <2>1. DOMAIN ref' \subseteq 0..MaxId
    BY <1>0, <1>1 DEF Store, Types
  <2>2. \A id \in DOMAIN ref' : ref'[id] \in Timers \cup {NoTimer}
    BY <1>0, <1>1 DEF Store, Types
  <2>3. DOMAIN tree' \subseteq Timers
    BY <1>0, <1>3 DEF Types
  <2> QED
    BY <1>0, <1>1, <1>3, <1>4, <2>1, <2>2, <2>3 DEF Types
<1>6. LoopPlace'
  BY <1>0, <1>1 DEF LoopPlace
<1> QED
  BY <1>3, <1>4, <1>5, <1>6 DEF IInv

\* A cancellation that runs in the loop thread, at once or as a functor.
LEMMA CancelIInv ==
    ASSUME IInv, Alive, NEW id \in 0..MaxId, CancelId(id),
           cancels' \in 0..MaxCancels, queue' \in Seq(Functors),
           loop' \in LoopRecords, loop'.todo <= Len(queue'),
           loop'.pc = loop.pc, loop'.due = loop.due, loop'.cur = loop.cur,
           UNCHANGED <<now, slot, armed>>
    PROVE  IInv'
<1>0. Types /\ TreeInv /\ Taken /\ LoopPlace /\ ArmedInTime /\ NoOvertaking
  BY DEF IInv
<1>1. /\ timers' \in [Timers -> TimerRecords] /\ TreeInv' /\ NoNewExpiry
      /\ DOMAIN ref' \subseteq 0..MaxId
      /\ \A i \in DOMAIN ref' : ref'[i] \in Timers \cup {NoTimer}
      /\ DOMAIN tree' \subseteq Timers /\ \A n \in DOMAIN tree' : tree'[n] \in Timers
      /\ moved' \in BOOLEAN /\ fault' \in {fault, "freed", "node"}
      /\ \A u \in Timers : /\ timers'[u].expire = timers[u].expire
                           /\ timers'[u].phase \in {timers[u].phase, "freed"}
  BY <1>0, CancelKeeps
<1>2. Types'
  BY <1>0, <1>1 DEF Types
<1>3. Taken' /\ NoOvertaking'
  <2>1. InHand' = InHand /\ now' = now /\ now \in Nat /\ (Alive' => Alive)
        /\ InHand' \subseteq Timers
    BY <1>0 DEF InHand, Alive, Types, LoopRecords
  <2> QED
    BY <1>0, <1>1, <2>1, TakenKept
<1>4. ArmedInTime'
  BY <1>0, <1>1, ArmedKept DEF Alive
<1>5. LoopPlace'
  BY <1>0 DEF LoopPlace
<1> QED
  BY <1>1, <1>2, <1>3, <1>4, <1>5 DEF IInv

\* CancelTimer in the loop thread.
LEMMA CancelInLoopIInv ==
    ASSUME IInv, NEW id \in 0..MaxId, CancelInLoop(id)
    PROVE  IInv'
<1>1. /\ Alive /\ cancels < MaxCancels /\ cancels' = cancels + 1 /\ CancelId(id)
      /\ UNCHANGED <<now, slot, armed, queue, loop>>
  BY DEF CancelInLoop
<1>2. /\ cancels' \in 0..MaxCancels /\ queue' \in Seq(Functors) /\ loop' \in LoopRecords
      /\ loop'.todo <= Len(queue')
  BY <1>1, TimerAssumption DEF IInv, Types
<1> QED
  BY <1>1, <1>2, CancelIInv

\* The end of HandleRead: the timerfd is set for the first timer of the tree.
LEMMA RearmIInv == IInv /\ Rearm => IInv'
<1> SUFFICES ASSUME IInv, Rearm PROVE IInv'
  OBVIOUS
<1>0. Types /\ TreeInv /\ Taken /\ LoopPlace /\ NoOvertaking
  BY DEF IInv
<1>1. /\ loop.pc = "expired" /\ loop.due = {}
      /\ armed' = IF DOMAIN tree = {} THEN armed
                  ELSE Expiry(CHOOSE n \in DOMAIN tree : IsMin(n))
      /\ loop' = [loop EXCEPT !.pc = "handlers"]
      /\ UNCHANGED <<now, timers, ref, slot, tree, queue, fault, cancels, moved>>
  BY DEF Rearm
<1>2. /\ loop' \in LoopRecords /\ loop'.pc = "handlers" /\ loop'.todo = loop.todo
      /\ loop'.due = {} /\ loop'.cur = loop.cur /\ loop.cur = NoTimer
  BY <1>0, <1>1 DEF Types, LoopRecords, LoopPlace
<1>3. TreeInv'
  BY <1>0, <1>1 DEF TreeInv, Entries, Nodes, Attached
<1>4. Taken' /\ LoopPlace' /\ NoOvertaking'
  BY <1>1, <1>2 DEF Taken, LoopPlace, NoOvertaking, InHand
<1>5. armed' \in Nat /\ \A n \in DOMAIN tree : armed' # 0 /\ armed' <= Expiry(n)
  <2>1. CASE DOMAIN tree = {}
    BY <1>0, <1>1, <2>1 DEF Types
  <2>2. CASE DOMAIN tree # {}
    <3> DEFINE first == CHOOSE n \in DOMAIN tree : IsMin(n)
    <3>1. \E n \in DOMAIN tree : IsMin(n)
      BY <1>0, <2>2, Earliest DEF IsMin
    <3>2. first \in DOMAIN tree /\ IsMin(first)
      BY <3>1
    <3>3. armed' = Expiry(first)
      BY <1>1, <2>2
    <3> HIDE DEF first
    <3>4. Expiry(first) \in Nat /\ tree[first] \in Timers
      BY <1>0, <3>2, ExpiryType
    <3>5. Expiry(first) # 0
      BY <1>0, <3>2, <3>4 DEF Expiry, TreeInv, Entries, Attached
    <3> QED
      BY <3>2, <3>3, <3>4, <3>5 DEF IsMin
  <2> QED
    BY <2>1, <2>2
<1>6. ArmedInTime'
  BY <1>1, <1>5 DEF ArmedInTime, Expiry
<1>7. Types'
  BY <1>0, <1>1, <1>2, <1>5 DEF Types
<1> QED
  BY <1>3, <1>4, <1>6, <1>7 DEF IInv

\* HandleRead takes what expired before now; what stays expires later.
LEMMA HandleReadIInv == IInv /\ HandleRead => IInv'
<1> SUFFICES ASSUME IInv, HandleRead PROVE IInv'
  OBVIOUS
<1> DEFINE expired == {n \in DOMAIN tree : Expiry(n) < now}
           taken == {tree[n] : n \in expired}
<1>0. Types /\ TreeInv /\ Taken /\ LoopPlace
  BY DEF IInv
<1>1. /\ loop.pc = "handlers" /\ loop.due = {} /\ loop.cur = NoTimer
      /\ UNCHANGED <<now, ref, slot, queue, cancels, moved>>
  BY <1>0 DEF HandleRead, LoopPlace
<1>2. CASE fault' = "read" /\ UNCHANGED <<armed, tree, timers, loop>>
  <2>1. Types'
    BY <1>0, <1>1, <1>2 DEF Types
  <2>2. TreeInv'
    BY <1>0, <1>1, <1>2 DEF TreeInv, Entries, Nodes, Attached
  <2>3. Taken' /\ LoopPlace'
    BY <1>0, <1>1, <1>2 DEF Taken, LoopPlace, InHand
  <2>4. ArmedInTime' /\ NoOvertaking'
    BY <1>2 DEF ArmedInTime, NoOvertaking, Alive
  <2> QED
    BY <2>1, <2>2, <2>3, <2>4 DEF IInv
<1>3. CASE /\ armed' = 0 /\ UNCHANGED fault
           /\ tree' = Restrict(tree, DOMAIN tree \ expired)
           /\ timers' = [t \in Timers |->
                            IF \E n \in expired : tree[n] = t
                            THEN [timers[t] EXCEPT !.phase = "due", !.attach = NoTimer]
                            ELSE timers[t]]
           /\ loop' = [loop EXCEPT !.pc = "expired", !.ready = FALSE, !.due = taken]
  <2>1. DOMAIN tree' = DOMAIN tree \ expired /\ \A n \in DOMAIN tree' : tree'[n] = tree[n]
    BY <1>3 DEF Restrict
  <2>2. taken \in SUBSET Timers
    BY <1>0 DEF Types
  <2>3. /\ loop' \in LoopRecords /\ loop'.pc = "expired" /\ loop'.due = taken
        /\ loop'.cur = NoTimer /\ loop'.todo = loop.todo
    <3> HIDE DEF taken
    <3> QED
      BY <1>0, <1>1, <1>3, <2>2 DEF Types, LoopRecords
  <2>4. ASSUME NEW t \in taken
        PROVE  /\ t \in Timers /\ timers'[t] \in TimerRecords /\ timers'[t].phase = "due"
               /\ timers'[t].attach = NoTimer /\ timers'[t].expire = timers[t].expire
               /\ timers[t].expire < now /\ timers[t].phase = "tree"
    <3>1. PICK n \in expired : tree[n] = t
      OBVIOUS
    <3>2. t \in Timers /\ timers[t].expire < now /\ timers[t].phase = "tree"
      BY <1>0, <3>1 DEF Types, TreeInv, Entries, Expiry
    <3> DEFINE r == [timers[t] EXCEPT !.phase = "due", !.attach = NoTimer]
    <3>3. timers'[t] = r
      <4> HIDE DEF expired
      <4> QED
        BY <1>3, <3>1, <3>2
    <3>4. /\ r \in TimerRecords /\ r.phase = "due" /\ r.attach = NoTimer
          /\ r.expire = timers[t].expire
      BY <1>0, <3>2 DEF Types, TimerRecords, Phases
    <3> QED
      BY <3>2, <3>3, <3>4
  <2>5. ASSUME NEW t \in Timers, t \notin taken
        PROVE  timers'[t] = timers[t]
    <3>1. ~ \E n \in expired : tree[n] = t
      BY <2>5
    <3> HIDE DEF expired, taken
    <3> QED
      BY <1>3, <3>1
  <2>6. \A n \in DOMAIN tree' : n \in DOMAIN tree /\ n \in Timers /\ tree[n] \in Timers
                                 /\ tree[n] \notin taken /\ ~(Expiry(n) < now)
    BY <1>0, <2>1 DEF Types, TreeInv, Entries
  <2> HIDE DEF expired
  <2>7. timers' \in [Timers -> TimerRecords]
    <3>1. \A t \in Timers : timers'[t] \in TimerRecords
      <4> HIDE DEF taken
      <4> QED
        BY <1>0, <2>4, <2>5 DEF Types
    <3>2. timers' = [t \in Timers |-> timers'[t]]
      BY <1>3
    <3> QED
      BY <3>1, <3>2
  <2>8. Types'
    BY <1>0, <1>1, <1>3, <2>1, <2>3, <2>6, <2>7 DEF Types
  <2>9. TreeInv'
    <3>1. IsFiniteSet(DOMAIN tree')
      BY <1>0, <2>1, FS_Subset DEF TreeInv
    <3>2. Entries'
      <4>1. \A n \in DOMAIN tree' : timers'[tree'[n]].phase = "tree"
        BY <1>0, <2>1, <2>5, <2>6 DEF TreeInv, Entries
      <4>2. ASSUME NEW t \in Timers, timers'[t].phase = "tree"
            PROVE  \E n \in DOMAIN tree' : tree'[n] = t
        <5>1. t \notin taken
          <6> HIDE DEF taken
          <6> QED
            BY <2>4, <4>2
        <5>2. timers[t].phase = "tree"
          BY <2>5, <4>2, <5>1
        <5>3. PICK n \in DOMAIN tree : tree[n] = t
          BY <1>0, <5>2 DEF TreeInv, Entries
        <5>4. n \notin expired
          BY <5>1, <5>3
        <5> QED
          BY <2>1, <5>3, <5>4
      <4>3. \A n, m \in DOMAIN tree' : tree'[n] = tree'[m] => n = m
        BY <1>0, <2>1 DEF TreeInv, Entries
      <4> QED
        BY <4>1, <4>2, <4>3 DEF Entries
    <3>3. Nodes'
      <4> HIDE DEF taken
      <4>1. \A n \in DOMAIN tree' : timers[n].phase = "freed" => timers'[n].phase = "freed"
        BY <2>4, <2>5, <2>6
      <4> QED
        BY <1>0, <1>1, <2>1, <4>1 DEF TreeInv, Nodes
    <3>4. Attached'
      <4> HIDE DEF taken
      <4> QED
        BY <1>0, <2>4, <2>5 DEF TreeInv, Attached
    <3> QED
      BY <3>1, <3>2, <3>3, <3>4 DEF TreeInv
  <2>10. InHand' = taken
    <3> HIDE DEF taken
    <3> QED
      BY <2>3 DEF InHand
  <2> HIDE DEF taken
  <2>11. Taken' /\ LoopPlace'
    <3>1. NoTimer \notin taken
      BY <2>2, TimerAssumption
    <3> QED
      BY <1>1, <2>3, <2>4, <2>10, <3>1 DEF Taken, LoopPlace
  <2>12. NoOvertaking'
    <3>1. SUFFICES ASSUME NEW t \in taken, NEW n \in DOMAIN tree'
                   PROVE  timers'[t].expire < (Expiry(n))'
      BY <2>10 DEF NoOvertaking, InHand
    <3>2. (Expiry(n))' = Expiry(n) /\ ~(Expiry(n) < now)
      BY <2>1, <2>5, <2>6 DEF Expiry
    <3>3. timers'[t].expire = timers[t].expire /\ timers[t].expire < now
      BY <2>4
    <3>4. Expiry(n) \in Nat /\ timers[t].expire \in Nat /\ now \in Nat
      BY <1>0, <2>2, <2>6, ExpiryType DEF Types, TimerRecords
    <3> QED
      BY <3>2, <3>3, <3>4
  <2>13. ArmedInTime'
    BY <2>3 DEF ArmedInTime
  <2> QED
    BY <2>8, <2>9, <2>11, <2>12, <2>13 DEF IInv
<1>4. QED
  <2> HIDE DEF expired
  <2>1. \/ fault' = "read" /\ UNCHANGED <<armed, tree, timers, loop>>
        \/ /\ armed' = 0 /\ UNCHANGED fault
           /\ tree' = Restrict(tree, DOMAIN tree \ expired)
           /\ timers' = [t \in Timers |->
                            IF \E n \in expired : tree[n] = t
                            THEN [timers[t] EXCEPT !.phase = "due", !.attach = NoTimer]
                            ELSE timers[t]]
           /\ loop' = [loop EXCEPT !.pc = "expired", !.ready = FALSE, !.due = taken]
    BY DEF HandleRead, expired
  <2> QED
    BY <1>2, <1>3, <2>1

\* A step of PerTick on a timer t in hand, which keeps its expiry.
LEMMA InHandIInv ==
    ASSUME IInv, NEW t \in InHand, NEW r \in TimerRecords,
           timers' = [timers EXCEPT ![t] = r], timers[t].phase = "due",
           r.phase \in {"due", "freed"}, r.attach = timers[t].attach,
           r.expire = timers[t].expire,
           loop' \in LoopRecords, loop'.todo = loop.todo,
           InHand' \subseteq InHand, LoopPlace', Inside(loop'.pc),
           UNCHANGED <<now, ref, slot, tree, armed, queue, fault, cancels, moved>>
    PROVE  IInv'
<1>0. Types /\ TreeInv /\ Taken /\ ArmedInTime /\ NoOvertaking
  BY DEF IInv
<1>1. t \in Timers
  BY <1>0 DEF Types, LoopRecords, InHand
<1>2. r.attach \in {t, NoTimer}
  BY <1>0, <1>1 DEF TreeInv, Attached
<1>3. /\ timers' \in [Timers -> TimerRecords] /\ TreeInv' /\ NoNewExpiry
      /\ timers'[t] = r /\ \A u \in Timers : u # t => timers'[u] = timers[u]
  BY <1>0, <1>1, <1>2, OffTree
<1>4. Types'
  BY <1>0, <1>3 DEF Types
<1>5. Taken' /\ NoOvertaking'
  <2>1. \A u \in InHand' : /\ timers'[u].expire = timers[u].expire
                           /\ timers'[u].phase \in {timers[u].phase, "freed"}
    <3>1. \A u \in InHand' : u \in Timers
      BY <1>0 DEF Types, LoopRecords, InHand
    <3> QED
      BY <1>3, <3>1
  <2>2. now' = now /\ now \in Nat /\ Alive' = Alive
    BY <1>0 DEF Types, Alive
  <2> QED
    BY <1>0, <1>3, <2>1, <2>2, TakenKept
<1>6. ArmedInTime'
  BY DEF ArmedInTime, Inside
<1> QED
  BY <1>3, <1>4, <1>5, <1>6 DEF IInv

\* The program ends in PerTick: nothing but the fault and the place of the loop.
LEMMA FaultIInv ==
    ASSUME IInv, fault' = "freed", loop' \in LoopRecords, loop'.todo <= Len(queue'),
           queue' \in Seq(Functors), InHand' \subseteq InHand, LoopPlace',
           UNCHANGED <<now, timers, ref, slot, tree, armed, cancels, moved>>
    PROVE  IInv'
<1>0. Types /\ TreeInv /\ Taken
  BY DEF IInv
<1>1. Types'
  BY <1>0 DEF Types
<1>2. TreeInv'
  BY <1>0 DEF TreeInv, Entries, Nodes, Attached
<1>3. Taken'
  BY <1>0 DEF Taken
<1>4. ArmedInTime' /\ NoOvertaking'
  BY DEF ArmedInTime, NoOvertaking, Alive
<1> QED
  BY <1>1, <1>2, <1>3, <1>4 DEF IInv

\* The second loop of PerTick up to the callback.
LEMMA RunExpiredIInv == IInv /\ RunExpired => IInv'
<1> SUFFICES ASSUME IInv, RunExpired PROVE IInv'
  OBVIOUS
<1>0. Types /\ Taken /\ LoopPlace
  BY DEF IInv
<1>1. PICK t \in loop.due :
        \/ /\ fault' = "freed"
           /\ UNCHANGED <<timers, loop>>
        \/ /\ timers[t].phase # "freed"
           /\ timers' = [timers EXCEPT ![t].elapse = @ - 1]
           /\ loop' = [loop EXCEPT !.pc = "callback", !.due = @ \ {t}, !.cur = t]
           /\ UNCHANGED fault
        \/ /\ timers[t].phase # "freed"
           /\ timers' = [timers EXCEPT ![t].phase = "freed"]
           /\ loop' = [loop EXCEPT !.due = @ \ {t}]
           /\ UNCHANGED fault
  BY DEF RunExpired
<1>2. loop.pc = "expired" /\ UNCHANGED <<now, ref, slot, tree, armed, queue, cancels, moved>>
  BY DEF RunExpired
<1>3. /\ t \in InHand /\ t \in Timers /\ loop.cur = NoTimer /\ t # NoTimer
      /\ loop \in LoopRecords /\ loop.due \in SUBSET Timers
  BY <1>0, <1>2, TimerAssumption DEF Types, LoopRecords, LoopPlace, InHand
<1>4. /\ timers[t].phase \in {"due", "freed"} /\ timers \in [Timers -> TimerRecords]
      /\ timers[t] \in TimerRecords
  BY <1>0, <1>3 DEF Taken, Types
<1>5. CASE fault' = "freed" /\ UNCHANGED <<timers, loop>>
  <2>1. /\ loop' \in LoopRecords /\ loop'.todo <= Len(queue') /\ queue' \in Seq(Functors)
        /\ InHand' \subseteq InHand /\ LoopPlace'
    BY <1>0, <1>2, <1>5 DEF Types, InHand, LoopPlace
  <2> QED
    BY <1>2, <1>5, <2>1, FaultIInv
<1>6. CASE /\ timers[t].phase # "freed" /\ timers' = [timers EXCEPT ![t].elapse = @ - 1]
           /\ loop' = [loop EXCEPT !.pc = "callback", !.due = @ \ {t}, !.cur = t]
           /\ UNCHANGED fault
  <2> DEFINE r == [timers[t] EXCEPT !.elapse = @ - 1]
  <2>1. /\ r \in TimerRecords /\ r.phase = timers[t].phase /\ r.attach = timers[t].attach
        /\ r.expire = timers[t].expire /\ timers' = [timers EXCEPT ![t] = r]
    BY <1>4, <1>6 DEF TimerRecords
  <2>2. /\ loop' \in LoopRecords /\ loop'.pc = "callback" /\ loop'.due = loop.due \ {t}
        /\ loop'.cur = t /\ loop'.todo = loop.todo
    BY <1>3, <1>6 DEF LoopRecords
  <2>3. InHand' \subseteq InHand /\ LoopPlace' /\ Inside(loop'.pc)
    BY <1>3, <2>2 DEF InHand, LoopPlace, Inside
  <2> HIDE DEF r
  <2> QED
    BY <1>2, <1>3, <1>4, <1>6, <2>1, <2>2, <2>3, InHandIInv
<1>7. CASE /\ timers[t].phase # "freed" /\ timers' = [timers EXCEPT ![t].phase = "freed"]
           /\ loop' = [loop EXCEPT !.due = @ \ {t}]
           /\ UNCHANGED fault
  <2> DEFINE r == [timers[t] EXCEPT !.phase = "freed"]
  <2>1. /\ r \in TimerRecords /\ r.phase = "freed" /\ r.attach = timers[t].attach
        /\ r.expire = timers[t].expire /\ timers' = [timers EXCEPT ![t] = r]
    BY <1>4, <1>7 DEF TimerRecords, Phases
  <2>2. /\ loop' \in LoopRecords /\ loop'.pc = "expired" /\ loop'.due = loop.due \ {t}
        /\ loop'.cur = NoTimer /\ loop'.todo = loop.todo
    BY <1>2, <1>3, <1>7 DEF LoopRecords
  <2>3. InHand' \subseteq InHand /\ LoopPlace' /\ Inside(loop'.pc)
    BY <1>0, <1>3, <2>2 DEF InHand, LoopPlace, Inside
  <2> HIDE DEF r
  <2> QED
    BY <1>2, <1>3, <1>4, <1>7, <2>1, <2>2, <2>3, InHandIInv
<1> QED
  BY <1>1, <1>5, <1>6, <1>7

\* The second loop of PerTick after the callback: the timer in hand is added
\* again or deleted.
LEMMA EndCallbackIInv == IInv /\ EndCallback => IInv'
<1> SUFFICES ASSUME IInv, EndCallback PROVE IInv'
  OBVIOUS
<1> DEFINE t == loop.cur
<1>0. Types /\ TreeInv /\ Taken /\ LoopPlace
  BY DEF IInv
<1>1. /\ Alive /\ loop.pc = "callback" /\ loop' = [loop EXCEPT !.pc = "expired", !.cur = NoTimer]
      /\ UNCHANGED <<now, ref, slot, queue, cancels, moved>>
  BY DEF EndCallback
<1>2. \/ /\ fault' = "freed"
         /\ UNCHANGED <<timers, tree, armed>>
      \/ /\ timers[t].phase # "freed"
         /\ InsertTimer(t, timers[t])
         /\ UNCHANGED fault
      \/ /\ timers[t].phase # "freed"
         /\ timers' = [timers EXCEPT ![t].phase = "freed"]
         /\ UNCHANGED <<tree, armed, fault>>
  BY DEF EndCallback
<1>3. /\ t \in InHand /\ t \in Timers /\ t \notin loop.due /\ NoTimer \notin loop.due
      /\ loop \in LoopRecords /\ queue \in Seq(Functors) /\ loop.todo <= Len(queue)
  BY <1>0, <1>1, TimerAssumption DEF Types, LoopRecords, LoopPlace, InHand
<1>4. /\ timers[t].phase \in {"due", "freed"} /\ timers \in [Timers -> TimerRecords]
      /\ timers[t] \in TimerRecords
  BY <1>0, <1>3 DEF Taken, Types
<1>5. /\ loop' \in LoopRecords /\ loop'.pc = "expired" /\ loop'.due = loop.due
      /\ loop'.cur = NoTimer /\ loop'.todo = loop.todo
  BY <1>1, <1>3, TimerAssumption DEF LoopRecords
<1>6. InHand' \subseteq InHand \ {t} /\ LoopPlace' /\ Inside(loop'.pc)
  BY <1>3, <1>5 DEF InHand, LoopPlace, Inside
<1> HIDE DEF t
<1>7. CASE fault' = "freed" /\ UNCHANGED <<timers, tree, armed>>
  <2>1. loop'.todo <= Len(queue') /\ queue' \in Seq(Functors)
    BY <1>1, <1>3, <1>5
  <2> QED
    BY <1>1, <1>5, <1>6, <1>7, <2>1, FaultIInv
<1>8. CASE timers[t].phase # "freed" /\ InsertTimer(t, timers[t]) /\ UNCHANGED fault
  <2>1. /\ timers' \in [Timers -> TimerRecords] /\ TreeInv'
        /\ DOMAIN tree' \subseteq DOMAIN tree \cup {t}
        /\ \A n \in DOMAIN tree' : tree'[n] \in Timers
    BY <1>0, <1>1, <1>3, <1>4, <1>8, InsertInTree
  <2>2. Taken' /\ NoOvertaking' /\ ArmedInTime' /\ armed' \in Nat
    BY <1>1, <1>3, <1>4, <1>6, <1>8, InsertKeeps
  <2>3. DOMAIN tree' \subseteq Timers
    BY <1>0, <1>3, <2>1 DEF Types
  <2>4. Types'
    BY <1>0, <1>1, <1>3, <1>5, <1>8, <2>1, <2>2, <2>3 DEF Types
  <2> QED
    BY <1>6, <2>1, <2>2, <2>4 DEF IInv
<1>9. CASE /\ timers[t].phase # "freed" /\ timers' = [timers EXCEPT ![t].phase = "freed"]
           /\ UNCHANGED <<tree, armed, fault>>
  <2> DEFINE r == [timers[t] EXCEPT !.phase = "freed"]
  <2>1. /\ r \in TimerRecords /\ r.phase = "freed" /\ r.attach = timers[t].attach
        /\ r.expire = timers[t].expire /\ timers' = [timers EXCEPT ![t] = r]
    BY <1>4, <1>9 DEF TimerRecords, Phases
  <2> HIDE DEF r
  <2> QED
    BY <1>1, <1>3, <1>4, <1>5, <1>6, <1>9, <2>1, InHandIInv
<1> QED
  BY <1>2, <1>7, <1>8, <1>9

\* A functor: what AddTimer and CancelTimer of another thread handed over.
LEMMA RunFunctorIInv == IInv /\ RunFunctor => IInv'
<1> SUFFICES ASSUME IInv, RunFunctor PROVE IInv'
  OBVIOUS
<1> DEFINE f == Head(queue)
           t == f.timer
<1>0. Types /\ TreeInv /\ Taken /\ LoopPlace
  BY DEF IInv
<1>1. /\ Alive /\ loop.pc = "functors" /\ loop.todo > 0
      /\ loop' = [loop EXCEPT !.todo = @ - 1] /\ queue' = Tail(queue)
      /\ UNCHANGED <<now, slot, cancels>>
  BY DEF RunFunctor
<1>2. \/ /\ f.op = "add"
         /\ timers[t].phase = "queued"
         /\ InsertTimer(t, timers[t])
         /\ UNCHANGED <<ref, fault, moved>>
      \/ /\ fault' = "freed"
         /\ UNCHANGED <<timers, tree, armed, ref, moved>>
      \/ /\ CancelId(f.id)
         /\ UNCHANGED armed
  BY DEF RunFunctor
<1>3. /\ loop \in LoopRecords /\ queue \in Seq(Functors) /\ loop.todo <= Len(queue)
      /\ loop.todo \in Nat /\ loop.due = {} /\ loop.cur = NoTimer
  BY <1>0, <1>1 DEF Types, LoopRecords, LoopPlace
<1>4. /\ f \in Functors /\ queue' \in Seq(Functors) /\ Len(queue') = Len(queue) - 1
      /\ loop.todo - 1 \in Nat /\ loop.todo - 1 <= Len(queue')
  <2>1. queue # <<>> /\ Len(queue) \in Nat
    BY <1>1, <1>3
  <2> QED
    BY <1>1, <1>3, <2>1
<1>5. /\ loop' \in LoopRecords /\ loop'.pc = loop.pc /\ loop'.due = loop.due
      /\ loop'.cur = loop.cur /\ loop'.todo = loop.todo - 1
  BY <1>1, <1>3, <1>4 DEF LoopRecords
<1>6. f.id \in 0..MaxId /\ (f.op = "add" => t \in Timers)
  <2> HIDE DEF f
  <2> QED
    BY <1>4 DEF Functors
<1>7. InHand = {} /\ InHand' = {} /\ LoopPlace' /\ loop'.todo <= Len(queue')
  BY <1>0, <1>3, <1>4, <1>5 DEF InHand, LoopPlace
<1> HIDE DEF f, t
<1>8. CASE /\ f.op = "add" /\ timers[t].phase = "queued" /\ InsertTimer(t, timers[t])
           /\ UNCHANGED <<ref, fault, moved>>
  <2>0. t \in Timers /\ timers[t] \in TimerRecords
    BY <1>0, <1>6, <1>8 DEF Types
  <2>1. /\ timers' \in [Timers -> TimerRecords] /\ TreeInv'
        /\ DOMAIN tree' \subseteq DOMAIN tree \cup {t}
        /\ \A n \in DOMAIN tree' : tree'[n] \in Timers
    BY <1>0, <1>8, <2>0, InsertInTree
  <2>2. Taken' /\ NoOvertaking' /\ ArmedInTime' /\ armed' \in Nat
    BY <1>1, <1>5, <1>7, <1>8, <2>0, InsertKeeps
  <2>3. DOMAIN tree' \subseteq Timers
    BY <1>0, <2>0, <2>1 DEF Types
  <2>4. Types'
    BY <1>0, <1>1, <1>4, <1>5, <1>7, <1>8, <2>1, <2>2, <2>3 DEF Types
  <2> QED
    BY <1>7, <2>1, <2>2, <2>4 DEF IInv
<1>9. CASE fault' = "freed" /\ UNCHANGED <<timers, tree, armed, ref, moved>>
  BY <1>1, <1>4, <1>5, <1>7, <1>9, FaultIInv
<1>10. CASE CancelId(f.id) /\ UNCHANGED armed
  <2>1. cancels' \in 0..MaxCancels
    BY <1>0, <1>1 DEF Types
  <2> QED
    BY <1>1, <1>4, <1>5, <1>6, <1>7, <1>10, <2>1, CancelIInv
<1> QED
  BY <1>2, <1>8, <1>9, <1>10

\* Every step keeps the invariant.
LEMMA NextIInv == IInv /\ [Next]_vars => IInv'
<1> SUFFICES ASSUME IInv, [Next]_vars PROVE IInv'
  OBVIOUS
<1>1. CASE Tick
  BY <1>1, TickIInv
<1>2. CASE LoopStep
  BY <1>2, BetweenIInv, HandleReadIInv, RunExpiredIInv, EndCallbackIInv, RearmIInv,
     RunFunctorIInv DEF LoopStep
<1>3. CASE \E t \in Timers : PublishTimer(t)
  BY <1>3, OtherThreadIInv
<1>4. CASE \E t \in Timers : \E call \in Calls[t] : NameTimer(t, call) \/ AddInLoop(t, call)
  BY <1>4, OtherThreadIInv, AddInLoopIInv
<1>5. CASE \E id \in 0..MaxId : CancelTimer(id) \/ CancelInLoop(id)
  BY <1>5, CancelTimerIInv, CancelInLoopIInv
<1>6. CASE UNCHANGED vars
  <2>1. UNCHANGED <<now, timers, ref, slot, tree, armed, queue, loop, fault, cancels, moved>>
    BY <1>6 DEF vars
  <2>2. /\ loop' \in LoopRecords /\ loop'.todo <= Len(queue) /\ InHand' = InHand
        /\ LoopPlace' /\ (Inside(loop.pc) => Inside(loop'.pc))
    BY <2>1 DEF IInv, Types, InHand, LoopPlace
  <2> QED
    BY <2>1, <2>2, MovesOn
<1> QED
  BY <1>1, <1>2, <1>3, <1>4, <1>5, <1>6 DEF Next

\* What the invariant says about the number of nodes: as many as waiting timers.
LEMMA OneNodeEach ==
    ASSUME IInv
    PROVE  /\ {tree[n] : n \in DOMAIN tree} = {t \in Timers : timers[t].phase = "tree"}
           /\ Cardinality(DOMAIN tree) = Cardinality({tree[n] : n \in DOMAIN tree})
<1> DEFINE D == DOMAIN tree
           E == {tree[n] : n \in D}
           f == [n \in D |-> tree[n]]
<1>0. /\ Types /\ Entries /\ IsFiniteSet(D)
  BY DEF IInv, TreeInv
<1>1. E = {t \in Timers : timers[t].phase = "tree"}
  BY <1>0 DEF Types, Entries
<1>2. f \in Bijection(D, E)
  <2>1. f \in [D -> E] /\ \A x \in E : \E n \in D : f[n] = x
    OBVIOUS
  <2>2. \A n, m \in D : f[n] = f[m] => n = m
    BY <1>0 DEF Entries
  <2> QED
    BY <2>1, <2>2 DEF Bijection, Injection, Surjection, IsInjective
<1>3. Cardinality(D) = Cardinality(E)
  BY <1>0, <1>2, FS_Bijection DEF ExistsBijection
<1> QED
  BY <1>1, <1>3

\* Outside HandleRead the timerfd is set for the earliest timer or before it,
\* whatever AddTimer, CancelTimer and PerTick did in between, for any number of
\* timers, delays, identifiers and cancellations.
THEOREM TimerFdInTime == Spec => []ArmedInTime
<1>1. IInv => ArmedInTime
  BY DEF IInv
<1> QED
  BY <1>1, InitIInv, NextIInv, PTL DEF Spec

\* No callback of PerTick runs while a timer that expired earlier waits in the
\* tree, whatever the callbacks before it added, cancelled or repeated.
THEOREM CallbacksInOrder == Spec => []NoOvertaking
<1>1. IInv => NoOvertaking
  BY DEF IInv
<1> QED
  BY <1>1, InitIInv, NextIInv, PTL DEF Spec

\* The tree holds every waiting timer once and no freed one; until cancelTimer
\* moves an entry to another node, each timer is attached to its own.
THEOREM TreeIsWaiting == Spec => []TreeHoldsWaiting
<1>1. IInv => TreeHoldsWaiting
  <2> SUFFICES ASSUME IInv PROVE TreeHoldsWaiting
    OBVIOUS
  <2>0. Types /\ TreeInv
    BY DEF IInv
  <2>1. TypeOK
    <3>1. \A t \in Timers : timers[t].phase \in Phases
      BY <2>0 DEF Types, TimerRecords
    <3>2. loop.pc \in {"handlers", "expired", "callback", "functors"}
      BY <2>0 DEF Types, LoopRecords
    <3>3. Range(tree) \subseteq Timers
      BY <2>0 DEF Types, Range
    <3> QED
      BY <2>0, <3>1, <3>2, <3>3 DEF Types, TypeOK
  <2>2. ~moved => \A n \in DOMAIN tree : timers[tree[n]].attach = n
    BY <2>0 DEF Types, TreeInv, Entries, Nodes, Attached
  <2> QED
    BY <2>1, <2>2, OneNodeEach DEF TreeHoldsWaiting
<1> QED
  BY <1>1, InitIInv, NextIInv, PTL DEF Spec
=============================================================================
