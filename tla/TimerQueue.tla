----------------------------- MODULE TimerQueue -----------------------------
(***************************************************************************)
(* rpc/timer: timers kept in a red-black tree ordered by their expiry, a   *)
(* map _ref from identifiers to timers, and one timerfd that is armed for  *)
(* the earliest timer.  Other threads call AddTimer and CancelTimer; the   *)
(* loop thread runs what they hand over, handlers of other channels, and   *)
(* the callbacks of the timers, and may call both itself.                  *)
(*                                                                         *)
(* The tree is what OrderedMap promises: a map from nodes to timers whose  *)
(* entries may move between nodes when another one is deleted.  The queue  *)
(* of functors is what Executor promises.  A node has the name of the      *)
(* timer it was allocated for.  Time is counted in ticks since _own_epoch. *)
(*                                                                         *)
(* Using freed memory is undefined behaviour: "fault" records what ended   *)
(* the program and nothing happens afterwards.                             *)
(***************************************************************************)
EXTENDS Integers, Sequences, FiniteSets, Functions

CONSTANTS
    Timers,         \* the Timer objects, in the order of their allocation
    NoTimer,        \* nullptr
    Calls,          \* Calls[t]: the delays and repetition counts AddTimer may
                    \* be called with for t
    MaxId,          \* INT_MAX
    MaxTime,        \* bound: the last tick of the clock
    MaxCancels      \* bound: calls of CancelTimer

ASSUME TimerAssumption ==
    /\ Timers \subseteq Nat /\ NoTimer \notin Timers
    /\ \A t \in Timers : Calls[t] \subseteq [time : Nat, interval : Int]
    /\ MaxId \in Nat /\ MaxTime \in Nat \ {0} /\ MaxCancels \in Nat

VARIABLES
    now,        \* GetNowTicks() - _own_epoch
    timers,     \* the fields of every Timer and the phase it is in
    ref,        \* _ref
    slot,       \* _slot
    tree,       \* _tree: partial function from nodes to timers
    armed,      \* the time the timerfd is set to; 0: disarmed or already read
    queue,      \* functors handed to the loop
    loop,       \* the loop thread: its place and the locals of PerTick
    fault,      \* what ended the program
    cancels,    \* calls of CancelTimer
    moved       \* history: a cancellation moved an entry to another node

vars == <<now, timers, ref, slot, tree, armed, queue, loop, fault, cancels, moved>>

\* "naming": inside AddTimer; "queued": handed to the loop; "tree": waiting to
\* expire; "due": in expired_timers; "lost": its key was in the tree already.
Phases == {"none", "naming", "queued", "tree", "due", "lost", "freed"}

\* The map f after f[k] = v, which adds the key if it is not there.
Store(f, k, v) == [x \in DOMAIN f \cup {k} |-> IF x = k THEN v ELSE f[x]]

Readable == armed # 0 /\ armed <= now

Expiry(n) == timers[tree[n]].expire

\* rbtree_min
IsMin(n) == n \in DOMAIN tree /\ \A o \in DOMAIN tree : Expiry(n) <= Expiry(o)

Alive == fault = "none"

\* new Timer(): each object is used once.
Fresh(t) ==
    /\ timers[t].phase = "none"
    /\ \A u \in Timers : u < t => timers[u].phase # "none"

-----------------------------------------------------------------------------
(* The loop of nextId: from _slot + 1 on, past the end back to 0.          *)
NextId ==
    LET id(k) == (slot + k) % (MaxId + 1)
        first == CHOOSE k \in 1..(MaxId + 1) :
                    /\ id(k) \notin DOMAIN ref
                    /\ \A j \in 1..(k - 1) : id(j) \in DOMAIN ref
    IN id(first)

IdLeft == \E id \in 0..MaxId : id \notin DOMAIN ref

NewTimer(call, id, phase) ==
    [phase |-> phase, id |-> id, time |-> call.time, elapse |-> call.interval,
     expire |-> 0, attach |-> NoTimer]

\* Mutant: the first timer of an empty tree does not set the timerfd.
MutInsertTimerUnarmed(t, tm) ==
    LET e == now + tm.time
        exists == \E n \in DOMAIN tree : Expiry(n) = e IN
    /\ timers' = [timers EXCEPT ![t] =
                    [tm EXCEPT !.expire = e, !.attach = t,
                               !.phase = IF exists THEN "lost" ELSE "tree"]]
    /\ tree' = IF exists THEN tree ELSE Store(tree, t, t)
    /\ armed' = IF \E n \in DOMAIN tree : e <= Expiry(n) THEN e ELSE armed

\* Mutant: a repetition counts from the last expiry instead of from now.
MutInsertTimerFromExpiry(t, tm) ==
    LET e == (IF tm.expire = 0 THEN now ELSE tm.expire) + tm.time
        exists == \E n \in DOMAIN tree : Expiry(n) = e IN
    /\ timers' = [timers EXCEPT ![t] =
                    [tm EXCEPT !.expire = e, !.attach = t,
                               !.phase = IF exists THEN "lost" ELSE "tree"]]
    /\ tree' = IF exists THEN tree ELSE Store(tree, t, t)
    /\ armed' = IF \A n \in DOMAIN tree : e <= Expiry(n) THEN e ELSE armed

\* addTimer for the timer t, whose fields are tm.  A key that is in the tree
\* already is refused, but the new node is attached to the timer all the same.
\* The timerfd is set when no timer expires earlier.
InsertTimer(t, tm) ==
    LET e == now + tm.time
        exists == \E n \in DOMAIN tree : Expiry(n) = e IN
    /\ timers' = [timers EXCEPT ![t] =
                    [tm EXCEPT !.expire = e, !.attach = t,
                               !.phase = IF exists THEN "lost" ELSE "tree"]]
    /\ tree' = IF exists THEN tree ELSE Store(tree, t, t)
    /\ armed' = IF \A n \in DOMAIN tree : e <= Expiry(n) THEN e ELSE armed

\* Mutant: the timer is deleted, its node stays in the tree.
MutUnlink(t) == UNCHANGED <<tree, moved>>

\* cancelTimer: nothing is erased from _ref, and operator[] adds what it does
\* not find.  The node of a timer that is neither first nor last in the tree
\* may take over the next entry (DeleteByMoving of OrderedMap).
Unlink(t) ==
    LET n == timers[t].attach
        later == {m \in DOMAIN tree : Expiry(m) > Expiry(n)}
        next == CHOOSE m \in later : \A o \in later : Expiry(m) <= Expiry(o) IN
    \/ /\ tree' = Restrict(tree, DOMAIN tree \ {n})
       /\ UNCHANGED moved
    \/ /\ ~IsMin(n)
       /\ later # {}
       /\ tree' = [Restrict(tree, DOMAIN tree \ {next}) EXCEPT ![n] = tree[next]]
       /\ moved' = TRUE

CancelId(id) ==
    LET t == IF id \in DOMAIN ref THEN ref[id] ELSE NoTimer IN
    \/ /\ t = NoTimer
       /\ ref' = Store(ref, id, NoTimer)
       /\ UNCHANGED <<timers, tree, fault, moved>>
    \/ /\ t # NoTimer
       /\ timers[t].phase = "freed"
       /\ fault' = "freed"
       /\ UNCHANGED <<timers, tree, ref, moved>>
    \/ /\ t # NoTimer
       /\ timers[t].phase # "freed"
       /\ timers[t].attach = NoTimer
       /\ timers' = [timers EXCEPT ![t].phase = "freed"]
       /\ UNCHANGED <<tree, ref, fault, moved>>
    \/ /\ t # NoTimer
       /\ timers[t].phase # "freed"
       /\ timers[t].attach \in DOMAIN tree
       /\ Unlink(t)
       /\ timers' = [timers EXCEPT ![t].phase = "freed"]
       /\ UNCHANGED <<ref, fault>>
    \/ /\ t # NoTimer
       /\ timers[t].phase # "freed"
       /\ timers[t].attach # NoTimer
       /\ timers[t].attach \notin DOMAIN tree
       /\ fault' = "node"
       /\ UNCHANGED <<timers, tree, ref, moved>>

-----------------------------------------------------------------------------
Init ==
    /\ now = 1
    /\ timers = [t \in Timers |-> NewTimer([time |-> 0, interval |-> 0], 0, "none")]
    /\ ref = <<>>
    /\ slot = 0
    /\ tree = <<>>
    /\ armed = 0
    /\ queue = <<>>
    /\ loop = [pc |-> "functors", ready |-> FALSE, due |-> {}, cur |-> NoTimer,
               todo |-> 0]
    /\ fault = "none"
    /\ cancels = 0
    /\ moved = FALSE

\* The clock goes on while everybody works.
Tick ==
    /\ Alive
    /\ now < MaxTime
    /\ now' = now + 1
    /\ UNCHANGED <<timers, ref, slot, tree, armed, queue, loop, fault, cancels, moved>>

(* Calls from other threads.                                               *)

\* AddTimer up to the end of the search of nextId, which nothing protects.
NameTimer(t, call) ==
    /\ Alive
    /\ Fresh(t)
    /\ IdLeft
    /\ timers' = [timers EXCEPT ![t] = NewTimer(call, NextId, "naming")]
    /\ UNCHANGED <<now, ref, slot, tree, armed, queue, loop, fault, cancels, moved>>

\* The rest of AddTimer: the stores to _slot and _ref, and the hand-over.
PublishTimer(t) ==
    /\ Alive
    /\ timers[t].phase = "naming"
    /\ timers' = [timers EXCEPT ![t].phase = "queued"]
    /\ slot' = timers[t].id
    /\ ref' = Store(ref, timers[t].id, t)
    /\ queue' = Append(queue, [op |-> "add", timer |-> t, id |-> timers[t].id])
    /\ UNCHANGED <<now, tree, armed, loop, fault, cancels, moved>>

\* What callers cancel: the identifiers that AddTimer has returned, whatever
\* became of the timers since.
Known(id) == \E t \in Timers : /\ timers[t].phase \notin {"none", "naming"}
                               /\ timers[t].id = id

CancelTimer(id) ==
    /\ Alive
    /\ Known(id)
    /\ cancels < MaxCancels
    /\ cancels' = cancels + 1
    /\ queue' = Append(queue, [op |-> "cancel", timer |-> NoTimer, id |-> id])
    /\ UNCHANGED <<now, timers, ref, slot, tree, armed, loop, fault, moved>>

(* The loop thread.                                                        *)

Select ==
    /\ Alive
    /\ loop.pc = "functors"
    /\ loop.todo = 0
    /\ loop' = [loop EXCEPT !.pc = "handlers", !.ready = Readable]
    /\ UNCHANGED <<now, timers, ref, slot, tree, armed, queue, fault, cancels, moved>>

\* AddTimer and CancelTimer called in the loop thread, by the handler of
\* another channel or by the callback of a timer: RunInEvd runs them at once.
\* A callback may also cancel 0, the value of a variable it never assigned.
AddInLoop(t, call) ==
    /\ Alive
    /\ loop.pc \in {"handlers", "callback"}
    /\ Fresh(t)
    /\ IdLeft
    /\ slot' = NextId
    /\ ref' = Store(ref, NextId, t)
    /\ InsertTimer(t, NewTimer(call, NextId, "none"))
    /\ UNCHANGED <<now, queue, loop, fault, cancels, moved>>

CancelInLoop(id) ==
    /\ Alive
    /\ \/ loop.pc \in {"handlers", "callback"} /\ Known(id)
       \/ loop.pc = "callback" /\ id = 0
    /\ cancels < MaxCancels
    /\ cancels' = cancels + 1
    /\ CancelId(id)
    /\ UNCHANGED <<now, slot, armed, queue, loop>>

\* HandleRead up to the first loop of PerTick.  The timerfd does not block: if
\* it was set again since Select reported it, the read fails and LOG(FATAL)
\* ends the process.
HandleRead ==
    LET expired == {n \in DOMAIN tree : Expiry(n) < now} IN
    /\ Alive
    /\ loop.pc = "handlers"
    /\ loop.ready
    /\ IF Readable
       THEN /\ armed' = 0
            /\ tree' = Restrict(tree, DOMAIN tree \ expired)
            /\ timers' = [t \in Timers |->
                            IF \E n \in expired : tree[n] = t
                            THEN [timers[t] EXCEPT !.phase = "due", !.attach = NoTimer]
                            ELSE timers[t]]
            /\ loop' = [loop EXCEPT !.pc = "expired", !.ready = FALSE,
                                    !.due = {tree[n] : n \in expired}]
            /\ UNCHANGED fault
       ELSE /\ fault' = "read"
            /\ UNCHANGED <<armed, tree, timers, loop>>
    /\ UNCHANGED <<now, ref, slot, queue, cancels, moved>>

\* One round of the second loop of PerTick up to the callback.  The vector is
\* in the order of the expiries.
RunExpired ==
    /\ Alive
    /\ loop.pc = "expired"
    /\ \E t \in loop.due :
        /\ \A u \in loop.due : timers[t].expire <= timers[u].expire
        /\ \/ /\ timers[t].phase = "freed"
              /\ fault' = "freed"
              /\ UNCHANGED <<timers, loop>>
           \/ /\ timers[t].phase # "freed"
              /\ timers[t].elapse > 0
              /\ timers' = [timers EXCEPT ![t].elapse = @ - 1]
              /\ loop' = [loop EXCEPT !.pc = "callback", !.due = @ \ {t}, !.cur = t]
              /\ UNCHANGED fault
           \/ /\ timers[t].phase # "freed"
              /\ timers[t].elapse <= 0
              /\ timers' = [timers EXCEPT ![t].phase = "freed"]
              /\ loop' = [loop EXCEPT !.due = @ \ {t}]
              /\ UNCHANGED fault
    /\ UNCHANGED <<now, ref, slot, tree, armed, queue, cancels, moved>>

\* The rest of the round: the timer is added again or deleted.
EndCallback ==
    LET t == loop.cur IN
    /\ Alive
    /\ loop.pc = "callback"
    /\ loop' = [loop EXCEPT !.pc = "expired", !.cur = NoTimer]
    /\ \/ /\ timers[t].phase = "freed"
          /\ fault' = "freed"
          /\ UNCHANGED <<timers, tree, armed>>
       \/ /\ timers[t].phase # "freed"
          /\ timers[t].elapse > 0
          /\ InsertTimer(t, timers[t])
          /\ UNCHANGED fault
       \/ /\ timers[t].phase # "freed"
          /\ timers[t].elapse <= 0
          /\ timers' = [timers EXCEPT ![t].phase = "freed"]
          /\ UNCHANGED <<tree, armed, fault>>
    /\ UNCHANGED <<now, ref, slot, queue, cancels, moved>>

\* Mutant: HandleRead does not set the timerfd again.
MutRearm ==
    /\ Alive
    /\ loop.pc = "expired"
    /\ loop.due = {}
    /\ loop' = [loop EXCEPT !.pc = "handlers"]
    /\ UNCHANGED <<now, timers, ref, slot, tree, armed, queue, fault, cancels, moved>>

\* The end of HandleRead: the timerfd is set for the earliest timer.
Rearm ==
    /\ Alive
    /\ loop.pc = "expired"
    /\ loop.due = {}
    /\ armed' = IF DOMAIN tree = {} THEN armed
                ELSE Expiry(CHOOSE n \in DOMAIN tree : IsMin(n))
    /\ loop' = [loop EXCEPT !.pc = "handlers"]
    /\ UNCHANGED <<now, timers, ref, slot, tree, queue, fault, cancels, moved>>

\* runPendingFunctor takes what is queued.
BeginFunctors ==
    /\ Alive
    /\ loop.pc = "handlers"
    /\ ~loop.ready
    /\ loop' = [loop EXCEPT !.pc = "functors", !.todo = Len(queue)]
    /\ UNCHANGED <<now, timers, ref, slot, tree, armed, queue, fault, cancels, moved>>

RunFunctor ==
    LET f == Head(queue) IN
    /\ Alive
    /\ loop.pc = "functors"
    /\ loop.todo > 0
    /\ loop' = [loop EXCEPT !.todo = @ - 1]
    /\ queue' = Tail(queue)
    /\ \/ /\ f.op = "add"
          /\ timers[f.timer].phase = "queued"
          /\ InsertTimer(f.timer, timers[f.timer])
          /\ UNCHANGED <<ref, fault, moved>>
       \/ /\ f.op = "add"
          /\ timers[f.timer].phase = "freed"
          /\ fault' = "freed"
          /\ UNCHANGED <<timers, tree, armed, ref, moved>>
       \/ /\ f.op = "cancel"
          /\ CancelId(f.id)
          /\ UNCHANGED armed
    /\ UNCHANGED <<now, slot, cancels>>

LoopStep ==
    \/ Select \/ HandleRead \/ RunExpired \/ EndCallback \/ Rearm
    \/ BeginFunctors \/ RunFunctor

Next ==
    \/ Tick
    \/ LoopStep
    \/ \E t \in Timers : PublishTimer(t)
    \/ \E t \in Timers : \E call \in Calls[t] :
        NameTimer(t, call) \/ AddInLoop(t, call)
    \/ \E id \in 0..MaxId : CancelTimer(id) \/ CancelInLoop(id)

\* The clock goes on, and the loop never waits: Select returns after 100ms.
\* Nobody has to call AddTimer, but a call goes on.
Fairness ==
    /\ WF_vars(Tick)
    /\ WF_vars(LoopStep)
    /\ \A t \in Timers : WF_vars(PublishTimer(t))

Spec == Init /\ [][Next]_vars /\ Fairness

-----------------------------------------------------------------------------
\* The types of the variables.
TypeOK ==
    /\ now \in 1..MaxTime /\ slot \in 0..MaxId /\ cancels \in 0..MaxCancels
    /\ \A t \in Timers : timers[t].phase \in Phases
    /\ DOMAIN ref \subseteq 0..MaxId
    /\ DOMAIN tree \subseteq Timers /\ Range(tree) \subseteq Timers
    /\ armed \in Nat
    /\ loop.pc \in {"handlers", "expired", "callback", "functors"}
    /\ fault \in {"none", "freed", "node", "read"}

\* Outside HandleRead the timerfd is always set for the earliest timer or
\* before it, whatever was added, cancelled, re-armed or read in between: no
\* timer can be slept through.
ArmedInTime ==
    Alive /\ loop.pc \notin {"expired", "callback"} =>
        \A n \in DOMAIN tree : armed # 0 /\ armed <= Expiry(n)

\* PerTick takes the timers out of the tree before it runs their callbacks,
\* which add, cancel and repeat others: still no callback runs while a timer
\* that expired earlier waits in the tree.
NoOvertaking ==
    Alive => \A t \in loop.due \cup ({loop.cur} \ {NoTimer}), n \in DOMAIN tree :
                timers[t].expire < Expiry(n)

\* The tree never holds a freed timer, whose expiry PerTick would read, and
\* holds every waiting timer once; until a cancellation moves an entry, each
\* waiting timer is attached to its own node.
TreeHoldsWaiting ==
    /\ TypeOK
    /\ Alive =>
          /\ {tree[n] : n \in DOMAIN tree} = {t \in Timers : timers[t].phase = "tree"}
          /\ Cardinality(DOMAIN tree) = Cardinality({tree[n] : n \in DOMAIN tree})
          /\ ~moved => \A n \in DOMAIN tree : timers[tree[n]].attach = n

\* A waiting timer that is to fire within the time of the model gets its
\* callback, unless it is cancelled or the program ended.
WaitingEventuallyFires ==
    \A t \in Timers :
        (timers[t].phase = "tree" /\ timers[t].elapse > 0 /\ timers[t].expire < MaxTime)
            ~> (loop.cur = t \/ timers[t].phase = "freed" \/ ~Alive)
=============================================================================
