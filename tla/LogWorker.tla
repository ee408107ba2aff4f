----------------------------- MODULE LogWorker -----------------------------
(***************************************************************************)
(* log/asynclogging.cpp: the asynchronous log writer.                      *)
(*                                                                         *)
(* Frontend threads append messages to _buffer under _mutex; a backend     *)
(* thread takes buffers away, writes them to the LogFile WITHOUT _mutex    *)
(* and returns them to the pool.  flush() writes everything it finds while *)
(* it HOLDS _mutex.  The LogWorker lives in a global unique_ptr, so its    *)
(* destructor runs at exit() while other threads may still be logging.     *)
(*                                                                         *)
(* A buffer is the sequence of its messages, a message a member of         *)
(* Messages that is saved at most once.  Buffers in the pool are empty and *)
(* alike: the pool is their number.                                        *)
(***************************************************************************)
EXTENDS Naturals, Sequences, FiniteSets, SequencesExt

CONSTANTS
    Messages,   \* bound: each message is saved at most once
    BufSize,    \* buffers in the pool at the start (3 in initAsyncLogging)
    BufCap,     \* messages that fit into a buffer
    MaxFlushes, \* bound on the calls of flush()
    NoBuf       \* a null BufferPtr

ASSUME ConstantsAssumption ==
    /\ BufSize \in Nat /\ MaxFlushes \in Nat
    /\ BufCap \in Nat \ {0}
    /\ NoBuf \notin Seq(Messages)

VARIABLES
    filled,     \* _buffersFilled
    available,  \* number of buffers in _buffersAvailiable
    buf,        \* _buffer: the frontend's buffer or NoBuf
    stop,       \* _stop
    backend,    \* where threadFunc is
    hand,       \* local "buffer" of threadFunc or NoBuf
    flusher,    \* who holds _mutex in flush(): "none", "flush" or "fatal"
    flushes,    \* flush() calls so far
    owner,      \* ~LogWorker: "running", "joining" (in Join), "closed"
    logged,     \* what was fwritten to the LogFile, in order
    synced,     \* how much of it was fflushed
    aborted,    \* LOG(FATAL) called abort()
    accepted,   \* history: messages that append_async put into a buffer
    refused,    \* history: messages that append_async did not keep
    overtaken   \* history: flush() wrote while the backend held a buffer

frontVars == <<filled, available, buf>>
flushVars == <<flusher, flushes>>
diskVars == <<logged, synced>>
history == <<accepted, refused, overtaken>>
vars == <<filled, available, buf, stop, backend, hand, flusher, flushes,
          owner, logged, synced, aborted, accepted, refused, overtaken>>

BackendStates == {"wait", "writeOwn", "returnOwn", "writeFilled",
                  "returnFilled", "flush", "checkStop", "exited"}
Buffers == Seq(Messages)
LockFree == flusher = "none"

\* What the backend has taken and not yet written.
InHand == IF backend \in {"writeOwn", "writeFilled"} THEN hand ELSE <<>>
Current == IF buf = NoBuf THEN <<>> ELSE buf
Durable == ToSet(SubSeq(logged, 1, synced))

Init ==
    /\ filled = <<>> /\ available = BufSize /\ buf = <<>>
    /\ stop = FALSE
    /\ backend = "wait" /\ hand = NoBuf
    /\ flusher = "none" /\ flushes = 0
    /\ owner = "running"
    /\ logged = <<>> /\ synced = 0 /\ aborted = FALSE
    /\ accepted = <<>> /\ refused = {} /\ overtaken = FALSE

-----------------------------------------------------------------------------
(* Frontend: asyncLoggingSave, append_async.                               *)

MutFilledWith(b) == filled

\* _buffersFilled after the buffer b, if there is one, was pushed to it.
FilledWith(b) == IF b = NoBuf THEN filled ELSE Append(filled, b)

\* The whole of append_async runs under _mutex.  A null or full _buffer goes
\* to _buffersFilled and a new one is taken from the pool; an empty pool (or
\* _stop) loses the message.
AppendAsync(m) ==
    /\ LockFree /\ owner # "closed"
    /\ m \notin ToSet(accepted) \cup refused
    /\ LET room == buf # NoBuf /\ Len(buf) < BufCap
       IN \/ /\ stop
             /\ refused' = refused \cup {m}
             /\ UNCHANGED <<frontVars, accepted>>
          \/ /\ ~stop /\ room
             /\ buf' = Append(buf, m)
             /\ accepted' = Append(accepted, m)
             /\ UNCHANGED <<filled, available, refused>>
          \/ /\ ~stop /\ ~room
             /\ filled' = FilledWith(buf)
             /\ \/ /\ available > 0
                   /\ available' = available - 1
                   /\ buf' = <<m>>
                   /\ accepted' = Append(accepted, m)
                   /\ UNCHANGED refused
                \/ /\ available = 0
                   /\ buf' = NoBuf
                   /\ refused' = refused \cup {m}
                   /\ UNCHANGED <<available, accepted>>
    /\ UNCHANGED <<stop, backend, hand, flushVars, owner, diskVars, aborted,
                   overtaken>>

-----------------------------------------------------------------------------
(* flush(), called by asyncLoggingFlush; LOG(FATAL) calls abort() next.    *)

MutFlushBegin(kind) ==
    /\ LockFree /\ owner # "closed" /\ flushes < MaxFlushes
    /\ flusher' = kind
    /\ flushes' = flushes + 1
    /\ UNCHANGED <<frontVars, stop, backend, hand, owner, diskVars, aborted,
                   history>>

FlushBegin(kind) ==
    /\ LockFree /\ owner # "closed" /\ flushes < MaxFlushes
    /\ flusher' = kind
    /\ flushes' = flushes + 1
    /\ filled' = FilledWith(buf)
    /\ buf' = NoBuf
    /\ UNCHANGED <<available, stop, backend, hand, owner, diskVars, aborted,
                   history>>

MutFlushWrite ==
    /\ flusher # "none" /\ filled # <<>>
    /\ logged' = logged \o Head(filled)
    /\ filled' = Tail(filled)
    /\ overtaken' = (overtaken \/ InHand # <<>>)
    /\ UNCHANGED <<available, buf, stop, backend, hand, flushVars, owner,
                   synced, aborted, accepted, refused>>

FlushWrite ==
    /\ flusher # "none" /\ filled # <<>>
    /\ logged' = logged \o Head(filled)
    /\ filled' = Tail(filled)
    /\ available' = available + 1
    /\ overtaken' = (overtaken \/ InHand # <<>>)
    /\ UNCHANGED <<buf, stop, backend, hand, flushVars, owner, synced,
                   aborted, accepted, refused>>

FlushEnd ==
    /\ flusher # "none" /\ filled = <<>>
    /\ synced' = Len(logged)
    /\ aborted' = (flusher = "fatal")
    /\ flusher' = "none"
    /\ UNCHANGED <<frontVars, stop, backend, hand, flushes, owner, logged,
                   history>>

-----------------------------------------------------------------------------
(* Backend: threadFunc.                                                    *)

MutBackendTake ==
    /\ backend = "wait" /\ LockFree
    /\ LET queue == IF stop THEN FilledWith(buf) ELSE filled
           front == IF stop THEN NoBuf ELSE buf
       IN \/ /\ front # NoBuf /\ front # <<>>
             /\ hand' = front
             /\ buf' = NoBuf
             /\ backend' = "writeOwn"
             /\ UNCHANGED filled
          \/ /\ queue # <<>> /\ (front = NoBuf \/ front = <<>>)
             /\ hand' = Head(queue)
             /\ filled' = Tail(queue)
             /\ buf' = front
             /\ backend' = "writeFilled"
    /\ UNCHANGED <<available, stop, flushVars, owner, diskVars, aborted,
                   history>>

\* wait_for returns because of a notification or after _flushInterval; then,
\* under _mutex: the frontend's buffer is queued if stopping, and the backend
\* takes the first queued buffer or, if there is none, the frontend's own.
\* With nothing to take, "continue": back to wait_for whatever _stop says.
BackendTake ==
    /\ backend = "wait" /\ LockFree
    /\ LET queue == IF stop THEN FilledWith(buf) ELSE filled
           front == IF stop THEN NoBuf ELSE buf
       IN \/ /\ queue = <<>> /\ front # NoBuf /\ front # <<>>
             /\ hand' = front
             /\ buf' = NoBuf
             /\ backend' = "writeOwn"
             /\ UNCHANGED filled
          \/ /\ queue # <<>>
             /\ hand' = Head(queue)
             /\ filled' = Tail(queue)
             /\ buf' = front
             /\ backend' = "writeFilled"
    /\ UNCHANGED <<available, stop, flushVars, owner, diskVars, aborted,
                   history>>

\* _output->append(buffer->data(), buffer->length()), without _mutex.
BackendWrite ==
    /\ backend \in {"writeOwn", "writeFilled"}
    /\ logged' = logged \o hand
    /\ backend' = IF backend = "writeOwn" THEN "returnOwn" ELSE "returnFilled"
    /\ UNCHANGED <<frontVars, stop, hand, flushVars, owner, synced, aborted,
                   history>>

\* lock.lock(), then the buffer goes back to the pool; while there are queued
\* buffers the next one is taken in the same critical section.
BackendReturn ==
    /\ backend \in {"returnOwn", "returnFilled"} /\ LockFree
    /\ available' = available + 1
    /\ \/ /\ backend = "returnFilled" /\ filled # <<>>
          /\ hand' = Head(filled)
          /\ filled' = Tail(filled)
          /\ backend' = "writeFilled"
       \/ /\ backend = "returnOwn" \/ filled = <<>>
          /\ hand' = NoBuf
          /\ backend' = "flush"
          /\ UNCHANGED filled
    /\ UNCHANGED <<buf, stop, flushVars, owner, diskVars, aborted, history>>

MutBackendFlush ==
    /\ backend = "flush"
    /\ backend' = "checkStop"
    /\ UNCHANGED <<frontVars, stop, hand, flushVars, owner, diskVars,
                   aborted, history>>

\* _output->flush(), without _mutex.
BackendFlush ==
    /\ backend = "flush"
    /\ synced' = Len(logged)
    /\ backend' = "checkStop"
    /\ UNCHANGED <<frontVars, stop, hand, flushVars, owner, logged, aborted,
                   history>>

MutBackendCheckStop ==
    /\ backend = "checkStop"
    /\ backend' = "wait"
    /\ UNCHANGED <<frontVars, stop, hand, flushVars, owner, diskVars,
                   aborted, history>>

\* if (_stop) break;
BackendCheckStop ==
    /\ backend = "checkStop"
    /\ backend' = IF stop THEN "exited" ELSE "wait"
    /\ UNCHANGED <<frontVars, stop, hand, flushVars, owner, diskVars,
                   aborted, history>>

-----------------------------------------------------------------------------
(* ~LogWorker: _stop under _mutex, Join, destruction of the LogFile.       *)

Shutdown ==
    /\ owner = "running" /\ LockFree
    /\ stop' = TRUE
    /\ owner' = "joining"
    /\ UNCHANGED <<frontVars, backend, hand, flushVars, diskVars, aborted,
                   history>>

\* Join returned; fclose writes the stdio buffer.  No thread is inside the
\* LogWorker any more (a thread that is would use freed memory).
Close ==
    /\ owner = "joining" /\ backend = "exited" /\ LockFree
    /\ owner' = "closed"
    /\ synced' = Len(logged)
    /\ UNCHANGED <<frontVars, stop, backend, hand, flushVars, logged, aborted,
                   history>>

-----------------------------------------------------------------------------
BackendStep ==
    /\ ~aborted
    /\ \/ BackendTake \/ BackendWrite \/ BackendReturn
       \/ BackendFlush \/ BackendCheckStop

FlushStep == ~aborted /\ (FlushWrite \/ FlushEnd)

\* Users: what they log and when they flush or exit is up to them.
UserStep ==
    /\ ~aborted
    /\ \/ \E m \in Messages : AppendAsync(m)
       \/ \E kind \in {"flush", "fatal"} : FlushBegin(kind)
       \/ Shutdown

CloseStep == ~aborted /\ Close

Next == BackendStep \/ FlushStep \/ UserStep \/ CloseStep

\* wait_for has a timeout, so the backend always runs again; whoever holds
\* _mutex in flush() goes on.
Fairness == WF_vars(BackendStep) /\ WF_vars(FlushStep) /\ WF_vars(CloseStep)

Spec == Init /\ [][Next]_vars
FairSpec == Spec /\ Fairness

-----------------------------------------------------------------------------
(* Properties.                                                             *)

\* Types, and: the backend holds a buffer exactly while it writes or returns
\* one.
TypeOK ==
    /\ filled \in Seq(Buffers) /\ available \in Nat
    /\ buf \in Buffers \cup {NoBuf} /\ hand \in Buffers \cup {NoBuf}
    /\ stop \in BOOLEAN /\ aborted \in BOOLEAN /\ overtaken \in BOOLEAN
    /\ backend \in BackendStates
    /\ flusher \in {"none", "flush", "fatal"} /\ flushes \in 0..MaxFlushes
    /\ owner \in {"running", "joining", "closed"}
    /\ logged \in Seq(Messages) /\ synced \in 0..Len(logged)
    /\ accepted \in Seq(Messages) /\ refused \subseteq Messages
    /\ (hand # NoBuf) <=> backend \in {"writeOwn", "returnOwn",
                                       "writeFilled", "returnFilled"}

\* The pool neither leaks nor duplicates buffers: the BufSize + 1 buffers of
\* the constructor are in the pool, queued, in the frontend's or in the
\* backend's hand, whatever flush(), the frontend and the backend interleave.
BuffersConserved ==
    available + Len(filled)
        + (IF buf # NoBuf THEN 1 ELSE 0)
        + (IF hand # NoBuf THEN 1 ELSE 0) = BufSize + 1

\* Every message that append_async accepted is in exactly one place - file,
\* backend's hand, queue or frontend buffer - exactly once, even when flush()
\* and the backend write concurrently.
MessagesConserved ==
    LET everywhere == logged \o InHand \o FlattenSeq(filled) \o Current
    IN /\ ToSet(everywhere) = ToSet(accepted)
       /\ Len(everywhere) = Len(accepted)

\* The file has the messages in the order of the calls of append_async, unless
\* a flush() wrote while the backend held an older buffer it had not written.
FileInOrder ==
    ~overtaken => logged \o InHand \o FlattenSeq(filled) \o Current = accepted

\* When flush() returns, all that was accepted is written and fflushed, except
\* the one buffer that the backend is about to write.
FlushMissesOnlyInHand ==
    [][FlushEnd => ToSet(accepted) \subseteq Durable' \cup ToSet(InHand)]_vars

\* An accepted message reaches the disk without any flush() or shutdown: the
\* 300ms timeout makes the backend take even a buffer that is not full.
AcceptedEventuallyDurable ==
    \A m \in Messages :
        (m \in ToSet(accepted)) ~> (m \in Durable \/ stop \/ aborted)

\* ~LogWorker ends if the frontend still has its buffer, or buffers are
\* queued, when _stop is set - unless a flush() takes them first.
ShutdownEndsWithBuffer ==
    (stop /\ (buf # NoBuf \/ filled # <<>>))
        ~> (owner = "closed" \/ ~LockFree \/ aborted)
=============================================================================
