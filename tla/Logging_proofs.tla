--------------------------- MODULE Logging_proofs ---------------------------
(***************************************************************************)
(* Proofs about the two halves of the log: LogWorker for any set of        *)
(* messages and any sizes, LogFile for any roll size and any buffer of     *)
(* the FILE.                                                               *)
(***************************************************************************)
EXTENDS LogWorker, LogFile, SeqLemmas, FunctionTheorems

-----------------------------------------------------------------------------
(***************************************************************************)
(* LogWorker                                                               *)
(***************************************************************************)

\* Number of buffers behind a BufferPtr.
Held(b) == IF b # NoBuf THEN 1 ELSE 0

-----------------------------------------------------------------------------
\* Pushing a BufferPtr to _buffersFilled keeps the type and the count.
LEMMA FilledWithCounts ==
    ASSUME TypeOK, NEW b \in Buffers \cup {NoBuf}
    PROVE  /\ FilledWith(b) \in Seq(Buffers)
           /\ Len(FilledWith(b)) = Len(filled) + Held(b)
<1>1. filled \in Seq(Buffers) /\ Len(filled) \in Nat
  BY LenProperties DEF TypeOK
<1>2. CASE b = NoBuf
  BY <1>1, <1>2 DEF FilledWith, Held
<1>3. CASE b # NoBuf
  <2>1. b \in Buffers
    BY <1>3
  <2>2. Append(filled, b) \in Seq(Buffers) /\ Len(Append(filled, b)) = Len(filled) + 1
    BY <1>1, <2>1, AppendProperties
  <2> QED
    BY <1>3, <2>2 DEF FilledWith, Held
<1> QED
  BY <1>2, <1>3

\* Taking the first buffer of a non-empty queue.
LEMMA TakeCounts ==
    ASSUME NEW q \in Seq(Buffers), q # <<>>
    PROVE  /\ Head(q) \in Buffers /\ Tail(q) \in Seq(Buffers)
           /\ Len(Tail(q)) = Len(q) - 1 /\ Len(q) \in Nat \ {0}
BY HeadTailProperties, EmptySeq, LenProperties

\* Writing a buffer extends the file.
LEMMA WriteExtends ==
    ASSUME TypeOK, NEW b \in Buffers
    PROVE  /\ logged \o b \in Seq(Messages)
           /\ synced \in 0..Len(logged \o b)
<1>1. logged \in Seq(Messages) /\ b \in Seq(Messages) /\ synced \in 0..Len(logged)
  BY DEF TypeOK, Buffers
<1>2. /\ logged \o b \in Seq(Messages) /\ Len(logged \o b) = Len(logged) + Len(b)
      /\ Len(logged) \in Nat /\ Len(b) \in Nat
  BY <1>1, ConcatProperties, LenProperties
<1> QED
  BY <1>1, <1>2

\* A buffer is not a null pointer.
LEMMA BufferIsNotNull == ASSUME NEW b \in Buffers PROVE b # NoBuf
BY ConstantsAssumption DEF Buffers

-----------------------------------------------------------------------------
IInv == TypeOK /\ BuffersConserved

\* The constructor establishes the invariant.
LEMMA InitIInv == Init => IInv
<1> SUFFICES ASSUME Init PROVE IInv
  OBVIOUS
<1>1. <<>> \in Buffers /\ <<>> \in Seq(Buffers) /\ <<>> \in Seq(Messages)
  BY EmptySeq DEF Buffers
<1>2. <<>> # NoBuf
  BY <1>1, BufferIsNotNull
<1>3. Len(<<>>) = 0
  BY EmptySeq
<1>4. TypeOK
  <2>1. synced \in 0..Len(logged) /\ flushes \in 0..MaxFlushes /\ available \in Nat
    BY <1>3, ConstantsAssumption DEF Init
  <2>2. /\ filled \in Seq(Buffers) /\ buf \in Buffers \cup {NoBuf}
        /\ logged \in Seq(Messages) /\ accepted \in Seq(Messages)
    BY <1>1 DEF Init
  <2> QED
    BY <2>1, <2>2 DEF Init, TypeOK, BackendStates
<1>5. BuffersConserved
  BY <1>2, <1>3, ConstantsAssumption DEF Init, BuffersConserved
<1> QED
  BY <1>4, <1>5 DEF IInv

\* Every step of the frontend, the backend, a flush and the owner keeps it.
LEMMA NextIInv == IInv /\ [Next]_vars => IInv'
<1> SUFFICES ASSUME IInv, [Next]_vars PROVE IInv'
  OBVIOUS
<1>t. TypeOK /\ BuffersConserved
  BY DEF IInv
<1>c. BufSize \in Nat /\ MaxFlushes \in Nat
  BY ConstantsAssumption
<1>l. Len(filled) \in Nat /\ Len(logged) \in Nat /\ Len(accepted) \in Nat
  BY <1>t, LenProperties DEF TypeOK
<1>h. /\ available + Len(filled) + Held(buf) + Held(hand) = BufSize + 1
      /\ available \in Nat /\ Held(buf) \in Nat /\ Held(hand) \in Nat
  BY <1>t DEF BuffersConserved, Held, TypeOK
<1>1. ASSUME NEW m \in Messages, AppendAsync(m) PROVE IInv'
  <2>1. /\ accepted' \in Seq(Messages) /\ refused' \subseteq Messages
    <3>1. Append(accepted, m) \in Seq(Messages)
      BY <1>t, AppendProperties DEF TypeOK
    <3>2. accepted' \in {accepted, Append(accepted, m)}
      BY <1>1 DEF AppendAsync
    <3>3. refused' \in {refused, refused \cup {m}}
      BY <1>1 DEF AppendAsync
    <3> QED
      BY <1>t, <3>1, <3>2, <3>3 DEF TypeOK
  <2>2. <<m>> \in Buffers /\ <<m>> # NoBuf
    <3>1. <<m>> \in Seq(Messages)
      OBVIOUS
    <3> QED
      BY <3>1, BufferIsNotNull DEF Buffers
  <2>3. /\ buf' \in Buffers \cup {NoBuf} /\ filled' \in Seq(Buffers)
        /\ available' \in Nat
        /\ available' + Len(filled') + Held(buf') = available + Len(filled) + Held(buf)
    <3>1. CASE stop
      BY <1>1, <1>t, <3>1 DEF AppendAsync, TypeOK, frontVars
    <3>2. CASE ~stop /\ buf # NoBuf /\ Len(buf) < BufCap
      <4>1. Append(buf, m) \in Buffers /\ Append(buf, m) # NoBuf
        BY <1>t, <3>2, AppendProperties, BufferIsNotNull DEF TypeOK, Buffers
      <4>2. buf' = Append(buf, m) /\ UNCHANGED <<filled, available>>
        BY <1>1, <3>2 DEF AppendAsync
      <4> QED
        BY <1>t, <3>2, <4>1, <4>2 DEF TypeOK, Held
    <3>3. CASE ~stop /\ ~(buf # NoBuf /\ Len(buf) < BufCap)
      <4>1. /\ filled' = FilledWith(buf)
            /\ \/ available > 0 /\ available' = available - 1 /\ buf' = <<m>>
               \/ available = 0 /\ available' = available /\ buf' = NoBuf
        BY <1>1, <3>3 DEF AppendAsync
      <4>2. /\ FilledWith(buf) \in Seq(Buffers)
            /\ Len(FilledWith(buf)) = Len(filled) + Held(buf)
        BY <1>t, FilledWithCounts DEF TypeOK
      <4>3. available \in Nat
        BY <1>t DEF TypeOK
      <4> QED
        BY <1>l, <2>2, <4>1, <4>2, <4>3 DEF Held
    <3> QED
      BY <3>1, <3>2, <3>3
  <2>4. TypeOK'
    BY <1>1, <1>t, <2>1, <2>3 DEF AppendAsync, TypeOK, flushVars, diskVars
  <2>5. BuffersConserved'
    <3>1. hand' = hand
      BY <1>1 DEF AppendAsync
    <3>2. available \in Nat /\ available' \in Nat /\ Len(filled') \in Nat
      BY <1>t, <2>3, LenProperties DEF TypeOK
    <3> QED
      BY <1>t, <1>l, <1>c, <2>3, <3>1, <3>2 DEF BuffersConserved, Held
  <2> QED
    BY <2>4, <2>5 DEF IInv
<1>2. ASSUME NEW kind \in {"flush", "fatal"}, FlushBegin(kind) PROVE IInv'
  <2>1. /\ filled' \in Seq(Buffers) /\ Len(filled') = Len(filled) + Held(buf)
        /\ buf' = NoBuf
    BY <1>2, <1>t, FilledWithCounts DEF FlushBegin, TypeOK
  <2>2. TypeOK'
    BY <1>2, <1>t, <1>c, <2>1 DEF FlushBegin, TypeOK, diskVars, history
  <2>3. BuffersConserved'
    <3>1. available + (Len(filled) + Held(buf)) + 0 + Held(hand) = BufSize + 1
      BY <1>h, <1>l, <1>c
    <3>2. available' = available /\ hand' = hand /\ Held(buf') = 0
      BY <1>2, <2>1 DEF FlushBegin, Held
    <3>3. available' + Len(filled') + Held(buf') + Held(hand') = BufSize + 1
      BY <2>1, <3>1, <3>2
    <3> QED
      BY <3>3 DEF BuffersConserved, Held
  <2> QED
    BY <2>2, <2>3 DEF IInv
<1>3. CASE FlushWrite
  <2>1. /\ Head(filled) \in Buffers /\ Tail(filled) \in Seq(Buffers)
        /\ Len(Tail(filled)) = Len(filled) - 1
    BY <1>3, <1>t, TakeCounts DEF FlushWrite, TypeOK
  <2>4. overtaken' \in BOOLEAN
    <3>1. CASE overtaken \/ InHand # <<>>
      BY <1>3, <3>1 DEF FlushWrite
    <3>2. CASE ~(overtaken \/ InHand # <<>>)
      BY <1>3, <3>2 DEF FlushWrite
    <3> QED
      BY <3>1, <3>2
  <2>5. logged' \in Seq(Messages) /\ synced' \in 0..Len(logged')
    BY <1>3, <1>t, <2>1, WriteExtends DEF FlushWrite
  <2>2. TypeOK'
    BY <1>3, <1>t, <2>1, <2>4, <2>5 DEF FlushWrite, TypeOK, flushVars
  <2>3. BuffersConserved'
    <3>1. (available + 1) + (Len(filled) - 1) + Held(buf) + Held(hand) = BufSize + 1
      BY <1>h, <1>l, <1>c
    <3>2. /\ available' = available + 1 /\ hand' = hand /\ buf' = buf
          /\ Len(filled') = Len(filled) - 1
      BY <1>3, <2>1 DEF FlushWrite
    <3>3. available' + Len(filled') + Held(buf') + Held(hand') = BufSize + 1
      BY <3>1, <3>2
    <3> QED
      BY <3>3 DEF BuffersConserved, Held
  <2> QED
    BY <2>2, <2>3 DEF IInv
<1>4. CASE FlushEnd
  <2>3. aborted' \in BOOLEAN
    <3>1. CASE flusher = "fatal"
      BY <1>4, <3>1 DEF FlushEnd
    <3>2. CASE flusher # "fatal"
      BY <1>4, <3>2 DEF FlushEnd
    <3> QED
      BY <3>1, <3>2
  <2>1. TypeOK'
    BY <1>4, <1>t, <1>l, <2>3 DEF FlushEnd, TypeOK, frontVars, history
  <2>2. BuffersConserved'
    BY <1>4, <1>t DEF FlushEnd, BuffersConserved, frontVars
  <2> QED
    BY <2>1, <2>2 DEF IInv
<1>5. CASE BackendTake
  <2>1. hand = NoBuf
    BY <1>5, <1>t DEF BackendTake, TypeOK
  <2>2. CASE ~stop
    <3>1. CASE filled = <<>>
      <4>1. /\ hand' = buf /\ buf' = NoBuf /\ backend' = "writeOwn" /\ buf # NoBuf
            /\ UNCHANGED <<filled, available>>
        BY <1>5, <2>2, <3>1 DEF BackendTake
      <4>2. TypeOK'
        BY <1>5, <1>t, <4>1
           DEF BackendTake, TypeOK, BackendStates, flushVars, diskVars, history
      <4>3. BuffersConserved'
        BY <1>t, <1>l, <1>c, <2>1, <4>1 DEF BuffersConserved, TypeOK
      <4> QED
        BY <4>2, <4>3 DEF IInv
    <3>2. CASE filled # <<>>
      <4>1. /\ hand' = Head(filled) /\ filled' = Tail(filled)
            /\ UNCHANGED <<buf, available>> /\ backend' = "writeFilled"
        BY <1>5, <2>2, <3>2 DEF BackendTake
      <4>2. /\ Head(filled) \in Buffers /\ Tail(filled) \in Seq(Buffers)
            /\ Len(Tail(filled)) = Len(filled) - 1 /\ Head(filled) # NoBuf
        BY <1>t, <3>2, TakeCounts, BufferIsNotNull DEF TypeOK
      <4>3. TypeOK'
        BY <1>5, <1>t, <4>1, <4>2
           DEF BackendTake, TypeOK, BackendStates, flushVars, diskVars, history
      <4>4. BuffersConserved'
        BY <1>t, <1>l, <1>c, <2>1, <4>1, <4>2 DEF BuffersConserved, TypeOK
      <4> QED
        BY <4>3, <4>4 DEF IInv
    <3> QED
      BY <3>1, <3>2
  <2>3. CASE stop
    <3> DEFINE queue == FilledWith(buf)
    <3>1. /\ queue \in Seq(Buffers) /\ Len(queue) = Len(filled) + Held(buf)
      BY <1>t, FilledWithCounts DEF TypeOK
    <3>2. /\ queue # <<>> /\ hand' = Head(queue) /\ filled' = Tail(queue)
          /\ buf' = NoBuf /\ backend' = "writeFilled" /\ UNCHANGED available
      BY <1>5, <2>3 DEF BackendTake
    <3>3. /\ Head(queue) \in Buffers /\ Tail(queue) \in Seq(Buffers)
          /\ Len(Tail(queue)) = Len(queue) - 1 /\ Head(queue) # NoBuf
      BY <3>1, <3>2, TakeCounts, BufferIsNotNull
    <3> HIDE DEF queue
    <3>4. TypeOK'
      BY <1>5, <1>t, <3>2, <3>3
         DEF BackendTake, TypeOK, BackendStates, flushVars, diskVars, history
    <3>5. BuffersConserved'
      <4>1. /\ available + Len(filled) + Held(buf) = BufSize + 1
            /\ available \in Nat /\ Held(buf) \in Nat
        BY <1>t, <1>l, <1>c, <2>1 DEF BuffersConserved, TypeOK, Held
      <4>2. Len(filled') = Len(filled) + Held(buf) - 1
        BY <1>l, <3>1, <3>2, <3>3, <4>1
      <4>3. available + Len(filled') + 0 + 1 = BufSize + 1
        BY <1>l, <1>c, <4>1, <4>2
      <4> QED
        BY <3>2, <3>3, <4>3 DEF BuffersConserved
    <3> QED
      BY <3>4, <3>5 DEF IInv
  <2> QED
    BY <2>2, <2>3
<1>6. CASE BackendWrite
  <2>1. hand \in Buffers
    BY <1>6, <1>t DEF BackendWrite, TypeOK
  <2>2. TypeOK'
    BY <1>6, <1>t, <2>1, WriteExtends
       DEF BackendWrite, TypeOK, BackendStates, frontVars, flushVars, history
  <2>3. BuffersConserved'
    BY <1>6, <1>t DEF BackendWrite, BuffersConserved, frontVars
  <2> QED
    BY <2>2, <2>3 DEF IInv
<1>7. CASE BackendReturn
  <2>1. hand # NoBuf /\ available' = available + 1 /\ buf' = buf
    BY <1>7, <1>t DEF BackendReturn, TypeOK
  <2>2. CASE backend = "returnFilled" /\ filled # <<>>
    <3>1. /\ hand' = Head(filled) /\ filled' = Tail(filled)
          /\ backend' = "writeFilled"
      BY <1>7, <2>2 DEF BackendReturn
    <3>2. /\ Head(filled) \in Buffers /\ Tail(filled) \in Seq(Buffers)
          /\ Len(Tail(filled)) = Len(filled) - 1 /\ Head(filled) # NoBuf
      BY <1>t, <2>2, TakeCounts, BufferIsNotNull DEF TypeOK
    <3>3. TypeOK'
      BY <1>7, <1>t, <2>1, <3>1, <3>2
         DEF BackendReturn, TypeOK, BackendStates, flushVars, diskVars, history
    <3>4. BuffersConserved'
      BY <1>t, <1>l, <1>c, <2>1, <3>1, <3>2 DEF BuffersConserved, TypeOK
    <3> QED
      BY <3>3, <3>4 DEF IInv
  <2>3. CASE ~(backend = "returnFilled" /\ filled # <<>>)
    <3>1. hand' = NoBuf /\ filled' = filled /\ backend' = "flush"
      BY <1>7, <2>3 DEF BackendReturn
    <3>2. TypeOK'
      BY <1>7, <1>t, <2>1, <3>1
         DEF BackendReturn, TypeOK, BackendStates, flushVars, diskVars, history
    <3>3. BuffersConserved'
      BY <1>t, <1>l, <1>c, <2>1, <3>1 DEF BuffersConserved, TypeOK
    <3> QED
      BY <3>2, <3>3 DEF IInv
  <2> QED
    BY <2>2, <2>3
<1>8. CASE BackendFlush \/ BackendCheckStop
  <2>1. TypeOK'
    BY <1>8, <1>t, <1>l DEF BackendFlush, BackendCheckStop, TypeOK,
       BackendStates, frontVars, flushVars, diskVars, history
  <2>2. BuffersConserved'
    BY <1>8, <1>t DEF BackendFlush, BackendCheckStop, BuffersConserved, frontVars
  <2> QED
    BY <2>1, <2>2 DEF IInv
<1>9. CASE Shutdown \/ Close
  <2>3. ASSUME Shutdown PROVE TypeOK'
    BY <2>3, <1>t DEF Shutdown, TypeOK, frontVars, flushVars, diskVars, history
  <2>4. ASSUME Close PROVE TypeOK'
    BY <2>4, <1>t, <1>l DEF Close, TypeOK, frontVars, flushVars, history
  <2>1. TypeOK'
    BY <1>9, <2>3, <2>4
  <2>2. BuffersConserved'
    BY <1>9, <1>t DEF Shutdown, Close, BuffersConserved, frontVars
  <2> QED
    BY <2>1, <2>2 DEF IInv
<1>10. CASE UNCHANGED vars
  BY <1>10 DEF vars, IInv, TypeOK, BuffersConserved
<1> QED
  BY <1>1, <1>2, <1>3, <1>4, <1>5, <1>6, <1>7, <1>8, <1>9, <1>10
     DEF Next, BackendStep, FlushStep, UserStep, CloseStep

\* Type correctness of the log writer, and the backend holds a buffer exactly
\* while it writes or returns one.
THEOREM TypeCorrect == Spec => []TypeOK
<1>1. IInv => TypeOK
  BY DEF IInv
<1> QED
  BY <1>1, InitIInv, NextIInv, PTL DEF Spec

\* The BufSize + 1 buffers are never leaked nor duplicated.
THEOREM PoolConservation == Spec => []BuffersConserved
<1>1. IInv => BuffersConserved
  BY DEF IInv
<1> QED
  BY <1>1, InitIInv, NextIInv, PTL DEF Spec

-----------------------------------------------------------------------------
(* Where the messages are.                                                 *)

\* All accepted messages in the order in which the file will have them.
Everywhere == logged \o InHand \o FlattenSeq(filled) \o Current

\* The places of the messages are sequences of messages.
LEMMA PlacesType ==
    ASSUME TypeOK
    PROVE  /\ logged \in Seq(Messages) /\ InHand \in Seq(Messages)
           /\ filled \in Seq(Seq(Messages)) /\ FlattenSeq(filled) \in Seq(Messages)
           /\ Current \in Seq(Messages) /\ accepted \in Seq(Messages)
<1>1. /\ logged \in Seq(Messages) /\ filled \in Seq(Seq(Messages))
      /\ accepted \in Seq(Messages)
  BY DEF TypeOK, Buffers
<1>2. FlattenSeq(filled) \in Seq(Messages)
  BY <1>1, FlattenType
<1>3. <<>> \in Seq(Messages)
  BY EmptySeq
<1>4. InHand \in Seq(Messages)
  BY <1>3 DEF TypeOK, Buffers, InHand
<1>5. Current \in Seq(Messages)
  BY <1>3 DEF TypeOK, Buffers, Current
<1> QED
  BY <1>1, <1>2, <1>4, <1>5

\* Pushing the frontend's buffer to _buffersFilled moves its messages.
LEMMA PushMoves ==
    ASSUME TypeOK
    PROVE  FlattenSeq(FilledWith(buf)) = FlattenSeq(filled) \o Current
<1>1. CASE buf = NoBuf
  BY <1>1, PlacesType, ConcatEmptySeq DEF FilledWith, Current
<1>2. CASE buf # NoBuf
  <2>1. buf \in Seq(Messages) /\ filled \in Seq(Seq(Messages))
    BY <1>2, PlacesType DEF TypeOK, Buffers
  <2>2. FlattenSeq(Append(filled, buf)) = FlattenSeq(filled) \o buf
    BY <2>1, FlattenAppend
  <2> QED
    BY <1>2, <2>2 DEF FilledWith, Current
<1> QED
  BY <1>1, <1>2

\* Taking the first buffer of a queue splits off its messages.
LEMMA TakeSplits ==
    ASSUME NEW q \in Seq(Buffers), q # <<>>
    PROVE  /\ Head(q) \in Seq(Messages) /\ FlattenSeq(Tail(q)) \in Seq(Messages)
           /\ FlattenSeq(q) = Head(q) \o FlattenSeq(Tail(q))
<1>1. q \in Seq(Seq(Messages))
  BY DEF Buffers
<1>2. Head(q) \in Seq(Messages) /\ Tail(q) \in Seq(Seq(Messages))
  BY TakeCounts DEF Buffers
<1> QED
  BY <1>1, <1>2, FlattenType, FlattenHead

\* So the messages before, in and after the queue stay in their order.
LEMMA TakeKeepsOrder ==
    ASSUME NEW q \in Seq(Buffers), q # <<>>, NEW f \in Seq(Messages), NEW c \in Seq(Messages)
    PROVE  f \o Head(q) \o FlattenSeq(Tail(q)) \o c = f \o FlattenSeq(q) \o c
<1>1. PICK h \in Seq(Messages), t \in Seq(Messages) :
           h = Head(q) /\ t = FlattenSeq(Tail(q)) /\ FlattenSeq(q) = h \o t
  BY TakeSplits
<1>2. \A x, y, z \in Seq(Messages) : (x \o y) \o z = x \o (y \o z)
  BY Monoid
<1>3. (f \o h) \o t = f \o (h \o t)
  BY <1>2, Zenon
<1> QED
  BY <1>1, <1>3

\* A step that leaves every message where it is in the order.
Moves ==
    /\ Everywhere' = Everywhere
    /\ accepted' = accepted /\ overtaken' = overtaken

\* append_async: an accepted message is the last one, and a buffer that is
\* queued, or given away with the pool empty, keeps its place.
LEMMA AppendPlaces ==
    ASSUME TypeOK, NEW m \in Messages, AppendAsync(m)
    PROVE  \/ Moves
           \/ /\ Everywhere' = Append(Everywhere, m)
              /\ accepted' = Append(accepted, m) /\ overtaken' = overtaken
<1>0. PICK f \in Seq(Messages), i \in Seq(Messages), q \in Seq(Messages),
           c \in Seq(Messages) :
           f = logged /\ i = InHand /\ q = FlattenSeq(filled) /\ c = Current
  BY PlacesType
<1>e. Everywhere = f \o i \o q \o c
  BY <1>0 DEF Everywhere
<1>u. logged' = f /\ InHand' = i /\ overtaken' = overtaken
  BY <1>0 DEF AppendAsync, diskVars, InHand
<1>v. Everywhere' = f \o i \o FlattenSeq(filled') \o Current'
  BY <1>u DEF Everywhere
<1>p. FlattenSeq(FilledWith(buf)) = q \o c
  BY <1>0, PushMoves
<1>n. <<m>> \in Seq(Messages) /\ <<m>> # NoBuf
  <2>1. <<m>> \in Seq(Messages)
    OBVIOUS
  <2> QED
    BY <2>1, BufferIsNotNull DEF Buffers
<1>s. \A x, y, z \in Seq(Messages) : (x \o y) \o z = x \o (y \o z)
  BY Monoid
<1>m. /\ \A x, y \in Seq(Messages) : x \o y \in Seq(Messages)
      /\ \A x \in Seq(Messages) : x \o <<>> = x
  BY Monoid
<1>a. \A x \in Seq(Messages) : Append(x, m) = x \o <<m>>
  BY AppendIsConcat
<1>1. CASE stop
  <2>1. UNCHANGED <<filled, buf, accepted>>
    BY <1>1 DEF AppendAsync, frontVars
  <2>2. Current' = c
    BY <1>0, <2>1 DEF Current
  <2> QED
    BY <1>0, <1>e, <1>u, <1>v, <2>1, <2>2 DEF Moves
<1>2. CASE ~stop /\ buf # NoBuf /\ Len(buf) < BufCap
  <2>1. /\ buf' = Append(buf, m) /\ accepted' = Append(accepted, m)
        /\ filled' = filled /\ c = buf
    BY <1>0, <1>2 DEF AppendAsync, Current
  <2>2. Append(buf, m) \in Buffers
    BY <1>0, <2>1, AppendProperties DEF Buffers
  <2>3. Current' = Append(c, m)
    BY <2>1, <2>2, BufferIsNotNull DEF Current
  <2>4. PICK p \in Seq(Messages) : p = f \o i \o q
    BY <1>m
  <2>5. Append(Everywhere, m) = (p \o c) \o <<m>>
    <3>1. Everywhere = p \o c /\ p \o c \in Seq(Messages)
      BY <1>e, <1>m, <2>4
    <3> QED
      BY <1>a, <3>1
  <2>6. Everywhere' = p \o (c \o <<m>>)
    <3>1. Everywhere' = f \o i \o q \o Append(c, m)
      BY <1>0, <1>v, <2>1, <2>3
    <3> QED
      BY <1>a, <2>4, <3>1
  <2>7. Everywhere' = Append(Everywhere, m)
    <3>1. (p \o c) \o <<m>> = p \o (c \o <<m>>)
      BY <1>n, <1>s, Zenon
    <3> QED
      BY <2>5, <2>6, <3>1
  <2> QED
    BY <1>u, <2>1, <2>7
<1>3. CASE ~stop /\ ~(buf # NoBuf /\ Len(buf) < BufCap)
  <2>1. filled' = FilledWith(buf)
    BY <1>3 DEF AppendAsync
  <2>2. Everywhere' = f \o i \o (q \o c) \o Current'
    BY <1>p, <1>v, <2>1
  <2>3. \/ buf' = <<m>> /\ accepted' = Append(accepted, m)
        \/ buf' = NoBuf /\ accepted' = accepted
    BY <1>3 DEF AppendAsync
  <2>4. \/ Current' = <<m>> /\ accepted' = Append(accepted, m)
        \/ Current' = <<>> /\ accepted' = accepted
    BY <1>n, <2>3 DEF Current
  <2>5. f \o i \o (q \o c) = f \o i \o q \o c /\ f \o i \o q \o c \in Seq(Messages)
    <3>1. PICK v \in Seq(Messages) : v = f \o i
      BY <1>m
    <3>2. v \o (q \o c) = v \o q \o c
      BY <1>s, Zenon
    <3>3. v \o q \o c \in Seq(Messages)
      BY <1>m
    <3> QED
      BY <3>1, <3>2, <3>3
  <2>6. CASE Current' = <<m>> /\ accepted' = Append(accepted, m)
    <3>1. Everywhere' = (f \o i \o q \o c) \o <<m>>
      BY <2>2, <2>5, <2>6
    <3> QED
      BY <1>a, <1>e, <1>u, <2>5, <2>6, <3>1
  <2>7. CASE Current' = <<>> /\ accepted' = accepted
    <3>1. Everywhere' = (f \o i \o q \o c) \o <<>>
      BY <2>2, <2>5, <2>7
    <3> QED
      BY <1>e, <1>m, <1>u, <2>5, <2>7, <3>1 DEF Moves
  <2> QED
    BY <2>4, <2>6, <2>7
<1> QED
  BY <1>1, <1>2, <1>3

\* What the backend takes or writes is the oldest that is not in the file, so
\* its steps move the borders between the places and nothing else.
LEMMA BackendPlaces ==
    ASSUME TypeOK, BackendTake \/ BackendWrite \/ BackendReturn
    PROVE  Moves
<1>0. PICK f \in Seq(Messages), i \in Seq(Messages), q \in Seq(Messages),
           c \in Seq(Messages) :
           f = logged /\ i = InHand /\ q = FlattenSeq(filled) /\ c = Current
  BY PlacesType
<1>b. filled \in Seq(Buffers)
  BY DEF TypeOK
<1>s. \A x, y, z \in Seq(Messages) : (x \o y) \o z = x \o (y \o z)
  BY Monoid
<1>m. /\ \A x, y \in Seq(Messages) : x \o y \in Seq(Messages)
      /\ \A x \in Seq(Messages) : x \o <<>> = x /\ <<>> \o x = x
  BY Monoid
<1>h. accepted' = accepted /\ overtaken' = overtaken
  BY DEF BackendTake, BackendWrite, BackendReturn, history
<1>1. CASE BackendTake
  <2>1. InHand = <<>> /\ logged' = f /\ InHand' = hand'
    BY <1>0, <1>1 DEF BackendTake, InHand, diskVars
  <2>2. Everywhere = f \o q \o c
    BY <1>0, <1>m, <2>1 DEF Everywhere
  <2>3. CASE ~stop /\ filled = <<>>
    <3>1. hand' = buf /\ buf' = NoBuf /\ filled' = <<>> /\ c = buf
      BY <1>0, <1>1, <2>3 DEF BackendTake, Current
    <3>2. Current' = <<>> /\ FlattenSeq(filled') = <<>> /\ q = <<>>
      BY <1>0, <2>3, <3>1, FlattenEmpty DEF Current
    <3>3. Everywhere' = f \o c \o <<>> \o <<>>
      BY <2>1, <3>1, <3>2 DEF Everywhere
    <3>4. Everywhere' = f \o c /\ Everywhere = f \o c
      BY <1>0, <1>m, <2>2, <3>2, <3>3
    <3> QED
      BY <1>h, <3>4 DEF Moves
  <2>4. CASE ~stop /\ filled # <<>>
    <3>1. hand' = Head(filled) /\ filled' = Tail(filled) /\ buf' = buf
      BY <1>1, <2>4 DEF BackendTake
    <3>2. f \o Head(filled) \o FlattenSeq(Tail(filled)) \o c = f \o q \o c
      BY <1>0, <1>b, <2>4, TakeKeepsOrder
    <3>3. Current' = c
      BY <1>0, <3>1 DEF Current
    <3>4. Everywhere' = f \o Head(filled) \o FlattenSeq(Tail(filled)) \o c
      BY <2>1, <3>1, <3>3 DEF Everywhere
    <3>5. Everywhere' = f \o q \o c
      BY <3>2, <3>4
    <3> QED
      BY <1>h, <2>2, <3>5 DEF Moves
  <2>5. CASE stop
    <3> DEFINE p == FilledWith(buf)
    <3>1. p # <<>> /\ hand' = Head(p) /\ filled' = Tail(p) /\ buf' = NoBuf
      BY <1>1, <2>5 DEF BackendTake
    <3>2. p \in Seq(Buffers) /\ FlattenSeq(p) = q \o c
      BY <1>0, PushMoves, FilledWithCounts DEF TypeOK
    <3>3. Current' = <<>>
      BY <3>1 DEF Current
    <3> HIDE DEF p
    <3>4. f \o Head(p) \o FlattenSeq(Tail(p)) \o <<>> = f \o (q \o c) \o <<>>
      <4>1. <<>> \in Seq(Messages)
        BY EmptySeq
      <4>2. f \o Head(p) \o FlattenSeq(Tail(p)) \o <<>> = f \o FlattenSeq(p) \o <<>>
        BY <3>1, <3>2, <4>1, TakeKeepsOrder
      <4> QED
        BY <3>2, <4>2
    <3>5. Everywhere' = f \o Head(p) \o FlattenSeq(Tail(p)) \o <<>>
      BY <2>1, <3>1, <3>3 DEF Everywhere
    <3>6. f \o (q \o c) \o <<>> = f \o q \o c
      <4>1. f \o (q \o c) = f \o q \o c
        BY <1>s, ZenonT(30)
      <4>2. PICK v \in Seq(Messages) : v = f \o q \o c
        BY <1>m
      <4>3. v \o <<>> = v
        BY <1>m
      <4> QED
        BY <4>1, <4>2, <4>3
    <3> QED
      BY <1>h, <2>2, <3>4, <3>5, <3>6 DEF Moves
  <2> QED
    BY <2>3, <2>4, <2>5
<1>2. CASE BackendWrite
  <2>1. /\ logged' = f \o hand /\ InHand = hand /\ InHand' = <<>>
        /\ UNCHANGED <<filled, buf>>
    BY <1>0, <1>2 DEF BackendWrite, InHand, frontVars
  <2>2. Current' = c
    BY <1>0, <2>1 DEF Current
  <2>3. Everywhere' = (f \o i) \o <<>> \o q \o c
    BY <1>0, <2>1, <2>2 DEF Everywhere
  <2>4. (f \o i) \o <<>> = f \o i
    <3>1. PICK v \in Seq(Messages) : v = f \o i
      BY <1>m
    <3> QED
      BY <1>m, <3>1
  <2>5. Everywhere = f \o i \o q \o c
    BY <1>0 DEF Everywhere
  <2> QED
    BY <1>h, <2>3, <2>4, <2>5 DEF Moves
<1>3. CASE BackendReturn
  <2>1. InHand = <<>> /\ logged' = f /\ buf' = buf
    BY <1>0, <1>3 DEF BackendReturn, InHand, diskVars
  <2>2. Current' = c
    BY <1>0, <2>1 DEF Current
  <2>3. CASE backend = "returnFilled" /\ filled # <<>>
    <3>1. InHand' = Head(filled) /\ filled' = Tail(filled)
      BY <1>3, <2>3 DEF BackendReturn, InHand
    <3>2. f \o Head(filled) \o FlattenSeq(Tail(filled)) \o c = f \o q \o c
      BY <1>0, <1>b, <2>3, TakeKeepsOrder
    <3>4. Everywhere' = f \o Head(filled) \o FlattenSeq(Tail(filled)) \o c
      BY <2>1, <2>2, <3>1 DEF Everywhere
    <3>5. Everywhere = f \o q \o c
      BY <1>0, <1>m, <2>1 DEF Everywhere
    <3>6. Everywhere' = f \o q \o c
      BY <3>2, <3>4
    <3> QED
      BY <1>h, <3>5, <3>6 DEF Moves
  <2>4. CASE ~(backend = "returnFilled" /\ filled # <<>>)
    <3>1. InHand' = <<>> /\ filled' = filled
      BY <1>3, <2>4 DEF BackendReturn, InHand
    <3> QED
      BY <1>0, <1>h, <2>1, <2>2, <3>1 DEF Moves, Everywhere
  <2> QED
    BY <2>3, <2>4
<1> QED
  BY <1>1, <1>2, <1>3

\* The steps that touch no buffer leave the messages alone.
LEMMA OtherPlaces ==
    ASSUME TypeOK,
           FlushEnd \/ BackendFlush \/ BackendCheckStop \/ Shutdown \/ Close
    PROVE  Moves
<1>1. /\ UNCHANGED <<logged, filled, buf, hand, accepted, overtaken>>
      /\ \/ backend' = backend
         \/ backend = "flush" /\ backend' = "checkStop"
         \/ backend = "checkStop" /\ backend' \in {"exited", "wait"}
  BY DEF FlushEnd, BackendFlush, BackendCheckStop, Shutdown, Close, frontVars,
         diskVars, history
<1>2. InHand' = InHand /\ Current' = Current
  BY <1>1 DEF InHand, Current
<1> QED
  BY <1>1, <1>2 DEF Moves, Everywhere

\* The first step of flush() queues the frontend's buffer.
LEMMA FlushBeginPlaces ==
    ASSUME TypeOK, NEW kind, FlushBegin(kind)
    PROVE  Moves
<1>0. PICK f \in Seq(Messages), i \in Seq(Messages), q \in Seq(Messages),
           c \in Seq(Messages) :
           f = logged /\ i = InHand /\ q = FlattenSeq(filled) /\ c = Current
  BY PlacesType
<1>1. /\ logged' = f /\ InHand' = i /\ filled' = FilledWith(buf) /\ buf' = NoBuf
      /\ accepted' = accepted /\ overtaken' = overtaken
  BY <1>0 DEF FlushBegin, InHand, diskVars, history
<1>2. FlattenSeq(filled') = q \o c /\ Current' = <<>>
  BY <1>0, <1>1, PushMoves DEF Current
<1>3. Everywhere' = f \o i \o (q \o c) \o <<>>
  BY <1>1, <1>2 DEF Everywhere
<1>4. f \o i \o (q \o c) \o <<>> = f \o i \o q \o c
  <2>1. PICK v \in Seq(Messages) : v = f \o i
    BY Monoid
  <2>2. \A x, y, z \in Seq(Messages) : (x \o y) \o z = x \o (y \o z)
    BY Monoid
  <2>3. v \o (q \o c) = v \o q \o c
    BY <2>2, ZenonT(30)
  <2>4. PICK w \in Seq(Messages) : w = v \o q \o c
    BY Monoid
  <2>5. w \o <<>> = w
    BY ConcatEmptySeq
  <2> QED
    BY <2>1, <2>3, <2>4, <2>5
<1>5. Everywhere = f \o i \o q \o c
  BY <1>0 DEF Everywhere
<1> QED
  BY <1>1, <1>3, <1>4, <1>5 DEF Moves

\* Swapping two neighbours in a concatenation keeps elements and length.
LEMMA SwapBlocks ==
    ASSUME NEW S, NEW f \in Seq(S), NEW i \in Seq(S), NEW h \in Seq(S),
           NEW t \in Seq(S), NEW c \in Seq(S)
    PROVE  /\ ToSet(f \o i \o (h \o t) \o c) = ToSet(f \o h \o i \o t \o c)
           /\ Len(f \o i \o (h \o t) \o c) = Len(f \o h \o i \o t \o c)
<1>1. \A x, y \in Seq(S) : x \o y \in Seq(S) /\ Len(x \o y) = Len(x) + Len(y)
  BY ConcatProperties
<1>2. \A x, y \in Seq(S) : ToSet(x \o y) = ToSet(x) \cup ToSet(y)
  BY ToSetConcat
<1>3. PICK a \in Seq(S) : a = f \o i
  BY <1>1
<1>4. PICK b \in Seq(S) : b = h \o t
  BY <1>1
<1>5. PICK d \in Seq(S) : d = f \o h
  BY <1>1
<1>6. PICK e \in Seq(S) : e = d \o i
  BY <1>1
<1>7. PICK u \in Seq(S) : u = a \o b
  BY <1>1
<1>8. PICK v \in Seq(S) : v = e \o t
  BY <1>1
<1>9. /\ Len(f) \in Nat /\ Len(i) \in Nat /\ Len(h) \in Nat /\ Len(t) \in Nat /\ Len(c) \in Nat
  BY LenProperties
<1>10. ToSet(u \o c) = ToSet(v \o c)
  <2>1. /\ ToSet(u \o c) = ToSet(u) \cup ToSet(c) /\ ToSet(v \o c) = ToSet(v) \cup ToSet(c)
    BY <1>2
  <2>2. ToSet(u) = (ToSet(f) \cup ToSet(i)) \cup (ToSet(h) \cup ToSet(t))
    <3>1. ToSet(a) = ToSet(f) \cup ToSet(i) /\ ToSet(b) = ToSet(h) \cup ToSet(t)
      BY <1>2, <1>3, <1>4, Zenon
    <3>2. ToSet(u) = ToSet(a) \cup ToSet(b)
      BY <1>2, <1>7, Zenon
    <3> QED
      BY <3>1, <3>2, Zenon
  <2>3. ToSet(v) = ((ToSet(f) \cup ToSet(h)) \cup ToSet(i)) \cup ToSet(t)
    <3>1. ToSet(d) = ToSet(f) \cup ToSet(h)
      BY <1>2, <1>5, Zenon
    <3>2. ToSet(e) = ToSet(d) \cup ToSet(i)
      BY <1>2, <1>6, Zenon
    <3>3. ToSet(v) = ToSet(e) \cup ToSet(t)
      BY <1>2, <1>8, Zenon
    <3> QED
      BY <3>1, <3>2, <3>3, Zenon
  <2> QED
    BY <2>1, <2>2, <2>3
<1>11. Len(u \o c) = Len(v \o c)
  <2>1. Len(a) = Len(f) + Len(i) /\ Len(b) = Len(h) + Len(t) /\ Len(u) = Len(a) + Len(b)
    BY <1>1, <1>3, <1>4, <1>7
  <2>2. Len(d) = Len(f) + Len(h) /\ Len(e) = Len(d) + Len(i) /\ Len(v) = Len(e) + Len(t)
    BY <1>1, <1>5, <1>6, <1>8
  <2>3. Len(u \o c) = Len(u) + Len(c) /\ Len(v \o c) = Len(v) + Len(c)
    BY <1>1
  <2> QED
    BY <1>9, <2>1, <2>2, <2>3
<1> QED
  BY <1>3, <1>4, <1>5, <1>6, <1>7, <1>8, <1>10, <1>11

\* flush() writes the oldest queued buffer before the one in the backend's hand:
\* the messages are the same, and in the same order if the hand is empty.
LEMMA FlushWritePlaces ==
    ASSUME TypeOK, FlushWrite
    PROVE  /\ ToSet(Everywhere') = ToSet(Everywhere) /\ Len(Everywhere') = Len(Everywhere)
           /\ ~overtaken' => ~overtaken /\ Everywhere' = Everywhere
           /\ accepted' = accepted
<1>1. /\ filled # <<>> /\ filled' = Tail(filled) /\ logged' = logged \o Head(filled)
      /\ overtaken' = (overtaken \/ InHand # <<>>) /\ accepted' = accepted
      /\ InHand' = InHand /\ Current' = Current
  BY DEF FlushWrite, InHand, Current
<1>2. PICK f \in Seq(Messages), i \in Seq(Messages), c \in Seq(Messages),
           h \in Seq(Messages), t \in Seq(Messages) :
           /\ f = logged /\ i = InHand /\ c = Current
           /\ h = Head(filled) /\ t = FlattenSeq(Tail(filled)) /\ FlattenSeq(filled) = h \o t
  BY <1>1, PlacesType, TakeSplits DEF TypeOK
<1>3. Everywhere = f \o i \o (h \o t) \o c /\ Everywhere' = f \o h \o i \o t \o c
  BY <1>1, <1>2 DEF Everywhere
<1>4. /\ ToSet(f \o i \o (h \o t) \o c) = ToSet(f \o h \o i \o t \o c)
      /\ Len(f \o i \o (h \o t) \o c) = Len(f \o h \o i \o t \o c)
  BY SwapBlocks
<1>5. i = <<>> => f \o i \o (h \o t) \o c = f \o h \o i \o t \o c
  <2> SUFFICES ASSUME i = <<>> PROVE f \o i \o (h \o t) \o c = f \o h \o i \o t \o c
    OBVIOUS
  <2>1. f \o i = f
    BY ConcatEmptySeq
  <2>2. f \o h \o i = f \o h
    <3>1. PICK v \in Seq(Messages) : v = f \o h
      BY Monoid
    <3>2. v \o <<>> = v
      BY ConcatEmptySeq
    <3> QED
      BY <3>1, <3>2
  <2>3. f \o (h \o t) = f \o h \o t
    <3>1. \A x, y, z \in Seq(Messages) : (x \o y) \o z = x \o (y \o z)
      BY Monoid
    <3> QED
      BY <3>1, ZenonT(30)
  <2> QED
    BY <2>1, <2>2, <2>3
<1> QED
  BY <1>1, <1>2, <1>3, <1>4, <1>5

-----------------------------------------------------------------------------
\* While a flush() holds _mutex the frontend has no buffer: its messages were
\* queued when the flush began and nobody can append.
FlushingTookBuffer == flusher # "none" => buf = NoBuf

Placed == MessagesConserved /\ FileInOrder /\ FlushingTookBuffer

\* At the start no message is anywhere.
LEMMA InitPlaced == Init => Placed
<1> SUFFICES ASSUME Init PROVE Placed
  OBVIOUS
<1>1. logged = <<>> /\ InHand = <<>> /\ Current = <<>> /\ accepted = <<>>
  BY DEF Init, InHand, Current
<1>2. FlattenSeq(filled) = <<>>
  BY FlattenEmpty DEF Init
<1>3. <<>> \o <<>> = <<>>
  BY EmptySeq, ConcatEmptySeq
<1>4. logged \o InHand \o FlattenSeq(filled) \o Current = accepted
  BY <1>1, <1>2, <1>3
<1> QED
  BY <1>4 DEF Placed, MessagesConserved, FileInOrder, FlushingTookBuffer, Init

\* Every step keeps the messages in their places.
LEMMA NextPlaced == IInv /\ Placed /\ [Next]_vars => Placed'
<1> SUFFICES ASSUME IInv, Placed, [Next]_vars PROVE Placed'
  OBVIOUS
<1>t. TypeOK
  BY DEF IInv
<1>p. /\ ToSet(Everywhere) = ToSet(accepted) /\ Len(Everywhere) = Len(accepted)
      /\ ~overtaken => Everywhere = accepted
      /\ FlushingTookBuffer
  BY DEF Placed, MessagesConserved, FileInOrder, Everywhere
<1>q. ASSUME ToSet(Everywhere') = ToSet(accepted'), Len(Everywhere') = Len(accepted'),
             ~overtaken' => Everywhere' = accepted', FlushingTookBuffer'
      PROVE  Placed'
  BY <1>q DEF Placed, MessagesConserved, FileInOrder, Everywhere
<1>m. ASSUME Moves, FlushingTookBuffer' PROVE Placed'
  BY <1>m, <1>p, <1>q DEF Moves
<1>1. ASSUME NEW m \in Messages, AppendAsync(m) PROVE Placed'
  <2>1. FlushingTookBuffer'
    BY <1>1 DEF AppendAsync, LockFree, flushVars, FlushingTookBuffer
  <2>2. CASE Moves
    BY <1>m, <2>1, <2>2
  <2>3. CASE /\ Everywhere' = Append(Everywhere, m)
             /\ accepted' = Append(accepted, m) /\ overtaken' = overtaken
    <3>1. Everywhere \in Seq(Messages) /\ accepted \in Seq(Messages)
      BY <1>t, PlacesType, Monoid DEF Everywhere
    <3>2. /\ ToSet(Append(Everywhere, m)) = ToSet(Everywhere) \cup {m}
          /\ ToSet(Append(accepted, m)) = ToSet(accepted) \cup {m}
      BY <3>1, ToSetAppend
    <3>3. /\ Len(Append(Everywhere, m)) = Len(Everywhere) + 1
          /\ Len(Append(accepted, m)) = Len(accepted) + 1
      BY <3>1, AppendProperties
    <3> QED
      BY <1>p, <1>q, <2>1, <2>3, <3>2, <3>3
  <2> QED
    BY <1>1, <1>t, <2>2, <2>3, AppendPlaces
<1>2. ASSUME NEW kind, FlushBegin(kind) PROVE Placed'
  <2>1. FlushingTookBuffer'
    BY <1>2 DEF FlushBegin, FlushingTookBuffer
  <2> QED
    BY <1>2, <1>m, <1>t, <2>1, FlushBeginPlaces
<1>3. CASE FlushWrite
  <2>1. FlushingTookBuffer'
    BY <1>3, <1>p DEF FlushWrite, flushVars, FlushingTookBuffer
  <2> QED
    BY <1>3, <1>p, <1>q, <1>t, <2>1, FlushWritePlaces
<1>4. CASE BackendTake \/ BackendWrite \/ BackendReturn
  <2>1. FlushingTookBuffer'
    BY <1>4, <1>p DEF BackendTake, BackendWrite, BackendReturn, LockFree, flushVars,
                      frontVars, FlushingTookBuffer
  <2> QED
    BY <1>4, <1>m, <1>t, <2>1, BackendPlaces
<1>5. CASE FlushEnd \/ BackendFlush \/ BackendCheckStop \/ Shutdown \/ Close
  <2>1. FlushingTookBuffer'
    BY <1>5, <1>p DEF FlushEnd, BackendFlush, BackendCheckStop, Shutdown, Close,
                      flushVars, frontVars, FlushingTookBuffer
  <2> QED
    BY <1>5, <1>m, <1>t, <2>1, OtherPlaces
<1>6. CASE UNCHANGED vars
  <2>1. UNCHANGED <<InHand, Current, filled, logged, accepted, overtaken, flusher, buf>>
    BY <1>6 DEF vars, InHand, Current
  <2> QED
    BY <2>1 DEF Placed, MessagesConserved, FileInOrder, FlushingTookBuffer
<1> QED
  BY <1>1, <1>2, <1>3, <1>4, <1>5, <1>6
     DEF Next, BackendStep, FlushStep, UserStep, CloseStep

\* Both invariants hold together.
LEMMA AlwaysPlaced == Spec => [](IInv /\ Placed)
<1>1. Init => IInv /\ Placed
  BY InitIInv, InitPlaced
<1>2. (IInv /\ Placed) /\ [Next]_vars => (IInv /\ Placed)'
  BY NextIInv, NextPlaced
<1> QED
  BY <1>1, <1>2, PTL DEF Spec

\* append_async, threadFunc and flush(): every accepted message is in exactly
\* one place, whatever the frontend, the backend and the flushes interleave.
THEOREM NoMessageLost == Spec => []MessagesConserved
<1>1. IInv /\ Placed => MessagesConserved
  BY DEF Placed
<1> QED
  BY <1>1, AlwaysPlaced, PTL

\* threadFunc and flush(): unless a flush() overtook the backend, the file has
\* the messages in the order of the calls of append_async.
THEOREM OrderOfFile == Spec => []FileInOrder
<1>1. IInv /\ Placed => FileInOrder
  BY DEF Placed
<1> QED
  BY <1>1, AlwaysPlaced, PTL

\* flush(): when it returns, what was accepted is on disk or in the backend's
\* hand.
THEOREM FlushIsComplete == Spec => FlushMissesOnlyInHand
<1>1. ASSUME IInv, Placed, FlushEnd
      PROVE  ToSet(accepted) \subseteq Durable' \cup ToSet(InHand)
  <2>0. TypeOK
    BY <1>1 DEF IInv
  <2>1. PICK f \in Seq(Messages), i \in Seq(Messages) : f = logged /\ i = InHand
    BY <2>0, PlacesType
  <2>2. FlattenSeq(filled) = <<>> /\ Current = <<>>
    BY <1>1, FlattenEmpty DEF FlushEnd, Placed, FlushingTookBuffer, Current
  <2>3. logged \o InHand \o FlattenSeq(filled) \o Current = f \o i
    <3>1. PICK v \in Seq(Messages) : v = f \o i
      BY Monoid
    <3>2. v \o <<>> = v
      BY ConcatEmptySeq
    <3> QED
      BY <2>1, <2>2, <3>1, <3>2
  <2>4. ToSet(f \o i) = ToSet(accepted)
    BY <1>1, <2>3 DEF Placed, MessagesConserved
  <2>5. ToSet(f \o i) = ToSet(f) \cup ToSet(i)
    BY ToSetConcat
  <2>6. Durable' = ToSet(f)
    <3>1. SubSeq(f, 1, Len(f)) = f
      BY SubSeqFull
    <3>2. logged' = f /\ synced' = Len(f)
      BY <1>1, <2>1 DEF FlushEnd
    <3> QED
      BY <3>1, <3>2 DEF Durable
  <2> QED
    BY <2>1, <2>4, <2>5, <2>6
<1>2. IInv /\ Placed /\ [Next]_vars =>
          [FlushEnd => ToSet(accepted) \subseteq Durable' \cup ToSet(InHand)]_vars
  BY <1>1
<1> QED
  BY <1>2, AlwaysPlaced, PTL DEF Spec, FlushMissesOnlyInHand

-----------------------------------------------------------------------------
(***************************************************************************)
(* LogFile                                                                 *)
(***************************************************************************)

Files ==
    [exists : BOOLEAN, valid : BOOLEAN, name : Nat, raw : Nat, inode : Nat,
     buf : Seq(Nat), written : Int]

EnvType ==
    [opened : Nat, failures : Nat, short : Nat, outs : Nat, unlinks : Nat, restarts : Nat,
     flushes : Nat, rollFails : Nat, carried : Nat, since : Nat, doubtful : SUBSET Nat]

AppenderType == [pc : {"idle", "write", "roll"}, len : Nat, remain : Int]
FlusherType == [pc : {"idle", "fflush"}, raw : Nat, upto : Nat]

\* The types that FileTypeOK leaves open.
Types ==
    /\ content \in Seq(Seq(Nat))
    /\ file \in Files
    /\ appender \in AppenderType
    /\ inFlush \in FlusherType
    /\ sizes \in Seq(Int) /\ lost \in Seq(Nat)
    /\ env \in EnvType
    /\ inFlush.upto <= Len(sizes)

\* The wrapper has a FILE exactly when it is valid, and only then a message is
\* being written; a killed process has neither.
WrapperInv ==
    /\ file.valid => file.exists /\ file.raw # 0 /\ file.inode # 0
    /\ ~file.valid => file.raw = 0 /\ file.inode = 0 /\ file.buf = <<>>
    /\ appender.pc = "write" => file.valid
    /\ fault = "killed" => ~file.valid /\ file.written = 0 /\ appender.pc = "idle"

\* Names of different files; a file that has taken the name of the open FILE is
\* empty, and the later names are not of the open FILE.
DirInv ==
    /\ \A m, n \in 0..MaxName : m # n /\ dir[m] # 0 => dir[m] # dir[n]
    /\ file.valid => file.name \in 0..MaxName /\ file.name < rollIndex
    /\ file.valid /\ dir[file.name] \notin {0, file.inode} => content[dir[file.name]] = <<>>
    /\ file.inode # 0 => \A m \in 0..MaxName : m >= rollIndex => dir[m] # file.inode

BaseInv == FileTypeOK /\ Types /\ WrapperInv /\ DirInv

\* Only the message that is being written is in the buffer before append has
\* reported it, and what was lost is older than the last restart or doubtful.
FlushInv ==
    /\ env.since <= Len(sizes)
    /\ \A j \in 1..Len(file.buf) :
          file.buf[j] <= Len(sizes) \/ (appender.pc = "write" /\ file.buf[j] = Len(sizes) + 1)
    /\ \A j \in 1..Len(lost) : lost[j] <= env.since \/ lost[j] \in env.doubtful
    /\ \A n \in durable \ env.doubtful :
          /\ \A j \in 1..Len(lost) : lost[j] # n
          /\ \A j \in 1..Len(file.buf) : file.buf[j] # n

\* Less than a roll size and a message are added to a file in one run, and one
\* more message for each roll that failed: in earlier runs, and in all.
PerRun == RollSize - 1 + MaxLen
Earlier == env.restarts * PerRun + env.carried * MaxLen
Total == env.restarts * PerRun + PerRun + env.rollFails * MaxLen

\* The message that is being written is written at once.
WholeWrites ==
    env.short = 0 /\ appender.pc = "write" =>
        appender.remain = appender.len /\ appender.len \in 1..MaxLen

\* What has been added in this run to the file that is open is counted, and
\* nothing to the files whose names come later.
GrowthInv ==
    env.short = 0 =>
        /\ file.written \in Nat /\ Earlier + PerRun <= Total
        /\ Earlier + file.written <= Total
        /\ appender.pc # "roll" => Earlier + file.written + MaxLen <= Total
        /\ \A i \in 1..Len(content) :
              /\ Len(Written(i)) <= Total
              /\ i = file.inode => Len(Written(i)) <= Earlier + file.written
              /\ \A m \in 0..MaxName :
                    m >= rollIndex /\ dir[m] = i => Len(Written(i)) <= Earlier
              /\ fault = "killed" => Len(Written(i)) <= Earlier

\* A buffer at most is lost at a time.
LossInv ==
    env.short = 0 =>
        /\ Len(file.buf) <= FileBufSize
        /\ Len(lost) <= (env.restarts + env.outs) * FileBufSize

-----------------------------------------------------------------------------
(* The parts of AppendFileWrapper.                                         *)

\* What the invariants need of the constants.
LEMMA Constants ==
    /\ RollSize \in Nat /\ RollSize >= 1 /\ FileBufSize \in Nat /\ MaxLen \in Nat /\ MaxLen >= 1
    /\ MaxName \in Nat /\ PerRun \in Nat /\ PerRun >= RollSize /\ PerRun >= MaxLen
BY LogFileAssumption DEF PerRun

\* The numbers that the types bound.
LEMMA Numbers ==
    ASSUME FileTypeOK, Types
    PROVE  /\ Len(content) \in Nat /\ Len(sizes) \in Nat /\ Len(file.buf) \in Nat
           /\ Len(lost) \in Nat
           /\ \A i \in 1..Len(content) : content[i] \in Seq(Nat) /\ Len(content[i]) \in Nat
BY LenProperties, ElementOfSeq DEF Types, Files

\* What an inode holds or is about to hold is a sequence of characters.
LEMMA WrittenType ==
    ASSUME FileTypeOK, Types, NEW i \in 1..Len(content)
    PROVE  /\ Written(i) \in Seq(Nat) /\ Len(Written(i)) \in Nat
           /\ i # file.inode => Written(i) = content[i]
           /\ i = file.inode => /\ Written(i) = content[i] \o file.buf
                                /\ Len(Written(i)) = Len(content[i]) + Len(file.buf)
<1>1. content[i] \in Seq(Nat) /\ file.buf \in Seq(Nat)
  BY Numbers DEF Types, Files
<1>2. content[i] \o file.buf \in Seq(Nat)
      /\ Len(content[i] \o file.buf) = Len(content[i]) + Len(file.buf)
  BY <1>1, ConcatProperties
<1> QED
  BY <1>1, <1>2, LenProperties DEF Written

\* What stdio writes out goes to the file that is open.
LEMMA FlushedType ==
    ASSUME FileTypeOK, Types, NEW s \in Seq(Nat), NEW k \in 0..Len(s)
    PROVE  /\ Flushed(s, k) \in Seq(Seq(Nat)) /\ Len(Flushed(s, k)) = Len(content)
           /\ Rest(s, k) \in Seq(Nat)
           /\ \A i \in 1..Len(content) :
                 Flushed(s, k)[i] = IF i = file.inode THEN content[i] \o SubSeq(s, 1, k)
                                    ELSE content[i]
<1>0. SubSeq(s, 1, k) \in Seq(Nat) /\ Rest(s, k) \in Seq(Nat)
  BY CutInTwo DEF Rest
<1>1. CASE file.inode = 0
  <2>1. Flushed(s, k) = content
    BY <1>1 DEF Flushed
  <2>2. \A i \in 1..Len(content) : i # file.inode
    BY <1>1
  <2> QED
    BY <1>0, <2>1, <2>2 DEF Types
<1>2. CASE file.inode # 0
  <2> DEFINE n == Len(content)
             b == SubSeq(s, 1, k)
             d == [content EXCEPT ![file.inode] = @ \o b]
  <2>1. /\ n \in Nat /\ file.inode \in 1..n /\ DOMAIN content = 1..n
        /\ content \in Seq(Seq(Nat))
    <3>1. content \in Seq(Seq(Nat))
      BY DEF Types
    <3>2. n \in Nat /\ DOMAIN content = 1..n
      BY <3>1, LenProperties
    <3>3. file.inode \in 1..n
      BY <1>2, <3>2, Numbers DEF FileTypeOK
    <3> QED
      BY <3>1, <3>2, <3>3
  <2>2. Flushed(s, k) = d
    BY <1>2 DEF Flushed
  <2> HIDE DEF b
  <2>3. ASSUME NEW i \in 1..n
        PROVE  d[i] = (IF i = file.inode THEN content[i] \o b ELSE content[i])
               /\ d[i] \in Seq(Nat)
    <3>1. d[i] = IF i = file.inode THEN content[i] \o b ELSE content[i]
      BY <2>1
    <3>2. content[i] \in Seq(Nat) /\ content[i] \o b \in Seq(Nat)
      BY <1>0, Numbers, ConcatProperties DEF b
    <3> QED
      BY <3>1, <3>2
  <2>4. d \in [1..n -> Seq(Nat)]
    <3>1. DOMAIN d = 1..n /\ d = [i \in 1..n |-> d[i]]
      BY <2>1
    <3> HIDE DEF d
    <3> QED
      BY <2>3, <3>1
  <2> HIDE DEF d, n
  <2>5. d \in Seq(Seq(Nat)) /\ Len(d) = n
    BY <2>1, <2>4, FunctionIsSeq
  <2> QED
    BY <1>0, <2>2, <2>3, <2>5 DEF n, b
<1> QED
  BY <1>1, <1>2

\* When the buffer is written out, each file is what it was about to be up to what
\* is dropped.
LEMMA FlushedContent ==
    ASSUME FileTypeOK, Types, NEW k \in 0..Len(file.buf)
    PROVE  LET c == Flushed(file.buf, k)
               b == Rest(file.buf, k) IN
           /\ c \in Seq(Seq(Nat)) /\ Len(c) = Len(content) /\ b \in Seq(Nat)
           /\ \A i \in 1..Len(content) :
                 IF i = file.inode THEN Written(i) = c[i] \o b ELSE Written(i) = c[i]
<1> DEFINE c == Flushed(file.buf, k)
           b == Rest(file.buf, k)
           a == SubSeq(file.buf, 1, k)
<1>1. file.buf \in Seq(Nat)
  BY DEF Types, Files
<1>2. /\ c \in Seq(Seq(Nat)) /\ Len(c) = Len(content) /\ b \in Seq(Nat)
      /\ \A i \in 1..Len(content) : c[i] = IF i = file.inode THEN content[i] \o a ELSE content[i]
  BY <1>1, FlushedType
<1>3. a \in Seq(Nat) /\ a \o b = file.buf
  BY <1>1, CutInTwo DEF Rest
<1> HIDE DEF a, b, c
<1>4. ASSUME NEW i \in 1..Len(content)
      PROVE  IF i = file.inode THEN Written(i) = c[i] \o b ELSE Written(i) = c[i]
  <2>1. CASE i = file.inode
    <3>1. content[i] \in Seq(Nat)
      BY Numbers
    <3>2. (content[i] \o a) \o b = content[i] \o (a \o b)
      <4>1. \A x, y, z \in Seq(Nat) : (x \o y) \o z = x \o (y \o z)
        BY Monoid
      <4> QED
        BY <1>2, <1>3, <3>1, <4>1
    <3> QED
      BY <1>2, <1>3, <2>1, <3>2, WrittenType
  <2>2. CASE i # file.inode
    BY <1>2, <2>2, WrittenType
  <2> QED
    BY <2>1, <2>2
<1> QED
  BY <1>2, <1>4 DEF b, c

\* What is noted of a buffer that was written out or not.
LEMMA NotedFields ==
    ASSUME Types, NEW s \in Seq(Nat), NEW k \in 0..Len(s)
    PROVE  LET e == Noted(s, k) IN
           /\ e \in EnvType
           /\ e.opened = env.opened /\ e.failures = env.failures /\ e.short = env.short
           /\ e.unlinks = env.unlinks /\ e.restarts = env.restarts /\ e.flushes = env.flushes
           /\ e.rollFails = env.rollFails /\ e.carried = env.carried /\ e.since = env.since
           /\ \/ Rest(s, k) = <<>> /\ e.outs = env.outs /\ e.doubtful = env.doubtful
              \/ e.outs = env.outs + 1 /\ e.doubtful = env.doubtful \cup ToSet(s)
<1>1. env \in EnvType /\ env.outs + 1 \in Nat
  BY DEF Types, EnvType
<1>2. CASE k = Len(s)
  <2>1. Noted(s, k) = env
    BY <1>2 DEF Noted
  <2>2. Rest(s, k) = <<>>
    BY <1>2, CutInTwo DEF Rest
  <2> QED
    BY <1>1, <2>1, <2>2
<1>3. CASE k # Len(s)
  <2>1. Noted(s, k) = [env EXCEPT !.outs = @ + 1, !.doubtful = @ \cup ToSet(s)]
    BY <1>3 DEF Noted
  <2>2. env.doubtful \cup ToSet(s) \in SUBSET Nat
    <3>1. \A j \in DOMAIN s : s[j] \in Nat
      BY ElementOfSeq, LenProperties
    <3>2. ToSet(s) \subseteq Nat
      BY <3>1 DEF ToSet
    <3> QED
      BY <1>1, <3>2 DEF EnvType
  <2> DEFINE D == env.doubtful \cup ToSet(s)
  <2>3. Noted(s, k) = [env EXCEPT !.outs = @ + 1, !.doubtful = D]
    BY <2>1
  <2>4. D \in SUBSET Nat
    BY <2>2
  <2>5. D = env.doubtful \cup ToSet(s)
    OBVIOUS
  <2> HIDE DEF D
  <2> QED
    BY <1>1, <2>3, <2>4, <2>5 DEF EnvType
<1> QED
  BY <1>2, <1>3

\* What open does, when it is called with the contents c and the history e.
LEMMA OpenedFile ==
    ASSUME FileTypeOK, Types, NEW c \in Seq(Seq(Nat)), Len(c) = Len(content),
           NEW e \in EnvType, NEW name \in 0..MaxName, OpenFile(name, c, e)
    PROVE  /\ content' \in Seq(Seq(Nat)) /\ Len(content') >= Len(c)
           /\ \A i \in 1..Len(c) : content'[i] = c[i]
           /\ \A i \in 1..Len(content') : i > Len(c) => content'[i] = <<>>
           /\ dir' \in [0..MaxName -> 0..Len(content')]
           /\ \A m \in 0..MaxName : m # name => dir'[m] = dir[m]
           /\ dir'[name] = file'.inode /\ file'.inode \in 1..Len(content')
           /\ dir[name] # 0 => file'.inode = dir[name]
           /\ dir[name] = 0 => file'.inode > Len(c)
           /\ file'.exists /\ file'.valid /\ file'.name = name /\ file'.raw # 0
           /\ file'.buf = <<>> /\ file'.written = 0 /\ file' \in Files
           /\ env' \in EnvType
           /\ env'.short = e.short /\ env'.outs = e.outs /\ env'.restarts = e.restarts
           /\ env'.rollFails = e.rollFails /\ env'.carried = e.carried
           /\ env'.since = e.since /\ env'.doubtful = e.doubtful
<1> DEFINE n == Len(c)
           inode == IF dir[name] # 0 THEN dir[name] ELSE n + 1
<1>0. n \in Nat /\ dir \in [0..MaxName -> 0..n] /\ <<>> \in Seq(Nat)
  BY LenProperties, EmptySeq DEF FileTypeOK
<1>1. /\ dir' = [dir EXCEPT ![name] = inode]
      /\ content' = IF dir[name] # 0 THEN c ELSE Append(c, <<>>)
      /\ file' = [exists |-> TRUE, valid |-> TRUE, name |-> name, raw |-> env.opened + 1,
                  inode |-> inode, buf |-> <<>>, written |-> 0]
      /\ env' = [e EXCEPT !.opened = @ + 1]
  BY DEF OpenFile
<1>4. env.opened \in Nat /\ name \in Nat
  BY Constants DEF Types, EnvType
<1>a. /\ env' \in EnvType
      /\ env'.short = e.short /\ env'.outs = e.outs /\ env'.restarts = e.restarts
      /\ env'.rollFails = e.rollFails /\ env'.carried = e.carried
      /\ env'.since = e.since /\ env'.doubtful = e.doubtful
  <2>1. e.opened + 1 \in Nat
    BY DEF EnvType
  <2> QED
    BY <1>1, <2>1 DEF EnvType
<1>2. CASE dir[name] # 0
  <2>1. content' = c /\ inode = dir[name] /\ inode \in 1..n
    BY <1>0, <1>1, <1>2
  <2> HIDE DEF inode
  <2>2. /\ dir' \in [0..MaxName -> 0..n] /\ dir'[name] = inode
        /\ \A m \in 0..MaxName : m # name => dir'[m] = dir[m]
    BY <1>0, <1>1, <2>1
  <2>3. env.opened + 1 \in Nat /\ env.opened + 1 # 0 /\ inode \in Nat /\ name \in Nat
    BY <1>0, <1>4, <2>1
  <2>4. file' \in Files /\ file'.raw # 0 /\ file'.inode = inode
    BY <1>0, <1>1, <2>3 DEF Files
  <2> QED
    BY <1>0, <1>1, <1>2, <1>a, <2>1, <2>2, <2>4
<1>3. CASE dir[name] = 0
  <2>1. content' = Append(c, <<>>) /\ inode = n + 1
    BY <1>1, <1>3
  <2>2. /\ content' \in Seq(Seq(Nat)) /\ Len(content') = n + 1
        /\ \A i \in 1..n : content'[i] = c[i]
    BY <1>0, <2>1, AppendProperties
  <2>a. content'[n + 1] = <<>>
    BY <1>0, <2>1, AppendProperties
  <2> HIDE DEF inode
  <2>3. /\ dir' \in [0..MaxName -> 0..(n + 1)] /\ dir'[name] = inode
        /\ \A m \in 0..MaxName : m # name => dir'[m] = dir[m]
    <3>1. dir \in [0..MaxName -> 0..(n + 1)] /\ inode \in 0..(n + 1)
      BY <1>0, <2>1
    <3> QED
      BY <1>1, <3>1
  <2>4. env.opened + 1 \in Nat /\ env.opened + 1 # 0 /\ inode \in Nat /\ name \in Nat
    BY <1>0, <1>4, <2>1
  <2>5. file' \in Files /\ file'.raw # 0 /\ file'.inode = inode
    BY <1>0, <1>1, <2>4 DEF Files
  <2>6. \A i \in 1..(n + 1) : i > n => i = n + 1
    BY <1>0
  <2> QED
    BY <1>0, <1>1, <1>3, <1>a, <2>1, <2>2, <2>3, <2>5, <2>6, <2>a
<1> QED
  BY <1>2, <1>3

\* The step adds no character to what a file holds or is about to hold; the one
\* that is open loses the characters b at its end, and a new file is empty.
LosesEnd(b) ==
    /\ Len(content') >= Len(content)
    /\ file.inode = 0 => b = <<>>
    /\ \A i \in 1..Len(content) :
          IF i = file.inode THEN Written(i) = Written(i)' \o b ELSE Written(i)' = Written(i)
    /\ \A i \in 1..Len(content') : i > Len(content) => Written(i)' = <<>>

\* A step that loses nothing, or loses b because stdio fails.
Losing(b) ==
    /\ b \in Seq(Nat) /\ LosesEnd(b) /\ lost' = lost \o b
    /\ file'.buf \in {<<>>, file.buf}
    /\ env'.short = env.short /\ env'.restarts = env.restarts /\ env'.since = env.since
    /\ \/ b = <<>> /\ env'.outs = env.outs /\ env'.doubtful = env.doubtful
       \/ /\ env'.outs = env.outs + 1
          /\ env'.doubtful = env.doubtful \cup ToSet(file.buf)
          /\ \E k \in 0..Len(file.buf) : b = Rest(file.buf, k)

\* A step that leaves the FILE and the files alone, but may create one.
LEMMA KeepLoses ==
    ASSUME FileTypeOK, Types, content' \in {content, Append(content, <<>>)},
           UNCHANGED <<file, lost>>,
           env'.short = env.short, env'.restarts = env.restarts, env'.since = env.since,
           env'.outs = env.outs, env'.doubtful = env.doubtful
    PROVE  Losing(<<>>)
<1>1. /\ Len(content) \in Nat /\ content \in Seq(Seq(Nat)) /\ lost \in Seq(Nat)
      /\ <<>> \in Seq(Nat)
  BY Numbers, EmptySeq DEF Types
<1>2. /\ Len(content') \in {Len(content), Len(content) + 1}
      /\ \A i \in 1..Len(content) : content'[i] = content[i]
      /\ \A i \in 1..Len(content') : i > Len(content) => content'[i] = <<>>
  <2>1. CASE content' = content
    BY <1>1, <2>1
  <2>2. CASE content' = Append(content, <<>>)
    <3>1. /\ Len(content') = Len(content) + 1 /\ content'[Len(content) + 1] = <<>>
          /\ \A i \in 1..Len(content) : content'[i] = content[i]
      BY <1>1, <2>2, AppendProperties
    <3>2. \A i \in 1..(Len(content) + 1) : i > Len(content) => i = Len(content) + 1
      BY <1>1
    <3> QED
      BY <3>1, <3>2
  <2> QED
    BY <2>1, <2>2
<1>3. file.inode \in 0..Len(content)
  BY DEF FileTypeOK
<1>4. ASSUME NEW i \in 1..Len(content)
      PROVE  Written(i)' = Written(i) /\ Written(i) = Written(i)' \o <<>>
  <2>1. Written(i)' = Written(i)
    BY <1>2 DEF Written
  <2> QED
    BY <2>1, WrittenType, ConcatEmptySeq
<1>5. ASSUME NEW i \in 1..Len(content'), i > Len(content) PROVE Written(i)' = <<>>
  <2>1. i # file.inode
    BY <1>1, <1>3, <1>5
  <2> QED
    BY <1>2, <1>5, <2>1 DEF Written
<1>6. Len(content') >= Len(content)
  BY <1>1, <1>2
<1>7. LosesEnd(<<>>)
  BY <1>4, <1>5, <1>6 DEF LosesEnd
<1>8. lost' = lost \o <<>>
  BY <1>1, ConcatEmptySeq
<1> QED
  BY <1>1, <1>7, <1>8 DEF Losing

\* The buffer is written out, or the rest of it is dropped, and the FILE that is
\* open afterwards has an empty one.
LEMMA OutLoses ==
    ASSUME FileTypeOK, Types, WrapperInv, NEW k \in 0..Len(file.buf),
           LET c == Flushed(file.buf, k) IN
               /\ content' \in Seq(Seq(Nat)) /\ Len(content') >= Len(c)
               /\ \A i \in 1..Len(c) : content'[i] = c[i]
               /\ \A i \in 1..Len(content') : i > Len(c) => content'[i] = <<>>,
           lost' = lost \o Rest(file.buf, k), file'.buf = <<>>,
           LET e == Noted(file.buf, k) IN
               /\ env'.short = e.short /\ env'.restarts = e.restarts
               /\ env'.since = e.since /\ env'.outs = e.outs /\ env'.doubtful = e.doubtful
    PROVE  Losing(Rest(file.buf, k))
<1> DEFINE c == Flushed(file.buf, k)
           b == Rest(file.buf, k)
<1>1. /\ Len(c) = Len(content) /\ b \in Seq(Nat)
      /\ \A i \in 1..Len(content) :
            IF i = file.inode THEN Written(i) = c[i] \o b ELSE Written(i) = c[i]
  BY FlushedContent
<1>2. Len(content) \in Nat /\ file.buf \in Seq(Nat)
  BY Numbers DEF Types, Files
<1>3. /\ content' \in Seq(Seq(Nat)) /\ Len(content') >= Len(content) /\ Len(content') \in Nat
      /\ \A i \in 1..Len(content) : content'[i] = c[i]
      /\ \A i \in 1..Len(content') : i > Len(content) => content'[i] = <<>>
  BY <1>1, LenProperties
<1>4. ASSUME NEW i \in 1..Len(content') PROVE Written(i)' = content'[i]
  <2>1. content'[i] \in Seq(Nat)
    BY <1>3, ElementOfSeq
  <2>2. content'[i] \o <<>> = content'[i]
    BY <2>1, ConcatEmptySeq
  <2> QED
    BY <2>2 DEF Written
<1>5. file.inode = 0 => b = <<>>
  <2>1. file.inode = 0 => file.buf = <<>>
    BY DEF WrapperInv
  <2>2. file.buf = <<>> => k = Len(file.buf)
    BY <1>2
  <2>3. k = Len(file.buf) => b = <<>>
    BY <1>2, CutInTwo DEF Rest
  <2> QED
    BY <2>1, <2>2, <2>3
<1>6. \A i \in 1..Len(content) : i \in 1..Len(content')
  BY <1>2, <1>3
<1> HIDE DEF b, c
<1>7. LosesEnd(b)
  <2>1. ASSUME NEW i \in 1..Len(content)
        PROVE  IF i = file.inode THEN Written(i) = Written(i)' \o b ELSE Written(i)' = Written(i)
    <3>1. Written(i)' = c[i]
      BY <1>3, <1>4, <1>6
    <3>2. IF i = file.inode THEN Written(i) = c[i] \o b ELSE Written(i) = c[i]
      BY <1>1
    <3> QED
      BY <3>1, <3>2
  <2>2. \A i \in 1..Len(content') : i > Len(content) => Written(i)' = <<>>
    BY <1>3, <1>4
  <2> QED
    BY <1>3, <1>5, <2>1, <2>2 DEF LosesEnd
<1>8. /\ env'.short = env.short /\ env'.restarts = env.restarts /\ env'.since = env.since
      /\ \/ b = <<>> /\ env'.outs = env.outs /\ env'.doubtful = env.doubtful
         \/ env'.outs = env.outs + 1 /\ env'.doubtful = env.doubtful \cup ToSet(file.buf)
  BY <1>2, NotedFields DEF b
<1> QED
  BY <1>1, <1>7, <1>8 DEF Losing, b

\* So it is when another file is opened,
LEMMA OpenLoses ==
    ASSUME FileTypeOK, Types, WrapperInv, NEW k \in 0..Len(file.buf), NEW name \in 0..MaxName,
           OpenFile(name, Flushed(file.buf, k), Noted(file.buf, k)),
           lost' = lost \o Rest(file.buf, k)
    PROVE  Losing(Rest(file.buf, k))
<1> DEFINE c == Flushed(file.buf, k)
           e == Noted(file.buf, k)
<1>1. c \in Seq(Seq(Nat)) /\ Len(c) = Len(content) /\ e \in EnvType
  BY FlushedContent, NotedFields DEF Types, Files
<1>2. OpenFile(name, c, e)
  OBVIOUS
<1> HIDE DEF c, e
<1>3. /\ content' \in Seq(Seq(Nat)) /\ Len(content') >= Len(c)
      /\ \A i \in 1..Len(c) : content'[i] = c[i]
      /\ \A i \in 1..Len(content') : i > Len(c) => content'[i] = <<>>
      /\ file'.buf = <<>>
      /\ env'.short = e.short /\ env'.restarts = e.restarts
      /\ env'.since = e.since /\ env'.outs = e.outs /\ env'.doubtful = e.doubtful
  BY <1>1, <1>2, OpenedFile
<1> QED
  BY <1>3, OutLoses DEF c, e

\* and when it is not.
LEMMA FlushLoses ==
    ASSUME FileTypeOK, Types, WrapperInv, NEW k \in 0..Len(file.buf), WriteOut(file.buf, k),
           file'.buf = <<>>,
           LET e == Noted(file.buf, k) IN
               /\ env'.short = e.short /\ env'.restarts = e.restarts
               /\ env'.since = e.since /\ env'.outs = e.outs /\ env'.doubtful = e.doubtful
    PROVE  Losing(Rest(file.buf, k))
<1> DEFINE c == Flushed(file.buf, k)
<1>1. c \in Seq(Seq(Nat)) /\ Len(c) = Len(content) /\ Len(c) \in Nat
  BY FlushedContent, LenProperties
<1>2. content' = c /\ lost' = lost \o Rest(file.buf, k)
  BY DEF WriteOut
<1> HIDE DEF c
<1>3. /\ content' \in Seq(Seq(Nat)) /\ Len(content') >= Len(c)
      /\ \A i \in 1..Len(c) : content'[i] = c[i]
      /\ \A i \in 1..Len(content') : i > Len(c) => content'[i] = <<>>
  BY <1>1, <1>2
<1> QED
  BY <1>2, <1>3, OutLoses DEF c

\* fwrite adds to the file that is open, in its buffer or behind it.
LEMMA PutWrites ==
    ASSUME FileTypeOK, Types, file.inode # 0, NEW c \in Nat, NEW k \in Nat, NEW n \in Int,
           Put(c, k, n)
    PROVE  LET s == [j \in 1..k |-> c] IN
           /\ s \in Seq(Nat) /\ Len(s) = k
           /\ content' \in Seq(Seq(Nat)) /\ Len(content') = Len(content)
           /\ file' \in Files /\ file'.buf \in {<<>>, file.buf \o s}
           /\ file'.buf = <<>> \/ Len(file'.buf) <= FileBufSize
           /\ file'.written = file.written + n /\ lost' = lost
           /\ <<file'.exists, file'.valid, file'.name, file'.raw, file'.inode>> =
                 <<file.exists, file.valid, file.name, file.raw, file.inode>>
           /\ \A i \in 1..Len(content) :
                 /\ i # file.inode => Written(i)' = Written(i) /\ content'[i] = content[i]
                 /\ i = file.inode => Written(i)' = Written(i) \o s
<1> DEFINE s == [j \in 1..k |-> c]
           all == file.buf \o s
           full == Len(all) > FileBufSize
           d == [content EXCEPT ![file.inode] = @ \o all]
           L == Len(content)
<1>1. s \in Seq(Nat) /\ Len(s) = k
  BY FunctionIsSeq
<1>2. /\ file' = [file EXCEPT !.buf = IF full THEN <<>> ELSE all, !.written = @ + n]
      /\ content' = IF full THEN d ELSE content
      /\ lost' = lost
  BY DEF Put
<1>3. /\ L \in Nat /\ content \in Seq(Seq(Nat)) /\ DOMAIN content = 1..L
      /\ file.inode \in 1..L /\ file.buf \in Seq(Nat) /\ file.written \in Int
      /\ file \in Files
  <2>1. L \in Nat /\ content \in Seq(Seq(Nat)) /\ file \in Files
    BY Numbers DEF Types
  <2>2. DOMAIN content = 1..L
    BY <2>1, LenProperties
  <2>3. file.inode \in 1..L
    BY <2>1 DEF FileTypeOK
  <2> QED
    BY <2>1, <2>2, <2>3 DEF Files
<1> HIDE DEF s
<1>4. all \in Seq(Nat)
  BY <1>1, <1>3, ConcatProperties
<1>5. content[file.inode] \in Seq(Nat) /\ \A i \in 1..L : content[i] \in Seq(Nat)
  BY <1>3, Numbers
<1>6. \A x, y, z \in Seq(Nat) : (x \o y) \o z = x \o (y \o z)
  BY Monoid
<1>a. ~full => Len(all) <= FileBufSize
  BY <1>4, LenProperties, Constants
<1>7. content[file.inode] \o all = (content[file.inode] \o file.buf) \o s
  BY <1>1, <1>3, <1>5, <1>6
<1> HIDE DEF all, full
<1>8. /\ file' \in Files /\ file'.buf = (IF full THEN <<>> ELSE all)
      /\ file'.written = file.written + n
      /\ file'.exists = file.exists /\ file'.valid = file.valid
      /\ file'.name = file.name /\ file'.raw = file.raw /\ file'.inode = file.inode
  <2>1. (IF full THEN <<>> ELSE all) \in Seq(Nat) /\ file.written + n \in Int
    BY <1>3, <1>4, EmptySeq
  <2> QED
    BY <1>2, <1>3, <2>1 DEF Files
<1>9. CASE full
  <2>1. ASSUME NEW i \in 1..L
        PROVE d[i] = (IF i = file.inode THEN content[i] \o all ELSE content[i])
              /\ d[i] \in Seq(Nat)
    <3>1. d[i] = (IF i = file.inode THEN content[i] \o all ELSE content[i])
      BY <1>3
    <3>2. content[file.inode] \o all \in Seq(Nat)
      BY <1>4, <1>5, ConcatProperties
    <3> QED
      BY <1>5, <3>1, <3>2
  <2>2. DOMAIN d = 1..L /\ d = [i \in 1..L |-> d[i]]
    BY <1>3
  <2> HIDE DEF d
  <2>3. d \in [1..L -> Seq(Nat)]
    BY <2>1, <2>2
  <2>4. d \in Seq(Seq(Nat)) /\ Len(d) = L
    BY <1>3, <2>3, FunctionIsSeq
  <2>5. content' = d /\ file'.buf = <<>>
    BY <1>2, <1>8, <1>9
  <2>6. ASSUME NEW i \in 1..L, i # file.inode
        PROVE Written(i)' = Written(i) /\ content'[i] = content[i]
    BY <1>8, <2>1, <2>5, <2>6 DEF Written
  <2>7. ASSUME NEW i \in 1..L, i = file.inode PROVE Written(i)' = Written(i) \o s
    <3>1. d[i] \o <<>> = d[i]
      BY <2>1, ConcatEmptySeq
    <3>2. Written(i)' = d[i]
      BY <1>8, <2>5, <2>7, <3>1 DEF Written
    <3>3. Written(i) = content[i] \o file.buf
      BY <2>7 DEF Written
    <3> QED
      BY <1>7, <2>1, <2>7, <3>2, <3>3
  <2> QED
    BY <1>1, <1>2, <1>8, <2>4, <2>5, <2>6, <2>7 DEF s, L
<1>10. CASE ~full
  <2>1. content' = content /\ file'.buf = all
    BY <1>2, <1>8, <1>10
  <2>2. ASSUME NEW i \in 1..L, i # file.inode
        PROVE Written(i)' = Written(i) /\ content'[i] = content[i]
    BY <1>8, <2>1, <2>2 DEF Written
  <2>3. ASSUME NEW i \in 1..L, i = file.inode PROVE Written(i)' = Written(i) \o s
    BY <1>7, <1>8, <2>1, <2>3 DEF Written
  <2> QED
    BY <1>1, <1>2, <1>3, <1>8, <1>10, <1>a, <2>1, <2>2, <2>3 DEF s, L, all
<1> QED
  BY <1>9, <1>10

-----------------------------------------------------------------------------
(* The types, the wrapper and the names.                                   *)

\* What append may report.
LEMMA SizesGrow ==
    ASSUME Types, NEW w \in Int
    PROVE  /\ Append(sizes, w) \in Seq(Int) /\ Len(Append(sizes, w)) = Len(sizes) + 1
           /\ Len(sizes) \in Nat
           /\ \A d : d \subseteq 1..Len(sizes) => d \subseteq 1..(Len(sizes) + 1)
<1>1. Len(sizes) \in Nat
  BY LenProperties DEF Types
<1>2. Append(sizes, w) \in Seq(Int) /\ Len(Append(sizes, w)) = Len(sizes) + 1
  BY AppendProperties DEF Types
<1>3. 1..Len(sizes) \subseteq 1..(Len(sizes) + 1)
  BY <1>1
<1> QED
  BY <1>1, <1>2, <1>3

\* The FILE that open gives is the only one under its name.
LEMMA OpenBase ==
    ASSUME BaseInv, NEW c \in Seq(Seq(Nat)), Len(c) = Len(content),
           NEW e \in EnvType, NEW name \in 0..MaxName, OpenFile(name, c, e),
           rollIndex' \in Nat, name < rollIndex', fault' # "killed"
    PROVE  WrapperInv' /\ DirInv'
<1>1. /\ dir \in [0..MaxName -> 0..Len(content)] /\ Len(content) \in Nat
      /\ \A m, n \in 0..MaxName : m # n /\ dir[m] # 0 => dir[m] # dir[n]
  BY Numbers DEF BaseInv, FileTypeOK, DirInv
<1>2. /\ dir' \in [0..MaxName -> 0..Len(content')]
      /\ \A m \in 0..MaxName : m # name => dir'[m] = dir[m]
      /\ dir'[name] = file'.inode /\ file'.inode \in 1..Len(content')
      /\ dir[name] # 0 => file'.inode = dir[name]
      /\ dir[name] = 0 => file'.inode > Len(content)
      /\ file'.exists /\ file'.valid /\ file'.name = name /\ file'.raw # 0
  BY OpenedFile DEF BaseInv
<1>3. \A m \in 0..MaxName : m # name => dir'[m] # dir'[name]
  <2> SUFFICES ASSUME NEW m \in 0..MaxName, m # name PROVE dir[m] # file'.inode
    BY <1>2
  <2>1. dir[m] \in 0..Len(content)
    BY <1>1
  <2>2. CASE dir[name] # 0
    BY <1>1, <1>2, <2>2
  <2>3. CASE dir[name] = 0
    BY <1>1, <1>2, <2>1, <2>3
  <2> QED
    BY <2>2, <2>3
<1>4. \A m, n \in 0..MaxName : m # n /\ dir'[m] # 0 => dir'[m] # dir'[n]
  BY <1>1, <1>2, <1>3, SMTT(20)
<1>5. \A m \in 0..MaxName : m >= rollIndex' => dir'[m] # file'.inode
  BY <1>2, <1>3
<1>6. file'.inode # 0
  BY <1>2
<1>7. DirInv'
  BY <1>2, <1>4, <1>5 DEF DirInv
<1>8. WrapperInv'
  BY <1>2, <1>6 DEF WrapperInv
<1> QED
  BY <1>7, <1>8

\* Writing to the open FILE or to none leaves the directory in order.
LEMMA SameDir ==
    ASSUME FileTypeOK, Types, DirInv, UNCHANGED <<dir, rollIndex>>,
           file'.valid = file.valid, file'.name = file.name, file'.inode = file.inode,
           Len(content') = Len(content),
           \A i \in 1..Len(content) : i # file.inode => content'[i] = content[i]
    PROVE  DirInv'
<1>1. ASSUME file.valid, dir[file.name] \notin {0, file.inode}
      PROVE  content'[dir[file.name]] = <<>>
  <2>1. file.name \in 0..MaxName /\ content[dir[file.name]] = <<>>
    BY <1>1 DEF DirInv
  <2>2. dir[file.name] \in 1..Len(content)
    BY <1>1, <2>1, Numbers DEF FileTypeOK
  <2> QED
    BY <1>1, <2>1, <2>2
<1> QED
  BY <1>1 DEF DirInv

\* The buffer with characters of the message that is being appended.
LEMMA BufferedType ==
    ASSUME FileTypeOK, Types, NEW x \in Nat
    PROVE  Buffered(x) \in Seq(Nat)
<1>1. Len(sizes) + 1 \in Nat /\ file.buf \in Seq(Nat)
  BY Numbers DEF Types, Files
<1>2. [i \in 1..x |-> Len(sizes) + 1] \in Seq(Nat)
  BY <1>1, FunctionIsSeq
<1> QED
  BY <1>1, <1>2, ConcatProperties DEF Buffered

\* append keeps the file, opens its name again when that is of no file or of
\* another, or loses it.
LEMMA BeginAppendBase ==
    ASSUME BaseInv, NEW len \in 1..MaxLen, NEW k \in 0..Len(file.buf), BeginAppend(len, k)
    PROVE  BaseInv'
<1>1. /\ UNCHANGED <<rollIndex, inFlush, durable>> /\ fault = "none"
      /\ appender.pc = "idle"
  BY DEF BeginAppend, Alive
<1>2. FileTypeOK /\ Types /\ WrapperInv /\ DirInv
  BY DEF BaseInv
<1>3. /\ [Idle EXCEPT !.pc = "roll"] \in AppenderType
      /\ [Idle EXCEPT !.pc = "roll"].pc = "roll"
      /\ [pc |-> "write", len |-> len, remain |-> len] \in AppenderType
  BY Constants DEF AppenderType, Idle
<1>4. /\ Append(sizes, 0) \in Seq(Int) /\ Len(Append(sizes, 0)) = Len(sizes) + 1
      /\ Len(sizes) \in Nat
      /\ durable \subseteq 1..(Len(sizes) + 1) /\ inFlush.upto \in Nat
      /\ inFlush.upto <= Len(sizes) /\ inFlush.upto <= Len(sizes) + 1
  <2>1. /\ Append(sizes, 0) \in Seq(Int) /\ Len(Append(sizes, 0)) = Len(sizes) + 1
        /\ Len(sizes) \in Nat /\ durable \subseteq 1..(Len(sizes) + 1)
    BY <1>2, SizesGrow DEF FileTypeOK
  <2>2. inFlush.upto \in Nat /\ inFlush.upto <= Len(sizes)
    BY <1>2 DEF Types, FlusherType
  <2> QED
    BY <2>1, <2>2
<1> DEFINE c == Flushed(file.buf, k)
           b == Rest(file.buf, k)
           e == Noted(file.buf, k)
<1>5. /\ c \in Seq(Seq(Nat)) /\ Len(c) = Len(content) /\ e \in EnvType
      /\ rollIndex \in Nat /\ lost \o b \in Seq(Nat)
  <2>1. c \in Seq(Seq(Nat)) /\ Len(c) = Len(content) /\ b \in Seq(Nat)
    BY <1>2, FlushedContent
  <2>2. e \in EnvType
    BY <1>2, NotedFields DEF Types, Files
  <2>3. lost \o b \in Seq(Nat)
    BY <1>2, <2>1, ConcatProperties DEF Types
  <2> QED
    BY <1>2, <2>1, <2>2, <2>3, Constants DEF FileTypeOK
<1> HIDE DEF c, b, e
<1>6. CASE fault' = "null" /\ UNCHANGED <<dir, content, file, appender, sizes, lost, env>>
  BY <1>1, <1>2, <1>6 DEF BaseInv, FileTypeOK, Types, WrapperInv, DirInv
<1>7. CASE /\ file.exists /\ ~file.valid
           /\ appender' = [Idle EXCEPT !.pc = "roll"]
           /\ sizes' = Append(sizes, 0)
           /\ UNCHANGED <<dir, content, file, fault, lost, env>>
  <2>1. FileTypeOK'
    BY <1>1, <1>2, <1>3, <1>4, <1>7 DEF FileTypeOK
  <2>3. Types'
    <3>1. /\ sizes' \in Seq(Int) /\ inFlush.upto <= Len(sizes')
          /\ appender' \in AppenderType
      BY <1>3, <1>4, <1>7
    <3> QED
      BY <1>1, <1>2, <1>7, <3>1 DEF Types
  <2>2. WrapperInv' /\ DirInv'
    BY <1>1, <1>2, <1>3, <1>7 DEF WrapperInv, DirInv
  <2> QED
    BY <2>1, <2>2, <2>3 DEF BaseInv
<1>8. CASE /\ file.valid
           /\ appender' = [pc |-> "write", len |-> len, remain |-> len]
           /\ UNCHANGED <<dir, content, file, fault, sizes, lost, env>>
  <2>1. FileTypeOK' /\ Types'
    BY <1>1, <1>2, <1>3, <1>8 DEF FileTypeOK, Types, AppenderType
  <2>2. WrapperInv' /\ DirInv'
    BY <1>1, <1>2, <1>8 DEF WrapperInv, DirInv
  <2> QED
    BY <2>1, <2>2 DEF BaseInv
<1>9. CASE /\ file.valid
           /\ lost' = lost \o b
           /\ OpenFile(file.name, c, e)
           /\ appender' = [pc |-> "write", len |-> len, remain |-> len]
           /\ UNCHANGED <<fault, sizes>>
  <2>1. file.name \in 0..MaxName /\ file.name < rollIndex'
    BY <1>1, <1>2, <1>9 DEF DirInv
  <2>2. WrapperInv' /\ DirInv'
    BY <1>1, <1>5, <1>9, <2>1, OpenBase
  <2>3. /\ content' \in Seq(Seq(Nat)) /\ dir' \in [0..MaxName -> 0..Len(content')]
        /\ file'.inode \in 1..Len(content') /\ file' \in Files /\ env' \in EnvType
    BY <1>2, <1>5, <1>9, <2>1, OpenedFile
  <2>4. FileTypeOK'
    BY <1>1, <1>2, <1>9, <2>3 DEF FileTypeOK
  <2>5. Types'
    <3>1. appender' \in AppenderType /\ lost' \in Seq(Nat)
      BY <1>3, <1>5, <1>9
    <3> QED
      BY <1>1, <1>2, <1>9, <2>3, <3>1 DEF Types
  <2> QED
    BY <2>2, <2>4, <2>5 DEF BaseInv
<1>10. CASE /\ file.valid
            /\ content' = c /\ lost' = lost \o b
            /\ file' = [file EXCEPT !.valid = FALSE, !.raw = 0, !.inode = 0, !.buf = <<>>]
            /\ appender' = [Idle EXCEPT !.pc = "roll"]
            /\ sizes' = Append(sizes, 0)
            /\ env' = [e EXCEPT !.failures = @ + 1]
            /\ UNCHANGED <<dir, fault>>
  <2>1. file' \in Files /\ ~file'.valid /\ file'.raw = 0 /\ file'.inode = 0
        /\ file'.buf = <<>>
    BY <1>2, <1>10, EmptySeq DEF Types, Files
  <2>2. env' \in EnvType
    <3>1. e.failures + 1 \in Nat
      BY <1>5 DEF EnvType
    <3> QED
      BY <1>5, <1>10, <3>1 DEF EnvType
  <2>3. Len(content) \in Nat /\ Len(content') = Len(content)
    BY <1>2, <1>5, <1>10, Numbers
  <2>4. FileTypeOK'
    BY <1>1, <1>2, <1>3, <1>4, <1>10, <2>1, <2>3 DEF FileTypeOK
  <2>5. Types'
    <3>1. /\ sizes' \in Seq(Int) /\ inFlush.upto <= Len(sizes')
          /\ appender' \in AppenderType /\ content' \in Seq(Seq(Nat)) /\ lost' \in Seq(Nat)
      BY <1>3, <1>4, <1>5, <1>10
    <3> QED
      BY <1>1, <1>2, <2>1, <2>2, <3>1 DEF Types
  <2>6. WrapperInv' /\ DirInv'
    BY <1>1, <1>2, <1>3, <1>10, <2>1 DEF WrapperInv, DirInv
  <2> QED
    BY <2>4, <2>5, <2>6 DEF BaseInv
<1> QED
  BY <1>6, <1>7, <1>8, <1>9, <1>10 DEF BeginAppend, WriteOut, b, c, e

\* A round of append adds to the buffer or to the file that is open.
LEMMA WriteRoundBase ==
    ASSUME BaseInv, NEW x \in 0..appender.len, NEW k \in 0..Len(Buffered(x)), WriteRound(x, k)
    PROVE  BaseInv'
<1> DEFINE remain == appender.remain - x
           done == x = 0 \/ remain = 0
           writen == appender.len - remain
           w == IF done THEN writen ELSE 0
<1>1. FileTypeOK /\ Types /\ WrapperInv /\ DirInv
  BY DEF BaseInv
<1>2. /\ appender \in AppenderType /\ env \in EnvType /\ Len(sizes) \in Nat
      /\ file.valid /\ file.inode # 0 /\ fault = "none" /\ Len(content) \in Nat
  BY <1>1, Numbers DEF WriteRound, Alive, Types, WrapperInv
<1>3. x \in Nat /\ remain \in Int /\ writen \in Int /\ w \in Int /\ Len(sizes) + 1 \in Nat
  BY <1>2 DEF AppenderType
<1>4. \/ Put(Len(sizes) + 1, x, w)
      \/ /\ WriteOut(Buffered(x), k)
         /\ file' = [file EXCEPT !.buf = <<>>, !.written = @ + w]
  BY DEF WriteRound
<1>5. \/ /\ appender' = [Idle EXCEPT !.pc = "roll"] /\ sizes' = Append(sizes, writen)
      \/ /\ appender' = [appender EXCEPT !.remain = remain] /\ sizes' = sizes
  BY DEF WriteRound
<1>6. /\ env' = [Noted(Buffered(x), k) EXCEPT !.short = IF x < appender.len THEN @ + 1 ELSE @]
      /\ UNCHANGED <<dir, rollIndex, inFlush, fault, durable>>
  BY DEF WriteRound
<1> HIDE DEF remain, done, writen, w
<1>a. Buffered(x) \in Seq(Nat)
  BY <1>1, <1>3, BufferedType
<1>7. /\ content' \in Seq(Seq(Nat)) /\ Len(content') = Len(content) /\ file' \in Files
      /\ <<file'.exists, file'.valid, file'.name, file'.raw, file'.inode>> =
            <<file.exists, file.valid, file.name, file.raw, file.inode>>
      /\ \A i \in 1..Len(content) : i # file.inode => content'[i] = content[i]
      /\ lost' \in Seq(Nat)
  <2>1. CASE Put(Len(sizes) + 1, x, w)
    BY <1>1, <1>2, <1>3, <2>1, PutWrites DEF Types
  <2>2. CASE /\ WriteOut(Buffered(x), k)
             /\ file' = [file EXCEPT !.buf = <<>>, !.written = @ + w]
    <3>1. /\ Flushed(Buffered(x), k) \in Seq(Seq(Nat))
          /\ Len(Flushed(Buffered(x), k)) = Len(content)
          /\ Rest(Buffered(x), k) \in Seq(Nat)
          /\ \A i \in 1..Len(content) : i # file.inode => Flushed(Buffered(x), k)[i] = content[i]
      BY <1>1, <1>a, FlushedType
    <3>2. file.written + w \in Int /\ <<>> \in Seq(Nat) /\ file \in Files
      BY <1>1, <1>3, EmptySeq DEF Types, Files
    <3>3. file' \in Files
          /\ <<file'.exists, file'.valid, file'.name, file'.raw, file'.inode>> =
               <<file.exists, file.valid, file.name, file.raw, file.inode>>
      BY <2>2, <3>2 DEF Files
    <3>4. lost' \in Seq(Nat)
      <4>1. lost \in Seq(Nat)
        BY <1>1 DEF Types
      <4>2. lost' = lost \o Rest(Buffered(x), k)
        BY <2>2 DEF WriteOut
      <4> QED
        BY <3>1, <4>1, <4>2, ConcatProperties
    <3> QED
      BY <2>2, <3>1, <3>3, <3>4 DEF WriteOut
  <2> QED
    BY <1>4, <2>1, <2>2
<1>8. env' \in EnvType
  <2> DEFINE e == Noted(Buffered(x), k)
  <2>1. e \in EnvType
    BY <1>1, <1>a, NotedFields
  <2> HIDE DEF e
  <2>2. (IF x < appender.len THEN e.short + 1 ELSE e.short) \in Nat
    BY <2>1 DEF EnvType
  <2> QED
    BY <1>6, <2>1, <2>2 DEF EnvType, e
<1>9. /\ appender' \in AppenderType /\ sizes' \in Seq(Int) /\ Len(sizes') >= Len(sizes)
      /\ durable \subseteq 1..Len(sizes')
  <2>1. CASE /\ appender' = [Idle EXCEPT !.pc = "roll"] /\ sizes' = Append(sizes, writen)
    BY <1>1, <1>3, <2>1, SizesGrow DEF AppenderType, Idle, FileTypeOK
  <2>2. CASE /\ appender' = [appender EXCEPT !.remain = remain] /\ sizes' = sizes
    <3>1. sizes \in Seq(Int) /\ durable \subseteq 1..Len(sizes)
      BY <1>1 DEF FileTypeOK, Types
    <3>2. [appender EXCEPT !.remain = remain] \in AppenderType
      BY <1>2, <1>3 DEF AppenderType
    <3> QED
      BY <1>2, <2>2, <3>1, <3>2
  <2> QED
    BY <1>5, <2>1, <2>2
<1>10. Len(sizes') \in Nat
  BY <1>9, LenProperties
<1>11. FileTypeOK'
  BY <1>1, <1>6, <1>7, <1>9 DEF FileTypeOK, AppenderType
<1>12. Types'
  <2>1. inFlush.upto \in Nat /\ inFlush.upto <= Len(sizes')
    <3>1. inFlush.upto \in Nat /\ inFlush.upto <= Len(sizes)
      BY <1>1 DEF Types, FlusherType
    <3>2. Len(sizes) \in Nat /\ Len(sizes') >= Len(sizes)
      BY <1>2, <1>9
    <3> QED
      BY <1>10, <3>1, <3>2
  <2> QED
    BY <1>1, <1>6, <1>7, <1>8, <1>9, <2>1 DEF Types
<1>13. /\ file'.exists = file.exists /\ file'.valid = file.valid /\ file'.name = file.name
       /\ file'.raw = file.raw /\ file'.inode = file.inode
  BY <1>7
<1>14. WrapperInv'
  BY <1>1, <1>2, <1>6, <1>13 DEF WrapperInv
<1>15. DirInv'
  BY <1>1, <1>6, <1>7, <1>13, SameDir
<1> QED
  BY <1>11, <1>12, <1>14, <1>15 DEF BaseInv

\* roll closes the file and opens the next name.
LEMMA RollBase ==
    ASSUME BaseInv, NEW k \in 0..Len(file.buf), Roll(k)
    PROVE  BaseInv'
<1> DEFINE c == Flushed(file.buf, k)
           e == Noted(file.buf, k)
<1>1. FileTypeOK /\ Types /\ WrapperInv /\ DirInv
  BY DEF BaseInv
<1>2. /\ rollIndex \in 0..MaxName /\ rollIndex' = rollIndex + 1 /\ fault' # "killed"
      /\ OpenFile(rollIndex, c, e) /\ appender' = Idle
      /\ UNCHANGED <<inFlush, sizes, durable>> /\ lost' = lost \o Rest(file.buf, k)
      /\ fault' \in {"none", "killed", "null", "closed", "fclose"}
  BY <1>1, Constants DEF Roll, Alive, FileTypeOK
<1>3. rollIndex' \in 0..(MaxName + 1) /\ rollIndex < rollIndex' /\ rollIndex' \in Nat
  BY <1>2, Constants
<1>4. /\ c \in Seq(Seq(Nat)) /\ Len(c) = Len(content) /\ e \in EnvType
      /\ lost' \in Seq(Nat)
  <2>1. c \in Seq(Seq(Nat)) /\ Len(c) = Len(content) /\ Rest(file.buf, k) \in Seq(Nat)
    BY <1>1, FlushedContent
  <2>2. e \in EnvType
    BY <1>1, NotedFields DEF Types, Files
  <2>3. lost' \in Seq(Nat)
    BY <1>1, <1>2, <2>1, ConcatProperties DEF Types
  <2> QED
    BY <2>1, <2>2, <2>3
<1> HIDE DEF c, e
<1>5. WrapperInv' /\ DirInv'
  BY <1>2, <1>3, <1>4, OpenBase
<1>6. /\ content' \in Seq(Seq(Nat)) /\ dir' \in [0..MaxName -> 0..Len(content')]
      /\ file'.inode \in 1..Len(content') /\ file' \in Files /\ env' \in EnvType
  BY <1>1, <1>2, <1>4, OpenedFile
<1>7. FileTypeOK'
  BY <1>1, <1>2, <1>3, <1>6 DEF FileTypeOK, Idle
<1>8. Types'
  BY <1>1, <1>2, <1>4, <1>6 DEF Types, Idle, AppenderType
<1> QED
  BY <1>5, <1>7, <1>8 DEF BaseInv

\* fflush moves the buffer to the file.
LEMMA EndFlushBase ==
    ASSUME BaseInv, NEW k \in 0..Len(file.buf), EndFlush(k)
    PROVE  BaseInv'
<1>1. FileTypeOK /\ Types /\ WrapperInv /\ DirInv
  BY DEF BaseInv
<1>2. /\ inFlush' = [inFlush EXCEPT !.pc = "idle"] /\ fault = "none"
      /\ UNCHANGED <<dir, rollIndex, appender, sizes>>
  BY DEF EndFlush, Alive
<1>3. /\ inFlush' \in FlusherType /\ inFlush'.upto = inFlush.upto
      /\ inFlush.upto \in Nat /\ inFlush.upto <= Len(sizes) /\ Len(sizes) \in Nat
      /\ env.since \in Nat
  BY <1>1, <1>2, Numbers DEF Types, FlusherType, EnvType
<1>4. /\ content' \in Seq(Seq(Nat)) /\ Len(content') = Len(content) /\ file' \in Files
      /\ file'.exists = file.exists /\ file'.valid = file.valid /\ file'.name = file.name
      /\ file'.raw = file.raw /\ file'.inode = file.inode /\ file'.written = file.written
      /\ file'.buf \in {<<>>, file.buf} /\ lost' \in Seq(Nat) /\ env' \in EnvType
      /\ \A i \in 1..Len(content) : i # file.inode => content'[i] = content[i]
  <2>1. CASE content' = content /\ file' = file /\ lost' = lost /\ env' = env
    BY <1>1, <2>1 DEF Types
  <2>2. CASE /\ WriteOut(file.buf, k) /\ file' = [file EXCEPT !.buf = <<>>]
             /\ env' = Noted(file.buf, k)
    <3>1. file.buf \in Seq(Nat) /\ lost \in Seq(Nat) /\ file \in Files
      BY <1>1 DEF Types, Files
    <3>2. /\ content' \in Seq(Seq(Nat)) /\ Len(content') = Len(content)
          /\ \A i \in 1..Len(content) : i # file.inode => content'[i] = content[i]
          /\ Rest(file.buf, k) \in Seq(Nat)
      BY <1>1, <2>2, <3>1, FlushedType DEF WriteOut
    <3>3. lost' \in Seq(Nat)
      BY <2>2, <3>1, <3>2, ConcatProperties DEF WriteOut
    <3>4. env' \in EnvType
      BY <1>1, <2>2, <3>1, NotedFields
    <3>5. /\ file' \in Files /\ file'.buf = <<>>
          /\ file'.exists = file.exists /\ file'.valid = file.valid /\ file'.name = file.name
          /\ file'.raw = file.raw /\ file'.inode = file.inode /\ file'.written = file.written
      BY <2>2, <3>1, EmptySeq DEF Files
    <3> QED
      BY <3>2, <3>3, <3>4, <3>5
  <2> QED
    BY <2>1, <2>2 DEF EndFlush
<1>5. durable' \subseteq 1..Len(sizes) /\ fault' \in {"none", "closed"}
  <2>1. (env.since + 1)..inFlush.upto \subseteq 1..Len(sizes)
    BY <1>3
  <2>2. durable \subseteq 1..Len(sizes)
    BY <1>1 DEF FileTypeOK
  <2> QED
    BY <1>2, <2>1, <2>2 DEF EndFlush
<1>6. FileTypeOK'
  BY <1>1, <1>2, <1>3, <1>4, <1>5 DEF FileTypeOK, FlusherType
<1>7. Types'
  BY <1>1, <1>2, <1>3, <1>4 DEF Types
<1>8. WrapperInv'
  BY <1>1, <1>2, <1>4, <1>5 DEF WrapperInv
<1>9. DirInv'
  BY <1>1, <1>2, <1>4, SameDir
<1> QED
  BY <1>6, <1>7, <1>8, <1>9 DEF BaseInv

\* A file that is open may lose its name,
LEMMA UnlinkBase ==
    ASSUME BaseInv, NEW name \in 0..MaxName, Unlink(name)
    PROVE  BaseInv'
<1>1. FileTypeOK /\ Types /\ WrapperInv /\ DirInv
  BY DEF BaseInv
<1>2. /\ dir' = [dir EXCEPT ![name] = 0] /\ env' = [env EXCEPT !.unlinks = @ + 1]
      /\ UNCHANGED <<content, file, rollIndex, appender, inFlush, fault, sizes, lost, durable>>
  BY DEF Unlink
<1>3. env' \in EnvType
  <2>1. env \in EnvType /\ env.unlinks + 1 \in Nat
    BY <1>1 DEF Types, EnvType
  <2> QED
    BY <1>2, <2>1 DEF EnvType
<1>4. /\ dir \in [0..MaxName -> 0..Len(content)] /\ Len(content) \in Nat
      /\ dir' \in [0..MaxName -> 0..Len(content)]
      /\ \A m \in 0..MaxName : dir'[m] = IF m = name THEN 0 ELSE dir[m]
  BY <1>1, <1>2, Numbers DEF FileTypeOK
<1>5. FileTypeOK' /\ Types'
  BY <1>1, <1>2, <1>3, <1>4 DEF FileTypeOK, Types
<1>6. WrapperInv' /\ DirInv'
  BY <1>1, <1>2, <1>4 DEF WrapperInv, DirInv
<1> QED
  BY <1>5, <1>6 DEF BaseInv

\* or lose it to a file that is new and empty.
LEMMA ReplaceBase ==
    ASSUME BaseInv, NEW name \in 0..MaxName, Replace(name)
    PROVE  BaseInv'
<1> DEFINE n == Len(content) + 1
<1>1. FileTypeOK /\ Types /\ WrapperInv /\ DirInv
  BY DEF BaseInv
<1>2. /\ content' = Append(content, <<>>) /\ dir' = [dir EXCEPT ![name] = n]
      /\ env' = [env EXCEPT !.unlinks = @ + 1]
      /\ UNCHANGED <<file, rollIndex, appender, inFlush, fault, sizes, lost, durable>>
  BY DEF Replace
<1>3. env' \in EnvType
  <2>1. env \in EnvType /\ env.unlinks + 1 \in Nat
    BY <1>1 DEF Types, EnvType
  <2> QED
    BY <1>2, <2>1 DEF EnvType
<1>4. /\ content' \in Seq(Seq(Nat)) /\ Len(content') = n /\ content'[n] = <<>>
      /\ \A i \in 1..Len(content) : content'[i] = content[i]
  <2>1. content \in Seq(Seq(Nat)) /\ <<>> \in Seq(Nat)
    BY <1>1, EmptySeq DEF Types
  <2> QED
    BY <1>2, <2>1, AppendProperties
<1>5. /\ dir \in [0..MaxName -> 0..Len(content)] /\ Len(content) \in Nat
      /\ dir' \in [0..MaxName -> 0..n]
      /\ \A m \in 0..MaxName : dir'[m] = IF m = name THEN n ELSE dir[m]
  <2>1. dir \in [0..MaxName -> 0..Len(content)] /\ Len(content) \in Nat
    BY <1>1, Numbers DEF FileTypeOK
  <2>2. dir \in [0..MaxName -> 0..n] /\ n \in 0..n
    BY <2>1
  <2> HIDE DEF n
  <2> QED
    BY <1>2, <2>1, <2>2
<1>6. file.inode \in 0..n /\ file.inode # n
  BY <1>1, <1>5 DEF FileTypeOK
<1>7. \A m \in 0..MaxName : dir[m] # n /\ (dir[m] # 0 => dir[m] \in 1..Len(content))
  BY <1>5
<1> HIDE DEF n
<1>8. FileTypeOK'
  BY <1>1, <1>2, <1>4, <1>5, <1>6 DEF FileTypeOK
<1>9. Types'
  BY <1>1, <1>2, <1>3, <1>4 DEF Types
<1>10. WrapperInv'
  BY <1>1, <1>2 DEF WrapperInv
<1>11. DirInv'
  <2>1. \A m, j \in 0..MaxName : m # j /\ dir'[m] # 0 => dir'[m] # dir'[j]
    BY <1>1, <1>5, <1>7 DEF DirInv
  <2>2. ASSUME file.valid, dir'[file.name] \notin {0, file.inode}
        PROVE  content'[dir'[file.name]] = <<>>
    <3>1. file.name \in 0..MaxName
      BY <1>1, <2>2 DEF DirInv
    <3>2. CASE file.name = name
      BY <1>4, <1>5, <3>1, <3>2
    <3>3. CASE file.name # name
      <4>1. dir'[file.name] = dir[file.name]
        BY <1>5, <3>1, <3>3
      <4>2. content[dir[file.name]] = <<>> /\ dir[file.name] \in 1..Len(content)
        BY <1>1, <1>7, <2>2, <3>1, <4>1 DEF DirInv
      <4> QED
        BY <1>4, <4>1, <4>2
    <3> QED
      BY <3>2, <3>3
  <2>3. file.inode # 0 => \A m \in 0..MaxName : m >= rollIndex => dir'[m] # file.inode
    BY <1>1, <1>5, <1>6 DEF DirInv
  <2>4. file.valid => file.name \in 0..MaxName /\ file.name < rollIndex
    BY <1>1 DEF DirInv
  <2> QED
    BY <1>2, <2>1, <2>2, <2>3, <2>4 DEF DirInv
<1> QED
  BY <1>8, <1>9, <1>10, <1>11 DEF BaseInv

\* A killed process has no FILE; its buffer counts as lost.
LEMMA KillBase ==
    ASSUME BaseInv, Kill
    PROVE  BaseInv'
<1>1. FileTypeOK /\ Types /\ WrapperInv /\ DirInv
  BY DEF BaseInv
<1>2. /\ lost' = lost \o file.buf /\ file' = NoFile /\ appender' = Idle
      /\ inFlush' = [inFlush EXCEPT !.pc = "idle"] /\ fault' = "killed"
      /\ env' = [env EXCEPT !.restarts = @ + 1, !.carried = env.rollFails,
                            !.since = Len(sizes')]
      /\ UNCHANGED <<dir, content, rollIndex, durable>>
  BY DEF Kill
<1>3. lost' \in Seq(Nat)
  <2>1. lost \in Seq(Nat) /\ file.buf \in Seq(Nat)
    BY <1>1 DEF Types, Files
  <2> QED
    BY <1>2, <2>1, ConcatProperties
<1>4. /\ sizes' \in Seq(Int) /\ Len(sizes') \in Nat /\ inFlush.upto <= Len(sizes')
      /\ durable \subseteq 1..Len(sizes')
  <2>1. /\ appender.len - appender.remain \in Int /\ sizes \in Seq(Int)
        /\ inFlush.upto \in Nat /\ inFlush.upto <= Len(sizes)
        /\ durable \subseteq 1..Len(sizes) /\ Len(sizes) \in Nat
    <3>1. appender.len \in Nat /\ appender.remain \in Int
      BY <1>1 DEF Types, AppenderType
    <3>2. /\ sizes \in Seq(Int) /\ inFlush.upto \in Nat /\ inFlush.upto <= Len(sizes)
          /\ durable \subseteq 1..Len(sizes) /\ Len(sizes) \in Nat
      BY <1>1, Numbers DEF Types, FileTypeOK, FlusherType
    <3> QED
      BY <3>1, <3>2
  <2>2. CASE sizes' = Append(sizes, appender.len - appender.remain)
    BY <1>1, <2>1, <2>2, SizesGrow
  <2>3. CASE sizes' = sizes
    BY <2>1, <2>3
  <2> QED
    BY <2>2, <2>3 DEF Kill
<1>5. env' \in EnvType
  <2>1. env \in EnvType /\ env.restarts + 1 \in Nat
    BY <1>1 DEF Types, EnvType
  <2> QED
    BY <1>2, <1>4, <2>1 DEF EnvType
<1>6. file' \in Files /\ file'.inode = 0 /\ file'.inode \in 0..Len(content)
  BY <1>1, <1>2, Numbers, EmptySeq DEF NoFile, Files
<1>7. /\ inFlush' \in FlusherType /\ inFlush'.upto = inFlush.upto
  BY <1>1, <1>2 DEF Types, FlusherType
<1>8. FileTypeOK'
  BY <1>1, <1>2, <1>4, <1>6, <1>7 DEF FileTypeOK, Idle, FlusherType
<1>9. Types'
  BY <1>1, <1>2, <1>3, <1>4, <1>5, <1>6, <1>7 DEF Types, Idle, AppenderType
<1>10. WrapperInv' /\ DirInv'
  BY <1>1, <1>2 DEF WrapperInv, DirInv, NoFile, Idle
<1> QED
  BY <1>8, <1>9, <1>10 DEF BaseInv

\* A new process opens the first name, and the file that it finds there.
LEMMA RestartBase ==
    ASSUME BaseInv, Restart
    PROVE  BaseInv'
<1>1. FileTypeOK /\ Types /\ WrapperInv /\ DirInv
  BY DEF BaseInv
<1>2. /\ fault = "killed" /\ fault' = "none"
      /\ UNCHANGED <<appender, inFlush, sizes, lost, durable>>
  BY DEF Restart
<1>3. content \in Seq(Seq(Nat)) /\ 0 \in 0..MaxName /\ 1 \in 0..(MaxName + 1)
      /\ 0 \in 0..(MaxName + 1)
  BY <1>1, Constants DEF Types
<1>4. CASE OpenFile(0, content, env) /\ rollIndex' = 1
  <2>a. env \in EnvType
    BY <1>1 DEF Types
  <2>1. WrapperInv' /\ DirInv'
    BY <1>2, <1>3, <1>4, <2>a, OpenBase
  <2>2. /\ content' \in Seq(Seq(Nat)) /\ dir' \in [0..MaxName -> 0..Len(content')]
        /\ file'.inode \in 1..Len(content') /\ file' \in Files /\ env' \in EnvType
    BY <1>1, <1>3, <1>4, <2>a, OpenedFile
  <2>3. FileTypeOK'
    BY <1>1, <1>2, <1>3, <1>4, <2>2 DEF FileTypeOK
  <2>4. Types'
    BY <1>1, <1>2, <2>2 DEF Types
  <2> QED
    BY <2>1, <2>3, <2>4 DEF BaseInv
<1>5. CASE /\ rollIndex' = 0
           /\ env' = [env EXCEPT !.failures = @ + 1]
           /\ UNCHANGED <<dir, content, file>>
  <2>1. env' \in EnvType
    <3>1. env \in EnvType /\ env.failures + 1 \in Nat
      BY <1>1 DEF Types, EnvType
    <3> QED
      BY <1>5, <3>1 DEF EnvType
  <2>2. FileTypeOK' /\ Types'
    BY <1>1, <1>2, <1>3, <1>5, <2>1 DEF FileTypeOK, Types, EnvType
  <2>3. WrapperInv' /\ DirInv'
    BY <1>1, <1>2, <1>5 DEF WrapperInv, DirInv
  <2> QED
    BY <2>2, <2>3 DEF BaseInv
<1> QED
  BY <1>4, <1>5 DEF Restart

\* KeepFile, RollFails and BeginFlush change neither the directory nor the files.
LEMMA QuietBase ==
    ASSUME BaseInv, KeepFile \/ RollFails \/ BeginFlush
    PROVE  BaseInv'
<1>1. FileTypeOK /\ Types /\ WrapperInv /\ DirInv /\ env \in EnvType
  BY DEF BaseInv, Types, EnvType
<1>2. UNCHANGED <<dir, content, file, rollIndex, sizes, lost, durable>> /\ fault = "none"
  BY DEF KeepFile, RollFails, BeginFlush, Alive
<1>3. appender' \in AppenderType /\ appender'.pc \in {"idle", appender.pc}
  <2>1. appender \in AppenderType /\ Idle \in AppenderType /\ Idle.pc = "idle"
    BY <1>1 DEF Types, AppenderType, Idle
  <2>2. appender' \in {Idle, appender}
    BY DEF KeepFile, RollFails, BeginFlush
  <2> QED
    BY <2>1, <2>2, Zenon
<1>4. env' \in EnvType
  <2>1. env.failures + 1 \in Nat /\ env.flushes + 1 \in Nat /\ env.rollFails + 1 \in Nat
    BY <1>1 DEF EnvType
  <2>2. CASE KeepFile
    BY <1>1, <2>2 DEF KeepFile
  <2>3. CASE RollFails
    BY <1>1, <2>1, <2>3 DEF RollFails, EnvType
  <2>4. CASE BeginFlush
    BY <1>1, <2>1, <2>4 DEF BeginFlush, EnvType
  <2> QED
    BY <2>2, <2>3, <2>4
<1>5. inFlush' \in FlusherType /\ inFlush'.upto <= Len(sizes)
  <2>1. inFlush \in FlusherType /\ inFlush.upto <= Len(sizes) /\ file.raw \in Nat
        /\ Len(sizes) \in Nat
    BY <1>1, Numbers DEF Types, FlusherType, Files
  <2>2. CASE inFlush' = inFlush
    BY <2>1, <2>2
  <2>3. CASE inFlush' = [pc |-> "fflush", raw |-> file.raw, upto |-> Len(sizes)]
    BY <2>1, <2>3 DEF FlusherType
  <2> QED
    BY <2>2, <2>3 DEF KeepFile, RollFails, BeginFlush
<1>6. fault' \in {"none", "null"}
  BY <1>2 DEF KeepFile, RollFails, BeginFlush
<1>7. FileTypeOK'
  BY <1>1, <1>2, <1>3, <1>5, <1>6 DEF FileTypeOK, AppenderType, FlusherType
<1>8. Types'
  BY <1>1, <1>2, <1>3, <1>4, <1>5 DEF Types
<1>9. WrapperInv' /\ DirInv'
  BY <1>1, <1>2, <1>3, <1>6 DEF WrapperInv, DirInv
<1> QED
  BY <1>7, <1>8, <1>9 DEF BaseInv

\* The first LogFile satisfies the invariant.
LEMMA InitBase ==
    ASSUME FileInit
    PROVE  BaseInv
<1>1. <<>> \in Seq(Nat) /\ <<>> \in Seq(Int) /\ Len(<<>>) = 0
  BY EmptySeq
<1>2. content = <<<<>>>> /\ Len(content) = 1 /\ content \in Seq(Seq(Nat))
  BY <1>1 DEF FileInit
<1>3. /\ file = [exists |-> TRUE, valid |-> TRUE, name |-> 0, raw |-> 1, inode |-> 1,
                 buf |-> <<>>, written |-> 0]
  BY DEF FileInit, NoFile
<1>4. file \in Files
  BY <1>1, <1>3 DEF Files
<1>5. dir \in [0..MaxName -> 0..1] /\ \A n \in 0..MaxName : dir[n] = IF n = 0 THEN 1 ELSE 0
  BY DEF FileInit
<1>6. FileTypeOK
  BY <1>1, <1>2, <1>3, <1>5, Constants DEF FileInit, FileTypeOK, Idle
<1>7. Types
  BY <1>1, <1>2, <1>4 DEF FileInit, Types, Idle, AppenderType, FlusherType, EnvType
<1>8. WrapperInv
  BY <1>3 DEF FileInit, WrapperInv, Idle
<1>9. DirInv
  <2>1. file.valid /\ file.name = 0 /\ file.inode = 1 /\ rollIndex = 1 /\ 0 \in 0..MaxName
    <3>1. 0 \in 0..MaxName
      BY Constants
    <3>2. rollIndex = 1
      BY DEF FileInit
    <3> QED
      BY <1>3, <3>1, <3>2
  <2>2. dir[0] = 1 /\ \A m \in 0..MaxName : m # 0 => dir[m] = 0
    BY <1>5, <2>1
  <2> QED
    BY <2>1, <2>2 DEF DirInv
<1> QED
  BY <1>6, <1>7, <1>8, <1>9 DEF BaseInv

\* Every step keeps the types, the wrapper and the directory in order.
LEMMA NextBase ==
    ASSUME BaseInv, [FileNext]_fileVars
    PROVE  BaseInv'
<1>1. CASE UNCHANGED fileVars
  BY <1>1 DEF fileVars, BaseInv, FileTypeOK, Types, WrapperInv, DirInv
<1>2. CASE FileNext
  <2>1. ASSUME NEW t PROVE \A k \in Outcomes(t) : k \in 0..Len(t)
    BY DEF Outcomes
  <2>2. \A len \in 1..MaxLen, k \in Outcomes(file.buf) : BeginAppend(len, k) => BaseInv'
    BY <2>1, BeginAppendBase
  <2>3. \A x \in 0..appender.len : \A k \in Outcomes(Buffered(x)) : WriteRound(x, k) => BaseInv'
    BY <2>1, WriteRoundBase
  <2>4. \A k \in Outcomes(file.buf) : Roll(k) \/ EndFlush(k) => BaseInv'
    BY <2>1, RollBase, EndFlushBase
  <2> QED
    BY <1>2, <2>2, <2>3, <2>4, QuietBase, UnlinkBase, ReplaceBase, KillBase, RestartBase
       DEF FileNext
<1> QED
  BY <1>1, <1>2

-----------------------------------------------------------------------------
(* The steps that add no character to a file.                              *)

Quiet ==
    \/ \E len \in 1..MaxLen : \E k \in 0..Len(file.buf) : BeginAppend(len, k)
    \/ \E k \in 0..Len(file.buf) : Roll(k)
    \/ KeepFile \/ RollFails \/ BeginFlush
    \/ \E name \in 0..MaxName : Unlink(name) \/ Replace(name)
    \/ Restart

\* The other steps write, flush or kill.
LEMMA StepKinds ==
    FileNext => \/ Quiet
                \/ \E x \in 0..appender.len : \E k \in 0..Len(Buffered(x)) : WriteRound(x, k)
                \/ \E k \in 0..Len(file.buf) : EndFlush(k)
                \/ Kill
<1>1. \A t : \A k \in Outcomes(t) : k \in 0..Len(t)
  BY DEF Outcomes
<1> QED
  BY <1>1, ZenonT(30) DEF FileNext, Quiet

\* What they do to the messages.
LEMMA QuietSteps ==
    ASSUME BaseInv, Quiet
    PROVE  /\ durable' = durable /\ sizes' \in {sizes, Append(sizes, 0)}
           /\ appender.pc = "write" => appender'.pc = "write" /\ sizes' = sizes
           /\ appender'.pc \in {"idle", "roll"} \/ appender' = appender
              \/ (\E len \in 1..MaxLen : appender' = [pc |-> "write", len |-> len, remain |-> len])
<1>1. CASE \E len \in 1..MaxLen : \E k \in 0..Len(file.buf) : BeginAppend(len, k)
  <2>1. PICK len \in 1..MaxLen, k \in 0..Len(file.buf) : BeginAppend(len, k)
    BY <1>1
  <2>2. /\ durable' = durable /\ sizes' \in {sizes, Append(sizes, 0)} /\ appender.pc = "idle"
        /\ \/ appender' = [pc |-> "write", len |-> len, remain |-> len]
           \/ appender' = [Idle EXCEPT !.pc = "roll"]
           \/ appender' = appender
    BY <2>1 DEF BeginAppend
  <2>3. [Idle EXCEPT !.pc = "roll"].pc = "roll"
    BY DEF Idle
  <2> QED
    BY <2>2, <2>3
<1>2. CASE Restart
  <2>1. UNCHANGED <<durable, sizes, appender>>
    BY <1>2 DEF Restart
  <2> QED
    BY <2>1
<1>3. CASE BeginFlush \/ \E name \in 0..MaxName : Unlink(name) \/ Replace(name)
  <2>1. UNCHANGED <<durable, sizes, appender>>
    BY <1>3 DEF BeginFlush, Unlink, Replace
  <2> QED
    BY <2>1
<1>4. CASE KeepFile \/ RollFails \/ \E k \in 0..Len(file.buf) : Roll(k)
  <2>1. UNCHANGED <<durable, sizes>> /\ appender' = Idle /\ appender.pc = "roll"
    BY <1>4 DEF KeepFile, RollFails, Roll
  <2> QED
    BY <2>1 DEF Idle
<1> QED
  BY <1>1, <1>2, <1>3, <1>4 DEF Quiet

\* append loses a buffer only where it closes a file.
LEMMA BeginAppendLoses ==
    ASSUME BaseInv, NEW len \in 1..MaxLen, NEW k \in 0..Len(file.buf), BeginAppend(len, k)
    PROVE  \E b : Losing(b)
<1>1. FileTypeOK /\ Types /\ WrapperInv /\ file.buf \in Seq(Nat)
  BY DEF BaseInv, Types, Files
<1>2. CASE UNCHANGED <<content, file, lost, env>>
  BY <1>1, <1>2, KeepLoses
<1>3. CASE /\ file.valid /\ lost' = lost \o Rest(file.buf, k)
           /\ OpenFile(file.name, Flushed(file.buf, k), Noted(file.buf, k))
  <2>1. file.name \in 0..MaxName
    BY <1>3 DEF BaseInv, DirInv
  <2> QED
    BY <1>1, <1>3, <2>1, OpenLoses
<1>4. CASE /\ WriteOut(file.buf, k)
           /\ file' = [file EXCEPT !.valid = FALSE, !.raw = 0, !.inode = 0, !.buf = <<>>]
           /\ env' = [Noted(file.buf, k) EXCEPT !.failures = @ + 1]
  <2> DEFINE e == Noted(file.buf, k)
  <2>1. e \in EnvType
    BY <1>1, NotedFields
  <2>2. /\ env'.short = e.short /\ env'.restarts = e.restarts
        /\ env'.since = e.since /\ env'.outs = e.outs /\ env'.doubtful = e.doubtful
    <3>1. env' = [e EXCEPT !.failures = @ + 1]
      BY <1>4
    <3> HIDE DEF e
    <3> QED
      BY <2>1, <3>1 DEF EnvType
  <2>3. file'.buf = <<>>
    BY <1>1, <1>4 DEF Types, Files
  <2> QED
    BY <1>1, <1>4, <2>2, <2>3, FlushLoses
<1> QED
  BY <1>2, <1>3, <1>4 DEF BeginAppend

\* fflush loses what it could not write out.
LEMMA EndFlushLoses ==
    ASSUME BaseInv, NEW k \in 0..Len(file.buf), EndFlush(k)
    PROVE  \E b : Losing(b)
<1>1. FileTypeOK /\ Types /\ WrapperInv
  BY DEF BaseInv
<1>2. CASE UNCHANGED <<content, file, lost, env>>
  BY <1>1, <1>2, KeepLoses
<1>3. CASE /\ WriteOut(file.buf, k) /\ file' = [file EXCEPT !.buf = <<>>]
           /\ env' = Noted(file.buf, k)
  <2>1. file'.buf = <<>>
    BY <1>1, <1>3 DEF Types, Files
  <2> QED
    BY <1>1, <1>3, <2>1, FlushLoses
<1> QED
  BY <1>2, <1>3 DEF EndFlush

\* So do all of them.
LEMMA QuietLoses ==
    ASSUME BaseInv, Quiet
    PROVE  \E b : Losing(b)
<1>1. FileTypeOK /\ Types /\ WrapperInv /\ env \in EnvType /\ file.buf \in Seq(Nat)
  BY DEF BaseInv, Types, Files
<1>2. CASE \E k \in 0..Len(file.buf) : Roll(k)
  <2>1. PICK k \in 0..Len(file.buf) : Roll(k)
    BY <1>2
  <2>2. /\ OpenFile(rollIndex, Flushed(file.buf, k), Noted(file.buf, k))
        /\ lost' = lost \o Rest(file.buf, k) /\ rollIndex \in 0..MaxName
    BY <1>1, <2>1, Constants DEF Roll, FileTypeOK
  <2> QED
    BY <1>1, <2>2, OpenLoses
<1>3. CASE KeepFile \/ RollFails \/ BeginFlush
           \/ \E name \in 0..MaxName : Unlink(name) \/ Replace(name)
  <2>1. content' \in {content, Append(content, <<>>)} /\ UNCHANGED <<file, lost>>
    BY <1>3 DEF KeepFile, RollFails, BeginFlush, Unlink, Replace
  <2>2. /\ env'.short = env.short /\ env'.restarts = env.restarts /\ env'.since = env.since
        /\ env'.outs = env.outs /\ env'.doubtful = env.doubtful
    <3>1. CASE KeepFile \/ RollFails \/ BeginFlush
      BY <1>1, <3>1 DEF KeepFile, RollFails, BeginFlush, EnvType
    <3>2. CASE \E name \in 0..MaxName : Unlink(name) \/ Replace(name)
      BY <1>1, <3>2 DEF Unlink, Replace, EnvType
    <3> QED
      BY <1>3, <3>1, <3>2
  <2> QED
    BY <1>1, <2>1, <2>2, KeepLoses
<1>4. CASE Restart
  <2>1. fault = "killed" /\ lost' = lost
    BY <1>4 DEF Restart
  <2>2. file.buf = <<>> /\ file.inode = 0
    BY <1>1, <2>1 DEF WrapperInv
  <2>3. CASE OpenFile(0, content, env)
    <3>1. 0 \in 0..Len(file.buf) /\ Len(file.buf) = 0 /\ 0 \in 0..MaxName
      BY <2>2, Constants
    <3>2. Flushed(file.buf, 0) = content /\ Noted(file.buf, 0) = env
      BY <2>2, <3>1 DEF Flushed, Noted
    <3>3. Rest(file.buf, 0) = <<>>
      BY <1>1, <3>1, CutInTwo DEF Rest
    <3>4. lost' = lost \o Rest(file.buf, 0)
      BY <1>1, <2>1, <3>3, ConcatEmptySeq DEF Types
    <3> QED
      BY <1>1, <2>3, <3>1, <3>2, <3>4, OpenLoses
  <2>4. CASE UNCHANGED <<dir, content, file>> /\ env' = [env EXCEPT !.failures = @ + 1]
    <3>1. /\ env'.short = env.short /\ env'.restarts = env.restarts /\ env'.since = env.since
          /\ env'.outs = env.outs /\ env'.doubtful = env.doubtful
      BY <1>1, <2>4 DEF EnvType
    <3> QED
      BY <1>1, <2>1, <2>4, <3>1, KeepLoses
  <2> QED
    BY <1>4, <2>3, <2>4 DEF Restart
<1> QED
  BY <1>2, <1>3, <1>4, BeginAppendLoses DEF Quiet

-----------------------------------------------------------------------------
(* What a flush has written out is not lost.                               *)

\* What stdio drops was in the buffer.
LEMMA RestFrom ==
    ASSUME NEW s \in Seq(Nat), NEW k \in 0..Len(s)
    PROVE  /\ Rest(s, k) \in Seq(Nat) /\ Len(Rest(s, k)) <= Len(s)
           /\ \A i \in 1..Len(Rest(s, k)) : Rest(s, k)[i] \in ToSet(s)
<1>1. k \in Nat /\ Len(s) \in Nat /\ k <= Len(s) /\ DOMAIN s = 1..Len(s)
  BY LenProperties
<1>2. /\ Rest(s, k) \in Seq(Nat) /\ Len(Rest(s, k)) = Len(s) - k
      /\ \A i \in 1..(Len(s) - k) : Rest(s, k)[i] = s[k + i]
  <2>1. /\ SubSeq(s, k + 1, Len(s)) \in Seq(Nat) /\ Len(SubSeq(s, k + 1, Len(s))) = Len(s) - k
        /\ \A i \in 1..(Len(s) - k) : SubSeq(s, k + 1, Len(s))[i] = s[k + i]
    <3>1. Len(s) <= Len(s)
      BY <1>1
    <3>2. \A m, n \in Nat : m <= n /\ n <= Len(s) =>
             /\ SubSeq(s, m + 1, n) \in Seq(Nat) /\ Len(SubSeq(s, m + 1, n)) = n - m
             /\ \A i \in 1..(n - m) : SubSeq(s, m + 1, n)[i] = s[m + i]
      BY Slice
    <3> QED
      BY <1>1, <3>1, <3>2, Zenon
  <2> QED
    BY <2>1, Zenon DEF Rest
<1>3. \A i \in 1..(Len(s) - k) : k + i \in 1..Len(s)
  BY <1>1
<1>4. Len(s) - k <= Len(s)
  BY <1>1
<1>5. \A j \in 1..Len(s) : s[j] \in ToSet(s)
  BY <1>1 DEF ToSet
<1> QED
  BY <1>2, <1>3, <1>4, <1>5

\* What is lost after a step was lost before or is lost in it.
LEMMA LostBy ==
    ASSUME NEW l \in Seq(Nat), NEW b \in Seq(Nat), NEW j \in 1..Len(l \o b)
    PROVE  \/ j \in 1..Len(l) /\ (l \o b)[j] = l[j]
           \/ \E i \in 1..Len(b) : (l \o b)[j] = b[i]
<1>1. /\ Len(l) \in Nat /\ Len(b) \in Nat /\ Len(l \o b) = Len(l) + Len(b)
      /\ \A i \in 1..Len(l) + Len(b) : (l \o b)[i] = IF i <= Len(l) THEN l[i] ELSE b[i - Len(l)]
  BY LenProperties, ConcatProperties
<1>2. CASE j <= Len(l)
  BY <1>1, <1>2
<1>3. CASE ~(j <= Len(l))
  <2>1. j - Len(l) \in 1..Len(b)
    BY <1>1, <1>3
  <2>2. (l \o b)[j] = b[j - Len(l)]
    BY <1>1, <1>3
  <2> QED
    BY <2>1, <2>2
<1> QED
  BY <1>2, <1>3

\* A step of the same run loses only what is doubtful.
LEMMA FlushInRun ==
    ASSUME BaseInv, BaseInv', FlushInv, NEW b \in Seq(Nat), lost' = lost \o b,
           \A i \in 1..Len(b) : b[i] \in env'.doubtful, env.doubtful \subseteq env'.doubtful,
           env'.since = env.since, Len(sizes') >= Len(sizes),
           \A n \in durable' : n \in durable \/ n > env.since,
           \A j \in 1..Len(file'.buf) :
               \/ file'.buf[j] <= Len(sizes')
               \/ appender'.pc = "write" /\ file'.buf[j] = Len(sizes') + 1,
           \A n \in durable' \ env'.doubtful : \A j \in 1..Len(file'.buf) : file'.buf[j] # n
    PROVE  FlushInv'
<1>1. /\ Len(sizes) \in Nat /\ Len(sizes') \in Nat /\ env.since \in Nat
      /\ lost \in Seq(Nat) /\ durable' \subseteq Nat
  BY LenProperties DEF BaseInv, Types, EnvType, FileTypeOK
<1>2. \A j \in 1..Len(lost) : lost[j] \in Nat
  BY <1>1, ElementOfSeq
<1>3. ASSUME NEW j \in 1..Len(lost')
      PROVE  (j \in 1..Len(lost) /\ lost'[j] = lost[j]) \/ lost'[j] \in env'.doubtful
  BY <1>1, LostBy
<1>4. \A j \in 1..Len(lost) : lost[j] <= env.since \/ lost[j] \in env.doubtful
  BY DEF FlushInv
<1>5. \A j \in 1..Len(lost') : lost'[j] <= env'.since \/ lost'[j] \in env'.doubtful
  BY <1>3, <1>4
<1>6. ASSUME NEW n \in durable' \ env'.doubtful, NEW j \in 1..Len(lost') PROVE lost'[j] # n
  <2>1. CASE lost'[j] \in env'.doubtful
    BY <2>1
  <2>2. CASE j \in 1..Len(lost) /\ lost'[j] = lost[j]
    <3>1. CASE n \in durable
      <4>1. n \in durable \ env.doubtful
        BY <3>1
      <4> QED
        BY <2>2, <4>1 DEF FlushInv
    <3>2. CASE n > env.since
      <4>1. lost[j] \in Nat /\ (lost[j] <= env.since \/ lost[j] \in env.doubtful) /\ n \in Nat
        BY <1>1, <1>2, <1>4, <2>2
      <4>2. CASE lost[j] <= env.since
        BY <1>1, <2>2, <3>2, <4>1, <4>2
      <4>3. CASE lost[j] \in env.doubtful
        BY <2>2, <4>3
      <4> QED
        BY <4>1, <4>2, <4>3
    <3> QED
      BY <3>1, <3>2
  <2> QED
    BY <1>3, <2>1, <2>2
<1>7. env'.since <= Len(sizes')
  BY <1>1 DEF FlushInv
<1> QED
  BY <1>5, <1>6, <1>7 DEF FlushInv

\* A step that adds no character to the buffer and kills nobody.
LEMMA FlushKept ==
    ASSUME BaseInv, BaseInv', FlushInv, NEW b, Losing(b),
           Len(sizes') >= Len(sizes),
           \A n \in durable' : n \in durable \/ (n > env.since /\ file'.buf = <<>>),
           appender.pc = "write" =>
               file'.buf = <<>> \/ (appender'.pc = "write" /\ Len(sizes') = Len(sizes))
    PROVE  FlushInv'
<1>1. /\ Len(sizes) \in Nat /\ Len(sizes') \in Nat
      /\ file.buf \in Seq(Nat) /\ Len(<<>>) = 0
  BY LenProperties, EmptySeq DEF BaseInv, Types, Files
<1>2. /\ b \in Seq(Nat) /\ lost' = lost \o b /\ file'.buf \in {<<>>, file.buf}
      /\ env'.since = env.since
      /\ \/ b = <<>> /\ env'.doubtful = env.doubtful
         \/ /\ env'.doubtful = env.doubtful \cup ToSet(file.buf)
            /\ \E k \in 0..Len(file.buf) : b = Rest(file.buf, k)
  BY DEF Losing
<1>3. /\ \A i \in 1..Len(b) : b[i] \in env'.doubtful
      /\ env.doubtful \subseteq env'.doubtful
  <2>1. CASE b = <<>> /\ env'.doubtful = env.doubtful
    BY <1>1, <2>1
  <2>2. CASE /\ env'.doubtful = env.doubtful \cup ToSet(file.buf)
             /\ \E k \in 0..Len(file.buf) : b = Rest(file.buf, k)
    <3>1. PICK k \in 0..Len(file.buf) : b = Rest(file.buf, k)
      BY <2>2
    <3>2. \A i \in 1..Len(b) : b[i] \in ToSet(file.buf)
      BY <1>1, <3>1, RestFrom
    <3> QED
      BY <2>2, <3>2
  <2> QED
    BY <1>2, <2>1, <2>2
<1>4. ASSUME NEW j \in 1..Len(file'.buf)
      PROVE  /\ file'.buf = file.buf /\ j \in 1..Len(file.buf) /\ file.buf[j] \in Nat
             /\ file'.buf # <<>>
  BY <1>1, <1>2, ElementOfSeq
<1>5. ASSUME NEW j \in 1..Len(file'.buf)
      PROVE  file'.buf[j] <= Len(sizes')
             \/ (appender'.pc = "write" /\ file'.buf[j] = Len(sizes') + 1)
  <2>1. /\ file'.buf = file.buf /\ j \in 1..Len(file.buf) /\ file.buf[j] \in Nat
        /\ file'.buf # <<>>
    BY <1>4
  <2>2. file.buf[j] <= Len(sizes)
        \/ (appender.pc = "write" /\ file.buf[j] = Len(sizes) + 1)
    BY <2>1 DEF FlushInv
  <2> QED
    BY <1>1, <2>1, <2>2
<1>6. ASSUME NEW n \in durable' \ env'.doubtful, NEW j \in 1..Len(file'.buf)
      PROVE  file'.buf[j] # n
  <2>1. n \in durable \ env.doubtful
    BY <1>3, <1>4
  <2> QED
    BY <1>4, <2>1 DEF FlushInv
<1> QED
  BY <1>2, <1>3, <1>5, <1>6, FlushInRun

\* A round buffers characters of the message that is not yet reported.
LEMMA WriteRoundFlush ==
    ASSUME BaseInv, BaseInv', FlushInv, NEW x \in 0..appender.len,
           NEW k \in 0..Len(Buffered(x)), WriteRound(x, k)
    PROVE  FlushInv'
<1> DEFINE L == Len(sizes)
           s == [j \in 1..x |-> L + 1]
           writen == appender.len - (appender.remain - x)
<1>1. /\ L \in Nat /\ x \in Nat /\ file.inode # 0 /\ env.since \in Nat
      /\ file.buf \in Seq(Nat) /\ writen \in Int /\ Len(file.buf) \in Nat
      /\ env \in EnvType /\ durable \subseteq 1..L /\ appender.pc = "write"
  <2>1. FileTypeOK /\ Types /\ WrapperInv
    BY DEF BaseInv
  <2>2. appender.len \in Nat /\ appender.remain \in Int /\ env \in EnvType /\ durable \subseteq 1..L
    BY <2>1 DEF Types, FileTypeOK, AppenderType
  <2>3. L \in Nat /\ file.buf \in Seq(Nat) /\ Len(file.buf) \in Nat
    BY <2>1, Numbers DEF Types, Files
  <2>4. x \in Nat /\ writen \in Int
    BY <2>2
  <2>5. env.since \in Nat
    BY <2>2 DEF EnvType
  <2> QED
    BY <2>1, <2>2, <2>3, <2>4, <2>5 DEF WriteRound, WrapperInv
<1>3. /\ \/ /\ appender'.pc = "roll" /\ Len(sizes') = L + 1
         \/ /\ appender'.pc = "write" /\ sizes' = sizes
      /\ durable' = durable
  <2>1. durable' = durable
    BY DEF WriteRound
  <2>2. CASE appender' = [Idle EXCEPT !.pc = "roll"] /\ sizes' = Append(sizes, writen)
    <3>1. Len(sizes') = L + 1
      BY <1>1, <2>2, SizesGrow DEF BaseInv
    <3> QED
      BY <2>1, <2>2, <3>1 DEF Idle
  <2>3. CASE /\ appender' = [appender EXCEPT !.remain = appender.remain - x]
             /\ sizes' = sizes
    BY <1>1, <2>1, <2>3 DEF BaseInv, Types, AppenderType
  <2> QED
    BY <2>2, <2>3 DEF WriteRound
<1>a. Buffered(x) \in Seq(Nat) /\ Types
  BY <1>1, BufferedType DEF BaseInv
<1>b. /\ env'.since = env.since
      /\ \/ Rest(Buffered(x), k) = <<>> /\ env'.doubtful = env.doubtful
         \/ env'.doubtful = env.doubtful \cup ToSet(Buffered(x))
  <2> DEFINE e == Noted(Buffered(x), k)
  <2>1. /\ e \in EnvType /\ e.since = env.since
        /\ \/ Rest(Buffered(x), k) = <<>> /\ e.doubtful = env.doubtful
           \/ e.doubtful = env.doubtful \cup ToSet(Buffered(x))
    BY <1>a, NotedFields
  <2>2. env' = [e EXCEPT !.short = IF x < appender.len THEN @ + 1 ELSE @]
    BY DEF WriteRound
  <2> HIDE DEF e
  <2>3. env'.since = e.since /\ env'.doubtful = e.doubtful
    BY <2>1, <2>2 DEF EnvType
  <2> QED
    BY <2>1, <2>3
<1>c. \/ \E n \in Int : Put(L + 1, x, n)
      \/ WriteOut(Buffered(x), k) /\ file'.buf = <<>>
  <2> DEFINE w == IF x = 0 \/ appender.remain - x = 0 THEN writen ELSE 0
  <2>1. w \in Int
    BY <1>1
  <2>2. \/ Put(L + 1, x, w)
        \/ WriteOut(Buffered(x), k) /\ file' = [file EXCEPT !.buf = <<>>, !.written = @ + w]
    BY DEF WriteRound
  <2> HIDE DEF w
  <2>3. [file EXCEPT !.buf = <<>>, !.written = @ + w].buf = <<>>
    BY <1>a DEF Types, Files
  <2> QED
    BY <2>1, <2>2, <2>3
<1>d. CASE WriteOut(Buffered(x), k) /\ file'.buf = <<>>
  <2> DEFINE b == Rest(Buffered(x), k)
  <2>1. b \in Seq(Nat) /\ \A i \in 1..Len(b) : b[i] \in ToSet(Buffered(x))
    BY <1>a, RestFrom
  <2>2. lost' = lost \o b
    BY <1>d DEF WriteOut
  <2>3. (\A i \in 1..Len(b) : b[i] \in env'.doubtful) /\ env.doubtful \subseteq env'.doubtful
    BY <1>b, <2>1
  <2>4. Len(sizes') >= L /\ \A j \in 1..Len(file'.buf) : FALSE
    BY <1>1, <1>3, <1>d
  <2> HIDE DEF b
  <2> QED
    BY <1>3, <1>b, <2>1, <2>2, <2>3, <2>4, FlushInRun
<1>e. CASE \E n \in Int : Put(L + 1, x, n)
  <2>a. PICK n \in Int : Put(L + 1, x, n)
    BY <1>e
  <2> HIDE DEF s, writen
  <2>1. /\ s \in Seq(Nat) /\ Len(s) = x /\ file'.buf \in {<<>>, file.buf \o s}
        /\ lost' = lost
    <3>1. FileTypeOK /\ Types /\ L + 1 \in Nat
      BY <1>1 DEF BaseInv
    <3> QED
      BY <1>1, <2>a, <3>1, PutWrites DEF s
  <2>2. ASSUME NEW j \in 1..Len(file'.buf)
        PROVE  file'.buf[j] = L + 1
               \/ (j \in 1..Len(file.buf) /\ file'.buf[j] = file.buf[j])
    <3>1. file'.buf = file.buf \o s
      BY <2>1
    <3>2. CASE \E i \in 1..Len(s) : file'.buf[j] = s[i]
      BY <2>1, <3>2 DEF s
    <3>3. \/ j \in 1..Len(file.buf) /\ (file.buf \o s)[j] = file.buf[j]
          \/ \E i \in 1..Len(s) : (file.buf \o s)[j] = s[i]
      <4>1. j \in 1..Len(file.buf \o s)
        BY <3>1
      <4> QED
        BY <1>1, <2>1, <4>1, LostBy, Zenon
    <3> QED
      BY <3>1, <3>2, <3>3, Zenon
  <2>3. \A j \in 1..Len(file.buf) : file.buf[j] \in Nat
    BY <1>1, ElementOfSeq
  <2>4. \A j \in 1..Len(file.buf) : file.buf[j] <= L \/ file.buf[j] = L + 1
    BY DEF FlushInv
  <2>5. ASSUME NEW j \in 1..Len(file'.buf)
        PROVE  file'.buf[j] <= Len(sizes')
               \/ (appender'.pc = "write" /\ file'.buf[j] = Len(sizes') + 1)
    <3>1. file'.buf[j] \in Nat /\ (file'.buf[j] <= L \/ file'.buf[j] = L + 1)
      <4>1. L + 1 \in Nat
        BY <1>1
      <4> QED
        BY <2>2, <2>3, <2>4, <4>1, ZenonT(30)
    <3> QED
      BY <1>1, <1>3, <3>1
  <2>6. ASSUME NEW m \in durable \ env'.doubtful, NEW j \in 1..Len(file'.buf)
        PROVE  file'.buf[j] # m
    <3>1. m \in durable \ env.doubtful
      BY <1>b
    <3>2. m # L + 1 /\ \A i \in 1..Len(file.buf) : file.buf[i] # m
      BY <1>1, <3>1 DEF FlushInv
    <3> QED
      BY <2>2, <3>2
  <2>7. lost' = lost \o <<>> /\ <<>> \in Seq(Nat) /\ \A i \in 1..Len(<<>>) : FALSE
    BY <1>a, <2>1, ConcatEmptySeq, EmptySeq DEF Types
  <2>8. env.doubtful \subseteq env'.doubtful /\ Len(sizes') >= L
    BY <1>1, <1>3, <1>b
  <2> QED
    BY <1>3, <1>b, <2>5, <2>6, <2>7, <2>8, FlushInRun
<1> QED
  BY <1>c, <1>d, <1>e

\* fflush leaves no character of a durable message in the buffer.
LEMMA EndFlushFlush ==
    ASSUME BaseInv, BaseInv', FlushInv, NEW k \in 0..Len(file.buf), EndFlush(k)
    PROVE  FlushInv'
<1>1. UNCHANGED <<appender, sizes>> /\ Len(sizes) \in Nat /\ env.since \in Nat
  BY Numbers DEF EndFlush, BaseInv, Types, EnvType
<1>2. \A n \in (env.since + 1)..inFlush.upto : n > env.since
  <2>1. inFlush.upto \in Nat
    BY DEF BaseInv, Types, FlusherType
  <2> QED
    BY <1>1, <2>1
<1>3. \E b : Losing(b)
  BY EndFlushLoses
<1>4. CASE durable' = durable /\ file' = file
  BY <1>1, <1>3, <1>4, FlushKept
<1>5. CASE /\ durable' = durable \cup ((env.since + 1)..inFlush.upto)
           /\ file'.buf = <<>>
  BY <1>1, <1>2, <1>3, <1>5, FlushKept
<1>6. ~Flushable => file.buf = <<>>
  BY DEF Flushable, BaseInv, WrapperInv
<1>7. [file EXCEPT !.buf = <<>>].buf = <<>>
  BY DEF BaseInv, Types, Files
<1> QED
  BY <1>4, <1>5, <1>6, <1>7 DEF EndFlush

\* What is lost at a kill is not durable: its message came after the flush.
LEMMA KillFlush ==
    ASSUME BaseInv, BaseInv', FlushInv, Kill
    PROVE  FlushInv'
<1>1. /\ lost' = lost \o file.buf /\ file' = NoFile /\ durable' = durable
      /\ env'.since = Len(sizes') /\ env'.doubtful = env.doubtful
      /\ \/ appender.pc = "write" /\ Len(sizes') = Len(sizes) + 1
         \/ appender.pc # "write" /\ sizes' = sizes
  <2>1. appender.len - appender.remain \in Int
    <3>1. appender.len \in Nat /\ appender.remain \in Int
      BY DEF BaseInv, Types, AppenderType
    <3> QED
      BY <3>1
  <2>2. env'.since = Len(sizes') /\ env'.doubtful = env.doubtful
    BY DEF Kill, BaseInv, Types, EnvType
  <2>3. Len(Append(sizes, appender.len - appender.remain)) = Len(sizes) + 1
    BY <2>1, SizesGrow DEF BaseInv
  <2> QED
    BY <2>2, <2>3 DEF Kill
<1>2. /\ lost \in Seq(Nat) /\ file.buf \in Seq(Nat) /\ Len(lost) \in Nat
      /\ Len(file.buf) \in Nat /\ Len(sizes) \in Nat /\ env.since \in Nat
      /\ Len(sizes') \in Nat
  <2>1. Types /\ Types' /\ FileTypeOK
    BY DEF BaseInv
  <2> QED
    BY <2>1, LenProperties DEF Types, Files, EnvType
<1>3. file'.buf = <<>> /\ Len(<<>>) = 0 /\ 1..0 = {}
  BY <1>1 DEF NoFile
<1>4. ASSUME NEW j \in 1..Len(lost')
      PROVE  \/ j \in 1..Len(lost) /\ lost'[j] = lost[j]
             \/ \E i \in 1..Len(file.buf) : lost'[j] = file.buf[i]
  BY <1>1, <1>2, LostBy
<1>5. \A j \in 1..Len(lost) : lost[j] <= Len(sizes') \/ lost[j] \in env.doubtful
  <2>1. \A j \in 1..Len(lost) : lost[j] \in Nat
    BY <1>2, ElementOfSeq
  <2>2. /\ env.since <= Len(sizes)
        /\ \A j \in 1..Len(lost) : lost[j] <= env.since \/ lost[j] \in env.doubtful
    BY DEF FlushInv
  <2>3. Len(sizes) <= Len(sizes')
    BY <1>1, <1>2
  <2>4. \A y \in Nat : y <= env.since => y <= Len(sizes')
    BY <1>2, <2>2, <2>3
  <2> QED
    BY <2>1, <2>2, <2>4
<1>6. \A j \in 1..Len(file.buf) : file.buf[j] <= Len(sizes')
  <2>1. \A j \in 1..Len(file.buf) : file.buf[j] \in Nat
    BY <1>2, ElementOfSeq
  <2>2. \A j \in 1..Len(file.buf) :
            file.buf[j] <= Len(sizes) \/ (appender.pc = "write" /\ file.buf[j] = Len(sizes) + 1)
    BY DEF FlushInv
  <2>3. /\ Len(sizes) <= Len(sizes')
        /\ appender.pc = "write" => Len(sizes) + 1 <= Len(sizes')
    BY <1>1, <1>2
  <2> QED
    BY <1>2, <2>1, <2>2, <2>3
<1>7. \A j \in 1..Len(lost') : lost'[j] <= env'.since \/ lost'[j] \in env'.doubtful
  BY <1>1, <1>4, <1>5, <1>6
<1>8. \A n \in durable' \ env'.doubtful : \A j \in 1..Len(lost') : lost'[j] # n
  BY <1>1, <1>4 DEF FlushInv
<1>9. env'.since <= Len(sizes')
  BY <1>1, <1>2
<1> QED
  BY <1>3, <1>7, <1>8, <1>9 DEF FlushInv

\* Nothing is buffered, lost or durable at the start.
LEMMA InitFlush ==
    ASSUME FileInit
    PROVE  FlushInv
<1>1. /\ sizes = <<>> /\ lost = <<>> /\ file.buf = <<>> /\ env.since = 0 /\ durable = {}
      /\ Len(<<>>) = 0 /\ 1..0 = {}
  BY DEF FileInit, NoFile
<1> QED
  BY <1>1 DEF FlushInv

\* Every step keeps the durable messages out of the buffer and of what is lost.
LEMMA NextFlush ==
    ASSUME BaseInv, FlushInv, [FileNext]_fileVars
    PROVE  FlushInv'
<1>0. BaseInv' /\ Types
  BY NextBase DEF BaseInv
<1>1. Len(sizes) \in Nat
  BY <1>0, LenProperties DEF Types
<1>2. CASE UNCHANGED fileVars
  BY <1>2 DEF fileVars, FlushInv
<1>3. CASE Quiet
  <2>1. \E b : Losing(b)
    BY <1>3, QuietLoses
  <2>2. /\ durable' = durable /\ sizes' \in {sizes, Append(sizes, 0)}
        /\ appender.pc = "write" => appender'.pc = "write" /\ sizes' = sizes
    BY <1>3, QuietSteps
  <2>3. Len(sizes') >= Len(sizes)
    BY <1>0, <1>1, <2>2, SizesGrow
  <2> QED
    BY <1>0, <2>1, <2>2, <2>3, FlushKept
<1>4. CASE FileNext
  BY <1>0, <1>3, <1>4, WriteRoundFlush, EndFlushFlush, KillFlush, StepKinds
<1> QED
  BY <1>2, <1>4

\* No index of a sequence holds a character that it does not count.
LEMMA CountZero ==
    ASSUME NEW s \in Seq(Nat), NEW c, \A j \in 1..Len(s) : s[j] # c
    PROVE  Count(c, s) = 0
<1>1. {i \in DOMAIN s : s[i] = c} = {}
  BY LenProperties
<1> QED
  BY <1>1, FS_EmptySet DEF Count

\* FlushedSurvives: what was appended before a flush that has returned is neither
\* in the buffer nor among what was lost, whatever rolls and reopened files the
\* flush met, unless stdio failed to write out a buffer with characters of it
\* (LogFile::flush against LogFile::append).
THEOREM FlushSurvives == FileSpec => []FlushedSurvives
<1>1. FileInit => BaseInv /\ FlushInv
  BY InitBase, InitFlush
<1>2. BaseInv /\ FlushInv /\ [FileNext]_fileVars => (BaseInv /\ FlushInv)'
  BY NextBase, NextFlush
<1>3. BaseInv /\ FlushInv => FlushedSurvives
  <2> SUFFICES ASSUME BaseInv, FlushInv, NEW n \in durable \ env.doubtful
               PROVE  Count(n, lost) = 0 /\ Count(n, file.buf) = 0
    BY DEF FlushedSurvives
  <2>1. lost \in Seq(Nat) /\ file.buf \in Seq(Nat)
    BY DEF BaseInv, Types, Files
  <2>2. (\A j \in 1..Len(lost) : lost[j] # n) /\ \A j \in 1..Len(file.buf) : file.buf[j] # n
    BY DEF FlushInv
  <2> QED
    BY <2>1, <2>2, CountZero
<1> QED
  BY <1>1, <1>2, <1>3, PTL DEF FileSpec

-----------------------------------------------------------------------------
(* A file grows by less than a roll size and a message in each run, and by *)
(* a message for each roll that failed.                                    *)

\* What a step that adds no character does to the history.
LEMMA QuietEnv ==
    ASSUME BaseInv, Quiet
    PROVE  /\ env'.restarts = env.restarts /\ env'.carried = env.carried
           /\ ~RollFails => env'.rollFails = env.rollFails
<1>1. FileTypeOK /\ Types /\ DirInv /\ env \in EnvType /\ file.buf \in Seq(Nat)
  BY DEF BaseInv, Types, Files
<1>a. ASSUME NEW k \in 0..Len(file.buf), NEW name \in 0..MaxName,
             OpenFile(name, Flushed(file.buf, k), Noted(file.buf, k))
      PROVE  /\ env'.restarts = env.restarts /\ env'.carried = env.carried
             /\ env'.rollFails = env.rollFails
  <2> DEFINE c == Flushed(file.buf, k)
             e == Noted(file.buf, k)
  <2>1. /\ e \in EnvType /\ e.restarts = env.restarts /\ e.carried = env.carried
        /\ e.rollFails = env.rollFails
    BY <1>1, NotedFields
  <2>2. c \in Seq(Seq(Nat)) /\ Len(c) = Len(content)
    BY <1>1, FlushedContent
  <2>3. OpenFile(name, c, e)
    BY <1>a
  <2> HIDE DEF c, e
  <2>4. /\ env'.restarts = e.restarts /\ env'.carried = e.carried
        /\ env'.rollFails = e.rollFails
    BY <1>1, <2>1, <2>2, <2>3, OpenedFile
  <2> QED
    BY <2>1, <2>4
<1>2. ASSUME NEW len \in 1..MaxLen, NEW k \in 0..Len(file.buf), BeginAppend(len, k)
      PROVE  /\ env'.restarts = env.restarts /\ env'.carried = env.carried
             /\ env'.rollFails = env.rollFails
  <2> DEFINE e == Noted(file.buf, k)
  <2>1. /\ e \in EnvType /\ e.restarts = env.restarts /\ e.carried = env.carried
        /\ e.rollFails = env.rollFails
    BY <1>1, NotedFields
  <2>2. CASE file.valid /\ OpenFile(file.name, Flushed(file.buf, k), Noted(file.buf, k))
    <3>1. file.name \in 0..MaxName
      BY <1>1, <2>2 DEF DirInv
    <3> QED
      BY <1>a, <2>2, <3>1
  <2>3. CASE env' = [e EXCEPT !.failures = @ + 1]
    <3> HIDE DEF e
    <3> QED
      BY <2>1, <2>3 DEF EnvType
  <2>4. CASE env' = env
    BY <2>4
  <2> QED
    BY <1>2, <2>2, <2>3, <2>4 DEF BeginAppend
<1>3. ASSUME NEW k \in 0..Len(file.buf), Roll(k)
      PROVE  /\ env'.restarts = env.restarts /\ env'.carried = env.carried
             /\ env'.rollFails = env.rollFails
  <2>1. rollIndex \in 0..MaxName
    BY <1>1, <1>3, Constants DEF Roll, FileTypeOK
  <2> QED
    BY <1>3, <1>a, <2>1 DEF Roll
<1>4. CASE KeepFile \/ BeginFlush
  BY <1>1, <1>4 DEF KeepFile, BeginFlush, EnvType
<1>5. CASE RollFails
  BY <1>1, <1>5 DEF RollFails, EnvType
<1>6. CASE \E name \in 0..MaxName : Unlink(name) \/ Replace(name)
  BY <1>1, <1>6 DEF Unlink, Replace, EnvType
<1>7. CASE Restart
  <2>1. CASE OpenFile(0, content, env)
    BY <1>1, <2>1 DEF OpenFile, EnvType
  <2>2. CASE env' = [env EXCEPT !.failures = @ + 1]
    BY <1>1, <2>2 DEF EnvType
  <2> QED
    BY <1>7, <2>1, <2>2 DEF Restart
<1> QED
  BY <1>2, <1>3, <1>4, <1>5, <1>6, <1>7 DEF Quiet

\* What fflush does to the history.
LEMMA EndFlushEnv ==
    ASSUME BaseInv, NEW k \in 0..Len(file.buf), EndFlush(k)
    PROVE  /\ env'.restarts = env.restarts /\ env'.carried = env.carried
           /\ env'.rollFails = env.rollFails /\ env'.short = env.short
<1>1. Types /\ file.buf \in Seq(Nat)
  BY DEF BaseInv, Types, Files
<1>2. env' \in {env, Noted(file.buf, k)}
  BY DEF EndFlush
<1> QED
  BY <1>1, <1>2, NotedFields

\* What a round of append does to the history.
LEMMA WriteRoundEnv ==
    ASSUME BaseInv, NEW x \in 0..appender.len, NEW k \in 0..Len(Buffered(x)), WriteRound(x, k)
    PROVE  /\ x \in Nat /\ appender.len \in Nat /\ env.short \in Nat
           /\ env'.restarts = env.restarts /\ env'.carried = env.carried
           /\ env'.rollFails = env.rollFails
           /\ env'.short = IF x < appender.len THEN env.short + 1 ELSE env.short
<1> DEFINE e == Noted(Buffered(x), k)
<1>1. FileTypeOK /\ Types /\ appender.len \in Nat /\ env.short \in Nat
  BY DEF BaseInv, Types, AppenderType, EnvType
<1>2. x \in Nat
  BY <1>1
<1>3. /\ e \in EnvType /\ e.restarts = env.restarts /\ e.carried = env.carried
      /\ e.rollFails = env.rollFails /\ e.short = env.short
  BY <1>1, <1>2, BufferedType, NotedFields
<1>4. env' = [e EXCEPT !.short = IF x < appender.len THEN @ + 1 ELSE @]
  BY DEF WriteRound
<1> HIDE DEF e
<1>5. /\ env'.restarts = e.restarts /\ env'.carried = e.carried
      /\ env'.rollFails = e.rollFails
      /\ env'.short = IF x < appender.len THEN e.short + 1 ELSE e.short
  BY <1>3, <1>4 DEF EnvType
<1> QED
  BY <1>1, <1>2, <1>3, <1>5

\* A message is written in one round as long as fwrite writes all of it.
LEMMA NextWhole ==
    ASSUME BaseInv, WholeWrites, [FileNext]_fileVars
    PROVE  WholeWrites'
<1>0. /\ env \in EnvType /\ env.short \in Nat /\ appender.len \in Nat
      /\ appender.remain \in Int
  BY DEF BaseInv, Types, EnvType, AppenderType
<1>1. CASE UNCHANGED fileVars
  BY <1>1 DEF fileVars, WholeWrites
<1>2. CASE Quiet
  <2>1. env'.short = env.short
    BY <1>2, QuietLoses DEF Losing
  <2>2. appender'.pc \in {"idle", "roll"} \/ appender' = appender
        \/ (\E len \in 1..MaxLen : appender' = [pc |-> "write", len |-> len, remain |-> len])
    BY <1>2, QuietSteps
  <2>3. CASE \E len \in 1..MaxLen : appender' = [pc |-> "write", len |-> len, remain |-> len]
    BY <2>3 DEF WholeWrites
  <2>4. CASE appender'.pc \in {"idle", "roll"}
    BY <2>4 DEF WholeWrites
  <2>5. CASE appender' = appender
    BY <2>1, <2>5 DEF WholeWrites
  <2> QED
    BY <2>2, <2>3, <2>4, <2>5
<1>3. ASSUME NEW k \in 0..Len(file.buf), EndFlush(k) PROVE WholeWrites'
  <2>1. env'.short = env.short /\ appender' = appender
    BY <1>3, EndFlushEnv DEF EndFlush
  <2> QED
    BY <2>1 DEF WholeWrites
<1>4. ASSUME NEW x \in 0..appender.len, NEW k \in 0..Len(Buffered(x)), WriteRound(x, k)
      PROVE  WholeWrites'
  <2>1. appender.pc = "write" /\ x \in Nat /\ x <= appender.len
    BY <1>0, <1>4 DEF WriteRound
  <2>2. CASE x < appender.len
    <3>1. env'.short = env.short + 1
      BY <1>4, <2>2, WriteRoundEnv
    <3> QED
      BY <1>0, <3>1 DEF WholeWrites
  <2>3. CASE ~(x < appender.len)
    <3>1. env'.short = env.short /\ x = appender.len
      BY <1>0, <1>4, <2>1, <2>3, WriteRoundEnv
    <3>2. env.short = 0 => appender.remain - x = 0
      BY <1>0, <2>1, <3>1 DEF WholeWrites
    <3>3. env.short = 0 => appender'.pc = "roll"
      BY <1>4, <3>2 DEF WriteRound, Idle
    <3> QED
      BY <3>1, <3>3 DEF WholeWrites
  <2> QED
    BY <2>2, <2>3
<1>5. CASE Kill
  BY <1>5 DEF Kill, Idle, WholeWrites
<1> QED
  BY <1>1, <1>2, <1>3, <1>4, <1>5, StepKinds

\* The lengths that the invariant compares.
LEMMA Lengths ==
    ASSUME BaseInv
    PROVE  /\ Earlier \in Nat /\ Total \in Nat /\ Len(content) \in Nat
           /\ file.inode \in 0..Len(content) /\ file.written \in Int
           /\ \A i \in 1..Len(content) :
                 Len(Written(i)) \in Nat /\ Len(content[i]) \in Nat
                 /\ Len(content[i]) <= Len(Written(i))
           /\ \A m \in 0..MaxName : dir[m] \in 0..Len(content)
<1>1. /\ FileTypeOK /\ Types /\ file.written \in Int
      /\ env.restarts \in Nat /\ env.carried \in Nat /\ env.rollFails \in Nat
  BY DEF BaseInv, Types, Files, EnvType
<1>2. \A a, b \in Nat : a * b \in Nat /\ a + b \in Nat
  OBVIOUS
<1>3. Earlier \in Nat /\ Total \in Nat
  <2>1. /\ env.restarts * PerRun \in Nat /\ env.carried * MaxLen \in Nat
        /\ env.rollFails * MaxLen \in Nat /\ PerRun \in Nat
    BY <1>1, <1>2, Constants
  <2> QED
    BY <1>2, <2>1, Zenon DEF Earlier, Total
<1>4. Len(content) \in Nat /\ Len(file.buf) \in Nat
  BY <1>1, Numbers
<1>5. ASSUME NEW i \in 1..Len(content)
      PROVE  Len(Written(i)) \in Nat /\ Len(content[i]) \in Nat
             /\ Len(content[i]) <= Len(Written(i))
  <2>1. Len(content[i]) \in Nat /\ Len(Written(i)) \in Nat
    BY <1>1, WrittenType, Numbers
  <2>2. CASE i = file.inode
    <3>1. Len(Written(i)) = Len(content[i]) + Len(file.buf)
      BY <1>1, <2>2, WrittenType
    <3>2. \A a, b, w \in Nat : w = a + b => a <= w
      OBVIOUS
    <3> QED
      BY <1>4, <2>1, <3>1, <3>2, Zenon
  <2>3. CASE i # file.inode
    <3>1. Written(i) = content[i]
      BY <1>1, <2>3, WrittenType
    <3> QED
      BY <2>1, <3>1
  <2> QED
    BY <2>1, <2>2, <2>3
<1> QED
  BY <1>1, <1>3, <1>4, <1>5, Constants DEF FileTypeOK

\* What the files hold or are about to hold in the next state.
LEMMA NextWritten ==
    ASSUME BaseInv'
    PROVE  /\ Len(content') \in Nat
           /\ \A i \in 1..Len(content') : Written(i)' \in Seq(Nat) /\ Len(Written(i)') \in Nat
<1>1. content' \in Seq(Seq(Nat)) /\ file'.buf \in Seq(Nat)
  BY DEF BaseInv, Types, Files
<1>2. ASSUME NEW i \in 1..Len(content') PROVE Written(i)' \in Seq(Nat)
  <2>1. content'[i] \in Seq(Nat)
    BY <1>1, ElementOfSeq
  <2>2. content'[i] \o file'.buf \in Seq(Nat)
    BY <1>1, <2>1, ConcatProperties
  <2> QED
    BY <2>1, <2>2 DEF Written
<1> QED
  BY <1>1, <1>2, LenProperties

\* A file that loses its end is shorter.
LEMMA LosesShorter ==
    ASSUME BaseInv, BaseInv', NEW b \in Seq(Nat), LosesEnd(b)
    PROVE  \A i \in 1..Len(content') :
               /\ i \in 1..Len(content) => Len(Written(i)') <= Len(Written(i))
               /\ i \notin 1..Len(content) => Len(Written(i)') = 0
<1>1. Len(content) \in Nat /\ Len(content') \in Nat /\ Len(content') >= Len(content)
  BY Lengths, NextWritten DEF LosesEnd
<1>2. ASSUME NEW i \in 1..Len(content') PROVE Written(i)' \in Seq(Nat) /\ Len(Written(i)') \in Nat
  BY NextWritten
<1>3. ASSUME NEW i \in 1..Len(content'), i \in 1..Len(content)
      PROVE  Len(Written(i)') <= Len(Written(i))
  <2>1. CASE i = file.inode
    <3>1. Written(i) = Written(i)' \o b
      BY <1>3, <2>1 DEF LosesEnd
    <3> DEFINE w == Written(i)'
    <3>2. w \in Seq(Nat) /\ Len(w) \in Nat /\ Len(b) \in Nat
      BY <1>2, LenProperties
    <3>3. Written(i) = w \o b
      BY <3>1
    <3> HIDE DEF w
    <3>4. Len(w \o b) = Len(w) + Len(b)
      BY <3>2, ConcatProperties
    <3>5. Len(w) <= Len(Written(i))
      BY <3>2, <3>3, <3>4
    <3> QED
      BY <3>5 DEF w
  <2>2. CASE i # file.inode
    <3>1. Written(i)' = Written(i)
      BY <1>3, <2>2 DEF LosesEnd
    <3>2. Len(Written(i)') \in Nat
      BY <1>2
    <3> QED
      BY <3>1, <3>2
  <2> QED
    BY <2>1, <2>2
<1>4. ASSUME NEW i \in 1..Len(content'), i \notin 1..Len(content) PROVE Len(Written(i)') = 0
  <2>1. i > Len(content)
    BY <1>1, <1>4
  <2>2. Written(i)' = <<>>
    BY <2>1 DEF LosesEnd
  <2> QED
    BY <2>2
<1> QED
  BY <1>3, <1>4

\* The bounds of the next state are numbers.
LEMMA NextLengths ==
    ASSUME BaseInv'
    PROVE  Earlier' \in Nat /\ Total' \in Nat
<1>1. env'.restarts \in Nat /\ env'.carried \in Nat /\ env'.rollFails \in Nat
  BY DEF BaseInv, Types, EnvType
<1>2. \A a, b \in Nat : a * b \in Nat /\ a + b \in Nat
  OBVIOUS
<1>3. /\ env'.restarts * PerRun \in Nat /\ env'.carried * MaxLen \in Nat
      /\ env'.rollFails * MaxLen \in Nat /\ PerRun \in Nat /\ PerRun' = PerRun
  BY <1>1, <1>2, Constants DEF PerRun
<1> QED
  BY <1>2, <1>3, Zenon DEF Earlier, Total

\* A step that adds no character to a file: the FILE that is open then had few.
LEMMA GrowthKept ==
    ASSUME BaseInv, BaseInv', GrowthInv, NEW b \in Seq(Nat), LosesEnd(b), env.short = 0,
           Earlier' = Earlier, Total' >= Total, fault' # "killed", file'.written \in Nat,
           Earlier + file'.written <= Total',
           appender'.pc # "roll" => Earlier + file'.written + MaxLen <= Total',
           \A i \in 1..Len(content) :
               /\ i = file'.inode => Len(Written(i)) <= Earlier + file'.written
               /\ \A m \in 0..MaxName :
                     m >= rollIndex' /\ dir'[m] = i => Len(Written(i)) <= Earlier
    PROVE  GrowthInv'
<1> DEFINE E == Earlier
           T == Total
           U == Total'
           W(i) == Len(Written(i))
           V(i) == Len(Written(i)')
<1>1. /\ E \in Nat /\ T \in Nat /\ U \in Nat /\ U >= T /\ PerRun \in Nat
      /\ \A i \in 1..Len(content) : W(i) \in Nat /\ W(i) <= T
      /\ \A i \in 1..Len(content') : V(i) \in Nat
      /\ E + PerRun <= T
  <2>1. /\ \A i \in 1..Len(content) : W(i) <= T
        /\ E + PerRun <= T
    BY DEF GrowthInv
  <2>2. U \in Nat
    BY NextLengths
  <2> QED
    BY <2>1, <2>2, Lengths, NextWritten, Constants
<1>2. \A i \in 1..Len(content') :
          /\ i \in 1..Len(content) => V(i) <= W(i)
          /\ i \notin 1..Len(content) => V(i) = 0
  BY LosesShorter
<1> HIDE DEF E, T, U, W, V
<1>3. ASSUME NEW i \in 1..Len(content')
      PROVE  /\ V(i) <= U
             /\ i = file'.inode => V(i) <= E + file'.written
             /\ \A m \in 0..MaxName : m >= rollIndex' /\ dir'[m] = i => V(i) <= E
  <2>1. CASE i \in 1..Len(content)
    <3>1. V(i) <= W(i) /\ V(i) \in Nat /\ W(i) \in Nat /\ W(i) <= T
      BY <1>1, <1>2, <2>1
    <3>2. \A y \in Nat : W(i) <= y => V(i) <= y
      BY <3>1
    <3>3. /\ i = file'.inode => W(i) <= E + file'.written
          /\ \A m \in 0..MaxName : m >= rollIndex' /\ dir'[m] = i => W(i) <= E
      BY <2>1 DEF E, W
    <3>4. E + file'.written \in Nat /\ W(i) <= U
      BY <1>1, <3>1
    <3> QED
      BY <1>1, <3>2, <3>3, <3>4
  <2>2. CASE i \notin 1..Len(content)
    <3>1. V(i) = 0
      BY <1>2, <2>2
    <3>2. 0 <= U /\ 0 <= E + file'.written /\ 0 <= E
      BY <1>1
    <3> QED
      BY <3>1, <3>2
  <2> QED
    BY <2>1, <2>2
<1>4. E + PerRun <= U /\ PerRun' = PerRun
  BY <1>1 DEF PerRun
<1> QED
  BY <1>3, <1>4, Zenon DEF GrowthInv, E, U, V

\* The bounds stay what they are unless a roll fails or the process is killed.
LEMMA SameTotals ==
    ASSUME env'.restarts = env.restarts, env'.carried = env.carried,
           env'.rollFails = env.rollFails
    PROVE  Earlier' = Earlier /\ Total' = Total
BY DEF Earlier, Total, PerRun

\* A FILE that is opened has only characters of earlier runs.
LEMMA OpenGrowth ==
    ASSUME BaseInv, BaseInv', GrowthInv, env.short = 0, NEW k \in 0..Len(file.buf),
           NEW name \in 0..MaxName, OpenFile(name, Flushed(file.buf, k), Noted(file.buf, k)),
           lost' = lost \o Rest(file.buf, k), fault' # "killed",
           \A i \in 1..Len(content), m \in 0..MaxName :
               dir[m] = i /\ (m = name \/ m >= rollIndex') => Len(Written(i)) <= Earlier
    PROVE  GrowthInv'
<1> DEFINE c == Flushed(file.buf, k)
           e == Noted(file.buf, k)
           b == Rest(file.buf, k)
<1>1. FileTypeOK /\ Types /\ WrapperInv /\ file.buf \in Seq(Nat)
  BY DEF BaseInv, Types, Files
<1>2. /\ c \in Seq(Seq(Nat)) /\ Len(c) = Len(content)
      /\ e \in EnvType /\ e.restarts = env.restarts /\ e.carried = env.carried
      /\ e.rollFails = env.rollFails
  BY <1>1, FlushedContent, NotedFields
<1>3. b \in Seq(Nat) /\ LosesEnd(b)
  BY <1>1, OpenLoses DEF Losing
<1>4. OpenFile(name, c, e)
  OBVIOUS
<1> HIDE DEF b, c, e
<1>5. /\ \A m \in 0..MaxName : m # name => dir'[m] = dir[m]
      /\ dir'[name] = file'.inode
      /\ dir[name] # 0 => file'.inode = dir[name]
      /\ dir[name] = 0 => file'.inode > Len(content)
      /\ file'.written = 0
      /\ env'.restarts = e.restarts /\ env'.carried = e.carried /\ env'.rollFails = e.rollFails
  BY <1>1, <1>2, <1>4, OpenedFile
<1>6. Earlier' = Earlier /\ Total' = Total
  BY <1>2, <1>5, SameTotals
<1>7. Len(content) \in Nat /\ Earlier \in Nat /\ Total \in Nat
  BY Lengths
<1>8. ASSUME NEW i \in 1..Len(content), i = file'.inode PROVE Len(Written(i)) <= Earlier
  BY <1>5, <1>7, <1>8
<1>9. ASSUME NEW i \in 1..Len(content), NEW m \in 0..MaxName, m >= rollIndex', dir'[m] = i
      PROVE  Len(Written(i)) <= Earlier
  BY <1>5, <1>8, <1>9
<1>10. Earlier + PerRun <= Total
  BY DEF GrowthInv
<1>11. /\ 0 \in Nat /\ Earlier + 0 = Earlier /\ Earlier + 0 <= Total /\ Total >= Total
       /\ Earlier + 0 + MaxLen <= Total
  BY <1>7, <1>10, Constants
<1> QED
  BY <1>3, <1>5, <1>6, <1>8, <1>9, <1>11, GrowthKept

\* A step that leaves the FILE open, or closes it, and opens no other.
LEMMA SameGrowth ==
    ASSUME BaseInv, BaseInv', GrowthInv, env.short = 0, NEW b, Losing(b),
           env'.restarts = env.restarts, env'.carried = env.carried,
           env'.rollFails = env.rollFails, fault' # "killed",
           file'.inode \in {0, file.inode}, file'.written = file.written,
           appender'.pc = "roll" \/ appender.pc # "roll" \/ file.written < RollSize,
           rollIndex' = rollIndex,
           \A m \in 0..MaxName : dir'[m] \in {0, dir[m]} \/ dir'[m] > Len(content)
    PROVE  GrowthInv'
<1>1. Earlier' = Earlier /\ Total' = Total /\ b \in Seq(Nat) /\ LosesEnd(b)
  BY SameTotals DEF Losing
<1>2. /\ Earlier \in Nat /\ Total \in Nat /\ Len(content) \in Nat
      /\ file.written \in Nat /\ Earlier + PerRun <= Total
      /\ Earlier + file.written <= Total
      /\ appender.pc # "roll" => Earlier + file.written + MaxLen <= Total
  BY Lengths DEF GrowthInv
<1>3. appender'.pc # "roll" => Earlier + file.written + MaxLen <= Total
  <2>1. ASSUME file.written < RollSize PROVE Earlier + file.written + MaxLen <= Total
    BY <1>2, <2>1, Constants DEF PerRun
  <2> QED
    BY <1>2, <2>1
<1>4. ASSUME NEW i \in 1..Len(content)
      PROVE  /\ i = file'.inode => Len(Written(i)) <= Earlier + file'.written
             /\ \A m \in 0..MaxName :
                   m >= rollIndex' /\ dir'[m] = i => Len(Written(i)) <= Earlier
  <2>1. i # 0 /\ ~(i > Len(content))
    BY <1>2
  <2> QED
    BY <2>1 DEF GrowthInv
<1>5. Total >= Total
  BY <1>2
<1> QED
  BY <1>1, <1>2, <1>3, <1>4, <1>5, GrowthKept

\* A file that is opened again is empty and starts its count at nothing.
LEMMA BeginAppendGrowth ==
    ASSUME BaseInv, BaseInv', GrowthInv, env.short = 0,
           NEW len \in 1..MaxLen, NEW k \in 0..Len(file.buf), BeginAppend(len, k)
    PROVE  GrowthInv'
<1>1. FileTypeOK /\ Types /\ DirInv /\ file \in Files
  BY DEF BaseInv, Types
<1>2. rollIndex' = rollIndex /\ fault = "none" /\ appender.pc = "idle"
  BY DEF BeginAppend, Alive
<1>3. \E b : Losing(b)
  BY BeginAppendLoses
<1>4. /\ env'.restarts = env.restarts /\ env'.carried = env.carried
      /\ env'.rollFails = env.rollFails
  <2>1. Quiet
    BY DEF Quiet
  <2>2. ~RollFails
    BY <1>2 DEF RollFails
  <2> QED
    BY <2>1, <2>2, QuietEnv
<1>5. CASE UNCHANGED <<dir, file>> /\ fault' \in {"null", fault}
  BY <1>2, <1>3, <1>4, <1>5, SameGrowth
<1>6. CASE /\ file.valid
           /\ dir[file.name] # file.inode
           /\ OpenFile(file.name, Flushed(file.buf, k), Noted(file.buf, k))
           /\ lost' = lost \o Rest(file.buf, k)
           /\ UNCHANGED fault
  <2>1. /\ file.name \in 0..MaxName
        /\ dir[file.name] # 0 => content[dir[file.name]] = <<>>
    BY <1>1, <1>6 DEF DirInv
  <2>2. ASSUME NEW i \in 1..Len(content), NEW m \in 0..MaxName, dir[m] = i,
               m = file.name \/ m >= rollIndex'
        PROVE  Len(Written(i)) <= Earlier
    <3>1. CASE m >= rollIndex
      BY <2>2, <3>1 DEF GrowthInv
    <3>2. CASE m = file.name
      <4>1. i # 0 /\ content[i] = <<>> /\ i # file.inode
        BY <1>6, <2>1, <2>2, <3>2
      <4>2. Written(i) = <<>> /\ Earlier \in Nat
        BY <4>1, Lengths DEF Written
      <4> QED
        BY <4>2
    <3> QED
      BY <1>2, <2>2, <3>1, <3>2
  <2> QED
    BY <1>2, <1>6, <2>1, <2>2, OpenGrowth
<1>7. CASE /\ file' = [file EXCEPT !.valid = FALSE, !.raw = 0, !.inode = 0, !.buf = <<>>]
           /\ UNCHANGED <<dir, fault>>
  <2>1. file'.inode = 0 /\ file'.written = file.written
    BY <1>1, <1>7 DEF Files
  <2> QED
    BY <1>2, <1>3, <1>4, <1>7, <2>1, SameGrowth
<1> QED
  BY <1>5, <1>6, <1>7 DEF BeginAppend

\* A whole write adds its message to the file and to the count.
LEMMA WriteRoundGrowth ==
    ASSUME BaseInv, BaseInv', WholeWrites, GrowthInv, env.short = 0,
           NEW x \in 0..appender.len, NEW k \in 0..Len(Buffered(x)), WriteRound(x, k)
    PROVE  GrowthInv'
<1>1. /\ FileTypeOK /\ Types /\ DirInv /\ file.inode # 0 /\ file.written \in Int
      /\ appender.pc = "write"
  BY DEF BaseInv, Types, Files, WriteRound, WrapperInv
<1>2. appender.len \in 1..MaxLen /\ appender.remain = appender.len
  BY <1>1 DEF WholeWrites
<1>3. CASE x # appender.len
  <2>1. x < appender.len
    BY <1>2, <1>3
  <2>2. env'.short = env.short + 1 /\ env.short \in Nat
    BY <2>1, WriteRoundEnv
  <2>3. env'.short # 0
    BY <2>2
  <2> QED
    BY <2>3 DEF GrowthInv
<1>4. CASE x = appender.len
  <2> DEFINE s == [j \in 1..x |-> Len(sizes) + 1]
  <2>1. /\ x \in Nat /\ x <= MaxLen /\ MaxLen \in Nat /\ appender.remain - x = 0
        /\ appender.len - 0 = x /\ ~(x < appender.len)
    BY <1>2, <1>4, Constants
  <2>2. Put(Len(sizes) + 1, x, x) /\ appender'.pc = "roll"
    BY <1>2, <1>4, <2>1 DEF WriteRound, Idle
  <2>3. Len(sizes) + 1 \in Nat /\ Len(content) \in Nat
    BY <1>1, Numbers
  <2>4. /\ s \in Seq(Nat) /\ Len(s) = x /\ Len(content') = Len(content)
        /\ file'.written = file.written + x /\ file'.inode = file.inode
        /\ \A i \in 1..Len(content) :
              /\ i # file.inode => Written(i)' = Written(i)
              /\ i = file.inode => Written(i)' = Written(i) \o s
    <3>1. Put(Len(sizes) + 1, x, x) /\ x \in Int
      BY <2>1, <2>2
    <3>2. /\ s \in Seq(Nat) /\ Len(s) = x
          /\ Len(content') = Len(content)
          /\ file'.written = file.written + x
          /\ <<file'.exists, file'.valid, file'.name, file'.raw, file'.inode>> =
                <<file.exists, file.valid, file.name, file.raw, file.inode>>
          /\ \A i \in 1..Len(content) :
                /\ i # file.inode => Written(i)' = Written(i) /\ content'[i] = content[i]
                /\ i = file.inode => Written(i)' = Written(i) \o s
      <4>1. FileTypeOK /\ Types /\ file.inode # 0 /\ x \in Nat /\ Len(sizes) + 1 \in Nat
        BY <1>1, <2>1, <2>3
      <4> QED
        BY <3>1, <4>1, PutWrites
    <3> HIDE DEF s
    <3> QED
      BY <3>2
  <2> HIDE DEF s
  <2>5. /\ UNCHANGED <<dir, rollIndex, fault>> /\ fault = "none"
        /\ Earlier' = Earlier /\ Total' = Total /\ PerRun' = PerRun
    BY SameTotals, WriteRoundEnv DEF WriteRound, Alive, PerRun
  <2>6. /\ file.written \in Nat /\ Earlier + file.written + MaxLen <= Total
        /\ Earlier \in Nat /\ Total \in Nat /\ Earlier + PerRun <= Total
    BY <1>1, Lengths DEF GrowthInv
  <2>7. file'.written \in Nat /\ Earlier + file'.written <= Total
    BY <2>1, <2>4, <2>6
  <2>8. ASSUME NEW i \in 1..Len(content), i = file.inode
        PROVE  Len(Written(i)') <= Earlier + file'.written /\ Len(Written(i)') <= Total
    <3>1. Len(Written(i)) <= Earlier + file.written
      BY <2>8 DEF GrowthInv
    <3>2. Written(i) \in Seq(Nat) /\ Len(Written(i)) \in Nat
      BY <1>1, WrittenType
    <3>3. Len(Written(i)') = Len(Written(i)) + x
      BY <2>4, <2>8, <3>2, ConcatProperties
    <3>4. \A a, d, f, g, t \in Nat : a <= d + f /\ g = f + x /\ d + g <= t
                                       => a + x <= d + g /\ a + x <= t
      BY <2>1
    <3>5. Len(Written(i)) + x <= Earlier + file'.written /\ Len(Written(i)) + x <= Total
      BY <2>4, <2>6, <2>7, <3>1, <3>2, <3>4, Zenon
    <3> QED
      BY <3>3, <3>5
  <2>9. ASSUME NEW i \in 1..Len(content)
        PROVE  /\ Len(Written(i)') <= Total
               /\ i = file.inode => Len(Written(i)') <= Earlier + file'.written
               /\ \A m \in 0..MaxName :
                     m >= rollIndex /\ dir[m] = i => Len(Written(i)') <= Earlier
    <3>1. CASE i = file.inode
      <4>1. \A m \in 0..MaxName : ~(m >= rollIndex /\ dir[m] = i)
        BY <1>1, <3>1 DEF DirInv
      <4> QED
        BY <2>8, <3>1, <4>1
    <3>2. CASE i # file.inode
      BY <2>4, <3>2 DEF GrowthInv
    <3> QED
      BY <3>1, <3>2
  <2> QED
    BY <2>2, <2>4, <2>5, <2>6, <2>7, <2>9 DEF GrowthInv
<1> QED
  BY <1>3, <1>4

\* KeepFile, BeginFlush, EndFlush, Unlink and Replace open no file.
LEMMA OthersGrowth ==
    ASSUME BaseInv, BaseInv', GrowthInv, env.short = 0,
           \/ KeepFile \/ BeginFlush \/ \E k \in 0..Len(file.buf) : EndFlush(k)
           \/ \E name \in 0..MaxName : Unlink(name) \/ Replace(name)
    PROVE  GrowthInv'
<1>1. FileTypeOK /\ file \in Files
  BY DEF BaseInv, Types
<1>2. /\ rollIndex' = rollIndex /\ fault' # "killed"
  BY DEF KeepFile, BeginFlush, EndFlush, Unlink, Replace, Alive
<1>3. /\ env'.restarts = env.restarts /\ env'.carried = env.carried
      /\ env'.rollFails = env.rollFails /\ \E b : Losing(b)
  <2>1. CASE \E k \in 0..Len(file.buf) : EndFlush(k)
    BY <2>1, EndFlushEnv, EndFlushLoses
  <2>2. CASE KeepFile \/ BeginFlush \/ \E name \in 0..MaxName : Unlink(name) \/ Replace(name)
    <3>1. Quiet
      BY <2>2 DEF Quiet
    <3>2. CASE ~RollFails
      BY <3>1, <3>2, QuietEnv, QuietLoses
    <3>3. CASE RollFails
      <4>1. ~KeepFile
        BY <3>3 DEF KeepFile, RollFails
      <4>2. env'.rollFails = env.rollFails
        <5>1. env \in EnvType
          BY DEF BaseInv, Types
        <5>2. CASE BeginFlush
          BY <5>1, <5>2 DEF BeginFlush, EnvType
        <5>3. CASE \E name \in 0..MaxName : Unlink(name) \/ Replace(name)
          BY <5>1, <5>3 DEF Unlink, Replace, EnvType
        <5> QED
          BY <2>2, <4>1, <5>2, <5>3
      <4> QED
        BY <3>1, <4>2, QuietEnv, QuietLoses
    <3> QED
      BY <3>2, <3>3
  <2> QED
    BY <2>1, <2>2
<1>4. file'.inode = file.inode /\ file'.written = file.written
  <2>1. file' = file \/ file' = [file EXCEPT !.buf = <<>>]
    BY DEF KeepFile, BeginFlush, EndFlush, Unlink, Replace
  <2> QED
    BY <1>1, <2>1 DEF Files
<1>5. appender'.pc = "roll" \/ appender.pc # "roll" \/ file.written < RollSize
  <2>1. CASE KeepFile
    BY <1>1, <2>1, Constants DEF KeepFile, NeedsRoll, Files
  <2>2. CASE ~KeepFile
    BY <2>2 DEF BeginFlush, EndFlush, Unlink, Replace
  <2> QED
    BY <2>1, <2>2
<1>6. \A m \in 0..MaxName : dir'[m] \in {0, dir[m]} \/ dir'[m] > Len(content)
  <2>1. dir' = dir \/ \E name \in 0..MaxName : \E v \in {0, Len(content) + 1} :
                           dir' = [dir EXCEPT ![name] = v]
    BY DEF KeepFile, BeginFlush, EndFlush, Unlink, Replace
  <2>2. Len(content) \in Nat /\ dir \in [0..MaxName -> 0..Len(content)]
    BY <1>1, Lengths DEF FileTypeOK
  <2>3. ASSUME NEW name \in 0..MaxName, NEW v \in {0, Len(content) + 1},
               dir' = [dir EXCEPT ![name] = v], NEW m \in 0..MaxName
        PROVE  dir'[m] \in {0, dir[m]} \/ dir'[m] > Len(content)
    <3>1. dir'[m] = IF m = name THEN v ELSE dir[m]
      BY <2>2, <2>3
    <3>2. Len(content) + 1 > Len(content)
      BY <2>2
    <3> QED
      BY <3>1, <3>2
  <2> QED
    BY <2>1, <2>3
<1> QED
  BY <1>2, <1>3, <1>4, <1>5, <1>6, SameGrowth

\* The next file has grown by nothing in this run,
LEMMA RollGrowth ==
    ASSUME BaseInv, BaseInv', GrowthInv, env.short = 0, NEW k \in 0..Len(file.buf), Roll(k)
    PROVE  GrowthInv'
<1>1. /\ rollIndex \in 0..MaxName /\ rollIndex' = rollIndex + 1 /\ fault' # "killed"
      /\ OpenFile(rollIndex, Flushed(file.buf, k), Noted(file.buf, k))
      /\ lost' = lost \o Rest(file.buf, k)
  BY Constants DEF Roll, Alive, BaseInv, FileTypeOK
<1>2. ASSUME NEW i \in 1..Len(content), NEW m \in 0..MaxName, dir[m] = i,
             m = rollIndex \/ m >= rollIndex'
      PROVE  Len(Written(i)) <= Earlier
  <2>1. m >= rollIndex
    BY <1>1, <1>2
  <2> QED
    BY <1>2, <2>1 DEF GrowthInv
<1> QED
  BY <1>1, <1>2, OpenGrowth

\* and if it cannot be opened the old one gets another message.
LEMMA RollFailsGrowth ==
    ASSUME BaseInv, BaseInv', GrowthInv, env.short = 0, RollFails
    PROVE  GrowthInv'
<1>1. env \in EnvType /\ env.rollFails \in Nat /\ env.restarts \in Nat /\ env.carried \in Nat
  BY DEF BaseInv, Types, EnvType
<1>2. /\ UNCHANGED <<dir, content, file, rollIndex, fault>> /\ fault = "none"
      /\ env' = [env EXCEPT !.failures = @ + 1, !.rollFails = @ + 1]
  BY DEF RollFails, Alive
<1>3. /\ env'.restarts = env.restarts /\ env'.carried = env.carried
      /\ env'.rollFails = env.rollFails + 1
  BY <1>1, <1>2 DEF EnvType
<1>4. Quiet /\ \E b : Losing(b)
  BY QuietLoses DEF Quiet
<1>5. PICK b : b \in Seq(Nat) /\ LosesEnd(b)
  BY <1>4 DEF Losing
<1>6. Earlier' = Earlier
  BY <1>3 DEF Earlier, PerRun
<1>7. Total' = Total + MaxLen
  <2>1. \A a, d \in Nat : (a + 1) * d = a * d + d /\ a * d \in Nat
    OBVIOUS
  <2>2. /\ (env.rollFails + 1) * MaxLen = env.rollFails * MaxLen + MaxLen
        /\ env.rollFails * MaxLen \in Nat /\ env.restarts * PerRun \in Nat
        /\ PerRun \in Nat /\ MaxLen \in Nat
    BY <1>1, <2>1, Constants
  <2> DEFINE p == env.restarts * PerRun
             q == env.rollFails * MaxLen
  <2>3. Total' = p + PerRun + (env.rollFails + 1) * MaxLen
    BY <1>3 DEF Total, PerRun
  <2>4. Total = p + PerRun + q /\ (env.rollFails + 1) * MaxLen = q + MaxLen
    BY <2>2 DEF Total
  <2>5. p \in Nat /\ q \in Nat /\ PerRun \in Nat /\ MaxLen \in Nat
    BY <2>2
  <2> HIDE DEF p, q
  <2>6. Total' = p + PerRun + (q + MaxLen)
    BY <2>3, <2>4
  <2> QED
    BY <2>4, <2>5, <2>6
<1>8. /\ Earlier \in Nat /\ Total \in Nat /\ file.written \in Nat
      /\ Earlier + file.written <= Total
  BY Lengths DEF GrowthInv
<1>9. /\ Total + MaxLen >= Total /\ Earlier + file.written <= Total + MaxLen
      /\ Earlier + file.written + MaxLen <= Total + MaxLen
  BY <1>8, Constants
<1>10. ASSUME NEW i \in 1..Len(content)
       PROVE  /\ i = file'.inode => Len(Written(i)) <= Earlier + file'.written
              /\ \A m \in 0..MaxName :
                    m >= rollIndex' /\ dir'[m] = i => Len(Written(i)) <= Earlier
  BY <1>2 DEF GrowthInv
<1> QED
  BY <1>2, <1>5, <1>6, <1>7, <1>8, <1>9, <1>10, GrowthKept

\* A killed process starts its count again.
LEMMA KillGrowth ==
    ASSUME BaseInv, BaseInv', GrowthInv, env.short = 0, Kill
    PROVE  GrowthInv'
<1>1. env \in EnvType /\ env.rollFails \in Nat /\ env.restarts \in Nat
  BY DEF BaseInv, Types, EnvType
<1>2. /\ file' = NoFile /\ content' = content /\ appender' = Idle
      /\ env'.restarts = env.restarts + 1 /\ env'.carried = env.rollFails
      /\ env'.rollFails = env.rollFails
  BY <1>1 DEF Kill, EnvType
<1>3. /\ Total \in Nat /\ PerRun \in Nat /\ MaxLen \in Nat /\ PerRun >= MaxLen
      /\ \A i \in 1..Len(content) :
            Len(Written(i)) \in Nat /\ Len(content[i]) \in Nat
            /\ Len(content[i]) <= Len(Written(i))
  BY Lengths, Constants
<1>4. Earlier' = Total /\ Total' = Total + PerRun /\ PerRun' = PerRun
  <2>1. \A a, d \in Nat : (a + 1) * d = a * d + d /\ a * d \in Nat
    OBVIOUS
  <2>2. /\ (env.restarts + 1) * PerRun = env.restarts * PerRun + PerRun
        /\ env.rollFails * MaxLen \in Nat /\ env.restarts * PerRun \in Nat
    BY <1>1, <1>3, <2>1
  <2> DEFINE p == env.restarts * PerRun
             q == env.rollFails * MaxLen
             r == (env.restarts + 1) * PerRun
  <2>3. PerRun' = PerRun
    BY DEF PerRun
  <2>4. Earlier' = r + q /\ Total' = r + PerRun + q
    BY <1>2, <2>3 DEF Earlier, Total
  <2>5. Total = p + PerRun + q /\ r = p + PerRun
    BY <2>2 DEF Total
  <2>6. p \in Nat /\ q \in Nat /\ PerRun \in Nat
    BY <1>3, <2>2
  <2> HIDE DEF p, q, r
  <2>7. Earlier' = (p + PerRun) + q /\ Total' = (p + PerRun) + PerRun + q
    BY <2>4, <2>5
  <2> QED
    BY <2>3, <2>5, <2>6, <2>7
<1>5. ASSUME NEW i \in 1..Len(content)
      PROVE  Len(Written(i)') <= Earlier' /\ Len(Written(i)') <= Total'
             /\ i # file'.inode
  <2>1. i # 0
    OBVIOUS
  <2>2. Written(i)' = content[i] /\ i # file'.inode
    BY <1>2, <2>1 DEF Written, NoFile
  <2>3. Len(Written(i)) <= Total
    BY DEF GrowthInv
  <2>4. Len(content[i]) <= Total /\ Len(content[i]) <= Total + PerRun
    BY <1>3, <2>3
  <2> QED
    BY <1>4, <2>2, <2>4
<1>6. /\ file'.written = 0 /\ 0 \in Nat /\ Total + PerRun <= Total + PerRun
      /\ Total + 0 <= Total + PerRun /\ Total + 0 + MaxLen <= Total + PerRun
  BY <1>2, <1>3 DEF NoFile
<1> QED
  BY <1>2, <1>4, <1>5, <1>6 DEF GrowthInv

\* The next run has another allowance for each file.
LEMMA RestartGrowth ==
    ASSUME BaseInv, BaseInv', GrowthInv, env.short = 0, Restart
    PROVE  GrowthInv'
<1>1. Types /\ WrapperInv /\ file.buf \in Seq(Nat)
  BY DEF BaseInv, Types, Files
<1>2. /\ fault = "killed" /\ fault' = "none" /\ file.inode = 0 /\ file.written = 0
      /\ appender' = appender /\ appender.pc = "idle" /\ file.buf = <<>> /\ lost' = lost
  BY <1>1 DEF Restart, WrapperInv
<1>3. \A i \in 1..Len(content) : Len(Written(i)) <= Earlier
  BY <1>2 DEF GrowthInv
<1>4. CASE OpenFile(0, content, env)
  <2>1. 0 \in 0..Len(file.buf) /\ Len(file.buf) = 0 /\ 0 \in 0..MaxName
    BY <1>2, Constants
  <2>2. Flushed(file.buf, 0) = content /\ Noted(file.buf, 0) = env
    BY <1>2, <2>1 DEF Flushed, Noted
  <2>3. Rest(file.buf, 0) = <<>>
    BY <1>1, <2>1, CutInTwo DEF Rest
  <2>4. lost' = lost \o Rest(file.buf, 0)
    BY <1>1, <1>2, <2>3, ConcatEmptySeq DEF Types
  <2> QED
    BY <1>2, <1>3, <1>4, <2>1, <2>2, <2>4, OpenGrowth
<1>5. CASE UNCHANGED <<dir, content, file>> /\ env' = [env EXCEPT !.failures = @ + 1]
  <2>1. Quiet /\ ~RollFails
    BY <1>2 DEF Quiet, RollFails, Alive
  <2>2. Earlier' = Earlier /\ Total' = Total
    BY <2>1, QuietEnv, SameTotals
  <2>3. PICK b : b \in Seq(Nat) /\ LosesEnd(b)
    BY <2>1, QuietLoses DEF Losing
  <2>4. /\ Total >= Total /\ Earlier + 0 <= Total /\ Earlier + 0 + MaxLen <= Total
        /\ \A i \in 1..Len(content) : i # 0
    <3>1. Earlier \in Nat /\ Total \in Nat /\ Earlier + PerRun <= Total
      BY Lengths DEF GrowthInv
    <3> QED
      BY <3>1, Constants
  <2> QED
    BY <1>2, <1>3, <1>5, <2>2, <2>3, <2>4, GrowthKept
<1> QED
  BY <1>4, <1>5 DEF Restart

\* A short write is not forgotten.
LEMMA ShortGrows ==
    ASSUME BaseInv, FileNext, env.short # 0
    PROVE  env'.short # 0
<1>1. env.short \in Nat
  BY DEF BaseInv, Types, EnvType
<1>2. CASE Quiet
  BY <1>2, QuietLoses DEF Losing
<1>3. CASE \E k \in 0..Len(file.buf) : EndFlush(k)
  BY <1>3, EndFlushEnv
<1>4. CASE \E x \in 0..appender.len : \E k \in 0..Len(Buffered(x)) : WriteRound(x, k)
  <2>1. env'.short \in {env.short, env.short + 1}
    BY <1>4, WriteRoundEnv
  <2> QED
    BY <1>1, <2>1
<1>5. CASE Kill
  BY <1>5 DEF Kill, BaseInv, Types, EnvType
<1> QED
  BY <1>2, <1>3, <1>4, <1>5, StepKinds

\* Every step keeps what a file grows by in a run within the allowance.
LEMMA NextGrowth ==
    ASSUME BaseInv, WholeWrites, GrowthInv, [FileNext]_fileVars
    PROVE  GrowthInv'
<1>1. BaseInv'
  BY NextBase
<1>2. CASE UNCHANGED fileVars
  BY <1>2 DEF fileVars, GrowthInv, Written, Earlier, Total, PerRun
<1>3. CASE env.short # 0 /\ FileNext
  BY <1>3, ShortGrows DEF GrowthInv
<1>4. CASE env.short = 0 /\ FileNext
  <2>1. Quiet => GrowthInv'
    BY <1>1, <1>4, BeginAppendGrowth, OthersGrowth, RollGrowth, RollFailsGrowth,
       RestartGrowth DEF Quiet
  <2> QED
    BY <1>1, <1>4, <2>1, WriteRoundGrowth, OthersGrowth, KillGrowth, StepKinds
<1> QED
  BY <1>2, <1>3, <1>4

\* No file has grown at the start.
LEMMA InitGrowth ==
    ASSUME FileInit
    PROVE  WholeWrites /\ GrowthInv
<1>1. /\ content = <<<<>>>> /\ file.inode = 1 /\ file.buf = <<>> /\ file.written = 0
      /\ appender.pc = "idle" /\ fault = "none" /\ env.restarts = 0 /\ env.carried = 0
      /\ env.rollFails = 0
  BY DEF FileInit, NoFile, Idle
<1>2. PerRun \in Nat /\ MaxLen \in Nat /\ PerRun >= MaxLen
  BY Constants
<1>3. Earlier = 0 /\ Total = PerRun
  <2>1. \A d \in Nat : 0 * d = 0
    OBVIOUS
  <2>2. 0 * PerRun = 0 /\ 0 * MaxLen = 0
    BY <1>2, <2>1
  <2>3. Earlier = 0 + 0 /\ Total = 0 + PerRun + 0
    BY <1>1, <2>2, Zenon DEF Earlier, Total
  <2> QED
    BY <1>2, <2>3
<1>4. Len(content) = 1 /\ content[1] = <<>>
  BY <1>1
<1>5. \A i \in 1..Len(content) : Written(i) = <<>>
  <2>1. <<>> \o <<>> = <<>>
    BY EmptySeq, ConcatEmptySeq
  <2>2. \A i \in 1..Len(content) : i = 1
    BY <1>4
  <2> QED
    BY <1>1, <1>4, <2>1, <2>2 DEF Written
<1>6. /\ Len(<<>>) = 0 /\ 0 \in Nat /\ 0 <= PerRun /\ 0 <= 0 + 0 /\ 0 <= 0
      /\ 0 + PerRun <= PerRun /\ 0 + 0 <= PerRun /\ 0 + 0 + MaxLen <= PerRun
  BY <1>2
<1>7. GrowthInv
  BY <1>1, <1>3, <1>5, <1>6, ZenonT(30) DEF GrowthInv
<1> QED
  BY <1>1, <1>7 DEF WholeWrites

\* RollBound: for any roll size and any message length a file outgrows the roll size
\* by less than a message in each run and by one more for each roll that failed, as
\* long as writes are whole (LogFile::append, AppendFileWrapper::append and
\* LogFile::roll, which is tried again after each message).
THEOREM RollKeepsFilesSmall == FileSpec => []RollBound
<1>1. FileInit => BaseInv /\ WholeWrites /\ GrowthInv
  BY InitBase, InitGrowth
<1>2. BaseInv /\ WholeWrites /\ GrowthInv /\ [FileNext]_fileVars
        => (BaseInv /\ WholeWrites /\ GrowthInv)'
  BY NextBase, NextWhole, NextGrowth
<1>3. BaseInv /\ WholeWrites /\ GrowthInv => RollBound
  <2> SUFFICES ASSUME BaseInv, GrowthInv, env.short = 0, NEW i \in 1..Len(content)
               PROVE  Len(Written(i)) <= (env.restarts + 1) * (RollSize - 1 + MaxLen)
                                             + env.rollFails * MaxLen
    BY DEF RollBound
  <2>1. Len(Written(i)) <= Total
    BY DEF GrowthInv
  <2>2. env.restarts \in Nat /\ PerRun \in Nat
    BY Constants DEF BaseInv, Types, EnvType
  <2>3. \A a, b \in Nat : (a + 1) * b = a * b + b
    OBVIOUS
  <2>4. (env.restarts + 1) * PerRun = env.restarts * PerRun + PerRun
    BY <2>2, <2>3
  <2> QED
    BY <2>1, <2>4, Zenon DEF Total, PerRun
<1> QED
  BY <1>1, <1>2, <1>3, PTL DEF FileSpec

-----------------------------------------------------------------------------
(* Where a character is, in files that hold or are about to hold w.        *)

Found(w, c) == UNION {{i} \X {j \in DOMAIN w[i] : w[i][j] = c} : i \in DOMAIN w}

\* The files hold what was reported in the messages z, in their order, except
\* for the characters l, which were lost.
FilesHold(w, l, z) ==
    /\ \A i \in 1..Len(w) : \A j \in 1..Len(w[i]) : w[i][j] \in 1..Len(z)
    /\ \A j \in 1..Len(l) : l[j] \in 1..Len(z)
    /\ \A i \in 1..Len(w) : \A j \in 2..Len(w[i]) : w[i][j - 1] <= w[i][j]
    /\ \A n \in 1..Len(z) : z[n] = Count(n, l) + Cardinality(Found(w, n))

\* The files as they are or are about to be.
AllWritten == [i \in 1..Len(content) |-> Written(i)]

OrderInv == env.short = 0 => FilesHold(AllWritten, lost, sizes)

\* How often a sequence holds a character is a number.
LEMMA CountType ==
    ASSUME NEW s \in Seq(Nat), NEW c
    PROVE  /\ IsFiniteSet({j \in DOMAIN s : s[j] = c})
           /\ Count(c, s) \in Nat
<1>1. DOMAIN s = 1..Len(s) /\ Len(s) \in Nat
  BY LenProperties
<1>2. IsFiniteSet(1..Len(s))
  BY <1>1, FS_Interval
<1>3. {j \in DOMAIN s : s[j] = c} \in SUBSET (1..Len(s))
  BY <1>1
<1>4. IsFiniteSet({j \in DOMAIN s : s[j] = c})
  BY <1>2, <1>3, FS_Subset
<1> QED
  BY <1>4, FS_CardinalityType DEF Count

\* Two sequences hold a character as often as the one behind the other.
LEMMA CountConcat ==
    ASSUME NEW a \in Seq(Nat), NEW b \in Seq(Nat), NEW c
    PROVE  Count(c, a \o b) = Count(c, a) + Count(c, b)
<1> DEFINE ab == a \o b
           X == {j \in DOMAIN ab : ab[j] = c}
           A == {j \in DOMAIN a : a[j] = c}
           B == {j \in DOMAIN b : b[j] = c}
           T == {j \in X : j > Len(a)}
           f == [j \in B |-> Len(a) + j]
<1>1. /\ ab \in Seq(Nat) /\ Len(ab) = Len(a) + Len(b)
      /\ \A i \in 1..Len(a) + Len(b) : ab[i] = IF i <= Len(a) THEN a[i] ELSE b[i - Len(a)]
  BY ConcatProperties
<1>2. /\ DOMAIN ab = 1..Len(a) + Len(b) /\ DOMAIN a = 1..Len(a) /\ DOMAIN b = 1..Len(b)
      /\ Len(a) \in Nat /\ Len(b) \in Nat
  BY <1>1, LenProperties
<1> HIDE DEF ab
<1>3. X = A \cup T
  <2>1. \A j \in 1..Len(a) + Len(b) : j <= Len(a) => j \in 1..Len(a) /\ ab[j] = a[j]
    BY <1>1, <1>2
  <2>2. \A j \in 1..Len(a) : j \in 1..Len(a) + Len(b) /\ j <= Len(a) /\ ab[j] = a[j]
    BY <1>1, <1>2
  <2>3. \A j \in X : j \in A \/ j \in T
    BY <1>2, <2>1
  <2>4. \A j \in A : j \in X
    BY <1>2, <2>2
  <2> QED
    BY <2>3, <2>4
<1>4. A \cap T = {}
  BY <1>2
<1>5. f \in Bijection(B, T)
  <2>1. ASSUME NEW j \in B PROVE f[j] \in T
    <3>1. j \in 1..Len(b) /\ b[j] = c /\ f[j] = Len(a) + j
      BY <1>2
    <3>2. Len(a) + j \in 1..Len(a) + Len(b) /\ ~(Len(a) + j <= Len(a)) /\ (Len(a) + j) - Len(a) = j
          /\ Len(a) + j > Len(a)
      BY <1>2, <3>1
    <3>3. ab[Len(a) + j] = c
      BY <1>1, <3>1, <3>2
    <3> QED
      BY <1>2, <3>1, <3>2, <3>3
  <2>2. ASSUME NEW t \in T PROVE \E j \in B : f[j] = t
    <3>1. t \in 1..Len(a) + Len(b) /\ t > Len(a) /\ ab[t] = c
      BY <1>2
    <3>2. t - Len(a) \in 1..Len(b) /\ Len(a) + (t - Len(a)) = t /\ ~(t <= Len(a))
      BY <1>2, <3>1
    <3>3. b[t - Len(a)] = c
      BY <1>1, <3>1, <3>2
    <3>4. t - Len(a) \in B
      BY <1>2, <3>2, <3>3
    <3> QED
      BY <3>2, <3>4
  <2>3. \A i, j \in B : f[i] = f[j] => i = j
    BY <1>2
  <2>4. f \in [B -> T]
    BY <2>1
  <2> QED
    BY <2>2, <2>3, <2>4, Fun_IsBij
<1>6. IsFiniteSet(A) /\ IsFiniteSet(B) /\ Count(c, a) \in Nat /\ Count(c, b) \in Nat
  BY CountType
<1>7. IsFiniteSet(T) /\ Cardinality(T) = Cardinality(B)
  BY <1>5, <1>6, FS_Bijection, Fun_ExistsBij
<1>8. Count(c, ab) = Cardinality(X) /\ Count(c, a) = Cardinality(A) /\ Count(c, b) = Cardinality(B)
  BY DEF Count
<1> HIDE DEF X, A, B, T
<1>9. Cardinality(X) = Cardinality(A) + Cardinality(T) - Cardinality(A \cap T)
  <2>1. IsFiniteSet(A) BY <1>6
  <2>2. IsFiniteSet(T) BY <1>7
  <2>3. Cardinality(A \cup T) = Cardinality(A) + Cardinality(T) - Cardinality(A \cap T)
    BY <2>1, <2>2, FS_Union
  <2> QED
    BY <1>3, <2>3
<1>10. Cardinality(A \cap T) = 0
  BY <1>4, FS_EmptySet
<1> QED
  BY <1>6, <1>7, <1>8, <1>9, <1>10 DEF ab

\* A message is the same character as often as it is long.
LEMMA CountCopies ==
    ASSUME NEW n \in Nat, NEW x \in Nat, NEW c
    PROVE  LET s == [j \in 1..x |-> n] IN
           s \in Seq(Nat) /\ Count(c, s) = IF c = n THEN x ELSE 0
<1> DEFINE s == [j \in 1..x |-> n]
<1>1. s \in Seq(Nat) /\ DOMAIN s = 1..x
  BY FunctionIsSeq
<1>2. CASE c = n
  <2>1. {j \in DOMAIN s : s[j] = c} = 1..x
    BY <1>1, <1>2
  <2>2. Cardinality(1..x) = IF 1 > x THEN 0 ELSE x - 1 + 1
    BY FS_Interval
  <2>3. (IF 1 > x THEN 0 ELSE x - 1 + 1) = x
    OBVIOUS
  <2> QED
    BY <1>1, <1>2, <2>1, <2>2, <2>3 DEF Count
<1>3. CASE c # n
  <2>1. {j \in DOMAIN s : s[j] = c} = {}
    BY <1>1, <1>3
  <2> QED
    BY <1>1, <1>3, <2>1, FS_EmptySet DEF Count
<1> QED
  BY <1>2, <1>3

\* A place is a file and a position in it.
LEMMA FoundAt ==
    ASSUME NEW w, NEW c
    PROVE  /\ \A i, j : <<i, j>> \in Found(w, c) <=>
                  i \in DOMAIN w /\ j \in DOMAIN w[i] /\ w[i][j] = c
           /\ \A p \in Found(w, c) : p = <<p[1], p[2]>>
BY DEF Found

\* Only finitely many places hold a character.
LEMMA FoundFinite ==
    ASSUME NEW w \in Seq(Seq(Nat)), NEW c
    PROVE  IsFiniteSet(Found(w, c)) /\ Cardinality(Found(w, c)) \in Nat
<1> DEFINE N == Len(w)
           f == [i \in 1..N |-> {i} \X {j \in DOMAIN w[i] : w[i][j] = c}]
           S == {f[i] : i \in 1..N}
<1>1. N \in Nat /\ DOMAIN w = 1..N
  BY LenProperties
<1>2. \A i \in 1..N : w[i] \in Seq(Nat)
  BY <1>1, ElementOfSeq
<1>3. IsFiniteSet(1..N)
  BY <1>1, FS_Interval
<1>4. f \in Surjection(1..N, S)
  BY Fun_IsSurj
<1>5. IsFiniteSet(S)
  BY <1>3, <1>4, FS_Surjection
<1>6. ASSUME NEW i \in 1..N PROVE IsFiniteSet(f[i])
  <2>1. IsFiniteSet({j \in DOMAIN w[i] : w[i][j] = c})
    BY <1>2, CountType
  <2>2. IsFiniteSet({i})
    BY FS_Singleton
  <2> QED
    BY <2>1, <2>2, FS_Product
<1>7. \A T \in S : IsFiniteSet(T)
  BY <1>6
<1>8. Found(w, c) = UNION S
  BY <1>1 DEF Found
<1> HIDE DEF S
<1>9. IsFiniteSet(UNION S)
  BY <1>5, <1>7, FS_UNION
<1> QED
  BY <1>8, <1>9, FS_CardinalityType

\* The places in one file are as many as the positions in it.
LEMMA FoundInOne ==
    ASSUME NEW R, IsFiniteSet(R), NEW k, NEW X, IsFiniteSet(X), NEW P, P = {k} \X X,
           R \cap P = {}
    PROVE  Cardinality(R \cup P) = Cardinality(R) + Cardinality(X)
<1>2. IsFiniteSet({k}) /\ Cardinality({k}) = 1
  BY FS_Singleton
<1>4. IsFiniteSet(P) /\ Cardinality(P) = 1 * Cardinality(X)
  BY <1>2, FS_Product
<1>5. Cardinality(R \cup P) = Cardinality(R) + Cardinality(P) - Cardinality(R \cap P)
  BY <1>4, FS_Union
<1>6. Cardinality(R) \in Nat /\ Cardinality({}) = 0 /\ Cardinality(X) \in Nat
  BY FS_CardinalityType, FS_EmptySet
<1>7. \A r, x \in Nat : r + 1 * x - 0 = r + x
  OBVIOUS
<1>8. Cardinality(R \cup P) = Cardinality(R) + 1 * Cardinality(X) - 0
  BY <1>4, <1>5, <1>6, Zenon
<1> QED
  BY <1>6, <1>7, <1>8, Zenon

\* What a file has at its end is found there.
LEMMA FoundCut ==
    ASSUME NEW v \in Seq(Seq(Nat)), NEW w \in Seq(Seq(Nat)), Len(v) = Len(w),
           NEW k \in 1..Len(w), NEW b \in Seq(Nat), w[k] = v[k] \o b,
           \A i \in 1..Len(w) : i # k => v[i] = w[i], NEW c
    PROVE  Cardinality(Found(w, c)) = Cardinality(Found(v, c)) + Count(c, b)
<1> DEFINE R == {p \in Found(v, c) : p[1] # k}
           X == {j \in DOMAIN v[k] : v[k][j] = c}
           Y == {j \in DOMAIN w[k] : w[k][j] = c}
           V == {k} \X X
           W == {k} \X Y
<1>1. /\ v[k] \in Seq(Nat) /\ w[k] \in Seq(Nat) /\ DOMAIN v = 1..Len(w)
      /\ DOMAIN w = 1..Len(w)
  BY ElementOfSeq, LenProperties
<1>a. /\ \A i, j : <<i, j>> \in Found(v, c) <=>
             i \in 1..Len(w) /\ j \in DOMAIN v[i] /\ v[i][j] = c
      /\ \A p \in Found(v, c) : p = <<p[1], p[2]>>
  <2>1. \A i, j : <<i, j>> \in Found(v, c) <=>
             i \in DOMAIN v /\ j \in DOMAIN v[i] /\ v[i][j] = c
    BY FoundAt, Zenon
  <2> QED
    BY <1>1, <2>1, FoundAt, Zenon
<1>b. /\ \A i, j : <<i, j>> \in Found(w, c) <=>
             i \in 1..Len(w) /\ j \in DOMAIN w[i] /\ w[i][j] = c
      /\ \A p \in Found(w, c) : p = <<p[1], p[2]>>
  <2>1. \A i, j : <<i, j>> \in Found(w, c) <=>
             i \in DOMAIN w /\ j \in DOMAIN w[i] /\ w[i][j] = c
    BY FoundAt, Zenon
  <2> QED
    BY <1>1, <2>1, FoundAt, Zenon
<1>c. /\ \A i, j : <<i, j>> \in V <=> i = k /\ j \in DOMAIN v[k] /\ v[k][j] = c
      /\ \A i, j : <<i, j>> \in W <=> i = k /\ j \in DOMAIN w[k] /\ w[k][j] = c
      /\ \A i, j : <<i, j>> \in R <=> <<i, j>> \in Found(v, c) /\ i # k
      /\ \A p \in V \cup W : p = <<p[1], p[2]>>
  <2>1. \A i, j : <<i, j>> \in V <=> i = k /\ j \in DOMAIN v[k] /\ v[k][j] = c
    OBVIOUS
  <2>2. \A i, j : <<i, j>> \in W <=> i = k /\ j \in DOMAIN w[k] /\ w[k][j] = c
    OBVIOUS
  <2>3. \A i, j : <<i, j>> \in R <=> <<i, j>> \in Found(v, c) /\ i # k
    OBVIOUS
  <2>4. \A p \in V : p = <<p[1], p[2]>>
    OBVIOUS
  <2>5. \A p \in W : p = <<p[1], p[2]>>
    OBVIOUS
  <2> HIDE DEF V, W, R
  <2> QED
    BY <2>1, <2>2, <2>3, <2>4, <2>5
<1>d. \A p \in R : p = <<p[1], p[2]>>
  BY <1>a
<1>4. R \cap V = {} /\ R \cap W = {}
  OBVIOUS
<1>5. IsFiniteSet(R)
  BY FoundFinite, FS_Subset
<1>6. /\ Cardinality(R \cup V) = Cardinality(R) + Count(c, v[k])
      /\ Cardinality(R \cup W) = Cardinality(R) + Count(c, w[k])
  <2>1. /\ IsFiniteSet(X) /\ Count(c, v[k]) = Cardinality(X)
        /\ IsFiniteSet(Y) /\ Count(c, w[k]) = Cardinality(Y)
    BY <1>1, CountType DEF Count
  <2>a. V = {k} \X X /\ W = {k} \X Y
    OBVIOUS
  <2> HIDE DEF R, X, Y, V, W
  <2>2. Cardinality(R \cup V) = Cardinality(R) + Cardinality(X)
    <3>1. IsFiniteSet(R) BY <1>5
    <3>2. R \cap V = {} BY <1>4
    <3>3. IsFiniteSet(X) BY <2>1
    <3>4. V = {k} \X X BY <2>a
    <3> QED
      BY <3>1, <3>2, <3>3, <3>4, FoundInOne
  <2>3. Cardinality(R \cup W) = Cardinality(R) + Cardinality(Y)
    <3>1. IsFiniteSet(R) BY <1>5
    <3>2. R \cap W = {} BY <1>4
    <3>3. IsFiniteSet(Y) BY <2>1
    <3>4. W = {k} \X Y BY <2>a
    <3> QED
      BY <3>1, <3>2, <3>3, <3>4, FoundInOne
  <2> QED
    BY <2>1, <2>2, <2>3
<1> HIDE DEF R, V, W
<1>2. Found(v, c) = R \cup V
  <2>1. \A i, j : <<i, j>> \in Found(v, c) <=> <<i, j>> \in R \cup V
    <3> TAKE i, j
    <3>1. CASE i = k
      BY <1>1, <1>a, <1>c, <3>1
    <3>2. CASE i # k
      BY <1>c, <3>2
    <3> QED
      BY <3>1, <3>2
  <2>2. \A p \in R \cup V : p = <<p[1], p[2]>>
    BY <1>c, <1>d
  <2> QED
    BY <1>a, <2>1, <2>2
<1>3. Found(w, c) = R \cup W
  <2>1. \A i, j : <<i, j>> \in Found(w, c) <=> <<i, j>> \in R \cup W
    <3> TAKE i, j
    <3>1. CASE i = k
      BY <1>1, <1>b, <1>c, <3>1
    <3>2. CASE i # k
      <4>1. i \in 1..Len(w) => v[i] = w[i]
        BY <3>2
      <4> QED
        BY <1>a, <1>b, <1>c, <3>2, <4>1
    <3> QED
      BY <3>1, <3>2
  <2>2. \A p \in R \cup W : p = <<p[1], p[2]>>
    BY <1>c, <1>d
  <2> QED
    BY <1>b, <2>1, <2>2
<1>7. Cardinality(Found(v, c)) = Cardinality(R) + Count(c, v[k])
  BY <1>2, <1>6
<1>8. Cardinality(Found(w, c)) = Cardinality(R) + Count(c, w[k])
  BY <1>3, <1>6
<1>9. Count(c, w[k]) = Count(c, v[k]) + Count(c, b)
  BY <1>1, CountConcat
<1>10. Cardinality(R) \in Nat /\ Count(c, v[k]) \in Nat /\ Count(c, b) \in Nat
  BY <1>1, <1>5, CountType, FS_CardinalityType
<1> QED
  BY <1>7, <1>8, <1>9, <1>10

\* A file that is created holds nothing.
LEMMA PlacedCreate ==
    ASSUME NEW w \in Seq(Seq(Nat)), NEW v \in Seq(Seq(Nat)), NEW l, NEW z,
           Len(v) >= Len(w), \A i \in 1..Len(w) : v[i] = w[i],
           \A i \in 1..Len(v) : i > Len(w) => v[i] = <<>>, FilesHold(w, l, z)
    PROVE  FilesHold(v, l, z)
<1>1. /\ Len(v) \in Nat /\ Len(w) \in Nat /\ DOMAIN v = 1..Len(v) /\ DOMAIN w = 1..Len(w)
      /\ DOMAIN <<>> = {} /\ Len(<<>>) = 0
  BY LenProperties
<1>2. \A i \in 1..Len(v) : i \in 1..Len(w) \/ i > Len(w)
  BY <1>1
<1>3. \A i \in 1..Len(w) : i \in 1..Len(v)
  BY <1>1
<1>4. \A j \in 1..0 : FALSE
  OBVIOUS
<1>5. \A j \in 2..0 : FALSE
  OBVIOUS
<1>6. ASSUME NEW i \in 1..Len(v)
      PROVE  /\ \A j \in 1..Len(v[i]) : v[i][j] \in 1..Len(z)
             /\ \A j \in 2..Len(v[i]) : v[i][j - 1] <= v[i][j]
  <2>1. CASE i \in 1..Len(w)
    BY <2>1 DEF FilesHold
  <2>2. CASE i > Len(w)
    BY <1>1, <1>4, <1>5, <2>2
  <2> QED
    BY <1>2, <2>1, <2>2
<1>7. ASSUME NEW n PROVE Found(v, n) = Found(w, n)
  <2>1. ASSUME NEW i, NEW j PROVE <<i, j>> \in Found(v, n) <=> <<i, j>> \in Found(w, n)
    <3>1. <<i, j>> \in Found(v, n) <=>
              i \in 1..Len(v) /\ j \in DOMAIN v[i] /\ v[i][j] = n
      <4>1. \A a, d : <<a, d>> \in Found(v, n) <=>
                         a \in DOMAIN v /\ d \in DOMAIN v[a] /\ v[a][d] = n
        BY FoundAt, Zenon
      <4> QED
        BY <1>1, <4>1
    <3>2. <<i, j>> \in Found(w, n) <=>
              i \in 1..Len(w) /\ j \in DOMAIN w[i] /\ w[i][j] = n
      <4>1. \A a, d : <<a, d>> \in Found(w, n) <=>
                         a \in DOMAIN w /\ d \in DOMAIN w[a] /\ w[a][d] = n
        BY FoundAt, Zenon
      <4> QED
        BY <1>1, <4>1
    <3>3. CASE i \in 1..Len(w)
      BY <1>3, <3>1, <3>2, <3>3
    <3>4. CASE i \in 1..Len(v) /\ i > Len(w)
      BY <1>1, <3>1, <3>2, <3>4
    <3> QED
      BY <1>2, <3>1, <3>2, <3>3, <3>4
  <2>2. /\ \A p \in Found(v, n) : p = <<p[1], p[2]>>
        /\ \A p \in Found(w, n) : p = <<p[1], p[2]>>
    BY FoundAt
  <2>3. \A i, j : <<i, j>> \in Found(v, n) <=> <<i, j>> \in Found(w, n)
    BY <2>1
  <2>4. \A p \in Found(v, n) : p \in Found(w, n)
    BY <2>2, <2>3
  <2>5. \A p \in Found(w, n) : p \in Found(v, n)
    BY <2>2, <2>3
  <2> QED
    BY <2>4, <2>5
<1> QED
  BY <1>6, <1>7 DEF FilesHold

\* The next message has not been written.
LEMMA Unreported ==
    ASSUME NEW w \in Seq(Seq(Nat)), NEW l \in Seq(Nat), NEW z \in Seq(Int), FilesHold(w, l, z)
    PROVE  Count(Len(z) + 1, l) = 0 /\ Cardinality(Found(w, Len(z) + 1)) = 0
<1> DEFINE n == Len(z) + 1
<1>1. \A i : i \in 1..Len(z) => i # n
  BY LenProperties
<1> HIDE DEF n
<1>2. Count(n, l) = 0
  <2>1. \A j \in 1..Len(l) : l[j] # n
    BY <1>1 DEF FilesHold
  <2> QED
    BY <2>1, CountZero
<1>3. Cardinality(Found(w, n)) = 0
  <2>1. DOMAIN w = 1..Len(w) /\ \A i \in 1..Len(w) : DOMAIN w[i] = 1..Len(w[i])
    BY LenProperties, ElementOfSeq
  <2>2. \A i \in 1..Len(w) : \A j \in 1..Len(w[i]) : w[i][j] # n
    BY <1>1 DEF FilesHold
  <2>3. \A i, j : <<i, j>> \notin Found(w, n)
    <3>1. \A i, j : <<i, j>> \in Found(w, n) <=>
                       i \in DOMAIN w /\ j \in DOMAIN w[i] /\ w[i][j] = n
      BY FoundAt, Zenon
    <3> QED
      BY <2>1, <2>2, <3>1
  <2>4. Found(w, n) = {}
    <3>1. \A p \in Found(w, n) : p = <<p[1], p[2]>>
      BY FoundAt
    <3> QED
      BY <2>3, <3>1
  <2> QED
    BY <2>4, FS_EmptySet
<1> QED
  BY <1>2, <1>3 DEF n

\* A message of which nothing was written.
LEMMA PlacedNothing ==
    ASSUME NEW w \in Seq(Seq(Nat)), NEW l \in Seq(Nat), NEW z \in Seq(Int), FilesHold(w, l, z)
    PROVE  FilesHold(w, l, Append(z, 0))
<1> DEFINE n == Len(z) + 1
           y == Append(z, 0)
<1>1. /\ Len(z) \in Nat /\ Len(y) = n /\ y[n] = 0
      /\ \A i \in 1..Len(z) : y[i] = z[i]
  BY AppendProperties, LenProperties
<1>2. \A i : i \in 1..Len(z) => i \in 1..n
  BY <1>1
<1>3. \A i \in 1..n : i \in 1..Len(z) \/ i = n
  BY <1>1
<1>4. Count(n, l) = 0 /\ Cardinality(Found(w, n)) = 0
  BY Unreported
<1> HIDE DEF n, y
<1>5. ASSUME NEW i \in 1..n PROVE y[i] = Count(i, l) + Cardinality(Found(w, i))
  <2>1. CASE i \in 1..Len(z)
    BY <1>1, <2>1 DEF FilesHold
  <2>2. CASE i = n
    BY <1>1, <1>4, <2>2
  <2> QED
    BY <1>3, <2>1, <2>2
<1>6. FilesHold(w, l, y)
  BY <1>1, <1>2, <1>5 DEF FilesHold
<1> QED
  BY <1>6 DEF y

\* A message that is written at once.
LEMMA PlacedWrite ==
    ASSUME NEW w \in Seq(Seq(Nat)), NEW v \in Seq(Seq(Nat)), NEW l \in Seq(Nat),
           NEW z \in Seq(Int), FilesHold(w, l, z), Len(v) = Len(w), NEW k \in 1..Len(w),
           NEW x \in Nat, v[k] = w[k] \o [j \in 1..x |-> Len(z) + 1],
           \A i \in 1..Len(w) : i # k => v[i] = w[i]
    PROVE  FilesHold(v, l, Append(z, x))
<1> DEFINE n == Len(z) + 1
           y == Append(z, x)
           s == [j \in 1..x |-> n]
<1>1. /\ Len(z) \in Nat /\ Len(y) = n /\ y[n] = x
      /\ \A i \in 1..Len(z) : y[i] = z[i]
  BY AppendProperties, LenProperties
<1>a. Len(z) \in Nat
  BY <1>1
<1>2. \A i : i \in 1..Len(z) => i \in 1..n /\ i # n
  <2>1. \A m \in Nat : \A i : i \in 1..m => i \in 1..(m + 1) /\ i # m + 1
    OBVIOUS
  <2> QED
    BY <1>a, <2>1, Zenon
<1>3. \A i \in 1..n : i \in 1..Len(z) \/ i = n
  <2>1. \A m \in Nat : \A i \in 1..(m + 1) : i \in 1..m \/ i = m + 1
    OBVIOUS
  <2> QED
    BY <1>a, <2>1, Zenon
<1>4. n \in Nat /\ n \in 1..n /\ \A i \in 1..n : i <= n
  BY <1>a
<1>5. Count(n, l) = 0 /\ Cardinality(Found(w, n)) = 0
  BY Unreported
<1>6. v[k] = w[k] \o s
  OBVIOUS
<1> HIDE DEF n, y
<1>7. s \in Seq(Nat) /\ Len(s) = x /\ \A c : Count(c, s) = IF c = n THEN x ELSE 0
  <2>1. s \in Seq(Nat) /\ Len(s) = x
    BY <1>4, FunctionIsSeq
  <2>2. \A c : Count(c, s) = IF c = n THEN x ELSE 0
    BY <1>4, CountCopies, ZenonT(30)
  <2> QED
    BY <2>1, <2>2
<1>8. \A j \in 1..x : s[j] = n
  OBVIOUS
<1> HIDE DEF s
<1>9. \A c : Cardinality(Found(v, c)) = Cardinality(Found(w, c)) + Count(c, s)
  <2>1. \A i \in 1..Len(v) : i # k => w[i] = v[i]
    OBVIOUS
  <2> QED
    BY <1>6, <1>7, <2>1, FoundCut, ZenonT(30)
<1>10. \A c : Cardinality(Found(w, c)) \in Nat /\ Count(c, l) \in Nat
  BY FoundFinite, CountType
<1>11. ASSUME NEW i \in 1..n PROVE y[i] = Count(i, l) + Cardinality(Found(v, i))
  <2>1. CASE i \in 1..Len(z)
    <3>1. Count(i, s) = 0
      BY <1>2, <1>7, <2>1
    <3>2. Cardinality(Found(v, i)) = Cardinality(Found(w, i))
      BY <1>9, <1>10, <3>1
    <3> QED
      BY <1>1, <2>1, <3>2 DEF FilesHold
  <2>2. CASE i = n
    <3>1. Cardinality(Found(v, n)) = 0 + x
      BY <1>5, <1>7, <1>9
    <3> QED
      BY <1>1, <1>5, <2>2, <3>1
  <2> QED
    BY <1>3, <2>1, <2>2
<1>12. /\ w[k] \in Seq(Nat) /\ Len(w[k]) \in Nat /\ Len(v[k]) = Len(w[k]) + x
       /\ \A j \in 1..Len(w[k]) + x : v[k][j] = IF j <= Len(w[k]) THEN w[k][j] ELSE s[j - Len(w[k])]
  <2>1. w[k] \in Seq(Nat) /\ Len(w[k]) \in Nat
    BY ElementOfSeq, LenProperties
  <2>2. /\ Len(w[k] \o s) = Len(w[k]) + Len(s)
        /\ \A j \in 1..Len(w[k]) + Len(s) :
              (w[k] \o s)[j] = IF j <= Len(w[k]) THEN w[k][j] ELSE s[j - Len(w[k])]
    <3> DEFINE a == w[k]
    <3>1. a \in Seq(Nat) /\ s \in Seq(Nat)
      BY <1>7, <2>1
    <3> HIDE DEF a
    <3>2. Len(a \o s) = Len(a) + Len(s)
      BY <3>1, ConcatProperties
    <3>3. \A j \in 1..Len(a) + Len(s) :
              (a \o s)[j] = IF j <= Len(a) THEN a[j] ELSE s[j - Len(a)]
      BY <3>1, ConcatProperties
    <3> QED
      BY <3>2, <3>3 DEF a
  <2> QED
    BY <1>6, <1>7, <2>1, <2>2
<1>13. ASSUME NEW j \in 1..Len(v[k])
       PROVE  IF j <= Len(w[k]) THEN j \in 1..Len(w[k]) /\ v[k][j] = w[k][j] ELSE v[k][j] = n
  <2>1. CASE j <= Len(w[k])
    BY <1>12, <2>1
  <2>2. CASE ~(j <= Len(w[k]))
    <3>1. \A p \in Nat : \A t \in 1..(p + x) : ~(t <= p) => t - p \in 1..x
      OBVIOUS
    <3>2. j \in 1..(Len(w[k]) + x)
      BY <1>12
    <3>3. j - Len(w[k]) \in 1..x
      BY <1>12, <2>2, <3>1, <3>2, Zenon
    <3>4. v[k][j] = s[j - Len(w[k])]
      BY <1>12, <2>2, <3>2, Zenon
    <3> QED
      BY <1>8, <2>2, <3>3, <3>4
  <2> QED
    BY <2>1, <2>2
<1>14. ASSUME NEW j \in 1..Len(v[k]) PROVE v[k][j] \in 1..n
  BY <1>2, <1>4, <1>13 DEF FilesHold
<1>15. ASSUME NEW j \in 2..Len(v[k]) PROVE v[k][j - 1] <= v[k][j]
  <2>1. /\ Len(v[k]) \in Nat /\ j \in 1..Len(v[k]) /\ j - 1 \in 1..Len(v[k])
        /\ j <= Len(w[k]) => j - 1 <= Len(w[k]) /\ j \in 2..Len(w[k])
    <3>1. \A p \in Nat : \A q \in Nat : \A t \in 2..(p + q) :
              /\ t \in 1..(p + q) /\ t - 1 \in 1..(p + q)
              /\ t <= p => t - 1 <= p /\ t \in 2..p
      OBVIOUS
    <3>2. Len(v[k]) = Len(w[k]) + x /\ Len(w[k]) \in Nat /\ j \in 2..(Len(w[k]) + x)
      BY <1>12
    <3>3. Len(v[k]) \in Nat
      BY <3>2
    <3> QED
      BY <3>1, <3>2, <3>3, Zenon
  <2>2. CASE j <= Len(w[k])
    BY <1>13, <2>1, <2>2 DEF FilesHold
  <2>3. CASE ~(j <= Len(w[k]))
    <3>1. v[k][j] = n /\ v[k][j - 1] \in 1..n
      BY <1>13, <1>14, <2>1, <2>3
    <3> QED
      BY <1>4, <3>1
  <2> QED
    BY <2>2, <2>3
<1>16. ASSUME NEW i \in 1..Len(v)
       PROVE  /\ \A j \in 1..Len(v[i]) : v[i][j] \in 1..n
              /\ \A j \in 2..Len(v[i]) : v[i][j - 1] <= v[i][j]
  <2>1. CASE i = k
    BY <1>14, <1>15, <2>1
  <2>2. CASE i # k
    BY <1>2, <2>2 DEF FilesHold
  <2> QED
    BY <2>1, <2>2
<1>17. \A j \in 1..Len(l) : l[j] \in 1..n
  BY <1>2 DEF FilesHold
<1>18. FilesHold(v, l, y)
  BY <1>1, <1>11, <1>16, <1>17 DEF FilesHold
<1> QED
  BY <1>18 DEF y

\* What was at the end of one file is lost.
LEMMA PlacedLose ==
    ASSUME NEW w \in Seq(Seq(Nat)), NEW v \in Seq(Seq(Nat)), NEW l \in Seq(Nat),
           NEW z \in Seq(Int), FilesHold(w, l, z), Len(v) = Len(w), NEW k \in 1..Len(w),
           NEW b \in Seq(Nat), w[k] = v[k] \o b,
           \A i \in 1..Len(w) : i # k => v[i] = w[i]
    PROVE  FilesHold(v, l \o b, z)
<1>1. /\ v[k] \in Seq(Nat) /\ Len(v[k]) \in Nat /\ Len(b) \in Nat
      /\ Len(w[k]) = Len(v[k]) + Len(b)
      /\ \A j \in 1..Len(v[k]) + Len(b) :
            w[k][j] = IF j <= Len(v[k]) THEN v[k][j] ELSE b[j - Len(v[k])]
  <2>1. v[k] \in Seq(Nat)
    BY ElementOfSeq
  <2>2. Len(v[k]) \in Nat /\ Len(b) \in Nat
    BY <2>1, LenProperties
  <2> QED
    BY <2>1, <2>2, ConcatProperties, SMTT(20)
<1>2. \A j \in 1..Len(v[k]) : j \in 1..Len(w[k]) /\ v[k][j] = w[k][j]
  BY <1>1
<1>3. ASSUME NEW j \in 1..Len(b) PROVE b[j] \in 1..Len(z)
  <2>1. /\ Len(v[k]) + j \in 1..Len(w[k]) /\ ~(Len(v[k]) + j <= Len(v[k]))
        /\ (Len(v[k]) + j) - Len(v[k]) = j
    <3>1. \A p, q, u \in Nat : u = p + q =>
              \A i \in 1..q : p + i \in 1..u /\ ~(p + i <= p) /\ (p + i) - p = i
      OBVIOUS
    <3>2. Len(w[k]) \in Nat
      BY <1>1
    <3> QED
      BY <1>1, <3>1, <3>2, Zenon
  <2>2. w[k][Len(v[k]) + j] = b[j]
    BY <1>1, <2>1
  <2> QED
    BY <2>1, <2>2 DEF FilesHold
<1>4. \A j \in 1..Len(l) : l[j] \in 1..Len(z)
  BY DEF FilesHold
<1>5. ASSUME NEW j \in 1..Len(l \o b) PROVE (l \o b)[j] \in 1..Len(z)
  <2>1. /\ Len(l) \in Nat /\ Len(l \o b) = Len(l) + Len(b)
        /\ \A i \in 1..Len(l) + Len(b) :
              (l \o b)[i] = IF i <= Len(l) THEN l[i] ELSE b[i - Len(l)]
    BY LenProperties, ConcatProperties
  <2>2. CASE j <= Len(l)
    BY <1>4, <2>1, <2>2
  <2>3. CASE ~(j <= Len(l))
    <3>1. j - Len(l) \in 1..Len(b) /\ (l \o b)[j] = b[j - Len(l)]
      BY <1>1, <2>1, <2>3
    <3> QED
      BY <1>3, <3>1
  <2> QED
    BY <2>2, <2>3
<1>6. ASSUME NEW i \in 1..Len(v)
      PROVE  /\ \A j \in 1..Len(v[i]) : v[i][j] \in 1..Len(z)
             /\ \A j \in 2..Len(v[i]) : v[i][j - 1] <= v[i][j]
  <2>1. CASE i = k
    <3>1. \A j \in 1..Len(v[k]) : v[k][j] \in 1..Len(z)
      BY <1>2 DEF FilesHold
    <3>2. ASSUME NEW j \in 2..Len(v[k]) PROVE v[k][j - 1] <= v[k][j]
      <4>1. j \in 1..Len(v[k]) /\ j - 1 \in 1..Len(v[k]) /\ j \in 2..Len(w[k])
        <5>1. \A p, q, u \in Nat : u = p + q =>
                  \A t \in 2..p : t \in 1..p /\ t - 1 \in 1..p /\ t \in 2..u
          OBVIOUS
        <5>2. Len(w[k]) \in Nat
          BY <1>1
        <5> QED
          BY <1>1, <5>1, <5>2, Zenon
      <4> QED
        BY <1>2, <4>1 DEF FilesHold
    <3> QED
      BY <2>1, <3>1, <3>2
  <2>2. CASE i # k
    BY <2>2 DEF FilesHold
  <2> QED
    BY <2>1, <2>2
<1>7. ASSUME NEW n \in 1..Len(z)
      PROVE  z[n] = Count(n, l \o b) + Cardinality(Found(v, n))
  <2>1. Count(n, l \o b) = Count(n, l) + Count(n, b)
    BY CountConcat
  <2>2. Cardinality(Found(w, n)) = Cardinality(Found(v, n)) + Count(n, b)
    BY FoundCut, ZenonT(30)
  <2>3. z[n] = Count(n, l) + Cardinality(Found(w, n))
    BY DEF FilesHold
  <2>4. Count(n, l) \in Nat /\ Count(n, b) \in Nat /\ Cardinality(Found(v, n)) \in Nat
    BY FoundFinite, CountType
  <2> QED
    BY <2>1, <2>2, <2>3, <2>4
<1> QED
  BY <1>5, <1>6, <1>7 DEF FilesHold

-----------------------------------------------------------------------------
(* The files hold what was reported.                                       *)

\* The files with what is still buffered, one for each inode.
LEMMA AllType ==
    ASSUME BaseInv
    PROVE  /\ AllWritten \in Seq(Seq(Nat)) /\ Len(AllWritten) = Len(content)
           /\ Len(content) \in Nat
           /\ \A i \in 1..Len(content) : AllWritten[i] = Written(i)
<1>1. Len(content) \in Nat
  BY Numbers DEF BaseInv
<1>2. \A i \in 1..Len(content) : Written(i) \in Seq(Nat)
  BY WrittenType DEF BaseInv
<1>3. AllWritten \in [1..Len(content) -> Seq(Nat)]
  BY <1>2 DEF AllWritten
<1>4. AllWritten \in Seq(Seq(Nat)) /\ Len(AllWritten) = Len(content)
  BY <1>1, <1>3, FunctionIsSeq
<1>5. \A i \in 1..Len(content) : AllWritten[i] = Written(i)
  BY DEF AllWritten
<1> QED
  BY <1>1, <1>4, <1>5

\* The same for the next state.
LEMMA AllNext ==
    ASSUME BaseInv'
    PROVE  /\ AllWritten' \in Seq(Seq(Nat)) /\ Len(AllWritten') = Len(content')
           /\ Len(content') \in Nat
           /\ \A i \in 1..Len(content') : AllWritten'[i] = Written(i)'
<1>1. content' \in Seq(Seq(Nat)) /\ file'.buf \in Seq(Nat)
  BY DEF BaseInv, Types, Files
<1>2. Len(content') \in Nat
  BY <1>1, LenProperties
<1>3. ASSUME NEW i \in 1..Len(content') PROVE Written(i)' \in Seq(Nat)
  <2>1. content'[i] \in Seq(Nat)
    BY <1>1, ElementOfSeq
  <2>2. content'[i] \o file'.buf \in Seq(Nat)
    BY <1>1, <2>1, ConcatProperties
  <2> QED
    BY <2>1, <2>2 DEF Written
<1>4. AllWritten' = [i \in 1..Len(content') |-> Written(i)']
  BY DEF AllWritten
<1>5. AllWritten' \in [1..Len(content') -> Seq(Nat)]
  BY <1>3, <1>4
<1>6. AllWritten' \in Seq(Seq(Nat)) /\ Len(AllWritten') = Len(content')
  BY <1>2, <1>5, FunctionIsSeq
<1>7. \A i \in 1..Len(content') : AllWritten'[i] = Written(i)'
  BY <1>4
<1> QED
  BY <1>2, <1>6, <1>7

\* A step that adds no character to a file and loses b.
LEMMA OrderKept ==
    ASSUME BaseInv, BaseInv', OrderInv, NEW b \in Seq(Nat), LosesEnd(b), lost' = lost \o b,
           env'.short = env.short, env.short = 0 => sizes' \in {sizes, Append(sizes, 0)}
    PROVE  OrderInv'
<1> SUFFICES ASSUME env.short = 0 PROVE FilesHold(AllWritten', lost', sizes')
  BY DEF OrderInv
<1>1. FilesHold(AllWritten, lost, sizes)
  BY DEF OrderInv
<1> DEFINE w == AllWritten
           v == AllWritten'
           n == Len(content)
           u == [i \in 1..n |-> v[i]]
<1>2. /\ w \in Seq(Seq(Nat)) /\ Len(w) = n /\ n \in Nat /\ \A i \in 1..n : w[i] = Written(i)
      /\ lost \in Seq(Nat) /\ sizes \in Seq(Int) /\ file.inode \in 0..n
  BY AllType DEF BaseInv, Types, FileTypeOK
<1>3. /\ v \in Seq(Seq(Nat)) /\ Len(v) = Len(content') /\ Len(content') \in Nat
      /\ \A i \in 1..Len(content') : v[i] = Written(i)'
      /\ lost' \in Seq(Nat) /\ Len(content') >= n
  BY AllNext DEF BaseInv, Types, LosesEnd
<1>4. /\ file.inode = 0 => b = <<>>
      /\ \A i \in 1..n :
            IF i = file.inode THEN Written(i) = Written(i)' \o b ELSE Written(i)' = Written(i)
      /\ \A i \in 1..Len(content') : i > n => Written(i)' = <<>>
  BY DEF LosesEnd
<1>5. \A i \in 1..n : i \in 1..Len(content')
  BY <1>2, <1>3
<1> HIDE DEF w, v, n
<1>6. u \in Seq(Seq(Nat)) /\ Len(u) = n /\ \A i \in 1..n : u[i] = v[i]
  <2>1. \A i \in 1..n : v[i] \in Seq(Nat)
    BY <1>3, <1>5, ElementOfSeq
  <2>2. u \in [1..n -> Seq(Nat)]
    BY <2>1
  <2> QED
    BY <1>2, <2>2, FunctionIsSeq
<1> HIDE DEF u
<1>7. \A i \in 1..n : IF i = file.inode THEN w[i] = u[i] \o b ELSE u[i] = w[i]
  BY <1>2, <1>3, <1>4, <1>5, <1>6
<1>8. FilesHold(u, lost', sizes)
  <2>1. CASE file.inode # 0
    <3>1. file.inode \in 1..Len(w) /\ Len(u) = Len(w)
      BY <1>2, <1>6, <2>1
    <3>2. w[file.inode] = u[file.inode] \o b
      BY <1>2, <1>7, <3>1
    <3>3. \A i \in 1..Len(w) : i # file.inode => u[i] = w[i]
      BY <1>2, <1>7
    <3>4. FilesHold(w, lost, sizes)
      BY <1>1 DEF w
    <3>5. FilesHold(u, lost \o b, sizes)
      BY <1>2, <1>6, <3>1, <3>2, <3>3, <3>4, PlacedLose
    <3> QED
      BY <3>5
  <2>2. CASE file.inode = 0
    <3>1. lost' = lost
      BY <1>2, <1>4, <2>2, ConcatEmptySeq
    <3>2. \A i \in 1..Len(w) : u[i] = w[i]
      BY <1>2, <1>7, <2>2
    <3>3. Len(u) >= Len(w) /\ \A i \in 1..Len(u) : i > Len(w) => u[i] = <<>>
      BY <1>2, <1>6
    <3>4. FilesHold(w, lost, sizes)
      BY <1>1 DEF w
    <3>5. FilesHold(u, lost, sizes)
      BY <1>2, <1>6, <3>2, <3>3, <3>4, PlacedCreate
    <3> QED
      BY <3>1, <3>5
  <2> QED
    BY <2>1, <2>2
<1>9. FilesHold(v, lost', sizes)
  <2>1. Len(v) >= Len(u) /\ \A i \in 1..Len(u) : v[i] = u[i]
    BY <1>3, <1>6
  <2>2. \A i \in 1..Len(v) : i > Len(u) => v[i] = <<>>
    BY <1>3, <1>4, <1>6
  <2> QED
    BY <1>3, <1>6, <1>8, <2>1, <2>2, PlacedCreate
<1>10. FilesHold(v, lost', Append(sizes, 0))
  BY <1>2, <1>3, <1>9, PlacedNothing
<1> QED
  BY <1>9, <1>10 DEF v

\* As long as writes are whole, a round writes the whole message and does not fail.
LEMMA WholeRound ==
    ASSUME BaseInv, NEW x \in 0..appender.len, NEW k \in 0..Len(Buffered(x)),
           WriteRound(x, k), env'.short = 0
    PROVE  env.short = 0 /\ x = appender.len /\ ~(x < appender.len)
<1>1. /\ x \in Nat /\ appender.len \in Nat /\ env.short \in Nat
      /\ env'.short = IF x < appender.len THEN env.short + 1 ELSE env.short
  BY WriteRoundEnv
<1> QED
  BY <1>1

\* A whole write puts its message behind the earlier ones.
LEMMA WriteRoundOrder ==
    ASSUME BaseInv, BaseInv', WholeWrites, OrderInv, NEW x \in 0..appender.len,
           NEW k \in 0..Len(Buffered(x)), WriteRound(x, k)
    PROVE  OrderInv'
<1> SUFFICES ASSUME env'.short = 0 PROVE FilesHold(AllWritten', lost', sizes')
  BY DEF OrderInv
<1>1. /\ FileTypeOK /\ Types /\ env \in EnvType /\ env.short \in Nat /\ file.inode # 0
      /\ appender.pc = "write" /\ x \in Nat /\ appender.len \in Nat
      /\ lost \in Seq(Nat) /\ sizes \in Seq(Int)
  <2>1. FileTypeOK /\ Types /\ WrapperInv
    BY DEF BaseInv
  <2>2. appender.pc = "write"
    BY DEF WriteRound
  <2>3. appender.len \in Nat
    BY <2>1 DEF Types, AppenderType
  <2>4. x \in Nat
    BY <2>3
  <2> QED
    BY <2>1, <2>2, <2>3, <2>4 DEF Types, EnvType, WrapperInv
<1>2. env.short = 0 /\ x = appender.len /\ ~(x < appender.len)
  BY WholeRound
<1>3. FilesHold(AllWritten, lost, sizes) /\ appender.remain = appender.len
  BY <1>1, <1>2 DEF OrderInv, WholeWrites
<1>4. appender.remain - x = 0 /\ appender.len - 0 = x
  BY <1>1, <1>2, <1>3
<1>5. Put(Len(sizes) + 1, x, x) /\ sizes' = Append(sizes, x) /\ lost' = lost
  <2>1. Put(Len(sizes) + 1, x, x) /\ sizes' = Append(sizes, x)
    BY <1>2, <1>4 DEF WriteRound
  <2> QED
    BY <2>1 DEF Put
<1> DEFINE s == [j \in 1..x |-> Len(sizes) + 1]
           v == AllWritten'
<1>6. Len(sizes) + 1 \in Nat /\ x \in Int /\ file.inode \in 1..Len(content)
  BY <1>1, Numbers DEF FileTypeOK
<1>7. /\ Len(content') = Len(content)
      /\ \A i \in 1..Len(content) :
            /\ i # file.inode => Written(i)' = Written(i) /\ content'[i] = content[i]
            /\ i = file.inode => Written(i)' = Written(i) \o s
  BY <1>1, <1>5, <1>6, PutWrites
<1>8. /\ AllWritten \in Seq(Seq(Nat)) /\ Len(AllWritten) = Len(content)
      /\ \A i \in 1..Len(content) : AllWritten[i] = Written(i)
      /\ v \in Seq(Seq(Nat)) /\ Len(v) = Len(content)
      /\ \A i \in 1..Len(content) : v[i] = Written(i)'
  <2>1. /\ v \in Seq(Seq(Nat)) /\ Len(v) = Len(content')
        /\ \A i \in 1..Len(content') : v[i] = Written(i)'
    BY AllNext
  <2> QED
    BY <1>7, <2>1, AllType
<1> HIDE DEF s, v
<1>9. v[file.inode] = AllWritten[file.inode] \o s
  BY <1>6, <1>7, <1>8
<1>10. \A i \in 1..Len(AllWritten) : i # file.inode => v[i] = AllWritten[i]
  BY <1>7, <1>8
<1>11. FilesHold(v, lost, Append(sizes, x))
  <2>1. Len(v) = Len(AllWritten) /\ file.inode \in 1..Len(AllWritten)
    BY <1>6, <1>8
  <2> QED
    BY <1>1, <1>3, <1>8, <1>9, <1>10, <2>1, PlacedWrite DEF s
<1> QED
  BY <1>5, <1>11 DEF v

\* A kill moves the buffer of the open file to what is lost.
LEMMA KillOrder ==
    ASSUME BaseInv, BaseInv', WholeWrites, OrderInv, Kill
    PROVE  OrderInv'
<1>1. /\ FileTypeOK /\ Types /\ WrapperInv /\ env \in EnvType
      /\ file.buf \in Seq(Nat) /\ appender.len \in Nat
  BY DEF BaseInv, Types, Files, AppenderType
<1>2. /\ content' = content /\ file'.inode = 0 /\ env'.short = env.short
      /\ lost' = lost \o file.buf
  BY <1>1 DEF Kill, NoFile, EnvType
<1>3. ASSUME env.short = 0 PROVE sizes' \in {sizes, Append(sizes, 0)}
  <2>1. CASE appender.pc = "write"
    <3>1. appender.len - appender.remain = 0
      BY <1>1, <1>3, <2>1 DEF WholeWrites
    <3> QED
      BY <2>1, <3>1 DEF Kill
  <2>2. CASE appender.pc # "write"
    BY <2>2 DEF Kill
  <2> QED
    BY <2>1, <2>2
<1>4. \A i \in 1..Len(content) : Written(i)' = content[i]
  BY <1>2 DEF Written
<1>5. /\ Len(content) \in Nat /\ Len(content') >= Len(content)
      /\ \A i \in 1..Len(content') : ~(i > Len(content))
  BY <1>1, <1>2, Numbers
<1>6. LosesEnd(file.buf)
  <2>1. file.inode = 0 => file.buf = <<>>
    BY <1>1 DEF WrapperInv
  <2>2. \A i \in 1..Len(content) :
            IF i = file.inode THEN Written(i) = Written(i)' \o file.buf
            ELSE Written(i)' = Written(i)
    BY <1>4 DEF Written
  <2> QED
    BY <1>5, <2>1, <2>2 DEF LosesEnd
<1> QED
  BY <1>1, <1>2, <1>3, <1>6, OrderKept

\* Every step keeps each file in the order of append and each message once.
LEMMA NextOrder ==
    ASSUME BaseInv, WholeWrites, OrderInv, [FileNext]_fileVars
    PROVE  OrderInv'
<1>1. BaseInv'
  BY NextBase
<1>2. CASE UNCHANGED fileVars
  BY <1>2 DEF fileVars, OrderInv, AllWritten, Written
<1>3. ASSUME NEW b, Losing(b), sizes' \in {sizes, Append(sizes, 0)} PROVE OrderInv'
  BY <1>1, <1>3, OrderKept DEF Losing
<1>4. CASE Quiet
  BY <1>3, <1>4, QuietLoses, QuietSteps
<1>5. ASSUME NEW k \in 0..Len(file.buf), EndFlush(k) PROVE OrderInv'
  <2>1. sizes' = sizes
    BY <1>5 DEF EndFlush
  <2> QED
    BY <1>3, <1>5, <2>1, EndFlushLoses
<1> QED
  BY <1>1, <1>2, <1>4, <1>5, WriteRoundOrder, KillOrder, StepKinds

\* Nothing is appended at the start.
LEMMA InitOrder ==
    ASSUME FileInit
    PROVE  OrderInv
<1>1. /\ content = <<<<>>>> /\ file.inode = 1 /\ file.buf = <<>>
      /\ sizes = <<>> /\ lost = <<>>
  BY DEF FileInit, NoFile
<1>2. Len(<<>>) = 0 /\ (\A j \in 1..0 : FALSE) /\ (\A j \in 2..0 : FALSE)
  OBVIOUS
<1>3. Len(AllWritten) = 1 /\ \A i \in 1..1 : AllWritten[i] = <<>>
  <2>1. Len(content) = 1 /\ content[1] = <<>>
    BY <1>1
  <2>2. <<>> \o <<>> = <<>>
    BY EmptySeq, ConcatEmptySeq
  <2>3. \A i \in 1..1 : Written(i) = <<>>
    BY <1>1, <2>1, <2>2 DEF Written
  <2> QED
    BY <2>1, <2>3, InitBase, AllType
<1> QED
  BY <1>1, <1>2, <1>3 DEF OrderInv, FilesHold

-----------------------------------------------------------------------------
(* A buffer at most is lost at a time.                                     *)

\* One more buffer is lost.
LEMMA OneMore ==
    ASSUME NEW a \in Nat, NEW l \in Nat, NEW m \in Nat, l <= a * FileBufSize,
           m <= FileBufSize
    PROVE  l + m <= (a + 1) * FileBufSize
<1>1. \A p, q \in Nat : (p + 1) * q = p * q + q /\ p * q \in Nat
  OBVIOUS
<1> DEFINE p == a * FileBufSize
<1>2. (a + 1) * FileBufSize = p + FileBufSize /\ p \in Nat /\ l <= p /\ FileBufSize \in Nat
  BY <1>1, Constants
<1> HIDE DEF p
<1>3. l + m <= p + FileBufSize
  BY <1>2
<1> QED
  BY <1>2, <1>3

\* A step that adds no character loses a buffer only where stdio fails.
LEMMA LossKept ==
    ASSUME BaseInv, BaseInv', LossInv, NEW b, Losing(b)
    PROVE  LossInv'
<1>1. /\ lost \in Seq(Nat) /\ Len(lost) \in Nat /\ file.buf \in Seq(Nat)
      /\ Len(file.buf) \in Nat /\ env.restarts \in Nat /\ env.outs \in Nat
  BY LenProperties DEF BaseInv, Types, Files, EnvType
<1>2. /\ b \in Seq(Nat) /\ lost' = lost \o b /\ file'.buf \in {<<>>, file.buf}
      /\ env'.short = env.short /\ env'.restarts = env.restarts
      /\ \/ b = <<>> /\ env'.outs = env.outs
         \/ /\ env'.outs = env.outs + 1
            /\ \E k \in 0..Len(file.buf) : b = Rest(file.buf, k)
  BY DEF Losing
<1> SUFFICES ASSUME env.short = 0
             PROVE  /\ Len(file'.buf) <= FileBufSize
                    /\ Len(lost') <= (env'.restarts + env'.outs) * FileBufSize
  BY <1>2 DEF LossInv
<1>3. /\ Len(file.buf) <= FileBufSize
      /\ Len(lost) <= (env.restarts + env.outs) * FileBufSize
  BY DEF LossInv
<1>4. Len(file'.buf) <= FileBufSize
  BY <1>2, <1>3, Constants
<1>5. CASE b = <<>> /\ env'.outs = env.outs
  <2>1. lost' = lost
    BY <1>1, <1>2, <1>5, ConcatEmptySeq
  <2> QED
    BY <1>2, <1>3, <1>4, <1>5, <2>1, Zenon
<1>6. CASE /\ env'.outs = env.outs + 1
           /\ \E k \in 0..Len(file.buf) : b = Rest(file.buf, k)
  <2>1. Len(b) \in Nat /\ Len(b) <= Len(file.buf)
    BY <1>1, <1>2, <1>6, RestFrom, LenProperties
  <2>2. Len(b) <= FileBufSize
    BY <1>1, <1>3, <2>1, Constants
  <2>3. Len(lost') = Len(lost) + Len(b)
    BY <1>1, <1>2, ConcatProperties
  <2>4. env.restarts + env.outs \in Nat
    BY <1>1
  <2>5. Len(lost) + Len(b) <= ((env.restarts + env.outs) + 1) * FileBufSize
    BY <1>1, <1>3, <2>1, <2>2, <2>4, OneMore
  <2>6. env'.restarts + env'.outs = (env.restarts + env.outs) + 1
    BY <1>1, <1>2, <1>6
  <2> QED
    BY <1>4, <2>3, <2>5, <2>6
<1> QED
  BY <1>2, <1>5, <1>6

\* A whole write loses nothing and fills the buffer at most.
LEMMA WriteRoundLoss ==
    ASSUME BaseInv, WholeWrites, LossInv, NEW x \in 0..appender.len,
           NEW k \in 0..Len(Buffered(x)), WriteRound(x, k)
    PROVE  LossInv'
<1> SUFFICES ASSUME env'.short = 0
             PROVE  /\ Len(file'.buf) <= FileBufSize
                    /\ Len(lost') <= (env'.restarts + env'.outs) * FileBufSize
  BY DEF LossInv
<1>1. env.short = 0 /\ x = appender.len /\ ~(x < appender.len)
  BY WholeRound
<1>2. /\ FileTypeOK /\ Types /\ env \in EnvType /\ file.inode # 0 /\ appender.pc = "write"
      /\ appender.len \in Nat
  BY DEF BaseInv, Types, AppenderType, WriteRound, WrapperInv
<1>3. appender.remain - x = 0 /\ appender.len - 0 = x /\ x \in Nat /\ x \in Int
      /\ Len(sizes) + 1 \in Nat
  BY <1>1, <1>2, Numbers DEF WholeWrites
<1>4. /\ Put(Len(sizes) + 1, x, x) /\ k = Len(Buffered(x))
      /\ env' = [Noted(Buffered(x), k) EXCEPT
                    !.short = IF x < appender.len THEN @ + 1 ELSE @]
  BY <1>1, <1>3 DEF WriteRound
<1>5. env'.restarts = env.restarts /\ env'.outs = env.outs
  <2>1. Noted(Buffered(x), k) = env
    BY <1>4 DEF Noted
  <2>2. env' = [env EXCEPT !.short = IF x < appender.len THEN @ + 1 ELSE @]
    BY <1>4, <2>1
  <2> QED
    BY <1>2, <2>2 DEF EnvType
<1>6. lost' = lost /\ (file'.buf = <<>> \/ Len(file'.buf) <= FileBufSize)
  BY <1>2, <1>3, <1>4, PutWrites
<1>7. Len(<<>>) <= FileBufSize
  BY Constants
<1> QED
  BY <1>1, <1>5, <1>6, <1>7, Zenon DEF LossInv

\* A kill loses the buffer.
LEMMA KillLoss ==
    ASSUME BaseInv, LossInv, Kill
    PROVE  LossInv'
<1>1. /\ lost \in Seq(Nat) /\ Len(lost) \in Nat /\ file.buf \in Seq(Nat)
      /\ Len(file.buf) \in Nat /\ env.restarts \in Nat /\ env.outs \in Nat
  BY LenProperties DEF BaseInv, Types, Files, EnvType
<1>2. /\ lost' = lost \o file.buf /\ file'.buf = <<>> /\ env'.short = env.short
      /\ env'.restarts = env.restarts + 1 /\ env'.outs = env.outs
  BY DEF Kill, NoFile, BaseInv, Types, EnvType
<1> SUFFICES ASSUME env.short = 0
             PROVE  /\ Len(file'.buf) <= FileBufSize
                    /\ Len(lost') <= (env'.restarts + env'.outs) * FileBufSize
  BY <1>2 DEF LossInv
<1>3. /\ Len(file.buf) <= FileBufSize
      /\ Len(lost) <= (env.restarts + env.outs) * FileBufSize
  BY DEF LossInv
<1>4. Len(file'.buf) <= FileBufSize
  BY <1>2, Constants
<1>5. Len(lost') = Len(lost) + Len(file.buf)
  BY <1>1, <1>2, ConcatProperties
<1>6. env.restarts + env.outs \in Nat
  BY <1>1
<1>7. Len(lost) + Len(file.buf) <= ((env.restarts + env.outs) + 1) * FileBufSize
  BY <1>1, <1>3, <1>6, OneMore
<1>8. env'.restarts + env'.outs = (env.restarts + env.outs) + 1
  BY <1>1, <1>2
<1> QED
  BY <1>4, <1>5, <1>7, <1>8

\* Every step loses a buffer at most, and only with a kill or a failure of stdio.
LEMMA NextLoss ==
    ASSUME BaseInv, WholeWrites, LossInv, [FileNext]_fileVars
    PROVE  LossInv'
<1>1. BaseInv'
  BY NextBase
<1>2. CASE UNCHANGED fileVars
  BY <1>2 DEF fileVars, LossInv
<1>3. CASE Quiet
  BY <1>1, <1>3, QuietLoses, LossKept
<1>4. CASE \E k \in 0..Len(file.buf) : EndFlush(k)
  BY <1>1, <1>4, EndFlushLoses, LossKept
<1> QED
  BY <1>2, <1>3, <1>4, WriteRoundLoss, KillLoss, StepKinds

\* Nothing is buffered or lost at the start.
LEMMA InitLoss ==
    ASSUME FileInit
    PROVE  LossInv
<1>1. lost = <<>> /\ file.buf = <<>> /\ env.restarts = 0 /\ env.outs = 0 /\ Len(<<>>) = 0
  BY DEF FileInit, NoFile
<1>2. 0 <= FileBufSize /\ 0 + 0 = 0 /\ 0 * FileBufSize = 0 /\ 0 <= 0
  BY Constants
<1>3. Len(file.buf) <= FileBufSize /\ Len(lost) <= (env.restarts + env.outs) * FileBufSize
  BY <1>1, <1>2
<1> QED
  BY <1>3 DEF LossInv

\* ContentInOrder: for any roll size, buffer and number of restarts, each character
\* that append reported is in exactly one file, in the order of the messages, unless
\* the process was killed or fflush or fclose failed with it in the buffer, and each
\* of these loses a buffer at most, as long as writes are whole (LogFile::append, roll
\* and flush, AppendFileWrapper::append and checkIfOpen).
THEOREM AppendedInOrder == FileSpec => []ContentInOrder
<1> DEFINE I == BaseInv /\ WholeWrites /\ OrderInv /\ LossInv
<1>1. FileInit => I
  BY InitBase, InitGrowth, InitOrder, InitLoss
<1>2. I /\ [FileNext]_fileVars => I'
  BY NextBase, NextWhole, NextOrder, NextLoss
<1>3. I => ContentInOrder
  <2> SUFFICES ASSUME BaseInv, OrderInv, LossInv PROVE ContentInOrder
    OBVIOUS
  <2>1. FileTypeOK
    BY DEF BaseInv
  <2>2. /\ Len(AllWritten) = Len(content) /\ DOMAIN AllWritten = 1..Len(content)
        /\ \A i \in 1..Len(content) : AllWritten[i] = Written(i)
    BY AllType DEF AllWritten
  <2>3. \A n : Places(n) = Found(AllWritten, n)
    BY <2>2 DEF Places, Found
  <2>4. ASSUME env.short = 0, NEW i \in 1..Len(content), NEW j \in 2..Len(Written(i))
        PROVE  Written(i)[j - 1] <= Written(i)[j]
    BY <2>2, <2>4 DEF OrderInv, FilesHold
  <2>5. ASSUME env.short = 0, NEW n \in 1..Len(sizes)
        PROVE  sizes[n] = Count(n, lost) + Cardinality(Places(n))
    BY <2>3, <2>5 DEF OrderInv, FilesHold
  <2>6. env.short = 0 => Len(lost) <= (env.restarts + env.outs) * FileBufSize
    BY DEF LossInv
  <2> QED
    BY <2>1, <2>4, <2>5, <2>6 DEF ContentInOrder
<1> QED
  BY <1>1, <1>2, <1>3, PTL DEF FileSpec

=============================================================================
