------------------------- MODULE PollSelector_proofs -------------------------
(***************************************************************************)
(* Proofs about PollSelector for any set of descriptors: the index of the  *)
(* vector stays right, and the selector is the map of interests.           *)
(***************************************************************************)
EXTENDS PollSelector, FiniteSetTheorems, SequenceTheorems, TLAPS

Inv == TypeOK /\ IndexConsistent

-----------------------------------------------------------------------------
\* A positive length is one or more than one.
LEMMA OneOrMore == \A n \in Nat : n > 0 => n = 1 \/ n > 1
OBVIOUS

\* A sequence without its last element, and one with an element replaced.
LEMMA FrontOfSeq ==
    ASSUME NEW S, NEW s \in Seq(S), Len(s) > 0
    PROVE  /\ SubSeq(s, 1, Len(s) - 1) \in Seq(S)
           /\ Len(SubSeq(s, 1, Len(s) - 1)) = Len(s) - 1
           /\ \A i \in 1..(Len(s) - 1) : SubSeq(s, 1, Len(s) - 1)[i] = s[i]
<1>1. CASE Len(s) > 1
  BY <1>1
<1>2. CASE Len(s) = 1
  <2>1. SubSeq(s, 1, Len(s) - 1) = <<>>
    BY <1>2, SubSeqEmpty
  <2>2. <<>> \in Seq(S) /\ Len(<<>>) = Len(s) - 1 /\ 1..(Len(s) - 1) = {}
    BY <1>2
  <2> QED
    BY <2>1, <2>2, Zenon
<1>3. Len(s) = 1 \/ Len(s) > 1
  <2>1. Len(s) \in Nat
    OBVIOUS
  <2> QED
    BY <2>1, OneOrMore, Zenon
<1> QED
  BY <1>1, <1>2, <1>3, Zenon

\* Overwriting one entry of a vector leaves its length and the others alone.
LEMMA ReplaceInSeq ==
    ASSUME NEW S, NEW s \in Seq(S), NEW k \in 1..Len(s), NEW v \in S
    PROVE  /\ [s EXCEPT ![k] = v] \in Seq(S)
           /\ Len([s EXCEPT ![k] = v]) = Len(s)
           /\ \A i \in 1..Len(s) : [s EXCEPT ![k] = v][i] = IF i = k THEN v ELSE s[i]
OBVIOUS

\* What a channel asks for survives the translation to the bits of poll and
\* back, and what poll reports of it is part of what was asked for.
LEMMA Translation ==
    /\ \A ev \in Interests : PollEvents(ev) \subseteq {"POLLIN", "POLLOUT"}
    /\ \A ev \in Interests : TransEv(PollEvents(ev)) = ev
    /\ \A bits : TransEv(bits) \in Interests
    /\ \A bits, asked : bits \subseteq asked \cup {"POLLHUP"}
                            => TransEv(bits) \subseteq TransEv(asked)
<1>1. \A ev \in Interests : PollEvents(ev) \subseteq {"POLLIN", "POLLOUT"}
  BY DEF PollEvents
<1>2. \A ev \in Interests : TransEv(PollEvents(ev)) = ev
  BY DEF PollEvents, TransEv, Interests
<1>3. \A bits : TransEv(bits) \in Interests
  BY DEF TransEv, Interests
<1>4. \A bits, asked : bits \subseteq asked \cup {"POLLHUP"}
                            => TransEv(bits) \subseteq TransEv(asked)
  BY DEF TransEv
<1> QED
  BY <1>1, <1>2, <1>3, <1>4

\* The invariant in the form in which the proofs use it: the sizes, what is
\* found through the index, and what is found in the vector.
LEMMA Sizes ==
    ASSUME Inv
    PROVE  /\ Len(pollfds) \in Nat
           /\ IsFiniteSet(DOMAIN idx)
           /\ Cardinality(DOMAIN idx) = Len(pollfds)
           /\ \A f \in DOMAIN idx : idx[f] \in 0..(Len(pollfds) - 1)
BY DEF Inv, TypeOK, IndexConsistent

\* The index map leads from a descriptor to its own entry of the vector.
LEMMA ByFd ==
    ASSUME Inv
    PROVE  \A f \in DOMAIN idx : pollfds[idx[f] + 1].fd = f
BY DEF Inv, IndexConsistent, Entry

\* Every entry of the vector is the one the index map names for its descriptor.
LEMMA ByIndex ==
    ASSUME Inv
    PROVE  \A i \in 1..Len(pollfds) :
                /\ pollfds[i] \in PollFd
                /\ pollfds[i].fd \in DOMAIN idx
                /\ idx[pollfds[i].fd] = i - 1
BY DEF Inv, TypeOK, IndexConsistent

\* An empty vector and an empty map.
LEMMA InitInv == Init => Inv
<1> SUFFICES ASSUME Init PROVE Inv
  OBVIOUS
<1>1. DOMAIN idx = {}
  BY DEF Init
<1>2. IndexConsistent
  BY <1>1, FS_EmptySet DEF Init, IndexConsistent, Entry
<1> QED
  BY <1>1, <1>2 DEF Init, Inv, TypeOK, PollFd

\* Add appends an entry and indexes it.
LEMMA AddInv ==
    ASSUME Inv, NEW fd \in Fds, NEW ev \in Interests, Add(fd, ev)
    PROVE  Inv'
<1> DEFINE new == [fd |-> fd, events |-> PollEvents(ev)]
<1>1. new \in PollFd
  BY Translation DEF PollFd
<1>2. /\ pollfds' = Append(pollfds, new)
      /\ pollfds' \in Seq(PollFd)
      /\ Len(pollfds') = Len(pollfds) + 1
      /\ \A i \in 1..Len(pollfds) : pollfds'[i] = pollfds[i]
      /\ pollfds'[Len(pollfds) + 1] = new
  BY <1>1 DEF Add, Inv, TypeOK
<1>3. /\ DOMAIN idx' = DOMAIN idx \cup {fd}
      /\ \A f \in DOMAIN idx : idx'[f] = idx[f]
      /\ idx'[fd] = Len(pollfds)
      /\ idx' \in [DOMAIN idx' -> Nat]
  BY Sizes DEF Add
<1>4. TypeOK'
  BY <1>2, <1>3 DEF Add, Inv, TypeOK
<1>5. IsFiniteSet(DOMAIN idx') /\ Cardinality(DOMAIN idx') = Len(pollfds')
  <2>1. /\ IsFiniteSet(DOMAIN idx \cup {fd})
        /\ Cardinality(DOMAIN idx \cup {fd}) = Cardinality(DOMAIN idx) + 1
    BY Sizes, FS_AddElement DEF Add
  <2> QED
    BY <1>2, <1>3, <2>1, Sizes
<1>6. \A f \in DOMAIN idx' : idx'[f] < Len(pollfds') /\ Entry(f)'.fd = f
  BY <1>2, <1>3, Sizes, ByFd DEF Entry
<1>7. \A i \in 1..Len(pollfds') :
        pollfds'[i].fd \in DOMAIN idx' /\ idx'[pollfds'[i].fd] = i - 1
  BY <1>2, <1>3, Sizes, ByIndex
<1> QED
  BY <1>4, <1>5, <1>6, <1>7 DEF Inv, IndexConsistent

\* Update changes what an entry asks for, not whose entry it is.
LEMMA UpdateInv ==
    ASSUME Inv, NEW fd \in Fds, NEW ev \in Interests, Update(fd, ev)
    PROVE  Inv'
<1>1. idx[fd] + 1 \in 1..Len(pollfds) /\ idx' = idx
  BY Sizes DEF Update
<1> DEFINE k == idx[fd] + 1
           new == [pollfds[k] EXCEPT !.events = PollEvents(ev)]
<1>n. new \in PollFd /\ new.fd = pollfds[k].fd
  BY <1>1, ByIndex, Translation DEF PollFd
<1>u. pollfds' = [pollfds EXCEPT ![k] = new]
  BY DEF Update
<1> HIDE DEF new, k
<1>2. /\ pollfds' \in Seq(PollFd)
      /\ Len(pollfds') = Len(pollfds)
      /\ \A i \in 1..Len(pollfds) : pollfds'[i].fd = pollfds[i].fd
  <2>1. pollfds \in Seq(PollFd) /\ k \in 1..Len(pollfds) /\ new \in PollFd
    BY <1>1, <1>n DEF Inv, TypeOK, k
  <2>2. \A i \in 1..Len(pollfds) : pollfds'[i] = IF i = k THEN new ELSE pollfds[i]
    BY <1>u, <2>1, ReplaceInSeq
  <2> QED
    BY <1>n, <1>u, <2>1, <2>2, ReplaceInSeq
<1> QED
  BY <1>1, <1>2, Sizes DEF Update, Inv, TypeOK, IndexConsistent, Entry

\* Remove of the last entry.
LEMMA RemoveLastInv ==
    ASSUME Inv, NEW fd \in Fds, RemoveLast(fd)
    PROVE  Inv'
<1>1. /\ fd \in DOMAIN idx
      /\ idx[fd] = Len(pollfds) - 1
      /\ Len(pollfds) \in Nat /\ Len(pollfds) > 0
  BY Sizes DEF RemoveLast
<1>2. /\ pollfds' \in Seq(PollFd)
      /\ Len(pollfds') = Len(pollfds) - 1
      /\ \A i \in 1..(Len(pollfds) - 1) : pollfds'[i] = pollfds[i]
  BY <1>1, FrontOfSeq DEF RemoveLast, Inv, TypeOK
<1>3. /\ DOMAIN idx' = DOMAIN idx \ {fd}
      /\ \A f \in DOMAIN idx' : idx'[f] = idx[f]
      /\ idx' \in [DOMAIN idx' -> Nat]
  BY Sizes DEF RemoveLast
<1>4. \A f \in DOMAIN idx' : idx[f] # Len(pollfds) - 1
  BY <1>1, <1>3, ByFd
<1>5. IsFiniteSet(DOMAIN idx') /\ Cardinality(DOMAIN idx') = Len(pollfds')
  BY <1>1, <1>2, <1>3, Sizes, FS_RemoveElement
<1>6. \A f \in DOMAIN idx' : idx'[f] < Len(pollfds') /\ Entry(f)'.fd = f
  BY <1>1, <1>2, <1>3, <1>4, Sizes, ByFd DEF Entry
<1>7. \A i \in 1..Len(pollfds') :
        pollfds'[i].fd \in DOMAIN idx' /\ idx'[pollfds'[i].fd] = i - 1
  BY <1>1, <1>2, <1>3, ByIndex
<1> QED
  BY <1>2, <1>3, <1>5, <1>6, <1>7 DEF RemoveLast, Inv, TypeOK, IndexConsistent

\* Remove of another entry: the last one moves, and its index with it.
LEMMA RemoveBySwapInv ==
    ASSUME Inv, NEW fd \in Fds, RemoveBySwap(fd)
    PROVE  Inv'
<1> DEFINE n == Len(pollfds)
           back == pollfds[n]
<1>1. /\ n \in Nat /\ n > 0
      /\ fd \in DOMAIN idx
      /\ idx[fd] \in 0..(n - 2)
      /\ back \in PollFd
      /\ back.fd \in DOMAIN idx
      /\ idx[back.fd] = n - 1
      /\ back.fd # fd
  <2>1. /\ n \in Nat /\ n > 0 /\ fd \in DOMAIN idx
        /\ idx[fd] \in 0..(n - 2)
    BY Sizes DEF RemoveBySwap
  <2>2. back \in PollFd /\ back.fd \in DOMAIN idx /\ idx[back.fd] = n - 1
    BY <2>1, ByIndex
  <2> QED
    BY <2>1, <2>2
<1>2. /\ pollfds' \in Seq(PollFd)
      /\ Len(pollfds') = n - 1
      /\ \A i \in 1..(n - 1) :
            pollfds'[i] = IF i = idx[fd] + 1 THEN back ELSE pollfds[i]
  BY <1>1 DEF RemoveBySwap, Inv, TypeOK
<1>3. /\ DOMAIN idx' = DOMAIN idx \ {fd}
      /\ \A f \in DOMAIN idx' : idx'[f] = IF f = back.fd THEN idx[fd] ELSE idx[f]
      /\ idx' \in [DOMAIN idx' -> Nat]
  BY <1>1, Sizes DEF RemoveBySwap
<1>4. IsFiniteSet(DOMAIN idx') /\ Cardinality(DOMAIN idx') = Len(pollfds')
  BY <1>1, <1>2, <1>3, Sizes, FS_RemoveElement
<1>5. \A f \in DOMAIN idx' : idx'[f] < Len(pollfds') /\ Entry(f)'.fd = f
  <2> SUFFICES ASSUME NEW f \in DOMAIN idx'
               PROVE  idx'[f] < Len(pollfds') /\ Entry(f)'.fd = f
    OBVIOUS
  <2>1. CASE f = back.fd
    BY <1>1, <1>2, <1>3, <2>1, SMTT(20) DEF Entry
  <2>2. CASE f # back.fd
    <3>1. /\ idx[f] \in Nat /\ idx[f] < n /\ pollfds[idx[f] + 1].fd = f
          /\ idx[f] # idx[fd] /\ idx[f] # n - 1
      BY <1>1, <1>3, <2>2, Sizes, ByFd
    <3> QED
      BY <1>1, <1>2, <1>3, <2>2, <3>1 DEF Entry
  <2> QED
    BY <2>1, <2>2
<1>6. \A i \in 1..Len(pollfds') :
        pollfds'[i].fd \in DOMAIN idx' /\ idx'[pollfds'[i].fd] = i - 1
  <2> SUFFICES ASSUME NEW i \in 1..(n - 1)
               PROVE  pollfds'[i].fd \in DOMAIN idx' /\ idx'[pollfds'[i].fd] = i - 1
    BY <1>2
  <2>1. CASE i = idx[fd] + 1
    BY <1>1, <1>2, <1>3, <2>1
  <2>2. CASE i # idx[fd] + 1
    <3>1. /\ pollfds[i].fd \in DOMAIN idx
          /\ idx[pollfds[i].fd] = i - 1
          /\ pollfds[i].fd # fd /\ pollfds[i].fd # back.fd
      BY <1>1, <2>2, ByIndex
    <3> QED
      BY <1>1, <1>2, <1>3, <2>2, <3>1
  <2> QED
    BY <2>1, <2>2
<1> QED
  BY <1>2, <1>3, <1>4, <1>5, <1>6 DEF RemoveBySwap, Inv, TypeOK, IndexConsistent

\* Select reports registered descriptors with the events of a channel.
LEMMA SelectInv ==
    ASSUME Inv, NEW rev \in PollResults, Select(rev)
    PROVE  Inv'
<1>1. \A i \in 1..Len(pollfds) : pollfds[i].fd \in Fds
  BY ByIndex DEF PollFd
<1>2. events' \subseteq [fd : Fds, revents : Interests]
  BY <1>1, Translation DEF Select
<1> QED
  BY <1>2 DEF Select, Inv, TypeOK, IndexConsistent, Entry

\* Every step keeps the invariant.
LEMMA NextInv == Inv /\ [Next]_vars => Inv'
<1> SUFFICES ASSUME Inv, [Next]_vars PROVE Inv'
  OBVIOUS
<1>1. ASSUME NEW fd \in Fds, NEW ev \in Interests, Add(fd, ev) PROVE Inv'
  BY <1>1, AddInv
<1>2. ASSUME NEW fd \in Fds, NEW ev \in Interests, Update(fd, ev) PROVE Inv'
  BY <1>2, UpdateInv
<1>3. ASSUME NEW fd \in Fds, RemoveLast(fd) PROVE Inv'
  BY <1>3, RemoveLastInv
<1>4. ASSUME NEW fd \in Fds, RemoveBySwap(fd) PROVE Inv'
  BY <1>4, RemoveBySwapInv
<1>5. ASSUME NEW rev \in PollResults, Select(rev) PROVE Inv'
  BY <1>5, SelectInv
<1>6. ASSUME NEW e \in events, Dispatch(e) PROVE Inv'
  BY <1>6 DEF Dispatch, Inv, TypeOK, IndexConsistent, Entry
<1>7. CASE SelectFails
  BY <1>7 DEF SelectFails, Inv, TypeOK, IndexConsistent, Entry
<1>8. CASE UNCHANGED vars
  BY <1>8 DEF vars, Inv, TypeOK, IndexConsistent, Entry
<1> QED
  BY <1>1, <1>2, <1>3, <1>4, <1>5, <1>6, <1>7, <1>8 DEF Next, NotFound

\* Whatever is registered, changed and removed in whatever order, the variables
\* have their types and _fd_idx_map is the inverse of _pollfds.
THEOREM IndexCorrect == Spec => [](TypeOK /\ IndexConsistent)
<1> QED
  BY InitInv, NextInv, PTL DEF Spec, Inv

-----------------------------------------------------------------------------
\* PollSelector keeps the promise of a Selector: every one of its steps is a
\* step of the map of interests or leaves it alone.
THEOREM Refinement == Spec => ImplementsInterestMap
<1>1. Init => Map!Init
  BY DEF Init, Map!Init, Interest
<1>2. Inv /\ [Next]_vars => [Map!Next]_Map!interestVars
  <2> SUFFICES ASSUME Inv, [Next]_vars
               PROVE  Map!Next \/ UNCHANGED <<Interest, events>>
    BY DEF Map!interestVars
  <2>0. Inv'
    BY NextInv
  <2>1. ASSUME NEW fd \in Fds, NEW ev \in Interests, Add(fd, ev) \/ Update(fd, ev)
        PROVE  Map!Next
    <3>1. /\ DOMAIN idx' = DOMAIN idx \cup {fd}
          /\ Entry(fd)'.events = PollEvents(ev)
          /\ \A f \in DOMAIN idx \ {fd} : Entry(f)'.events = Entry(f).events
      <4>1. CASE Add(fd, ev)
        BY <4>1, Sizes DEF Add, Entry, Inv, TypeOK
      <4>2. CASE Update(fd, ev)
        <5>1. fd \in DOMAIN idx /\ idx' = idx /\ idx[fd] + 1 \in 1..Len(pollfds)
          BY <4>2, Sizes DEF Update
        <5>2. /\ pollfds'[idx[fd] + 1].events = PollEvents(ev)
              /\ \A i \in 1..Len(pollfds) :
                    i # idx[fd] + 1 => pollfds'[i] = pollfds[i]
          BY <4>2, <5>1, ByIndex DEF Update, Inv, TypeOK, PollFd
        <5>3. \A f \in DOMAIN idx \ {fd} : idx[f] + 1 # idx[fd] + 1
          BY <5>1, Sizes, ByFd
        <5> QED
          <6>1. \A f \in DOMAIN idx \ {fd} : pollfds'[idx[f] + 1] = pollfds[idx[f] + 1]
            <7> SUFFICES ASSUME NEW f \in DOMAIN idx \ {fd}
                         PROVE  pollfds'[idx[f] + 1] = pollfds[idx[f] + 1]
              OBVIOUS
            <7>1. idx[f] + 1 \in 1..Len(pollfds) /\ idx[f] + 1 # idx[fd] + 1
              BY <5>3, Sizes
            <7> QED
              BY <5>2, <7>1
          <6> QED
            BY <5>1, <5>2, <6>1 DEF Entry
      <4> QED
        BY <2>1, <4>1, <4>2
    <3>2. Interest' = [f \in DOMAIN Interest \cup {fd} |->
                            IF f = fd THEN ev ELSE Interest[f]]
      BY <3>1, Translation DEF Interest
    <3>3. Map!Ask(fd, ev)
      BY <2>1, <3>2 DEF Add, Update, Map!Ask
    <3> QED
      BY <3>3 DEF Map!Next
  <2>2. ASSUME NEW fd \in Fds, RemoveLast(fd) \/ RemoveBySwap(fd)
        PROVE  Map!Next
    <3>1. DOMAIN idx' = DOMAIN idx \ {fd}
      <4>1. CASE RemoveLast(fd)
        BY <4>1 DEF RemoveLast
      <4>2. CASE RemoveBySwap(fd)
        <5>1. fd \in DOMAIN idx /\ Len(pollfds) \in 1..Len(pollfds)
          BY <4>2, Sizes DEF RemoveBySwap
        <5>2. pollfds[Len(pollfds)].fd \in DOMAIN idx
          BY <5>1, ByIndex
        <5> QED
          BY <4>2, <5>2 DEF RemoveBySwap
      <4> QED
        BY <2>2, <4>1, <4>2
    <3>2. \A f \in DOMAIN idx' : Entry(f)' = Entry(f)
      <4> SUFFICES ASSUME NEW f \in DOMAIN idx' PROVE Entry(f)' = Entry(f)
        OBVIOUS
      <4>1. CASE RemoveLast(fd)
        <5>1. /\ fd \in DOMAIN idx /\ f \in DOMAIN idx
              /\ idx'[f] = idx[f]
              /\ idx[fd] = Len(pollfds) - 1
          BY <3>1, <4>1, Sizes DEF RemoveLast
        <5>2. idx[f] + 1 \in 1..(Len(pollfds) - 1)
          BY <3>1, <5>1, Sizes, ByFd
        <5> QED
          BY <4>1, <5>1, <5>2, Sizes DEF RemoveLast, Entry, Inv, TypeOK
      <4>2. CASE RemoveBySwap(fd)
        <5> DEFINE n == Len(pollfds)
                   back == pollfds[n]
        <5>1. /\ fd \in DOMAIN idx /\ f \in DOMAIN idx /\ f # fd
              /\ idx[f] \in Nat /\ idx[f] + 1 \in 1..n
              /\ idx[fd] \in 0..(n - 2) /\ n \in Nat
          BY <3>1, <4>2, Sizes DEF RemoveBySwap
        <5>b. back.fd \in DOMAIN idx /\ idx[back.fd] = n - 1
          BY <5>1, ByIndex
        <5>2. /\ idx'[f] = IF f = back.fd THEN idx[fd] ELSE idx[f]
              /\ \A i \in 1..(n - 1) :
                    pollfds'[i] = IF i = idx[fd] + 1 THEN back ELSE pollfds[i]
          BY <4>2, <5>1, <5>b DEF RemoveBySwap, Inv, TypeOK
        <5>3. CASE f = back.fd
          BY <5>1, <5>2, <5>3, <5>b DEF Entry
        <5>4. CASE f # back.fd
          <6>1. idx[f] # idx[fd] /\ idx[f] # n - 1
            BY <5>1, <5>4, <5>b, ByFd
          <6> QED
            BY <5>1, <5>2, <5>4, <6>1 DEF Entry
        <5> QED
          BY <5>3, <5>4
      <4> QED
        BY <2>2, <4>1, <4>2
    <3>3. Map!Forget(fd)
      BY <2>2, <3>1, <3>2 DEF RemoveLast, RemoveBySwap, Map!Forget, Interest
    <3> QED
      BY <3>3 DEF Map!Next
  <2>3. ASSUME NEW rev \in PollResults, Select(rev) PROVE Map!Next
    <3>1. UNCHANGED Interest
      BY <2>3 DEF Select, Interest, Entry
    <3>2. ASSUME NEW e \in events'
          PROVE  \E i \in 1..Len(pollfds) :
                    e = [fd |-> pollfds[i].fd, revents |-> TransEv(rev[i])]
      BY <2>3 DEF Select
    <3>3. \A i \in 1..Len(pollfds) :
            /\ pollfds[i].fd \in DOMAIN idx
            /\ Entry(pollfds[i].fd) = pollfds[i]
            /\ TransEv(rev[i]) \subseteq TransEv(pollfds[i].events)
      BY ByIndex, Translation, SMTT(20) DEF Entry, PollResults
    <3>4. \A e \in events' : e.fd \in DOMAIN Interest /\ e.revents \subseteq Interest[e.fd]
      BY <3>2, <3>3 DEF Interest
    <3>5. \A e, o \in events' : e.fd = o.fd => e = o
      BY <3>2, ByIndex
    <3> QED
      BY <3>1, <3>4, <3>5 DEF Map!Report, Map!Next
  <2>4. ASSUME NEW e \in events, Dispatch(e) PROVE Map!Next
    BY <2>4 DEF Dispatch, Map!Handle, Map!Next, Interest, Entry
  <2>5. CASE SelectFails \/ (\E fd \in Fds : NotFound(fd)) \/ UNCHANGED vars
    BY <2>5 DEF SelectFails, NotFound, vars, Interest, Entry
  <2> QED
    BY <2>1, <2>2, <2>3, <2>4, <2>5 DEF Next
<1> QED
  BY <1>1, <1>2, InitInv, NextInv, PTL
     DEF Spec, ImplementsInterestMap, Map!Spec
=============================================================================
