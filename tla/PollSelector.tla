---------------------------- MODULE PollSelector ----------------------------
(***************************************************************************)
(* rpc/selector.cpp: the Selector on top of poll.  The vector _pollfds is  *)
(* kept dense: Remove moves the last entry into the gap, and _fd_idx_map   *)
(* has to follow.  All calls come from the loop thread: from the handlers  *)
(* of the events that Select reported and from functors, hence also        *)
(* between a report and its handling.                                      *)
(*                                                                         *)
(* Sets of event bits are sets of names.  The vector of the reported       *)
(* events is a set: a descriptor is in it once, and the order does not     *)
(* matter here.                                                            *)
(***************************************************************************)
EXTENDS Integers, Sequences, FiniteSets

CONSTANT
    Fds         \* file descriptors

VARIABLES
    pollfds,    \* _pollfds
    idx,        \* _fd_idx_map: partial function to indexes from 0 on
    events,     \* the events of the last Select that are not handled yet
    running     \* the process lives: an error of poll ends it

vars == <<pollfds, idx, events, running>>

Interests == SUBSET {"EV_READ", "EV_WRITE"}
PollBits == {"POLLIN", "POLLOUT", "POLLHUP"}     \* POLLHUP: POLLERR, POLLNVAL too
PollFd == [fd : Fds, events : SUBSET {"POLLIN", "POLLOUT"}]

TypeOK ==
    /\ pollfds \in Seq(PollFd)
    /\ DOMAIN idx \subseteq Fds
    /\ idx \in [DOMAIN idx -> Nat]
    /\ events \subseteq [fd : Fds, revents : Interests]
    /\ running \in BOOLEAN

\* The bits of struct pollfd for the events of a channel, and _trans_ev.
PollEvents(ev) ==
    (IF "EV_READ" \in ev THEN {"POLLIN"} ELSE {})
        \cup (IF "EV_WRITE" \in ev THEN {"POLLOUT"} ELSE {})

TransEv(revents) ==
    (IF "POLLIN" \in revents THEN {"EV_READ"} ELSE {})
        \cup (IF "POLLOUT" \in revents THEN {"EV_WRITE"} ELSE {})

Entry(fd) == pollfds[idx[fd] + 1]

-----------------------------------------------------------------------------
Init ==
    /\ pollfds = <<>>
    /\ idx = [fd \in {} |-> 0]
    /\ events = {}
    /\ running = TRUE

\* A channel registers its descriptor once (Channel::Update).
Add(fd, ev) ==
    /\ running
    /\ fd \notin DOMAIN idx
    /\ pollfds' = Append(pollfds, [fd |-> fd, events |-> PollEvents(ev)])
    /\ idx' = [f \in DOMAIN idx \cup {fd} |-> IF f = fd THEN Len(pollfds) ELSE idx[f]]
    /\ UNCHANGED <<events, running>>

Update(fd, ev) ==
    /\ running
    /\ fd \in DOMAIN idx
    /\ pollfds' = [pollfds EXCEPT ![idx[fd] + 1].events = PollEvents(ev)]
    /\ UNCHANGED <<idx, events, running>>

\* The last entry is dropped, or moves to the place of the removed one.
RemoveLast(fd) ==
    /\ running
    /\ fd \in DOMAIN idx
    /\ idx[fd] = Cardinality(DOMAIN idx) - 1
    /\ pollfds' = SubSeq(pollfds, 1, Len(pollfds) - 1)
    /\ idx' = [f \in DOMAIN idx \ {fd} |-> idx[f]]
    /\ UNCHANGED <<events, running>>

\* Mutant: the index of the moved entry is not updated.
MutRemoveBySwap(fd) ==
    /\ running
    /\ fd \in DOMAIN idx
    /\ idx[fd] # Cardinality(DOMAIN idx) - 1
    /\ pollfds' = SubSeq([pollfds EXCEPT ![idx[fd] + 1] = pollfds[Len(pollfds)]],
                         1, Len(pollfds) - 1)
    /\ idx' = [f \in DOMAIN idx \ {fd} |-> idx[f]]
    /\ UNCHANGED <<events, running>>

RemoveBySwap(fd) ==
    LET back == pollfds[Len(pollfds)] IN
    /\ running
    /\ fd \in DOMAIN idx
    /\ idx[fd] # Cardinality(DOMAIN idx) - 1
    /\ pollfds' = SubSeq([pollfds EXCEPT ![idx[fd] + 1] = back], 1, Len(pollfds) - 1)
    /\ idx' = [f \in (DOMAIN idx \cup {back.fd}) \ {fd} |->
                    IF f = back.fd THEN idx[fd] ELSE idx[f]]
    /\ UNCHANGED <<events, running>>

\* Update and Remove return -1 for a descriptor that is not registered.
NotFound(fd) ==
    /\ running
    /\ fd \notin DOMAIN idx
    /\ UNCHANGED vars

\* What poll may find: what was asked for, and failures, which need no asking.
PollResults ==
    {rev \in [1..Len(pollfds) -> SUBSET PollBits] :
        \A i \in 1..Len(pollfds) :
            rev[i] \subseteq pollfds[i].events \cup {"POLLHUP"}}

\* Mutant: the bits of another entry are reported for a descriptor.
MutSelect(rev) ==
    /\ running
    /\ events = {}
    /\ events' = {[fd |-> pollfds[i].fd, revents |-> TransEv(rev[Len(pollfds) + 1 - i])] :
                    i \in {j \in 1..Len(pollfds) : rev[j] # {}}}
    /\ UNCHANGED <<pollfds, idx, running>>

\* The loop asks again when all events are handled.
Select(rev) ==
    /\ running
    /\ events = {}
    /\ events' = {[fd |-> pollfds[i].fd, revents |-> TransEv(rev[i])] :
                    i \in {j \in 1..Len(pollfds) : rev[j] # {}}}
    /\ UNCHANGED <<pollfds, idx, running>>

\* LOG(FATAL), also when poll was interrupted by a signal.
SelectFails ==
    /\ running
    /\ events = {}
    /\ running' = FALSE
    /\ UNCHANGED <<pollfds, idx, events>>

\* One round of the loop of Start.  What the handler does to the selector are
\* the actions above; an event of a descriptor that is not registered any more
\* makes the dispatcher call Remove, which does not find it.
Dispatch(e) ==
    /\ running
    /\ events' = events \ {e}
    /\ UNCHANGED <<pollfds, idx, running>>

Next ==
    \/ \E fd \in Fds : \/ \E ev \in Interests : Add(fd, ev) \/ Update(fd, ev)
                       \/ RemoveLast(fd)
                       \/ RemoveBySwap(fd)
                       \/ NotFound(fd)
    \/ \E rev \in PollResults : Select(rev)
    \/ SelectFails
    \/ \E e \in events : Dispatch(e)

Spec == Init /\ [][Next]_vars

-----------------------------------------------------------------------------
\* After any sequence of registrations and removals _fd_idx_map is the inverse
\* of _pollfds: every entry is found through its descriptor, and Remove's test
\* of the number of map entries does tell the last entry.
IndexConsistent ==
    /\ IsFiniteSet(DOMAIN idx)
    /\ Cardinality(DOMAIN idx) = Len(pollfds)
    /\ \A fd \in DOMAIN idx : idx[fd] < Len(pollfds) /\ Entry(fd).fd = fd
    /\ \A i \in 1..Len(pollfds) :
        pollfds[i].fd \in DOMAIN idx /\ idx[pollfds[i].fd] = i - 1

\* The vector and its index together are the map of interests that the
\* dispatcher relies on.
Interest == [fd \in DOMAIN idx |-> TransEv(Entry(fd).events)]
Map == INSTANCE InterestMap WITH interest <- Interest, reported <- events
ImplementsInterestMap == Map!Spec
=============================================================================
