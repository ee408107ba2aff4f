------------------------------ MODULE TcpServer ------------------------------
(***************************************************************************)
(* multi::Server with its Acceptor, its Connections and their Channels,    *)
(* the channel table and the epoll set of every dispatcher.                *)
(*                                                                         *)
(* Dispatcher 0 is the main one (acceptor, table of connections); 1 to     *)
(* WorkerNum are the ones of the IoWorkers.  With WorkerNum = 0 the main   *)
(* one serves the connections itself.  What RunInEvd does is taken from    *)
(* module Executor, which EventDispatcher implements: a functor for        *)
(* another thread's dispatcher is queued and run there in order, one for   *)
(* the caller's own runs at once.                                          *)
(*                                                                         *)
(* A handler or functor is one step, except that the two handlers of one   *)
(* event, what Connection::HandleRead does after its close callback and    *)
(* what newConnect does after its hand-over are steps of their own.  A     *)
(* failing epoll_ctl or readv is LOG(FATAL), which ends the process.       *)
(***************************************************************************)
EXTENDS Naturals, Sequences, FiniteSets, SequencesExt

CONSTANTS
    Conns,      \* connection objects, each made at most once (bound)
    NoCon,
    Fds,        \* descriptors for accepted sockets
    NoFd,       \* the -1 of a failing accept
    Messages,   \* what is sent, each at most once (bound)
    MsgLen,     \* length of a message
    WorkerNum,  \* _worker_num
    Threads     \* threads other than the loop threads

ASSUME TcpAssumption ==
    /\ NoCon \notin Conns /\ NoFd \notin Fds
    /\ {"idle", "done"} \cap Conns = {}
    /\ MsgLen \in Nat \ {0} /\ WorkerNum \in Nat

Main == 0
Evds == 0..WorkerNum

VARIABLES
    con,        \* the members of every Connection
    table,      \* _connections: identifier -> connection
    nextId,     \* _next_id
    nextEvd,    \* _next_evd_id
    channels,   \* _channels of every dispatcher: descriptor -> connection
    epoll,      \* the epoll set of every dispatcher: descriptor -> interest
    open,       \* the accepted socket behind each descriptor, or NoCon
    queue,      \* functors handed over to every dispatcher
    batch,      \* events of the last Select not dispatched yet
    act,        \* the connection a loop is handling and what is left to do
    caller,     \* ForceClose in other threads: "idle", the connection, "done"
    inbox,      \* unread input of every socket
    peer,       \* "up", "closed" (has shut down) or "reset"
    wire,       \* what the peer of every socket was sent
    fatal,      \* "none", or what ended the process
    accepted,   \* history: what send() took over, per connection
    sent,       \* history: messages used
    late        \* history: ways in which a closed connection was used

conVars == <<con, table, nextId, nextEvd>>
regVars == <<channels, epoll>>
loopVars == <<queue, batch, act>>
peerVars == <<inbox, peer, wire>>
history == <<accepted, sent, late>>
vars == <<con, table, nextId, nextEvd, channels, epoll, open, queue, batch,
          act, caller, inbox, peer, wire, fatal, accepted, sent, late>>

Interest == SUBSET {"r", "w"}
Statuses == {"NONE", "CONNECTING", "CONNECTED", "CLOSING", "CLOSED"}
NoAct == [con |-> NoCon, left |-> {}]
EmptyMap == [x \in {} |-> x]

\* The map m after insert, which keeps the value of a key that is there, and
\* without the key k.
With(m, k, v) == [x \in DOMAIN m \cup {k} |-> IF x \in DOMAIN m THEN m[x] ELSE v]
Without(m, k) == [x \in DOMAIN m \ {k} |-> m[x]]
Values(m) == {m[x] : x \in DOMAIN m}
Text(m) == [i \in 1..MsgLen |-> <<m, i>>]
Functor(op, c, m) == [op |-> op, con |-> c, msg |-> m]

Idle(e) == act[e].left = {}
\* The dispatcher is between two rounds.
Resting(e) == Idle(e) /\ DOMAIN batch[e] = {}
Socket(c) == IF con[c].fd = NoFd THEN NoCon ELSE open[con[c].fd]

\* newConnect has handed c to its loop and not put it into the table yet.
Inserting(c) == act[Main].con = c /\ "insert" \in act[Main].left
\* A ConnectionPtr to c exists outside the handler that is running.
Alive(c) ==
    \/ c \in Values(table) \/ Inserting(c)
    \/ \E e \in Evds : \E i \in 1..Len(queue[e]) : queue[e][i].con = c
    \/ \E t \in Threads : caller[t] = c

Init ==
    /\ con = [c \in Conns |->
                [status |-> "NONE", fd |-> NoFd, evd |-> Main, id |-> 0,
                 events |-> {}, attached |-> FALSE, out |-> <<>>]]
    /\ table = EmptyMap /\ nextId = 1 /\ nextEvd = 1
    /\ channels = [e \in Evds |-> EmptyMap]
    /\ epoll = [e \in Evds |-> EmptyMap]
    /\ open = [f \in Fds |-> NoCon]
    /\ queue = [e \in Evds |-> <<>>]
    /\ batch = [e \in Evds |-> EmptyMap]
    /\ act = [e \in Evds |-> NoAct]
    /\ caller = [t \in Threads |-> "idle"]
    /\ inbox = [c \in Conns |-> 0]
    /\ peer = [c \in Conns |-> "up"]
    /\ wire = [c \in Conns |-> <<>>]
    /\ fatal = "none"
    /\ accepted = [c \in Conns |-> <<>>]
    /\ sent = {} /\ late = {}

-----------------------------------------------------------------------------
(* EpollSelector and the channel table.                                    *)

(* Each operator says what happens to epoll, channels and fatal.           *)

\* EpollSelector::Add, Update and Remove: a descriptor is added once, and only
\* one that was added can be changed or removed.
EpollAdd(e, f, ev) ==
    IF f \in Fds /\ f \notin DOMAIN epoll[e]
    THEN epoll' = [epoll EXCEPT ![e] = With(@, f, ev)] /\ UNCHANGED fatal
    ELSE fatal' = (IF f = NoFd THEN "accept" ELSE "epoll") /\ UNCHANGED epoll

EpollUpdate(e, f, ev) ==
    IF f \in DOMAIN epoll[e]
    THEN epoll' = [epoll EXCEPT ![e][f] = ev] /\ UNCHANGED fatal
    ELSE fatal' = "epoll" /\ UNCHANGED epoll

EpollRemove(e, f) ==
    IF f \in DOMAIN epoll[e]
    THEN epoll' = [epoll EXCEPT ![e] = Without(@, f)] /\ UNCHANGED fatal
    ELSE fatal' = "epoll" /\ UNCHANGED epoll

\* The selector, then _channels.insert (a key that is there stays) or erase.
RegisterChannel(e, f, c, ev) ==
    /\ EpollAdd(e, f, ev)
    /\ channels' = IF fatal' # "none" THEN channels
                   ELSE [channels EXCEPT ![e] = With(@, f, c)]

UpdateChannel(e, f, ev) == EpollUpdate(e, f, ev) /\ UNCHANGED channels

MutRemoveChannel(e, f) == EpollRemove(e, f) /\ UNCHANGED channels

RemoveChannel(e, f) ==
    /\ EpollRemove(e, f)
    /\ channels' = IF fatal' # "none" THEN channels
                   ELSE [channels EXCEPT ![e] = Without(@, f)]

-----------------------------------------------------------------------------
(* Connection.  The operators say what happens to con, channels, epoll,    *)
(* fatal and the variables named with each; r is the record of c before    *)
(* the step, with the changes that the caller makes.                       *)

\* Channel::SetEvents of an attached channel.
SetEvents(c, r, ev) ==
    /\ con' = [con EXCEPT ![c] = [r EXCEPT !.events = ev]]
    /\ UpdateChannel(r.evd, r.fd, ev)

KeepEvents(c, r) == con' = [con EXCEPT ![c] = r] /\ UNCHANGED <<regVars, fatal>>

\* establish: EnableRead registers the new channel.
Establish(c, r) ==
    /\ con' = [con EXCEPT ![c] = [r EXCEPT !.events = {"r"}, !.attached = TRUE,
                                           !.status = "CONNECTED"]]
    /\ RegisterChannel(r.evd, r.fd, c, {"r"})

MutSendable(c) == Socket(c) # NoCon

\* send() writes to the socket itself only if nothing waits to be written.
Sendable(c) ==
    "w" \notin con[c].events /\ con[c].out = <<>> /\ Socket(c) # NoCon

\* The kernel takes the first n bytes of text from the descriptor of c; by
\* then that descriptor may belong to another connection.
WriteOut(c, text, n) ==
    wire' = IF n = 0 THEN wire
            ELSE [wire EXCEPT ![Socket(c)] = @ \o SubSeq(text, 1, n)]

MutBuffer(c, rest) ==
    KeepEvents(c, [con[c] EXCEPT !.out = @ \o rest])

\* The end of send(): what is left goes to the output buffer and write
\* interest is switched on.
Buffer(c, rest) ==
    LET r == [con[c] EXCEPT !.out = @ \o rest]
    IN  IF rest # <<>> /\ "w" \notin r.events
        THEN SetEvents(c, r, r.events \cup {"w"})
        ELSE KeepEvents(c, r)

\* send(m), also wire and accepted.  EPIPE and ECONNRESET end the process.
Send(c, m) ==
    \/ /\ con[c].status # "CONNECTED"
       /\ UNCHANGED <<con, regVars, fatal, wire, accepted>>
    \/ /\ con[c].status = "CONNECTED"
       /\ \E n \in IF Sendable(c) THEN 0..MsgLen ELSE {0} :
             /\ WriteOut(c, Text(m), n)
             /\ Buffer(c, SubSeq(Text(m), n + 1, MsgLen))
       /\ accepted' = [accepted EXCEPT ![c] = @ \o Text(m)]
    \/ /\ con[c].status = "CONNECTED" /\ Sendable(c)
       /\ peer[Socket(c)] # "up"
       /\ fatal' = "pipe"
       /\ UNCHANGED <<con, regVars, wire, accepted>>

\* multi::Server::closeConnect and removeConnect, in the dispatcher of c: the
\* channel goes at once, the table entry in the main dispatcher.  Also table,
\* queue (from q) and late.
CloseConnect(c, q, status) ==
    LET e == con[c].evd
        f == con[c].fd
    IN  /\ RemoveChannel(e, f)
        /\ late' = IF f \in DOMAIN channels[e] /\ channels[e][f] = c THEN late
                   ELSE late \cup {"remove"}
        /\ con' = [con EXCEPT ![c].status = status]
        /\ IF e = Main
           THEN table' = Without(table, con[c].id) /\ queue' = q
           ELSE /\ queue' = [q EXCEPT ![Main] =
                                Append(@, Functor("erase", c, NoCon))]
                /\ UNCHANGED table

\* ::close(_fd) first: the kernel drops the registration, EPOLL_CTL_DEL fails.
MutForceClosed(c, q) ==
    /\ epoll' = [epoll EXCEPT ![con[c].evd] = Without(@, con[c].fd)]
    /\ open' = [open EXCEPT ![con[c].fd] = NoCon]
    /\ fatal' = "epoll"
    /\ queue' = q
    /\ UNCHANGED <<con, channels, table, late>>

\* The functor of ForceClose: closeConnect, then ::close(_fd).
ForceClosed(c, q) ==
    /\ CloseConnect(c, q, "CLOSED")
    /\ open' = [open EXCEPT ![con[c].fd] = NoCon]

-----------------------------------------------------------------------------
(* The event loops.                                                        *)

\* Select: the ready descriptors, all or some of them, with what they are
\* ready for.
Ready(s, ev) == ev # {} /\ ("r" \in ev => inbox[s] > 0 \/ peer[s] # "up")
Select(e) ==
    /\ Resting(e)
    /\ \E F \in SUBSET DOMAIN epoll[e] :
          /\ F # {}
          /\ \E b \in [F -> Interest] :
                /\ \A f \in F : b[f] \subseteq epoll[e][f] /\ Ready(open[f], b[f])
                /\ batch' = [batch EXCEPT ![e] = b]
    /\ UNCHANGED <<conVars, regVars, open, queue, act, caller, peerVars, fatal,
                   history>>

\* One event of the batch: findChannel, then Channel::HandleEvent; a
\* descriptor without a channel is removed from the epoll set.
Dispatch(e) ==
    /\ Idle(e)
    /\ \E f \in DOMAIN batch[e] :
          /\ batch' = [batch EXCEPT ![e] = Without(@, f)]
          /\ IF f \in DOMAIN channels[e]
             THEN /\ act' = [act EXCEPT ![e] = [con |-> channels[e][f],
                                                left |-> batch[e][f]]]
                  /\ UNCHANGED <<regVars, fatal, late>>
             ELSE /\ EpollRemove(e, f)
                  /\ late' = late \cup {"event"}
                  /\ UNCHANGED <<channels, act>>
    /\ UNCHANGED <<conVars, open, queue, caller, peerVars, accepted, sent>>

\* What is left to do for the event after one of its handlers.
Leave(e, left) ==
    act' = [act EXCEPT ![e] = IF left = {} THEN NoAct ELSE [@ EXCEPT !.left = left]]

\* Connection::HandleRead with input.  The message callback does nothing with
\* the connection, sends, or closes this or another connection of the loop.
HandleInput(e) ==
    LET c == act[e].con
        s == Socket(c)
    IN  /\ "r" \in act[e].left /\ s # NoCon /\ inbox[s] > 0
        /\ inbox' = [inbox EXCEPT ![s] = 0]
        /\ Leave(e, act[e].left \ {"r"})
        /\ \/ UNCHANGED <<con, table, regVars, open, queue, wire, fatal, history>>
           \/ \E m \in Messages \ sent :
                 /\ Send(c, m)
                 /\ sent' = sent \cup {m}
                 /\ UNCHANGED <<table, open, queue, late>>
           \/ \E d \in Conns :
                 /\ con[d].status = "CONNECTED" /\ con[d].evd = e
                 /\ ForceClosed(d, queue)
                 /\ UNCHANGED <<wire, accepted, sent>>
        /\ UNCHANGED <<nextId, nextEvd, batch, caller, peer>>

\* HandleRead at the end of the input: the close callback ...
HandleEnd(e) ==
    LET c == act[e].con
        s == Socket(c)
    IN  /\ "r" \in act[e].left /\ s # NoCon
        /\ inbox[s] = 0 /\ peer[s] = "closed"
        /\ CloseConnect(c, queue, "CLOSING")
        /\ Leave(e, (act[e].left \ {"r"}) \cup {"close"})
        /\ UNCHANGED <<nextId, nextEvd, open, batch, caller, peerVars, accepted,
                       sent>>

\* ... and then _status = CLOSED, in a connection that may be gone already.
HandleEndReturns(e) ==
    LET c == act[e].con
    IN  /\ "close" \in act[e].left
        /\ con' = [con EXCEPT ![c].status = "CLOSED"]
        /\ late' = IF Alive(c) THEN late ELSE late \cup {"freed"}
        /\ Leave(e, act[e].left \ {"close"})
        /\ UNCHANGED <<table, nextId, nextEvd, regVars, open, queue, batch,
                       caller, peerVars, fatal, accepted, sent>>

\* HandleRead when readv fails: reset by the peer, nothing to read, or a
\* descriptor that is not open.
HandleReadError(e) ==
    LET s == Socket(act[e].con)
    IN  /\ "r" \in act[e].left
        /\ s = NoCon \/ (inbox[s] = 0 /\ peer[s] # "closed")
        /\ fatal' = "read"
        /\ UNCHANGED <<conVars, regVars, open, loopVars, caller, peerVars,
                       history>>

\* Connection::HandleWrite, after HandleRead of the same event.  A send that
\* fails or takes nothing changes nothing.
HandleWrite(e) ==
    LET c == act[e].con
        out == con[c].out
    IN  /\ act[e].left = {"w"}
        /\ \E n \in IF Socket(c) = NoCon THEN {0} ELSE 0..Len(out) :
              LET r == [con[c] EXCEPT !.out = SubSeq(out, n + 1, Len(out))]
              IN  /\ WriteOut(c, out, n)
                  /\ IF n > 0 /\ r.out = <<>>
                     THEN SetEvents(c, r, r.events \ {"w"})
                     ELSE KeepEvents(c, r)
        /\ late' = IF con[c].status = "CONNECTED" THEN late
                   ELSE late \cup {"write"}
        /\ Leave(e, {})
        /\ UNCHANGED <<table, nextId, nextEvd, open, queue, batch, caller, inbox,
                       peer, accepted, sent>>

MutErase(c) == table' = table

\* The functor of removeConnect.
Erase(c) == table' = Without(table, con[c].id)

\* A functor handed over to dispatcher e.
RunFunctor(e) ==
    /\ Resting(e) /\ queue[e] # <<>>
    /\ LET g == Head(queue[e])
           q == [queue EXCEPT ![e] = Tail(@)]
       IN \/ /\ g.op = "establish"
             /\ Establish(g.con, con[g.con])
             /\ queue' = q
             /\ UNCHANGED <<table, open, wire, accepted, late>>
          \/ /\ g.op = "send"
             /\ Send(g.con, g.msg)
             /\ queue' = q
             /\ UNCHANGED <<table, open, late>>
          \/ /\ g.op = "close"
             /\ ForceClosed(g.con, q)
             /\ UNCHANGED <<wire, accepted>>
          \/ /\ g.op = "erase"
             /\ Erase(g.con)
             /\ queue' = q
             /\ UNCHANGED <<con, regVars, open, wire, fatal, accepted, late>>
    /\ UNCHANGED <<nextId, nextEvd, batch, act, caller, inbox, peer, sent>>

-----------------------------------------------------------------------------
(* The acceptor, the other threads and the peers.                          *)

\* nextId: the first identifier from _next_id on that is not in the table.
NextId ==
    CHOOSE i \in nextId..(nextId + Cardinality(DOMAIN table)) :
        /\ i \notin DOMAIN table
        /\ \A j \in nextId..(i - 1) : j \in DOMAIN table

\* What accept4 may return: a free descriptor, or -1 also when one is free
\* (EAGAIN, ECONNABORTED and others are logged and passed on).
AcceptResults == {NoFd} \cup {f \in Fds : open[f] = NoCon}

\* The errors of accept4 that _accept_connect calls unexpected.
AcceptDies ==
    /\ Idle(Main)
    /\ fatal' = "accept"
    /\ UNCHANGED <<conVars, regVars, open, loopVars, caller, peerVars, history>>

\* nextEvd: the dispatchers of the workers in turn.
ChosenEvd == IF WorkerNum = 0 THEN Main ELSE nextEvd

\* Acceptor::HandleRead and multi::Server::newConnect, in the main loop, up to
\* the hand-over to the loop of the connection, which may serve it from then
\* on ...
NewConnect(c, f) ==
    LET e == ChosenEvd
        r == [con[c] EXCEPT !.status = "CONNECTING", !.fd = f, !.evd = e,
                            !.id = NextId]
    IN  /\ Idle(Main) /\ con[c].status = "NONE"
        /\ open' = IF f = NoFd THEN open ELSE [open EXCEPT ![f] = c]
        /\ nextId' = NextId
        /\ nextEvd' = IF nextEvd >= WorkerNum THEN 1 ELSE nextEvd + 1
        /\ act' = [act EXCEPT ![Main] = [con |-> c, left |-> {"insert"}]]
        /\ IF e = Main
           THEN Establish(c, r) /\ UNCHANGED queue
           ELSE /\ con' = [con EXCEPT ![c] = r]
                /\ queue' = [queue EXCEPT ![e] =
                                Append(@, Functor("establish", c, NoCon))]
                /\ UNCHANGED <<regVars, fatal>>
        /\ UNCHANGED <<table, batch, caller, peerVars, history>>

\* ... and then the entry in the table of the server.
InsertConnect ==
    LET c == act[Main].con
    IN  /\ "insert" \in act[Main].left
        /\ table' = With(table, con[c].id, c)
        /\ Leave(Main, {})
        /\ UNCHANGED <<con, nextId, nextEvd, regVars, open, queue, batch, caller,
                       peerVars, fatal, history>>

\* Connection::Send in another thread, which has a ConnectionPtr from the
\* connect callback or from a message callback.
SendFrom(c, m) ==
    /\ con[c].status # "NONE" /\ Alive(c) /\ m \notin sent
    /\ con[c].status = "CONNECTING" => ~Inserting(c)
    /\ queue' = [queue EXCEPT ![con[c].evd] = Append(@, Functor("send", c, m))]
    /\ sent' = sent \cup {m}
    /\ UNCHANGED <<conVars, regVars, open, batch, act, caller, peerVars, fatal,
                   accepted, late>>

\* ForceClose in another thread, once per thread (bound): the test of the
\* status ...
ForceClose(t, c) ==
    /\ caller[t] = "idle" /\ con[c].status = "CONNECTED" /\ Alive(c)
    /\ caller' = [caller EXCEPT ![t] = c]
    /\ UNCHANGED <<conVars, regVars, open, loopVars, peerVars, fatal, history>>

\* ... and then the hand-over by SyncRunInEvd (the thread then waits, which
\* changes nothing here).
ForceCloseRun(t) ==
    LET c == caller[t]
    IN  /\ c \in Conns
        /\ queue' = [queue EXCEPT ![con[c].evd] =
                        Append(@, Functor("close", c, NoCon))]
        /\ caller' = [caller EXCEPT ![t] = "done"]
        /\ UNCHANGED <<conVars, regVars, open, batch, act, peerVars, fatal,
                       history>>

\* The peer of socket c sends, shuts down or resets.
PeerSends(c) ==
    /\ c \in Values(open) /\ peer[c] = "up" /\ inbox[c] = 0
    /\ inbox' = [inbox EXCEPT ![c] = 1]
    /\ UNCHANGED <<conVars, regVars, open, loopVars, caller, peer, wire, fatal,
                   history>>

PeerEnds(c, how) ==
    /\ c \in Values(open) /\ peer[c] = "up"
    /\ peer' = [peer EXCEPT ![c] = how]
    /\ inbox' = [inbox EXCEPT ![c] = IF how = "reset" THEN 0 ELSE @]
    /\ UNCHANGED <<conVars, regVars, open, loopVars, caller, wire, fatal,
                   history>>

-----------------------------------------------------------------------------
LoopStep(e) ==
    /\ fatal = "none"
    /\ \/ Select(e) \/ Dispatch(e) \/ HandleInput(e) \/ HandleEnd(e)
       \/ HandleEndReturns(e) \/ HandleReadError(e) \/ HandleWrite(e) \/ RunFunctor(e)

OtherStep ==
    /\ fatal = "none"
    /\ \/ \E c \in Conns : \E f \in AcceptResults : NewConnect(c, f)
       \/ InsertConnect
       \/ AcceptDies
       \/ \E c \in Conns, m \in Messages : SendFrom(c, m)
       \/ \E t \in Threads, c \in Conns : ForceClose(t, c)
       \/ \E t \in Threads : ForceCloseRun(t)
       \/ \E c \in Conns : PeerSends(c)
       \/ \E c \in Conns, how \in {"closed", "reset"} : PeerEnds(c, how)

Next == OtherStep \/ \E e \in Evds : LoopStep(e)

Spec == Init /\ [][Next]_vars

-----------------------------------------------------------------------------
(* Properties.  "late" collects the ways in which the code touches a       *)
(* connection after it was closed; while it is empty, and only then, all   *)
(* the tables agree.                                                       *)

Records == [status : Statuses, fd : Fds \cup {NoFd}, evd : Evds, id : Nat,
            events : Interest, attached : BOOLEAN,
            out : Seq(Messages \X (1..MsgLen))]

\* Types of the connections and of the bookkeeping around them; a loop only
\* handles a connection that was made.
TypeOK ==
    /\ con \in [Conns -> Records]
    /\ DOMAIN table \subseteq Nat \ {0} /\ Values(table) \subseteq Conns
    /\ nextId \in Nat \ {0} /\ nextEvd \in 1..(WorkerNum + 1)
    /\ \A e \in Evds :
          /\ DOMAIN channels[e] \subseteq Fds /\ Values(channels[e]) \subseteq Conns
          /\ DOMAIN epoll[e] \subseteq Fds /\ Values(epoll[e]) \subseteq Interest
          /\ DOMAIN batch[e] \subseteq Fds /\ Values(batch[e]) \subseteq Interest \ {{}}
          /\ act[e].con = NoCon <=> act[e].left = {}
          /\ act[e].con # NoCon => con[act[e].con].status # "NONE"
    /\ open \in [Fds -> Conns \cup {NoCon}]
    /\ fatal \in {"none", "accept", "epoll", "pipe", "read"}
    /\ late \subseteq {"remove", "event", "freed", "write"}

\* The channel table, the epoll set, the descriptor, the connection's own
\* members and the server's table (or newConnect, which is about to add it
\* there) name the same connection: no channel of a loop dangles and no
\* connection is served by two loops.
RegistryConsistent ==
    /\ TypeOK
    /\ late = {} => \A e \in Evds :
          /\ DOMAIN channels[e] = DOMAIN epoll[e]
          /\ \A f \in DOMAIN channels[e] :
                LET c == channels[e][f]
                IN  /\ con[c].fd = f /\ con[c].evd = e /\ open[f] = c
                    /\ con[c].status = "CONNECTED"
                    /\ \/ con[c].id \in DOMAIN table /\ table[con[c].id] = c
                       \/ Inserting(c) /\ con[c].id \notin DOMAIN table

\* A connection waits for its socket to become writable exactly while it has
\* output to write: buffered output is not forgotten and an empty buffer does
\* not keep the loop busy.
WriteInterest ==
    late = {} /\ fatal = "none" => \A c \in Conns :
        con[c].status = "CONNECTED" =>
            /\ epoll[con[c].evd][con[c].fd] = con[c].events
            /\ "w" \in con[c].events <=> con[c].out # <<>>

\* The peer gets what send() took over, in order and without gaps, however
\* direct writes, buffered output and partial writes follow each other, and
\* never what was meant for another connection.
OutputInOrder ==
    late = {} => \A c \in Conns : accepted[c] = wire[c] \o con[c].out

\* epoll_ctl never fails (and the process does not die of it) unless a closed
\* connection is used.
EpollFailsOnlyLate == fatal = "epoll" => late # {}

\* A closed connection leaves the table of the server, and nothing else does:
\* it is in the table only as long as the functor that erases it is queued,
\* also when it was closed before newConnect put it there.
ClosedIsErased ==
    late = {} /\ fatal = "none" => \A c \in Conns :
        LET erase == Functor("erase", c, NoCon)
        IN  con[c].status \in {"CLOSING", "CLOSED"} =>
                (c \in Values(table) \/ Inserting(c) <=> erase \in ToSet(queue[Main]))

\* RemoveChannel asserts it->second == channel: the channel that is removed
\* is the one that the loop has for its descriptor.
RemoveFindsChannel == "remove" \notin late
=============================================================================
