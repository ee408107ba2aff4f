--------------------------- MODULE TcpServer_proofs ---------------------------
(***************************************************************************)
(* Proofs about TcpServer for any connections, descriptors, messages,      *)
(* workers and threads: as long as no closed connection is used, the       *)
(* tables agree, write interest follows the output buffer, the output is   *)
(* in order, epoll_ctl does not fail and the closed connections, and only  *)
(* they, leave the table.                                                  *)
(***************************************************************************)
EXTENDS TcpServer, SeqLemmas

Data == Messages \X (1..MsgLen)

FunctorSet ==
    [op : {"establish", "close", "erase"}, con : Conns, msg : {NoCon}]
        \cup [op : {"send"}, con : Conns, msg : Messages]

Left == SUBSET {"r", "w", "close", "insert"}

\* The types, which hold whatever happens.  Beyond TypeOK: a connection that a
\* loop serves was made, and newConnect has given it an identifier.
ConType == con \in [Conns -> Records]

CounterType ==
    /\ nextId \in Nat \ {0}
    /\ nextEvd \in Nat \ {0} /\ (nextEvd <= WorkerNum \/ nextEvd = 1)

TableType ==
    /\ DOMAIN table \subseteq Nat \ {0} /\ IsFiniteSet(DOMAIN table)
    /\ \A i \in DOMAIN table : table[i] \in Conns

ChannelType ==
    /\ channels = [e \in Evds |-> channels[e]]
    /\ \A e \in Evds :
          /\ DOMAIN channels[e] \subseteq Fds
          /\ \A f \in DOMAIN channels[e] :
                channels[e][f] \in Conns /\ con[channels[e][f]].status # "NONE"

EpollType ==
    /\ epoll = [e \in Evds |-> epoll[e]]
    /\ \A e \in Evds : /\ DOMAIN epoll[e] \subseteq Fds
                       /\ \A f \in DOMAIN epoll[e] : epoll[e][f] \in Interest

BatchType ==
    /\ batch = [e \in Evds |-> batch[e]]
    /\ \A e \in Evds : /\ DOMAIN batch[e] \subseteq Fds
                       /\ \A f \in DOMAIN batch[e] : batch[e][f] \in Interest \ {{}}

QueueType == queue \in [Evds -> Seq(FunctorSet)]

ActType ==
    /\ act \in [Evds -> [con : Conns \cup {NoCon}, left : Left]]
    /\ \A e \in Evds :
          /\ act[e].con = NoCon <=> act[e].left = {}
          /\ act[e].con # NoCon => con[act[e].con].status # "NONE"
          /\ "insert" \in act[e].left =>
                act[e].left = {"insert"} /\ con[act[e].con].id # 0

CallerType == caller \in [Threads -> Conns \cup {"idle", "done"}]

OpenType == open \in [Fds -> Conns \cup {NoCon}]

WireType == wire \in [Conns -> Seq(Data)] /\ accepted \in [Conns -> Seq(Data)]

FlagType ==
    /\ fatal \in {"none", "accept", "epoll", "pipe", "read"}
    /\ late \subseteq {"remove", "event", "freed", "write"}

Types ==
    /\ ConType /\ CounterType /\ TableType /\ ChannelType /\ EpollType /\ BatchType
    /\ QueueType /\ ActType /\ CallerType /\ OpenType /\ WireType /\ FlagType

\* The channel table and the epoll set of a loop have the same descriptors, and
\* name the connected connections of that loop.  The descriptor of a connection
\* that waits to be established is its own.
Registry ==
    /\ \A e \in Evds :
          /\ DOMAIN channels[e] = DOMAIN epoll[e]
          /\ \A f \in DOMAIN channels[e] :
                /\ con[channels[e][f]].fd = f /\ con[channels[e][f]].evd = e
                /\ con[channels[e][f]].status = "CONNECTED"
                /\ open[f] = channels[e][f]
                /\ epoll[e][f] = con[channels[e][f]].events
    /\ fatal = "none" => \A c \in Conns : con[c].status = "CONNECTED" =>
          /\ con[c].fd \in DOMAIN channels[con[c].evd]
          /\ channels[con[c].evd][con[c].fd] = c
    /\ \A c \in Conns : con[c].status = "CONNECTING" /\ con[c].fd # NoFd =>
          open[con[c].fd] = c
    /\ fatal # "epoll"

\* What the output buffer of a connection holds.
Output ==
    \A c \in Conns :
        /\ accepted[c] = wire[c] \o con[c].out
        /\ con[c].status \in {"NONE", "CONNECTING"} => con[c].out = <<>>
        /\ con[c].status = "CONNECTED" => ("w" \in con[c].events <=> con[c].out # <<>>)

\* What a functor g in the queue of e is about, when the connections are k.
FunctorOk(k, e, g) ==
    /\ g.op = "establish" => k[g.con].status = "CONNECTING" /\ k[g.con].evd = e
    /\ g.op = "close" =>
          k[g.con].status \notin {"NONE", "CONNECTING"} /\ k[g.con].evd = e
    /\ g.op = "erase" => e = Main /\ k[g.con].status \in {"CLOSING", "CLOSED"}
    /\ k[g.con].status # "NONE"

QueueOk(k, e, s) == \A i \in 1..Len(s) : FunctorOk(k, e, s[i])

\* A connection is established once and erased once.
Unique(g) == g.op \in {"establish", "erase"}
Same(g, h) == g.op = h.op /\ g.con = h.con
OnceIn(s) == \A i, j \in 1..Len(s) : Unique(s[i]) /\ Same(s[i], s[j]) => i = j

Handed ==
    /\ \A e \in Evds : QueueOk(con, e, queue[e]) /\ OnceIn(queue[e])
    /\ \A t \in Threads : caller[t] \in Conns =>
          con[caller[t]].status \notin {"NONE", "CONNECTING"}

\* What a loop is in the middle of: the handlers of a connection of its own that
\* nobody else closes, or newConnect.
Acting ==
    \A e \in Evds :
        /\ "r" \in act[e].left =>
              con[act[e].con].status = "CONNECTED" /\ con[act[e].con].evd = e
        /\ "close" \in act[e].left =>
              con[act[e].con].status = "CLOSING" /\ con[act[e].con].evd = e
        /\ "insert" \in act[e].left =>
              /\ e = Main
              /\ con[act[e].con].id \notin DOMAIN table

\* The table has a connection under its own identifier, and every connection
\* that is not closed.
Listed ==
    /\ \A i \in DOMAIN table : con[table[i]].id = i /\ con[table[i]].status # "NONE"
    /\ \A c \in Conns : con[c].status \in {"CONNECTING", "CONNECTED"} =>
          \/ con[c].id \in DOMAIN table /\ table[con[c].id] = c
          \/ Inserting(c)

\* The functor that erases c from the table.
EraseOf(c) == Functor("erase", c, NoCon)
HasErase(s, c) == \E i \in 1..Len(s) : s[i] = EraseOf(c)
InTable(c) == \E i \in DOMAIN table : table[i] = c

Erasing ==
    \A c \in Conns : con[c].status \in {"CLOSING", "CLOSED"} =>
        (InTable(c) \/ Inserting(c) <=> HasErase(queue[Main], c))

\* Who holds what: the queues, the steps that the loops are in, the table.
Places == Handed /\ Acting /\ Listed /\ Erasing

Good == Registry /\ Output /\ Places

IInv == Types /\ (late = {} => Good)

-----------------------------------------------------------------------------
(* The queues.                                                             *)

\* The functor at the head leaves the queue.
LEMMA TailOk ==
    ASSUME NEW k, NEW e, NEW s \in Seq(FunctorSet), s # <<>>,
           QueueOk(k, e, s), OnceIn(s)
    PROVE  /\ Tail(s) \in Seq(FunctorSet) /\ Head(s) \in FunctorSet
           /\ FunctorOk(k, e, Head(s))
           /\ QueueOk(k, e, Tail(s)) /\ OnceIn(Tail(s))
           /\ Unique(Head(s)) => \A i \in 1..Len(Tail(s)) : ~Same(Head(s), Tail(s)[i])
           /\ \A c : HasErase(s, c) <=> Head(s) = EraseOf(c) \/ HasErase(Tail(s), c)
<1> DEFINE t == Tail(s)
           n == Len(s)
<1>1. /\ n \in Nat \ {0} /\ t \in Seq(FunctorSet) /\ Len(t) = n - 1
      /\ Head(s) = s[1] /\ Head(s) \in FunctorSet
      /\ \A i \in 1..Len(t) : t[i] = s[i + 1]
  OBVIOUS
<1> HIDE DEF t
<1>2. 1 \in 1..n /\ \A i \in 1..Len(t) : i + 1 \in 1..n /\ t[i] = s[i + 1] /\ i + 1 # 1
  BY <1>1
<1>3. \A i \in 1..n : i = 1 \/ (i - 1 \in 1..Len(t) /\ t[i - 1] = s[i])
  BY <1>1
<1> HIDE DEF n
<1>4. FunctorOk(k, e, Head(s)) /\ QueueOk(k, e, t)
  BY <1>1, <1>2 DEF QueueOk, n
<1>5. OnceIn(t)
  <2>1. SUFFICES ASSUME NEW i \in 1..Len(t), NEW j \in 1..Len(t),
                        Unique(t[i]), Same(t[i], t[j])
                 PROVE  i = j
    BY DEF OnceIn
  <2>2. i + 1 = j + 1
    BY <1>2, <2>1 DEF OnceIn, n
  <2> QED
    BY <1>1, <2>2
<1>6. Unique(Head(s)) => \A i \in 1..Len(t) : ~Same(Head(s), t[i])
  BY <1>1, <1>2 DEF OnceIn, n
<1>7. \A c : HasErase(s, c) <=> Head(s) = EraseOf(c) \/ HasErase(t, c)
  <2> TAKE c
  <2>1. ASSUME HasErase(s, c) PROVE Head(s) = EraseOf(c) \/ HasErase(t, c)
    <3>1. PICK i \in 1..n : s[i] = EraseOf(c)
      BY <2>1 DEF HasErase, n
    <3> QED
      BY <1>1, <1>3, <3>1 DEF HasErase
  <2>2. ASSUME Head(s) = EraseOf(c) \/ HasErase(t, c) PROVE HasErase(s, c)
    BY <1>1, <1>2, <2>2 DEF HasErase, n
  <2> QED
    BY <2>1, <2>2
<1> QED
  BY <1>1, <1>4, <1>5, <1>6, <1>7 DEF t

\* A functor is added at the end.
LEMMA AppendOk ==
    ASSUME NEW k, NEW e, NEW s \in Seq(FunctorSet), NEW g \in FunctorSet,
           QueueOk(k, e, s), OnceIn(s), FunctorOk(k, e, g),
           Unique(g) => \A i \in 1..Len(s) : ~Same(g, s[i])
    PROVE  /\ Append(s, g) \in Seq(FunctorSet)
           /\ QueueOk(k, e, Append(s, g)) /\ OnceIn(Append(s, g))
           /\ \A c : HasErase(Append(s, g), c) <=> g = EraseOf(c) \/ HasErase(s, c)
<1> DEFINE t == Append(s, g)
           n == Len(s)
<1>1. /\ n \in Nat /\ t \in Seq(FunctorSet) /\ Len(t) = n + 1 /\ t[n + 1] = g
      /\ \A i \in 1..n : t[i] = s[i]
  BY AppendProperties, LenProperties
<1> HIDE DEF t
<1>2. n + 1 \in 1..Len(t) /\ \A i \in 1..n : i \in 1..Len(t)
  BY <1>1
<1>3. \A i \in 1..Len(t) : (i = n + 1 /\ t[i] = g) \/ (i \in 1..n /\ t[i] = s[i])
  BY <1>1
<1> HIDE DEF n
<1>4. QueueOk(k, e, t)
  BY <1>3 DEF QueueOk, n
<1>5. OnceIn(t)
  <2>1. SUFFICES ASSUME NEW i \in 1..Len(t), NEW j \in 1..Len(t),
                        Unique(t[i]), Same(t[i], t[j])
                 PROVE  i = j
    BY DEF OnceIn
  <2>2. Unique(t[j]) /\ Same(t[j], t[i])
    BY <2>1 DEF Unique, Same
  <2>3. CASE t[i] = g /\ i = n + 1
    BY <1>3, <2>1, <2>2, <2>3 DEF n
  <2>4. CASE i \in 1..n /\ t[i] = s[i]
    <3>1. CASE t[j] = g /\ j = n + 1
      BY <2>2, <2>4, <3>1 DEF n
    <3>2. CASE j \in 1..n /\ t[j] = s[j]
      BY <2>1, <2>4, <3>2 DEF OnceIn, n
    <3> QED
      BY <1>3, <3>1, <3>2
  <2> QED
    BY <1>3, <2>3, <2>4
<1>6. \A c : HasErase(t, c) <=> g = EraseOf(c) \/ HasErase(s, c)
  <2> TAKE c
  <2>1. ASSUME HasErase(t, c) PROVE g = EraseOf(c) \/ HasErase(s, c)
    BY <1>3, <2>1 DEF HasErase, n
  <2>2. ASSUME g = EraseOf(c) \/ HasErase(s, c) PROVE HasErase(t, c)
    BY <1>1, <1>2, <2>2 DEF HasErase, n
  <2> QED
    BY <2>1, <2>2
<1> QED
  BY <1>1, <1>4, <1>5, <1>6 DEF t

\* What a functor is about stays true of connections that did not change.
LEMMA StillOk ==
    ASSUME NEW k, NEW k2, NEW e, NEW s, QueueOk(k, e, s),
           \A i \in 1..Len(s) : FunctorOk(k, e, s[i]) => FunctorOk(k2, e, s[i])
    PROVE  QueueOk(k2, e, s)
BY DEF QueueOk

\* A functor that erases c is about a closed connection.
LEMMA EraseMeansClosed ==
    ASSUME NEW k, NEW e, NEW s, QueueOk(k, e, s), NEW c, HasErase(s, c)
    PROVE  k[c].status \in {"CLOSING", "CLOSED"}
BY DEF QueueOk, HasErase, FunctorOk, EraseOf, Functor

-----------------------------------------------------------------------------
(* Identifiers and messages.                                               *)

\* The search of nextId ends: it finds an identifier that is not in the table.
LEMMA NextIdFree ==
    ASSUME CounterType, TableType
    PROVE  NextId \in Nat \ {0} /\ NextId \notin DOMAIN table
<1> DEFINE N == Cardinality(DOMAIN table)
           I == nextId..(nextId + N)
           K == {i \in I : i \notin DOMAIN table}
<1>1. N \in Nat /\ nextId \in Nat \ {0} /\ IsFiniteSet(DOMAIN table)
  BY FS_CardinalityType DEF CounterType, TableType
<1>2. K # {}
  <2> SUFFICES ASSUME I \subseteq DOMAIN table PROVE FALSE
    OBVIOUS
  <2>1. Cardinality(I) <= N
    BY <1>1, FS_Subset
  <2>2. nextId \in Int /\ nextId + N \in Int /\ nextId <= nextId + N
    BY <1>1
  <2>3. Cardinality(I) = N + 1
    <3>1. Cardinality(I) = IF nextId > nextId + N THEN 0 ELSE (nextId + N) - nextId + 1
      <4> HIDE DEF N
      <4> QED
        BY <2>2, FS_Interval
    <3> HIDE DEF N
    <3> QED
      BY <1>1, <2>2, <3>1
  <2> HIDE DEF I, N
  <2> QED
    BY <1>1, <2>1, <2>3
<1> HIDE DEF N
<1>3. PICK i \in K : \A j \in K : i <= j
  <2>1. K \in SUBSET Nat
    BY <1>1
  <2> HIDE DEF K
  <2> QED
    BY <1>2, <2>1, LeastNatural
<1>4. /\ i \in I /\ i \notin DOMAIN table
      /\ \A j \in nextId..(i - 1) : j \in DOMAIN table
  <2>1. i \in I /\ i \notin DOMAIN table
    OBVIOUS
  <2>2. \A j \in nextId..(i - 1) : j \in I /\ ~(i <= j)
    BY <1>1, <2>1
  <2> QED
    BY <1>3, <2>1, <2>2
<1>5. NextId \in I /\ NextId \notin DOMAIN table
  BY <1>4 DEF NextId, N
<1> QED
  BY <1>1, <1>5

\* A message is a sequence of MsgLen pieces, not empty.
LEMMA TextIsData ==
    ASSUME NEW m \in Messages
    PROVE  Text(m) \in Seq(Data) /\ Len(Text(m)) = MsgLen /\ MsgLen \in Nat \ {0}
<1>1. MsgLen \in Nat \ {0}
  BY TcpAssumption
<1>2. Text(m) \in [1..MsgLen -> Data]
  BY DEF Text, Data
<1> QED
  BY <1>1, <1>2, FunctionIsSeq

-----------------------------------------------------------------------------
(* The tables of the loops.                                                *)

\* What send() and HandleWrite do to a connection and its interest.
Touches(c, r) ==
    /\ con' = [con EXCEPT ![c] = r]
    /\ r.status = con[c].status /\ r.fd = con[c].fd /\ r.evd = con[c].evd
    /\ r.id = con[c].id
    /\ UNCHANGED channels
    /\ \/ UNCHANGED <<epoll, fatal>> /\ r.events = con[c].events
       \/ /\ con[c].fd \in DOMAIN epoll[con[c].evd]
          /\ epoll' = [epoll EXCEPT ![con[c].evd][con[c].fd] = r.events]
          /\ UNCHANGED fatal
       \/ /\ con[c].fd \notin DOMAIN epoll[con[c].evd]
          /\ fatal' = "epoll" /\ UNCHANGED epoll

\* SetEvents and KeepEvents, for a connection whose output buffer changed.
LEMMA EventsTouch ==
    ASSUME ConType, NEW c \in Conns, NEW r \in Records, NEW ev \in Interest,
           r.status = con[c].status, r.fd = con[c].fd, r.evd = con[c].evd,
           r.id = con[c].id, r.events = con[c].events,
           SetEvents(c, r, ev) \/ (KeepEvents(c, r) /\ ev = r.events)
    PROVE  \E x \in Records : x.out = r.out /\ x.events = ev /\ Touches(c, x)
<1>1. CASE SetEvents(c, r, ev)
  <2> DEFINE x == [r EXCEPT !.events = ev]
  <2>1. /\ x \in Records /\ x.events = ev /\ x.out = r.out /\ x.status = r.status
        /\ x.fd = r.fd /\ x.evd = r.evd /\ x.id = r.id
    BY DEF Records
  <2>2. con' = [con EXCEPT ![c] = x] /\ UNCHANGED channels /\ EpollUpdate(r.evd, r.fd, ev)
    BY <1>1 DEF SetEvents, UpdateChannel
  <2> HIDE DEF x
  <2>3. Touches(c, x)
    BY <2>1, <2>2 DEF Touches, EpollUpdate
  <2> QED
    BY <2>1, <2>3
<1>2. CASE KeepEvents(c, r) /\ ev = r.events
  BY <1>2 DEF KeepEvents, Touches, regVars
<1> QED
  BY <1>1, <1>2

\* The types after such a step, and what it leaves alone.
LEMMA TouchTypes ==
    ASSUME ConType, EpollType, NEW c \in Conns, NEW r \in Records, Touches(c, r),
           fatal = "none"
    PROVE  /\ ConType' /\ EpollType' /\ fatal' \in {"none", "epoll"}
           /\ con'[c] = r /\ \A d \in Conns : d # c => con'[d] = con[d]
           /\ \A d \in Conns : /\ con'[d].status = con[d].status /\ con'[d].fd = con[d].fd
                               /\ con'[d].evd = con[d].evd /\ con'[d].id = con[d].id
<1>1. /\ con' \in [Conns -> Records] /\ con'[c] = r
      /\ \A d \in Conns : d # c => con'[d] = con[d]
  BY DEF Touches, ConType
<1>2. \A d \in Conns : /\ con'[d].status = con[d].status /\ con'[d].fd = con[d].fd
                       /\ con'[d].evd = con[d].evd /\ con'[d].id = con[d].id
  BY <1>1 DEF Touches
<1>3. ConType'
  BY <1>1, <1>2 DEF ConType
<1>4. r.events \in Interest /\ con[c].evd \in Evds
  BY DEF Records, ConType
<1>5. EpollType' /\ fatal' \in {"none", "epoll"}
  <2>1. CASE UNCHANGED epoll
    BY <2>1 DEF EpollType, Touches
  <2>2. CASE /\ con[c].fd \in DOMAIN epoll[con[c].evd]
             /\ epoll' = [epoll EXCEPT ![con[c].evd][con[c].fd] = r.events]
    <3>1. /\ epoll' = [e \in Evds |-> epoll'[e]]
          /\ \A e \in Evds : DOMAIN epoll'[e] = DOMAIN epoll[e]
          /\ \A e \in Evds : \A f \in DOMAIN epoll[e] :
                epoll'[e][f] \in {epoll[e][f], r.events}
      BY <1>4, <2>2 DEF EpollType
    <3> QED
      BY <1>4, <2>2, <3>1 DEF EpollType, Touches
  <2> QED
    BY <2>1, <2>2 DEF Touches
<1> QED
  BY <1>1, <1>2, <1>3, <1>5

\* The registration of a connected connection follows its interest.
LEMMA TouchRegistry ==
    ASSUME Types, Registry, NEW c \in Conns, NEW r \in Records, Touches(c, r),
           fatal = "none", con[c].status = "CONNECTED", UNCHANGED open
    PROVE  Registry' /\ fatal' = "none"
<1> DEFINE e0 == con[c].evd
           f0 == con[c].fd
<1>0. ConType /\ ChannelType /\ EpollType /\ e0 \in Evds
  BY DEF Types, ConType, Records
<1>1. f0 \in DOMAIN channels[e0] /\ channels[e0][f0] = c /\ f0 \in DOMAIN epoll[e0]
  BY <1>0 DEF Registry
<1>2. fatal' = "none"
  BY <1>1 DEF Touches
<1>3. /\ con'[c] = r /\ \A d \in Conns : d # c => con'[d] = con[d]
      /\ \A d \in Conns : /\ con'[d].status = con[d].status /\ con'[d].fd = con[d].fd
                          /\ con'[d].evd = con[d].evd /\ con'[d].id = con[d].id
  BY <1>0, TouchTypes
<1>4. /\ \A e \in Evds : DOMAIN epoll'[e] = DOMAIN epoll[e]
      /\ epoll'[e0][f0] = r.events
      /\ \A e \in Evds : \A f \in DOMAIN epoll[e] : (e # e0 \/ f # f0) => epoll'[e][f] = epoll[e][f]
  <2>1. CASE UNCHANGED <<epoll, fatal>> /\ r.events = con[c].events
    BY <1>0, <1>1, <2>1 DEF Registry
  <2>2. CASE epoll' = [epoll EXCEPT ![e0][f0] = r.events]
    BY <1>0, <1>1, <2>2 DEF EpollType
  <2> QED
    BY <1>1, <2>1, <2>2 DEF Touches
<1> HIDE DEF e0, f0
<1>5. \A e \in Evds : \A f \in DOMAIN channels[e] :
        /\ channels[e][f] \in Conns
        /\ channels[e][f] = c => e = e0 /\ f = f0
  BY <1>0 DEF Registry, ChannelType, e0, f0
<1>6. \A e \in Evds : \A f \in DOMAIN channels'[e] :
        epoll'[e][f] = con'[channels'[e][f]].events
  <2> SUFFICES ASSUME NEW e \in Evds, NEW f \in DOMAIN channels[e]
               PROVE  epoll'[e][f] = con'[channels[e][f]].events
    BY DEF Touches
  <2>1. CASE channels[e][f] = c
    BY <1>3, <1>4, <1>5, <2>1
  <2>2. CASE channels[e][f] # c
    <3>1. e # e0 \/ f # f0
      BY <1>1, <2>2
    <3>2. f \in DOMAIN epoll[e] /\ epoll[e][f] = con[channels[e][f]].events
      BY DEF Registry
    <3> QED
      BY <1>3, <1>4, <1>5, <2>2, <3>1, <3>2
  <2> QED
    BY <2>1, <2>2
<1>7. channels' = channels
  BY DEF Touches
<1> QED
  BY <1>2, <1>3, <1>4, <1>5, <1>6, <1>7 DEF Registry

\* establish: the types.
LEMMA EstablishTypes ==
    ASSUME ConType, ChannelType, EpollType, fatal = "none", NEW c \in Conns,
           NEW r \in Records, Establish(c, r)
    PROVE  /\ ConType' /\ ChannelType' /\ EpollType' /\ fatal' \in {"none", "accept", "epoll"}
           /\ con'[c].status = "CONNECTED" /\ con'[c].fd = r.fd /\ con'[c].evd = r.evd
           /\ con'[c].id = r.id /\ con'[c].out = r.out /\ con'[c].events = {"r"}
           /\ \A d \in Conns : d # c => con'[d] = con[d]
<1> DEFINE x == [r EXCEPT !.events = {"r"}, !.attached = TRUE, !.status = "CONNECTED"]
<1>1. /\ x \in Records /\ x.status = "CONNECTED" /\ x.fd = r.fd /\ x.evd = r.evd
      /\ x.id = r.id /\ x.out = r.out /\ x.events = {"r"}
  BY DEF Records, Statuses, Interest
<1>2. con' = [con EXCEPT ![c] = x] /\ RegisterChannel(r.evd, r.fd, c, {"r"})
  BY DEF Establish
<1> HIDE DEF x
<1>3. /\ con' \in [Conns -> Records] /\ con'[c] = x
      /\ \A d \in Conns : d # c => con'[d] = con[d]
  BY <1>1, <1>2 DEF ConType
<1>4. ConType'
  BY <1>1, <1>3 DEF ConType
<1>5. r.evd \in Evds /\ {"r"} \in Interest
  BY DEF Records, Interest
<1>6. EpollType' /\ fatal' \in {"none", "accept", "epoll"}
  <2>1. CASE UNCHANGED epoll /\ fatal' \in {"accept", "epoll"}
    BY <2>1 DEF EpollType
  <2>2. CASE /\ r.fd \in Fds /\ UNCHANGED fatal
             /\ epoll' = [epoll EXCEPT ![r.evd] = With(@, r.fd, {"r"})]
    BY <1>5, <2>2 DEF EpollType, With
  <2> QED
    BY <1>2, <2>1, <2>2 DEF RegisterChannel, EpollAdd
<1>7. ChannelType'
  <2>0. \A d \in Conns : con[d].status # "NONE" => con'[d].status # "NONE"
    BY <1>1, <1>3
  <2>1. CASE UNCHANGED channels
    BY <2>0, <2>1 DEF ChannelType
  <2>2. CASE r.fd \in Fds /\ channels' = [channels EXCEPT ![r.evd] = With(@, r.fd, c)]
    <3>1. /\ channels' = [e \in Evds |-> channels'[e]]
          /\ \A e \in Evds : DOMAIN channels'[e] \subseteq DOMAIN channels[e] \cup {r.fd}
          /\ \A e \in Evds : \A f \in DOMAIN channels'[e] :
                \/ channels'[e][f] = c
                \/ f \in DOMAIN channels[e] /\ channels'[e][f] = channels[e][f]
      BY <1>5, <2>2 DEF ChannelType, With
    <3>2. con'[c].status # "NONE"
      BY <1>1, <1>3
    <3>3. ASSUME NEW e \in Evds, NEW f \in DOMAIN channels'[e]
          PROVE  channels'[e][f] \in Conns /\ con'[channels'[e][f]].status # "NONE"
      BY <2>0, <3>1, <3>2 DEF ChannelType
    <3>4. \A e \in Evds : DOMAIN channels'[e] \subseteq Fds
      BY <2>2, <3>1 DEF ChannelType
    <3> QED
      BY <3>1, <3>3, <3>4 DEF ChannelType
  <2> QED
    BY <1>2, <2>1, <2>2 DEF RegisterChannel, EpollAdd
<1> QED
  BY <1>1, <1>3, <1>4, <1>6, <1>7

\* establish registers the connection: its descriptor is its own, so epoll_ctl
\* does not find it in the set.
LEMMA EstablishRegistry ==
    ASSUME Types, Registry, fatal = "none", NEW c \in Conns,
           con[c].status \in {"NONE", "CONNECTING"},
           NEW r \in Records, Establish(c, r),
           r.fd # NoFd => open'[r.fd] = c /\ open[r.fd] \in {c, NoCon},
           \A f \in Fds : f # r.fd => open'[f] = open[f]
    PROVE  Registry'
<1>0. ConType /\ ChannelType /\ EpollType /\ NoCon \notin Conns /\ NoFd \notin Fds
  BY TcpAssumption DEF Types
<1>1. /\ con'[c].status = "CONNECTED" /\ con'[c].fd = r.fd /\ con'[c].evd = r.evd
      /\ con'[c].events = {"r"}
      /\ \A d \in Conns : d # c => con'[d] = con[d]
  BY <1>0, EstablishTypes
<1>2. r.evd \in Evds /\ r.fd \in Fds \cup {NoFd}
  BY DEF Records
<1>c. \A e \in Evds : \A f \in DOMAIN channels[e] :
        /\ channels[e][f] \in Conns /\ channels[e][f] # c /\ f # r.fd /\ f \in Fds
  BY <1>0 DEF Registry, ChannelType
<1>3. CASE r.fd = NoFd
  <2>1. fatal' = "accept" /\ UNCHANGED <<epoll, channels>>
    BY <1>0, <1>3 DEF Establish, RegisterChannel, EpollAdd
  <2>2. \A f \in Fds : open'[f] = open[f]
    BY <1>0, <1>3
  <2>3. \A d \in Conns : con'[d].status = "CONNECTING" /\ con'[d].fd # NoFd =>
            open'[con'[d].fd] = d
    <3> SUFFICES ASSUME NEW d \in Conns, con'[d].status = "CONNECTING", con'[d].fd # NoFd
                 PROVE  open'[con'[d].fd] = d
      OBVIOUS
    <3>1. d # c /\ con'[d] = con[d] /\ con[d].fd \in Fds
      BY <1>0, <1>1 DEF ConType, Records
    <3> QED
      BY <2>2, <3>1 DEF Registry
  <2> QED
    BY <1>1, <1>c, <2>1, <2>2, <2>3 DEF Registry
<1>4. CASE r.fd # NoFd
  <2>1. r.fd \in Fds /\ r.fd \notin DOMAIN epoll[r.evd]
    BY <1>2, <1>4, <1>c DEF Registry
  <2>2. /\ UNCHANGED fatal
        /\ epoll' = [epoll EXCEPT ![r.evd] = With(@, r.fd, {"r"})]
        /\ channels' = [channels EXCEPT ![r.evd] = With(@, r.fd, c)]
    BY <2>1 DEF Establish, RegisterChannel, EpollAdd
  <2>3. /\ \A e \in Evds : e # r.evd => epoll'[e] = epoll[e] /\ channels'[e] = channels[e]
        /\ epoll'[r.evd] = With(epoll[r.evd], r.fd, {"r"})
        /\ channels'[r.evd] = With(channels[r.evd], r.fd, c)
    BY <1>0, <1>2, <2>2 DEF EpollType, ChannelType
  <2>4. /\ DOMAIN epoll'[r.evd] = DOMAIN epoll[r.evd] \cup {r.fd}
        /\ DOMAIN channels'[r.evd] = DOMAIN channels[r.evd] \cup {r.fd}
        /\ epoll'[r.evd][r.fd] = {"r"} /\ channels'[r.evd][r.fd] = c
        /\ \A f \in DOMAIN channels[r.evd] : /\ f # r.fd
                                             /\ channels'[r.evd][f] = channels[r.evd][f]
        /\ \A f \in DOMAIN epoll[r.evd] : epoll'[r.evd][f] = epoll[r.evd][f]
    <3>1. DOMAIN channels[r.evd] = DOMAIN epoll[r.evd]
      BY <1>2 DEF Registry
    <3> QED
      BY <1>2, <1>c, <2>1, <2>3, <3>1 DEF With
  <2>5. ASSUME NEW e \in Evds
        PROVE  DOMAIN channels'[e] = DOMAIN epoll'[e]
    <3>1. DOMAIN channels[e] = DOMAIN epoll[e]
      BY DEF Registry
    <3>2. CASE e = r.evd
      BY <2>4, <3>1, <3>2
    <3>3. CASE e # r.evd
      BY <2>3, <3>1, <3>3
    <3> QED
      BY <3>2, <3>3
  <2>6. ASSUME NEW e \in Evds, NEW f \in DOMAIN channels'[e]
        PROVE  /\ con'[channels'[e][f]].fd = f /\ con'[channels'[e][f]].evd = e
               /\ con'[channels'[e][f]].status = "CONNECTED"
               /\ open'[f] = channels'[e][f]
               /\ epoll'[e][f] = con'[channels'[e][f]].events
    <3>1. CASE e = r.evd /\ f = r.fd
      BY <1>1, <1>4, <2>4, <3>1
    <3>2. CASE ~(e = r.evd /\ f = r.fd)
      <4>1. /\ f \in DOMAIN channels[e] /\ channels'[e][f] = channels[e][f]
            /\ epoll'[e][f] = epoll[e][f]
        BY <2>3, <2>4, <3>2 DEF Registry
      <4>2. /\ con'[channels[e][f]] = con[channels[e][f]] /\ open'[f] = open[f]
        BY <1>1, <1>c, <4>1
      <4> QED
        BY <4>1, <4>2 DEF Registry
    <3> QED
      BY <3>1, <3>2
  <2>7. ASSUME NEW d \in Conns, con'[d].status = "CONNECTED"
        PROVE  /\ con'[d].fd \in DOMAIN channels'[con'[d].evd]
               /\ channels'[con'[d].evd][con'[d].fd] = d
    <3>1. CASE d = c
      BY <1>1, <2>4, <3>1
    <3>2. CASE d # c
      <4>1. con'[d] = con[d] /\ con[d].evd \in Evds
        BY <1>0, <1>1, <3>2 DEF ConType, Records
      <4>2. /\ con[d].fd \in DOMAIN channels[con[d].evd]
            /\ channels[con[d].evd][con[d].fd] = d
        BY <2>7, <4>1 DEF Registry
      <4> QED
        BY <2>3, <2>4, <4>1, <4>2
    <3> QED
      BY <3>1, <3>2
  <2>8. ASSUME NEW d \in Conns, con'[d].status = "CONNECTING", con'[d].fd # NoFd
        PROVE  open'[con'[d].fd] = d
    <3>1. d # c /\ con'[d] = con[d] /\ con[d].fd \in Fds
      BY <1>0, <1>1, <2>8 DEF ConType, Records
    <3>2. open[con[d].fd] = d
      BY <2>8, <3>1 DEF Registry
    <3>3. con[d].fd # r.fd
      BY <1>0, <1>4, <3>1, <3>2
    <3> QED
      BY <3>1, <3>2, <3>3
  <2> QED
    BY <2>2, <2>5, <2>6, <2>7, <2>8 DEF Registry
<1> QED
  BY <1>3, <1>4

\* closeConnect: the types, whether or not the connection is registered.
LEMMA CloseTypes ==
    ASSUME Types, fatal = "none", NEW c \in Conns, NEW st \in {"CLOSING", "CLOSED"},
           NEW q \in [Evds -> Seq(FunctorSet)], CloseConnect(c, q, st)
    PROVE  /\ ConType' /\ TableType' /\ ChannelType' /\ EpollType' /\ QueueType'
           /\ FlagType' /\ late \subseteq late'
           /\ con'[c].status = st /\ con'[c].fd = con[c].fd /\ con'[c].evd = con[c].evd
           /\ con'[c].id = con[c].id /\ con'[c].out = con[c].out
           /\ \A d \in Conns : d # c => con'[d] = con[d]
<1> DEFINE e0 == con[c].evd
           f0 == con[c].fd
<1>0. /\ ConType /\ TableType /\ ChannelType /\ EpollType /\ FlagType
      /\ e0 \in Evds /\ Main \in Evds
  BY TcpAssumption DEF Types, ConType, Records, Main, Evds
<1>1. /\ con' = [con EXCEPT ![c].status = st]
      /\ RemoveChannel(e0, f0)
      /\ late' = IF f0 \in DOMAIN channels[e0] /\ channels[e0][f0] = c THEN late
                 ELSE late \cup {"remove"}
      /\ IF e0 = Main
         THEN table' = Without(table, con[c].id) /\ queue' = q
         ELSE /\ queue' = [q EXCEPT ![Main] = Append(@, EraseOf(c))]
              /\ UNCHANGED table
  BY DEF CloseConnect, EraseOf
<1>2. /\ con' \in [Conns -> Records]
      /\ con'[c].status = st /\ con'[c].fd = con[c].fd /\ con'[c].evd = con[c].evd
      /\ con'[c].id = con[c].id /\ con'[c].out = con[c].out
      /\ \A d \in Conns : d # c => con'[d] = con[d]
  <2> DEFINE r == [con[c] EXCEPT !.status = st]
  <2>0. con' = [con EXCEPT ![c] = r]
    BY <1>1
  <2>a. con[c] \in Records /\ st \in Statuses
    BY <1>0 DEF ConType, Statuses
  <2>1. /\ r \in Records /\ r.status = st /\ r.fd = con[c].fd /\ r.evd = con[c].evd
        /\ r.id = con[c].id /\ r.out = con[c].out
    BY <2>a DEF Records
  <2> HIDE DEF r
  <2>2. con' \in [Conns -> Records] /\ con'[c] = r
    BY <1>0, <2>0, <2>1 DEF ConType
  <2> QED
    BY <1>0, <2>0, <2>1, <2>2 DEF ConType
<1> HIDE DEF e0, f0
<1>3. TableType'
  <2>1. CASE UNCHANGED table
    BY <1>0, <2>1 DEF TableType
  <2>2. CASE table' = Without(table, con[c].id)
    <3>1. /\ DOMAIN table' = DOMAIN table \ {con[c].id}
          /\ \A i \in DOMAIN table' : table'[i] = table[i]
      BY <2>2 DEF Without
    <3>2. IsFiniteSet(DOMAIN table')
      BY <1>0, <3>1, FS_Subset DEF TableType
    <3> QED
      BY <1>0, <3>1, <3>2 DEF TableType
  <2> QED
    BY <1>1, <2>1, <2>2
<1>4. EpollType' /\ fatal' \in {"none", "epoll"}
  <2>1. CASE UNCHANGED epoll /\ fatal' = "epoll"
    BY <1>0, <2>1 DEF EpollType
  <2>2. CASE UNCHANGED fatal /\ epoll' = [epoll EXCEPT ![e0] = Without(@, f0)]
    BY <1>0, <2>2 DEF EpollType, Without
  <2> QED
    BY <1>1, <2>1, <2>2 DEF RemoveChannel, EpollRemove
<1>5. ChannelType'
  <2>0. \A d \in Conns : con[d].status # "NONE" => con'[d].status # "NONE"
    BY <1>2
  <2>1. CASE UNCHANGED channels
    BY <1>0, <2>0, <2>1 DEF ChannelType
  <2>2. CASE channels' = [channels EXCEPT ![e0] = Without(@, f0)]
    <3>1. /\ channels' = [e \in Evds |-> channels'[e]]
          /\ \A e \in Evds : DOMAIN channels'[e] \subseteq DOMAIN channels[e]
          /\ \A e \in Evds : \A f \in DOMAIN channels'[e] : channels'[e][f] = channels[e][f]
      BY <1>0, <2>2 DEF ChannelType, Without
    <3>2. ASSUME NEW e \in Evds, NEW f \in DOMAIN channels'[e]
          PROVE  channels'[e][f] \in Conns /\ con'[channels'[e][f]].status # "NONE"
      BY <1>0, <2>0, <3>1 DEF ChannelType
    <3>3. \A e \in Evds : DOMAIN channels'[e] \subseteq Fds
      BY <1>0, <3>1 DEF ChannelType
    <3> QED
      BY <3>1, <3>2, <3>3 DEF ChannelType
  <2> QED
    BY <1>1, <2>1, <2>2 DEF RemoveChannel
<1>6. QueueType'
  <2>1. EraseOf(c) \in FunctorSet
    BY DEF EraseOf, Functor, FunctorSet
  <2>2. Append(q[Main], EraseOf(c)) \in Seq(FunctorSet)
    BY <1>0, <2>1
  <2> QED
    BY <1>0, <1>1, <2>2 DEF QueueType
<1>7. FlagType' /\ late \subseteq late'
  BY <1>0, <1>1, <1>4 DEF FlagType
<1> QED
  BY <1>2, <1>3, <1>4, <1>5, <1>6, <1>7 DEF ConType

\* closeConnect of a connected connection finds its channel.
LEMMA CloseRegistry ==
    ASSUME Types, Registry, fatal = "none", NEW c \in Conns,
           NEW st \in {"CLOSING", "CLOSED"},
           NEW q \in [Evds -> Seq(FunctorSet)], CloseConnect(c, q, st),
           con[c].status = "CONNECTED",
           UNCHANGED open \/ open' = [open EXCEPT ![con[c].fd] = NoCon]
    PROVE  Registry' /\ fatal' = "none"
<1> DEFINE e0 == con[c].evd
           f0 == con[c].fd
<1>0. /\ ConType /\ ChannelType /\ EpollType /\ OpenType /\ e0 \in Evds
  BY DEF Types, ConType, Records
<1>1. /\ f0 \in DOMAIN channels[e0] /\ channels[e0][f0] = c /\ f0 \in DOMAIN epoll[e0]
      /\ open[f0] = c /\ f0 \in Fds
  <2>1. f0 \in DOMAIN channels[e0] /\ channels[e0][f0] = c
    BY DEF Registry
  <2> HIDE DEF e0, f0
  <2>2. f0 \in DOMAIN epoll[e0] /\ open[f0] = channels[e0][f0]
    BY <1>0, <2>1 DEF Registry
  <2> QED
    BY <1>0, <2>1, <2>2 DEF ChannelType
<1>2. /\ con'[c].status = st /\ \A d \in Conns : d # c => con'[d] = con[d]
  BY CloseTypes
<1>3. /\ UNCHANGED fatal
      /\ epoll' = [epoll EXCEPT ![e0] = Without(@, f0)]
      /\ channels' = [channels EXCEPT ![e0] = Without(@, f0)]
  BY <1>1 DEF CloseConnect, RemoveChannel, EpollRemove
<1>4. \A f \in Fds : f # f0 => open'[f] = open[f]
  BY <1>0 DEF OpenType
<1> HIDE DEF e0, f0
<1>5. /\ \A e \in Evds : e # e0 => epoll'[e] = epoll[e] /\ channels'[e] = channels[e]
      /\ epoll'[e0] = Without(epoll[e0], f0) /\ channels'[e0] = Without(channels[e0], f0)
  BY <1>0, <1>3 DEF EpollType, ChannelType
<1>6. /\ DOMAIN epoll'[e0] = DOMAIN epoll[e0] \ {f0}
      /\ DOMAIN channels'[e0] = DOMAIN channels[e0] \ {f0}
      /\ \A f \in DOMAIN epoll[e0] : f # f0 => epoll'[e0][f] = epoll[e0][f]
      /\ \A f \in DOMAIN channels[e0] : f # f0 => channels'[e0][f] = channels[e0][f]
  BY <1>5 DEF Without
<1>7. \A e \in Evds : \A f \in DOMAIN channels[e] :
        /\ channels[e][f] \in Conns /\ f \in Fds
        /\ channels[e][f] = c <=> (e = e0 /\ f = f0)
        /\ f = f0 => e = e0
  BY <1>0, <1>1 DEF Registry, ChannelType, e0, f0
<1>8. ASSUME NEW e \in Evds PROVE DOMAIN channels'[e] = DOMAIN epoll'[e]
  <2>1. DOMAIN channels[e] = DOMAIN epoll[e]
    BY DEF Registry
  <2>2. CASE e = e0
    BY <1>6, <2>1, <2>2
  <2>3. CASE e # e0
    BY <1>5, <2>1, <2>3
  <2> QED
    BY <2>2, <2>3
<1>9. ASSUME NEW e \in Evds, NEW f \in DOMAIN channels'[e]
      PROVE  /\ con'[channels'[e][f]].fd = f /\ con'[channels'[e][f]].evd = e
             /\ con'[channels'[e][f]].status = "CONNECTED"
             /\ open'[f] = channels'[e][f]
             /\ epoll'[e][f] = con'[channels'[e][f]].events
  <2>1. /\ f \in DOMAIN channels[e] /\ channels'[e][f] = channels[e][f]
        /\ epoll'[e][f] = epoll[e][f] /\ ~(e = e0 /\ f = f0)
    <3>1. DOMAIN channels[e] = DOMAIN epoll[e]
      BY DEF Registry
    <3>2. CASE e = e0
      BY <1>6, <1>9, <3>1, <3>2
    <3>3. CASE e # e0
      BY <1>5, <1>9, <3>3
    <3> QED
      BY <3>2, <3>3
  <2>2. /\ channels[e][f] # c /\ f # f0
        /\ con'[channels[e][f]] = con[channels[e][f]] /\ open'[f] = open[f]
    BY <1>2, <1>4, <1>7, <2>1
  <2> QED
    BY <2>1, <2>2 DEF Registry
<1>10. ASSUME NEW d \in Conns, con'[d].status = "CONNECTED"
       PROVE  /\ con'[d].fd \in DOMAIN channels'[con'[d].evd]
              /\ channels'[con'[d].evd][con'[d].fd] = d
  <2>1. d # c /\ con'[d] = con[d] /\ con[d].evd \in Evds
    BY <1>0, <1>2, <1>10 DEF ConType, Records
  <2>2. /\ con[d].fd \in DOMAIN channels[con[d].evd]
        /\ channels[con[d].evd][con[d].fd] = d
    BY <1>10, <2>1 DEF Registry
  <2>3. ~(con[d].evd = e0 /\ con[d].fd = f0)
    BY <1>1, <2>1, <2>2 DEF e0, f0
  <2> QED
    BY <1>5, <1>6, <2>1, <2>2, <2>3
<1>11. ASSUME NEW d \in Conns, con'[d].status = "CONNECTING", con'[d].fd # NoFd
       PROVE  open'[con'[d].fd] = d
  <2>1. d # c /\ con'[d] = con[d] /\ con[d].fd \in Fds
    BY <1>0, <1>2, <1>11 DEF ConType, Records
  <2>2. open[con[d].fd] = d
    BY <1>11, <2>1 DEF Registry
  <2> QED
    BY <1>1, <1>4, <2>1, <2>2
<1> QED
  BY <1>3, <1>8, <1>9, <1>10, <1>11 DEF Registry

\* The tables of the loops stay if only closed connections change.
LEMMA RegistryStays ==
    ASSUME Types, Registry, UNCHANGED <<channels, epoll, open>>,
           fatal' \in {fatal, "read", "accept", "pipe"}, fatal = "none",
           \A d \in Conns : \/ con'[d] = con[d]
                            \/ /\ con[d].status \in {"CLOSING", "CLOSED"}
                               /\ con'[d].status \in {"CLOSING", "CLOSED"}
    PROVE  Registry'
<1>0. ConType /\ ChannelType
  BY DEF Types
<1>1. \A e \in Evds : \A f \in DOMAIN channels[e] :
        channels[e][f] \in Conns /\ con'[channels[e][f]] = con[channels[e][f]]
  BY <1>0 DEF Registry, ChannelType
<1>2. \A d \in Conns : con'[d].status \in {"CONNECTING", "CONNECTED"} => con'[d] = con[d]
  OBVIOUS
<1> QED
  BY <1>1, <1>2 DEF Registry

-----------------------------------------------------------------------------
(* Output.                                                                 *)

\* The output is in order as long as nothing is sent.
LEMMA OutputStays ==
    ASSUME Output, UNCHANGED <<wire, accepted>>,
           \A d \in Conns :
              /\ con'[d].out = con[d].out
              /\ con'[d].status \in {"NONE", "CONNECTING"} =>
                    con[d].status \in {"NONE", "CONNECTING"}
              /\ con'[d].status = "CONNECTED" =>
                    \/ con[d].status = "CONNECTED" /\ con'[d].events = con[d].events
                    \/ con[d].status \in {"NONE", "CONNECTING"} /\ "w" \notin con'[d].events
    PROVE  Output'
BY DEF Output

\* What the kernel takes from a descriptor reaches the peer of that socket.
LEMMA WriteOutEffect ==
    ASSUME ConType, OpenType, WireType, NEW c \in Conns, NEW text \in Seq(Data),
           NEW n \in 0..Len(text), n = 0 \/ Socket(c) # NoCon, WriteOut(c, text, n)
    PROVE  /\ wire' \in [Conns -> Seq(Data)] /\ (n = 0 => wire' = wire)
           /\ n # 0 => /\ Socket(c) \in Conns
                       /\ wire'[Socket(c)] = wire[Socket(c)] \o SubSeq(text, 1, n)
                       /\ \A d \in Conns : d # Socket(c) => wire'[d] = wire[d]
<1>1. CASE n = 0
  BY <1>1 DEF WriteOut, WireType
<1>2. CASE n # 0
  <2> DEFINE k == Socket(c)
             first == SubSeq(text, 1, n)
  <2>1. k \in Conns
    BY <1>2 DEF Socket, OpenType, ConType, Records
  <2>2. wire' = [wire EXCEPT ![k] = @ \o first]
    BY <1>2 DEF WriteOut
  <2>3. first \in Seq(Data)
    BY CutInTwo
  <2> HIDE DEF k, first
  <2>4. wire[k] \in Seq(Data) /\ wire[k] \o first \in Seq(Data)
    BY <2>1, <2>3, ConcatProperties DEF WireType
  <2>5. /\ wire' \in [Conns -> Seq(Data)] /\ wire'[k] = wire[k] \o first
        /\ \A d \in Conns : d # k => wire'[d] = wire[d]
    BY <2>1, <2>2, <2>4 DEF WireType
  <2> QED
    BY <1>2, <2>1, <2>5 DEF k, first
<1> QED
  BY <1>1, <1>2

\* The end of send().
LEMMA BufferTouches ==
    ASSUME ConType, NEW c \in Conns, NEW rest \in Seq(Data), Buffer(c, rest)
    PROVE  \E x \in Records :
              /\ x.out = con[c].out \o rest /\ Touches(c, x)
              /\ rest = <<>> => x.events = con[c].events
              /\ rest # <<>> => "w" \in x.events
<1> DEFINE o == con[c].out \o rest
           r == [con[c] EXCEPT !.out = @ \o rest]
<1>1. con[c] \in Records /\ con[c].out \in Seq(Data) /\ con[c].events \in Interest
  BY DEF ConType, Records, Data
<1>2. o \in Seq(Data)
  BY <1>1, ConcatProperties
<1>3. /\ r \in Records /\ r.out = o /\ r.status = con[c].status /\ r.fd = con[c].fd
      /\ r.evd = con[c].evd /\ r.id = con[c].id /\ r.events = con[c].events
  <2>1. r = [con[c] EXCEPT !.out = o]
    OBVIOUS
  <2> HIDE DEF o
  <2> QED
    BY <1>1, <1>2, <2>1 DEF Records, Data
<1>4. /\ rest # <<>> /\ "w" \notin con[c].events => SetEvents(c, r, con[c].events \cup {"w"})
      /\ ~(rest # <<>> /\ "w" \notin con[c].events) => KeepEvents(c, r)
  BY <1>3 DEF Buffer
<1>5. con[c].events \cup {"w"} \in Interest
  BY <1>1 DEF Interest
<1> HIDE DEF r, o
<1>6. CASE rest # <<>> /\ "w" \notin con[c].events
  <2>1. \E x \in Records : /\ x.out = r.out /\ x.events = con[c].events \cup {"w"}
                           /\ Touches(c, x)
    BY <1>3, <1>4, <1>5, <1>6, EventsTouch
  <2> QED
    BY <1>3, <1>6, <2>1 DEF o
<1>7. CASE ~(rest # <<>> /\ "w" \notin con[c].events)
  <2>1. \E x \in Records : x.out = r.out /\ x.events = con[c].events /\ Touches(c, x)
    BY <1>1, <1>3, <1>4, <1>7, EventsTouch
  <2> QED
    BY <1>3, <1>7, <2>1 DEF o
<1> QED
  BY <1>6, <1>7

\* send(): the types, and that it changes no connection but in its output.
LEMMA SendTypes ==
    ASSUME Types, fatal = "none", NEW c \in Conns, NEW m \in Messages, Send(c, m)
    PROVE  /\ ConType' /\ EpollType' /\ WireType' /\ UNCHANGED channels
           /\ fatal' \in {"none", "epoll", "pipe"}
           /\ \A d \in Conns : /\ con'[d].status = con[d].status /\ con'[d].fd = con[d].fd
                               /\ con'[d].evd = con[d].evd /\ con'[d].id = con[d].id
<1>0. ConType /\ EpollType /\ OpenType /\ WireType
  BY DEF Types
<1>1. CASE /\ fatal' \in {fatal, "pipe"}
           /\ UNCHANGED <<con, channels, epoll, wire, accepted>>
  BY <1>0, <1>1 DEF ConType, EpollType, WireType
<1>2. ASSUME NEW n \in 0..MsgLen, n = 0 \/ Socket(c) # NoCon,
             WriteOut(c, Text(m), n), Buffer(c, SubSeq(Text(m), n + 1, MsgLen)),
             accepted' = [accepted EXCEPT ![c] = @ \o Text(m)]
      PROVE  /\ ConType' /\ EpollType' /\ WireType' /\ UNCHANGED channels
             /\ fatal' \in {"none", "epoll"}
             /\ \A d \in Conns : /\ con'[d].status = con[d].status /\ con'[d].fd = con[d].fd
                                 /\ con'[d].evd = con[d].evd /\ con'[d].id = con[d].id
  <2> DEFINE rest == SubSeq(Text(m), n + 1, MsgLen)
  <2>1. Text(m) \in Seq(Data) /\ Len(Text(m)) = MsgLen /\ rest \in Seq(Data)
    BY TextIsData, CutInTwo
  <2>2. wire' \in [Conns -> Seq(Data)]
    BY <1>0, <1>2, <2>1, WriteOutEffect
  <2> HIDE DEF rest
  <2>3. PICK x \in Records : Touches(c, x)
    BY <1>0, <1>2, <2>1, BufferTouches DEF rest
  <2>4. accepted[c] \o Text(m) \in Seq(Data)
    BY <1>0, <2>1, ConcatProperties DEF WireType
  <2>5. accepted' \in [Conns -> Seq(Data)]
    BY <1>0, <1>2, <2>4 DEF WireType
  <2>6. /\ ConType' /\ EpollType' /\ fatal' \in {"none", "epoll"}
        /\ \A d \in Conns : /\ con'[d].status = con[d].status /\ con'[d].fd = con[d].fd
                            /\ con'[d].evd = con[d].evd /\ con'[d].id = con[d].id
    BY <1>0, <2>3, TouchTypes
  <2> QED
    BY <2>2, <2>3, <2>5, <2>6 DEF WireType, Touches
<1>3. CASE \E n \in IF Sendable(c) THEN 0..MsgLen ELSE {0} :
              /\ WriteOut(c, Text(m), n)
              /\ Buffer(c, SubSeq(Text(m), n + 1, MsgLen))
              /\ accepted' = [accepted EXCEPT ![c] = @ \o Text(m)]
  <2>1. PICK n \in IF Sendable(c) THEN 0..MsgLen ELSE {0} :
              /\ WriteOut(c, Text(m), n)
              /\ Buffer(c, SubSeq(Text(m), n + 1, MsgLen))
              /\ accepted' = [accepted EXCEPT ![c] = @ \o Text(m)]
    BY <1>3
  <2>2. n \in 0..MsgLen /\ (n = 0 \/ Socket(c) # NoCon)
    BY TcpAssumption DEF Sendable
  <2> QED
    BY <1>2, <2>1, <2>2
<1> QED
  BY <1>1, <1>3 DEF Send, regVars

\* send() keeps the order: what it writes itself goes out before what it
\* buffers, and it writes itself only when nothing is buffered.
LEMMA SendGood ==
    ASSUME Types, Registry, Output, fatal = "none", NEW c \in Conns, NEW m \in Messages,
           Send(c, m), UNCHANGED open
    PROVE  Registry' /\ Output'
<1>0. ConType /\ EpollType /\ ChannelType /\ OpenType /\ WireType
  BY DEF Types
<1>1. CASE /\ fatal' \in {fatal, "pipe"}
           /\ UNCHANGED <<con, channels, epoll, wire, accepted>>
  <2>1. Registry'
    BY <1>1, RegistryStays
  <2>2. Output'
    BY <1>1, OutputStays
  <2> QED
    BY <2>1, <2>2
<1>2. ASSUME NEW n \in IF Sendable(c) THEN 0..MsgLen ELSE {0},
             con[c].status = "CONNECTED",
             WriteOut(c, Text(m), n), Buffer(c, SubSeq(Text(m), n + 1, MsgLen)),
             accepted' = [accepted EXCEPT ![c] = @ \o Text(m)]
      PROVE  Registry' /\ Output'
  <2> DEFINE text == Text(m)
             first == SubSeq(text, 1, n)
             rest == SubSeq(text, n + 1, MsgLen)
             out == con[c].out
  <2>1. /\ MsgLen \in Nat \ {0} /\ text \in Seq(Data) /\ Len(text) = MsgLen
        /\ n \in 0..MsgLen /\ (n = 0 \/ Socket(c) # NoCon)
        /\ n # 0 => out = <<>> /\ "w" \notin con[c].events
    BY TextIsData DEF Sendable
  <2>2. /\ first \in Seq(Data) /\ rest \in Seq(Data) /\ first \o rest = text
        /\ rest = <<>> <=> n = MsgLen
        /\ n = 0 => rest = text
    BY <2>1, CutInTwo
  <2>3. Socket(c) = c
    <3>1. con[c].fd \in DOMAIN channels[con[c].evd] /\ channels[con[c].evd][con[c].fd] = c
          /\ con[c].evd \in Evds
      BY <1>0, <1>2 DEF Registry, ConType, Records
    <3>2. open[con[c].fd] = c /\ con[c].fd \in Fds /\ NoFd \notin Fds
      BY <1>0, <3>1, TcpAssumption DEF Registry, ChannelType
    <3> QED
      BY <3>2 DEF Socket
  <2>4. /\ wire' \in [Conns -> Seq(Data)] /\ (n = 0 => wire' = wire)
        /\ n # 0 => /\ wire'[c] = wire[c] \o first
                    /\ \A d \in Conns : d # c => wire'[d] = wire[d]
    <3>1. WriteOut(c, text, n) /\ n \in 0..Len(text) /\ (n = 0 \/ Socket(c) # NoCon)
      BY <1>2, <2>1
    <3> HIDE DEF text
    <3>2. /\ wire' \in [Conns -> Seq(Data)] /\ (n = 0 => wire' = wire)
          /\ n # 0 => /\ Socket(c) \in Conns
                      /\ wire'[Socket(c)] = wire[Socket(c)] \o SubSeq(text, 1, n)
                      /\ \A d \in Conns : d # Socket(c) => wire'[d] = wire[d]
      BY <1>0, <2>1, <3>1, WriteOutEffect
    <3> QED
      BY <2>3, <3>2
  <2> HIDE DEF rest, first, text
  <2>5. PICK x \in Records :
              /\ x.out = out \o rest /\ Touches(c, x)
              /\ rest = <<>> => x.events = con[c].events
              /\ rest # <<>> => "w" \in x.events
    BY <1>0, <1>2, <2>2, BufferTouches DEF rest, text
  <2>6. Registry'
    BY <1>2, <2>5, TouchRegistry
  <2>7. con'[c] = x /\ \A d \in Conns : d # c => con'[d] = con[d]
    BY <1>0, <2>5, TouchTypes
  <2>8. /\ accepted'[c] = accepted[c] \o text
        /\ \A d \in Conns : d # c => accepted'[d] = accepted[d]
    BY <1>0, <1>2 DEF WireType, text
  <2>9. wire[c] \in Seq(Data) /\ out \in Seq(Data) /\ accepted[c] = wire[c] \o out
    <3>1. wire[c] \in Seq(Data)
      BY <1>0 DEF WireType
    <3>2. out \in Seq(Data)
      BY <1>0 DEF ConType, Records, Data
    <3>3. accepted[c] = wire[c] \o out
      BY DEF Output
    <3> QED
      BY <3>1, <3>2, <3>3
  <2>10. accepted'[c] = wire'[c] \o x.out
    <3> HIDE DEF out
    <3>1. CASE n = 0
      <4>1. (wire[c] \o out) \o text = wire[c] \o (out \o text)
        <5> DEFINE w == wire[c]
        <5>1. w \in Seq(Data) /\ out \in Seq(Data) /\ text \in Seq(Data)
          BY <2>1, <2>9
        <5> HIDE DEF w
        <5>2. (w \o out) \o text = w \o (out \o text)
          BY <5>1, ConcatAssociative
        <5> QED
          BY <5>2 DEF w
      <4> QED
        BY <2>2, <2>4, <2>5, <2>8, <2>9, <3>1, <4>1
    <3>2. CASE n # 0
      <4>1. wire[c] \o out = wire[c] /\ out \o rest = rest
        BY <2>1, <2>2, <2>9, <3>2, ConcatEmptySeq DEF out
      <4>2. (wire[c] \o first) \o rest = wire[c] \o (first \o rest)
        <5> DEFINE w == wire[c]
        <5>1. w \in Seq(Data) /\ first \in Seq(Data) /\ rest \in Seq(Data)
          BY <2>2, <2>9
        <5> HIDE DEF w
        <5>2. (w \o first) \o rest = w \o (first \o rest)
          BY <5>1, ConcatAssociative
        <5> QED
          BY <5>2 DEF w
      <4> QED
        BY <2>2, <2>4, <2>5, <2>8, <2>9, <3>2, <4>1, <4>2
    <3> QED
      BY <3>1, <3>2
  <2>11. "w" \in x.events <=> x.out # <<>>
    <3> HIDE DEF out
    <3>0. out \o rest = <<>> <=> out = <<>> /\ rest = <<>>
      <4>1. rest \in Seq(Data)
        BY <2>2
      <4>2. out \in Seq(Data)
        BY <2>9
      <4> QED
        BY <4>1, <4>2, ConcatEqualIffEmpty
    <3>1. CASE rest = <<>>
      <4>0. n # 0
        BY <2>1, <2>2, <3>1
      <4>1. out = <<>> /\ "w" \notin con[c].events
        BY <2>1, <4>0
      <4> QED
        BY <2>5, <3>0, <3>1, <4>1, Zenon
    <3>2. CASE rest # <<>>
      BY <2>5, <3>0, <3>2, Zenon
    <3> QED
      BY <3>1, <3>2
  <2>12. \A d \in Conns : d # c => wire'[d] = wire[d]
    BY <2>4
  <2>13. x.status = "CONNECTED"
    BY <1>2, <2>5 DEF Touches
  <2>14. Output'
    BY <2>7, <2>8, <2>10, <2>11, <2>12, <2>13 DEF Output
  <2> QED
    BY <2>6, <2>14
<1>3. CASE con[c].status = "CONNECTED" /\ \E n \in IF Sendable(c) THEN 0..MsgLen ELSE {0} :
              /\ WriteOut(c, Text(m), n)
              /\ Buffer(c, SubSeq(Text(m), n + 1, MsgLen))
              /\ accepted' = [accepted EXCEPT ![c] = @ \o Text(m)]
  BY <1>2, <1>3
<1> QED
  BY <1>1, <1>3 DEF Send, regVars

\* What HandleWrite does to the connection, its socket and its interest.
Drains(c) ==
    LET out == con[c].out
    IN  \E n \in IF Socket(c) = NoCon THEN {0} ELSE 0..Len(out) :
           LET r == [con[c] EXCEPT !.out = SubSeq(out, n + 1, Len(out))]
           IN  /\ WriteOut(c, out, n)
               /\ IF n > 0 /\ r.out = <<>>
                  THEN SetEvents(c, r, r.events \ {"w"})
                  ELSE KeepEvents(c, r)

\* HandleWrite writes n pieces and keeps the rest.
LEMMA DrainEffect ==
    ASSUME ConType, OpenType, WireType, NEW c \in Conns, Drains(c)
    PROVE  \E n \in 0..Len(con[c].out) : \E x \in Records :
              /\ n = 0 \/ Socket(c) # NoCon
              /\ WriteOut(c, con[c].out, n)
              /\ x.out = SubSeq(con[c].out, n + 1, Len(con[c].out)) /\ Touches(c, x)
              /\ n > 0 /\ x.out = <<>> => "w" \notin x.events
              /\ ~(n > 0 /\ x.out = <<>>) => x.events = con[c].events
<1> DEFINE out == con[c].out
           rest(n) == SubSeq(out, n + 1, Len(out))
           r(n) == [con[c] EXCEPT !.out = rest(n)]
<1>1. con[c] \in Records /\ out \in Seq(Data) /\ con[c].events \in Interest
  BY DEF ConType, Records, Data
<1>2. PICK n \in IF Socket(c) = NoCon THEN {0} ELSE 0..Len(out) :
           /\ WriteOut(c, out, n)
           /\ IF n > 0 /\ r(n).out = <<>>
              THEN SetEvents(c, r(n), r(n).events \ {"w"})
              ELSE KeepEvents(c, r(n))
  BY DEF Drains
<1>3. n \in 0..Len(out) /\ (n = 0 \/ Socket(c) # NoCon)
  BY <1>1, LenProperties
<1>4. rest(n) \in Seq(Data)
  <2> HIDE DEF out
  <2> QED
    BY <1>1, <1>3, CutInTwo
<1> DEFINE s == rest(n)
           y == r(n)
<1>5. y = [con[c] EXCEPT !.out = s] /\ s \in Seq(Data)
  BY <1>4
<1> HIDE DEF s
<1>6. /\ y \in Records /\ y.out = s /\ y.status = con[c].status /\ y.fd = con[c].fd
      /\ y.evd = con[c].evd /\ y.id = con[c].id /\ y.events = con[c].events
  BY <1>1, <1>5 DEF Records, Data
<1> HIDE DEF y
<1>7. /\ n > 0 /\ s = <<>> => SetEvents(c, y, con[c].events \ {"w"})
      /\ ~(n > 0 /\ s = <<>>) => KeepEvents(c, y)
  BY <1>2, <1>6 DEF y
<1>8. con[c].events \ {"w"} \in Interest
  BY <1>1 DEF Interest
<1>9. \E x \in Records :
        /\ x.out = s /\ Touches(c, x)
        /\ n > 0 /\ s = <<>> => x.events = con[c].events \ {"w"}
        /\ ~(n > 0 /\ s = <<>>) => x.events = con[c].events
  <2>1. CASE n > 0 /\ s = <<>>
    <3>1. \E x \in Records : x.out = y.out /\ x.events = con[c].events \ {"w"} /\ Touches(c, x)
      BY <1>6, <1>7, <1>8, <2>1, EventsTouch
    <3> QED
      BY <1>6, <2>1, <3>1
  <2>2. CASE ~(n > 0 /\ s = <<>>)
    <3>1. \E x \in Records : x.out = y.out /\ x.events = con[c].events /\ Touches(c, x)
      BY <1>1, <1>6, <1>7, <2>2, EventsTouch
    <3> QED
      BY <1>6, <2>2, <3>1
  <2> QED
    BY <2>1, <2>2
<1>10. WriteOut(c, out, n)
  BY <1>2
<1> HIDE DEF out
<1>11. PICK x \in Records :
        /\ x.out = s /\ Touches(c, x)
        /\ n > 0 /\ s = <<>> => x.events = con[c].events \ {"w"}
        /\ ~(n > 0 /\ s = <<>>) => x.events = con[c].events
  BY <1>9
<1> QED
  BY <1>3, <1>10, <1>11 DEF s, out

\* HandleWrite: the types.
LEMMA DrainTypes ==
    ASSUME Types, fatal = "none", NEW c \in Conns, Drains(c), UNCHANGED accepted
    PROVE  /\ ConType' /\ EpollType' /\ WireType' /\ UNCHANGED channels
           /\ fatal' \in {"none", "epoll"}
           /\ \A d \in Conns : /\ con'[d].status = con[d].status /\ con'[d].fd = con[d].fd
                               /\ con'[d].evd = con[d].evd /\ con'[d].id = con[d].id
<1>0. ConType /\ EpollType /\ OpenType /\ WireType /\ con[c].out \in Seq(Data)
  BY DEF Types, ConType, Records, Data
<1>1. PICK n \in 0..Len(con[c].out) : \E x \in Records :
         /\ n = 0 \/ Socket(c) # NoCon
         /\ WriteOut(c, con[c].out, n) /\ Touches(c, x)
  BY <1>0, DrainEffect
<1>2. wire' \in [Conns -> Seq(Data)]
  BY <1>0, <1>1, WriteOutEffect
<1>3. PICK x \in Records : Touches(c, x)
  BY <1>1
<1>4. /\ ConType' /\ EpollType' /\ fatal' \in {"none", "epoll"}
      /\ \A d \in Conns : /\ con'[d].status = con[d].status /\ con'[d].fd = con[d].fd
                          /\ con'[d].evd = con[d].evd /\ con'[d].id = con[d].id
  BY <1>0, <1>3, TouchTypes
<1> QED
  BY <1>0, <1>2, <1>3, <1>4 DEF WireType, Touches

\* HandleWrite keeps the order, and gives up write interest with the last piece.
LEMMA DrainGood ==
    ASSUME Types, Registry, Output, fatal = "none", NEW c \in Conns, Drains(c),
           con[c].status = "CONNECTED", UNCHANGED <<open, accepted>>
    PROVE  Registry' /\ Output'
<1> DEFINE out == con[c].out
<1>0. /\ ConType /\ EpollType /\ ChannelType /\ OpenType /\ WireType
      /\ out \in Seq(Data) /\ wire[c] \in Seq(Data)
  BY DEF Types, ConType, Records, Data, WireType
<1>1. PICK n \in 0..Len(out) : \E x \in Records :
              /\ n = 0 \/ Socket(c) # NoCon
              /\ WriteOut(c, out, n)
              /\ x.out = SubSeq(out, n + 1, Len(out)) /\ Touches(c, x)
              /\ n > 0 /\ x.out = <<>> => "w" \notin x.events
              /\ ~(n > 0 /\ x.out = <<>>) => x.events = con[c].events
  BY <1>0, DrainEffect
<1>2. PICK x \in Records :
              /\ x.out = SubSeq(out, n + 1, Len(out)) /\ Touches(c, x)
              /\ n > 0 /\ x.out = <<>> => "w" \notin x.events
              /\ ~(n > 0 /\ x.out = <<>>) => x.events = con[c].events
  BY <1>1
<1>3. Socket(c) = c
  <2>1. con[c].fd \in DOMAIN channels[con[c].evd] /\ channels[con[c].evd][con[c].fd] = c
        /\ con[c].evd \in Evds
    BY <1>0 DEF Registry, ConType, Records
  <2>2. open[con[c].fd] = c /\ con[c].fd \in Fds /\ NoFd \notin Fds
    BY <1>0, <2>1, TcpAssumption DEF Registry, ChannelType
  <2> QED
    BY <2>2 DEF Socket
<1>4. accepted[c] = wire[c] \o out /\ ("w" \in con[c].events <=> out # <<>>)
  BY DEF Output
<1>5. WriteOut(c, out, n) /\ (n = 0 \/ Socket(c) # NoCon)
  BY <1>1
<1>6. Registry'
  BY <1>2, TouchRegistry
<1>7. con'[c] = x /\ \A d \in Conns : d # c => con'[d] = con[d]
  BY <1>0, <1>2, TouchTypes
<1> DEFINE first == SubSeq(out, 1, n)
           rest == SubSeq(out, n + 1, Len(out))
<1> HIDE DEF out
<1>8. /\ wire' \in [Conns -> Seq(Data)] /\ (n = 0 => wire' = wire)
      /\ n # 0 => /\ wire'[c] = wire[c] \o first
                  /\ \A d \in Conns : d # c => wire'[d] = wire[d]
  BY <1>0, <1>3, <1>5, WriteOutEffect
<1>9. /\ first \in Seq(Data) /\ rest \in Seq(Data) /\ first \o rest = out
      /\ n = 0 => rest = out
  BY <1>0, CutInTwo
<1>10. x.out = rest
  BY <1>2
<1> HIDE DEF first, rest
<1>11. accepted[c] = wire'[c] \o x.out
  <2>1. CASE n = 0
    BY <1>4, <1>8, <1>9, <1>10, <2>1
  <2>2. CASE n # 0
    <3> DEFINE w == wire[c]
    <3>1. w \in Seq(Data) /\ first \in Seq(Data) /\ rest \in Seq(Data)
      BY <1>0, <1>9
    <3> HIDE DEF w
    <3>2. (w \o first) \o rest = w \o (first \o rest)
      BY <3>1, ConcatAssociative
    <3> QED
      BY <1>4, <1>8, <1>9, <1>10, <2>2, <3>2 DEF w
  <2> QED
    BY <2>1, <2>2
<1>12. "w" \in x.events <=> x.out # <<>>
  <2>1. CASE n > 0 /\ x.out = <<>>
    BY <1>2, <2>1
  <2>2. CASE n > 0 /\ x.out # <<>>
    <3>1. out # <<>>
      <4>1. Len(out) > 0
        BY <2>2
      <4> QED
        BY <4>1
    <3> QED
      BY <1>2, <1>4, <2>2, <3>1
  <2>3. CASE n = 0
    BY <1>2, <1>4, <1>9, <1>10, <2>3
  <2> QED
    BY <2>1, <2>2, <2>3
<1>13. \A d \in Conns : d # c => wire'[d] = wire[d]
  BY <1>8
<1>14. x.status = "CONNECTED"
  BY <1>2 DEF Touches
<1>15. Output'
  BY <1>7, <1>11, <1>12, <1>13, <1>14 DEF Output
<1> QED
  BY <1>6, <1>15

-----------------------------------------------------------------------------
(* Queues, steps and the table.                                            *)

\* Nothing that they speak of changes in the connections.
SameIdentity ==
    \A d \in Conns : /\ con'[d].status = con[d].status
                     /\ con'[d].evd = con[d].evd /\ con'[d].id = con[d].id

\* The handlers of an event that are over are not taken up again.
ActShrinks ==
    \A e \in Evds : /\ act'[e].left \subseteq act[e].left
                    /\ act'[e].left # {} => act'[e].con = act[e].con
                    /\ "insert" \in act[e].left => act'[e] = act[e]

\* Functors about connections that kept their identity.
LEMMA SameFunctors ==
    ASSUME SameIdentity, NEW e, NEW s \in Seq(FunctorSet), QueueOk(con, e, s)
    PROVE  QueueOk(con', e, s)
<1>1. ASSUME NEW i \in 1..Len(s), FunctorOk(con, e, s[i]) PROVE FunctorOk(con', e, s[i])
  <2>1. s[i] \in FunctorSet
    OBVIOUS
  <2>2. s[i].con \in Conns
    BY <2>1 DEF FunctorSet
  <2> QED
    BY <1>1, <2>2 DEF FunctorOk, SameIdentity
<1> QED
  BY <1>1, StillOk

\* The queues as they are, or without a functor that sends or closes.
Advanced(q) ==
    \/ q = queue
    \/ \E e \in Evds : /\ queue[e] # <<>> /\ Head(queue[e]).op \in {"send", "close"}
                       /\ q = [queue EXCEPT ![e] = Tail(@)]

\* What is left in the queues is still in order.
LEMMA QueueAdvances ==
    ASSUME QueueType, Handed, NEW q, Advanced(q)
    PROVE  /\ q \in [Evds -> Seq(FunctorSet)]
           /\ \A e \in Evds : /\ QueueOk(con, e, q[e]) /\ OnceIn(q[e])
                              /\ \A c : HasErase(queue[e], c) <=> HasErase(q[e], c)
<1>0. \A e \in Evds : /\ queue[e] \in Seq(FunctorSet)
                      /\ QueueOk(con, e, queue[e]) /\ OnceIn(queue[e])
  BY DEF QueueType, Handed
<1>1. CASE q = queue
  BY <1>0, <1>1 DEF QueueType
<1>2. ASSUME NEW e0 \in Evds, queue[e0] # <<>>, Head(queue[e0]).op \in {"send", "close"},
             q = [queue EXCEPT ![e0] = Tail(@)]
      PROVE  /\ q \in [Evds -> Seq(FunctorSet)]
             /\ \A e \in Evds : /\ QueueOk(con, e, q[e]) /\ OnceIn(q[e])
                                /\ \A c : HasErase(queue[e], c) <=> HasErase(q[e], c)
  <2> DEFINE s == queue[e0]
  <2>1. \A c : Head(s) # EraseOf(c)
    BY <1>2 DEF EraseOf, Functor
  <2>2. s \in Seq(FunctorSet) /\ s # <<>> /\ QueueOk(con, e0, s) /\ OnceIn(s)
    BY <1>0, <1>2
  <2>3. q[e0] = Tail(s) /\ \A e \in Evds : e # e0 => q[e] = queue[e]
    BY <1>2 DEF QueueType
  <2> HIDE DEF s
  <2>4. /\ Tail(s) \in Seq(FunctorSet) /\ QueueOk(con, e0, Tail(s)) /\ OnceIn(Tail(s))
        /\ \A c : HasErase(s, c) <=> Head(s) = EraseOf(c) \/ HasErase(Tail(s), c)
    BY <2>2, TailOk
  <2>5. q \in [Evds -> Seq(FunctorSet)]
    BY <1>2, <2>4 DEF QueueType, s
  <2>6. ASSUME NEW e \in Evds
        PROVE  /\ QueueOk(con, e, q[e]) /\ OnceIn(q[e])
               /\ \A c : HasErase(queue[e], c) <=> HasErase(q[e], c)
    <3>1. CASE e = e0
      BY <2>1, <2>3, <2>4, <3>1 DEF s
    <3>2. CASE e # e0
      BY <1>0, <2>3, <3>2
    <3> QED
      BY <3>1, <3>2
  <2> QED
    BY <2>5, <2>6
<1> QED
  BY <1>1, <1>2 DEF Advanced

\* A handler that neither opens nor closes a connection, or a functor that does
\* not, keeps everything in its place.
LEMMA PlacesKept ==
    ASSUME Types, Places, SameIdentity, ActShrinks, UNCHANGED <<table, caller>>,
           Advanced(queue')
    PROVE  Places'
<1>0. /\ ConType /\ TableType /\ QueueType /\ ActType /\ CallerType /\ Main \in Evds
      /\ NoCon \notin Conns
  BY TcpAssumption DEF Types, Main, Evds
<1>1. ASSUME NEW e \in Evds
      PROVE  /\ queue'[e] \in Seq(FunctorSet)
             /\ QueueOk(con, e, queue'[e]) /\ OnceIn(queue'[e])
             /\ \A c : HasErase(queue[e], c) <=> HasErase(queue'[e], c)
  BY <1>0, QueueAdvances DEF Places
<1>2. Handed'
  <2>1. \A e \in Evds : QueueOk(con', e, queue'[e]) /\ OnceIn(queue'[e])
    BY <1>1, SameFunctors
  <2>2. \A t \in Threads : caller'[t] \in Conns =>
          con'[caller'[t]].status \notin {"NONE", "CONNECTING"}
    BY <1>0 DEF SameIdentity, Places, Handed, CallerType
  <2> QED
    BY <2>1, <2>2 DEF Handed
<1>3. ASSUME NEW e \in Evds
      PROVE  /\ act[e].left # {} => act[e].con \in Conns
             /\ act'[e].left # {} => act'[e].con = act[e].con /\ act[e].con \in Conns
             /\ act'[e].left \subseteq act[e].left
             /\ "insert" \in act[e].left => act'[e] = act[e]
             /\ "insert" \in act'[e].left <=> "insert" \in act[e].left
  BY <1>0 DEF ActType, ActShrinks
<1>4. Acting'
  <2> SUFFICES ASSUME NEW e \in Evds
               PROVE  /\ "r" \in act'[e].left =>
                            con'[act'[e].con].status = "CONNECTED" /\ con'[act'[e].con].evd = e
                      /\ "close" \in act'[e].left =>
                            con'[act'[e].con].status = "CLOSING" /\ con'[act'[e].con].evd = e
                      /\ "insert" \in act'[e].left =>
                            /\ e = Main
                            /\ con'[act'[e].con].id \notin DOMAIN table'
    BY DEF Acting
  <2> QED
    BY <1>3 DEF Places, Acting, SameIdentity
<1>5. \A c \in Conns : Inserting(c)' <=> Inserting(c)
  BY <1>0, <1>3 DEF Inserting
<1>6. Listed'
  <2>1. \A i \in DOMAIN table : table[i] \in Conns
    BY <1>0 DEF TableType
  <2> QED
    BY <1>5, <2>1 DEF Places, Listed, SameIdentity
<1>7. Erasing'
  <2>1. \A c \in Conns : HasErase(queue[Main], c) <=> HasErase(queue'[Main], c)
    BY <1>0, <1>1
  <2>2. \A c \in Conns : InTable(c)' <=> InTable(c)
    BY DEF InTable
  <2> QED
    BY <1>5, <2>1, <2>2 DEF Places, Erasing, SameIdentity
<1> QED
  BY <1>2, <1>4, <1>6, <1>7 DEF Places

\* closeConnect of a connected connection: the table entry goes at once in the
\* main loop, and by a functor that is queued otherwise.
LEMMA PlacesClose ==
    ASSUME Types, Places, fatal = "none", NEW c \in Conns, con[c].status = "CONNECTED",
           NEW st \in {"CLOSING", "CLOSED"}, NEW q, Advanced(q), CloseConnect(c, q, st),
           UNCHANGED caller, "insert" \notin act[con[c].evd].left,
           \A e \in Evds : e # con[c].evd => act'[e] = act[e],
           {"r", "insert"} \cap act'[con[c].evd].left = {},
           "close" \in act'[con[c].evd].left =>
              act'[con[c].evd].con = c /\ st = "CLOSING"
    PROVE  Places'
<1> DEFINE e0 == con[c].evd
<1>0. /\ ConType /\ TableType /\ QueueType /\ ActType /\ CallerType /\ Main \in Evds
      /\ NoCon \notin Conns /\ e0 \in Evds
  BY TcpAssumption DEF Types, Main, Evds, ConType, Records
<1>q. /\ q \in [Evds -> Seq(FunctorSet)]
      /\ \A e \in Evds : /\ QueueOk(con, e, q[e]) /\ OnceIn(q[e])
                         /\ \A d : HasErase(queue[e], d) <=> HasErase(q[e], d)
  BY <1>0, QueueAdvances DEF Places
<1>1. /\ con'[c].status = st /\ con'[c].evd = con[c].evd /\ con'[c].id = con[c].id
      /\ \A d \in Conns : d # c => con'[d] = con[d]
  BY <1>q, CloseTypes
<1>2. IF e0 = Main
      THEN table' = Without(table, con[c].id) /\ queue' = q
      ELSE /\ queue' = [q EXCEPT ![Main] = Append(@, EraseOf(c))]
           /\ UNCHANGED table
  BY DEF CloseConnect, EraseOf
<1>a. /\ "insert" \notin act[e0].left
      /\ \A e \in Evds : e # e0 => act'[e] = act[e]
      /\ "r" \notin act'[e0].left /\ "insert" \notin act'[e0].left
      /\ "close" \in act'[e0].left => act'[e0].con = c /\ st = "CLOSING"
  OBVIOUS
<1>h. Handed /\ Acting /\ Listed /\ Erasing
  BY DEF Places
<1>e. con[c].evd = e0
  OBVIOUS
<1> HIDE DEF e0
\* The functors of the other connections, and the ones of c that may be there.
<1>3. ASSUME NEW e \in Evds PROVE QueueOk(con', e, q[e])
  <2>1. ASSUME NEW i \in 1..Len(q[e]), FunctorOk(con, e, q[e][i])
        PROVE  FunctorOk(con', e, q[e][i])
    <3>1. q[e] \in Seq(FunctorSet)
      BY <1>q
    <3>2. q[e][i] \in FunctorSet
      BY <3>1
    <3>3. q[e][i].con \in Conns
      BY <3>2 DEF FunctorSet
    <3> QED
      BY <1>1, <2>1, <3>3 DEF FunctorOk
  <2> QED
    BY <1>q, <2>1, StillOk
<1>4. ~HasErase(q[Main], c)
  BY <1>0, <1>q, EraseMeansClosed
<1>5. c \in Conns /\ FunctorOk(con', Main, EraseOf(c)) /\ EraseOf(c) \in FunctorSet
  BY <1>1 DEF FunctorOk, EraseOf, Functor, FunctorSet
<1>6. /\ \A e \in Evds : QueueOk(con', e, queue'[e]) /\ OnceIn(queue'[e])
      /\ \A d : HasErase(queue'[Main], d) <=> HasErase(queue[Main], d) \/ (e0 # Main /\ d = c)
  <2>1. CASE e0 = Main
    BY <1>0, <1>2, <1>3, <1>q, <2>1
  <2>2. CASE e0 # Main
    <3> DEFINE s == q[Main]
               g == EraseOf(c)
    <3>1. s \in Seq(FunctorSet) /\ QueueOk(con', Main, s) /\ OnceIn(s) /\ g \in FunctorSet
      BY <1>0, <1>3, <1>5, <1>q
    <3>2. ASSUME NEW i \in 1..Len(s), Same(g, s[i]) PROVE FALSE
      <4>1. s[i].op = "erase" /\ s[i].con = c
        BY <3>2 DEF Same, EraseOf, Functor
      <4>2. FunctorOk(con, Main, s[i])
        BY <1>0, <1>q DEF QueueOk
      <4> QED
        BY <4>1, <4>2 DEF FunctorOk
    <3>3. FunctorOk(con', Main, g)
      BY <1>5
    <3>4. /\ queue'[Main] = Append(s, g)
          /\ \A e \in Evds : e # Main => queue'[e] = q[e]
      BY <1>0, <1>2, <1>q, <2>2
    <3> HIDE DEF s, g
    <3>5. /\ QueueOk(con', Main, Append(s, g)) /\ OnceIn(Append(s, g))
          /\ \A d : HasErase(Append(s, g), d) <=> g = EraseOf(d) \/ HasErase(s, d)
      BY <3>1, <3>2, <3>3, AppendOk
    <3>6. \A d : g = EraseOf(d) <=> d = c
      BY DEF g, EraseOf, Functor
    <3>7. \A e \in Evds : QueueOk(con', e, queue'[e]) /\ OnceIn(queue'[e])
      BY <1>3, <1>q, <3>4, <3>5
    <3>8. \A d : HasErase(s, d) <=> HasErase(queue[Main], d)
      BY <1>0, <1>q DEF s
    <3> QED
      BY <2>2, <3>4, <3>5, <3>6, <3>7, <3>8
  <2> QED
    BY <2>1, <2>2
<1>7. Handed'
  <2>1. \A t \in Threads : caller'[t] \in Conns =>
          con'[caller'[t]].status \notin {"NONE", "CONNECTING"}
    BY <1>1, <1>h DEF Handed
  <2> QED
    BY <1>6, <2>1 DEF Handed
\* The entry of c is in the table, under its identifier, or is being made.
<1>8. /\ DOMAIN table' \subseteq DOMAIN table
      /\ \A i \in DOMAIN table' : table'[i] = table[i]
      /\ e0 # Main => table' = table
      /\ e0 = Main => DOMAIN table' = DOMAIN table \ {con[c].id}
  BY <1>2 DEF Without
<1>9. Acting'
  <2> SUFFICES ASSUME NEW e \in Evds
               PROVE  /\ "r" \in act'[e].left =>
                            con'[act'[e].con].status = "CONNECTED" /\ con'[act'[e].con].evd = e
                      /\ "close" \in act'[e].left =>
                            con'[act'[e].con].status = "CLOSING" /\ con'[act'[e].con].evd = e
                      /\ "insert" \in act'[e].left =>
                            /\ e = Main
                            /\ con'[act'[e].con].id \notin DOMAIN table'
    BY DEF Acting
  <2>1. CASE e = e0
    BY <1>1, <1>a, <1>e, <2>1
  <2>2. CASE e # e0
    <3>1. act'[e] = act[e] /\ (act[e].left # {} => act[e].con \in Conns)
      BY <1>0, <1>a, <2>2 DEF ActType
    <3>2. \A d \in Conns : con'[d].id = con[d].id /\ con'[d].evd = con[d].evd
      BY <1>1
    <3>3. \A d \in Conns : con[d].evd = e => con'[d] = con[d]
      BY <1>1, <1>e, <2>2
    <3> QED
      BY <1>8, <1>h, <3>1, <3>2, <3>3 DEF Acting
  <2> QED
    BY <2>1, <2>2
<1>10. /\ e0 = Main => \A d \in Conns : ~Inserting(d) /\ ~Inserting(d)'
       /\ e0 # Main => \A d \in Conns : Inserting(d)' <=> Inserting(d)
  BY <1>0, <1>a DEF Inserting
<1>11. /\ e0 = Main => con[c].id \in DOMAIN table /\ table[con[c].id] = c
       /\ InTable(c) \/ Inserting(c)
  BY <1>10, <1>h DEF Listed, InTable
<1>12. \A d \in Conns : d # c => \A i \in DOMAIN table : table[i] = d => i \in DOMAIN table'
  BY <1>8, <1>11
<1>13. Listed'
  <2>1. ASSUME NEW i \in DOMAIN table'
        PROVE  con'[table'[i]].id = i /\ con'[table'[i]].status # "NONE"
    <3>1. i \in DOMAIN table /\ table'[i] = table[i] /\ table[i] \in Conns
      BY <1>0, <1>8 DEF TableType
    <3> QED
      BY <1>1, <1>h, <3>1 DEF Listed
  <2>2. ASSUME NEW d \in Conns, con'[d].status \in {"CONNECTING", "CONNECTED"}
        PROVE  \/ con'[d].id \in DOMAIN table' /\ table'[con'[d].id] = d
               \/ Inserting(d)'
    <3>1. d # c /\ con'[d] = con[d]
      BY <1>1, <2>2
    <3>2. \/ con[d].id \in DOMAIN table /\ table[con[d].id] = d
          \/ Inserting(d)
      BY <1>h, <2>2, <3>1 DEF Listed
    <3> QED
      BY <1>8, <1>10, <1>12, <3>1, <3>2
  <2> QED
    BY <2>1, <2>2 DEF Listed
<1>14. Erasing'
  <2> SUFFICES ASSUME NEW d \in Conns, con'[d].status \in {"CLOSING", "CLOSED"}
               PROVE  InTable(d)' \/ Inserting(d)' <=> HasErase(queue'[Main], d)
    BY DEF Erasing
  <2>1. CASE d # c
    <3>1. InTable(d) \/ Inserting(d) <=> HasErase(queue[Main], d)
      BY <1>1, <1>h, <2>1 DEF Erasing
    <3>2. InTable(d)' <=> InTable(d)
      BY <1>8, <1>12, <2>1 DEF InTable
    <3>3. Inserting(d)' <=> Inserting(d)
      BY <1>10
    <3> QED
      BY <1>6, <2>1, <3>1, <3>2, <3>3
  <2>2. CASE d = c /\ e0 = Main
    <3>1. ~InTable(c)'
      BY <1>8, <1>h, <2>2 DEF InTable, Listed
    <3>2. ~HasErase(queue'[Main], c)
      BY <1>0, <1>4, <1>6, <1>q, <2>2
    <3> QED
      BY <1>10, <2>2, <3>1, <3>2
  <2>3. CASE d = c /\ e0 # Main
    <3>1. InTable(c)' \/ Inserting(c)'
      BY <1>8, <1>10, <1>11, <2>3 DEF InTable
    <3> QED
      BY <1>6, <2>3, <3>1
  <2> QED
    BY <2>1, <2>2, <2>3
<1> QED
  BY <1>7, <1>9, <1>13, <1>14 DEF Places

\* A functor that is handed over and neither establishes nor erases.
LEMMA PlacesQueue ==
    ASSUME Types, Places, NEW e0 \in Evds, NEW g \in FunctorSet, FunctorOk(con, e0, g),
           ~Unique(g), queue' = [queue EXCEPT ![e0] = Append(@, g)],
           UNCHANGED <<con, table, act>>,
           \A t \in Threads : caller'[t] \in Conns =>
              con[caller'[t]].status \notin {"NONE", "CONNECTING"}
    PROVE  QueueType' /\ Places'
<1>0. /\ QueueType /\ Main \in Evds /\ Handed /\ Acting /\ Listed /\ Erasing
  BY TcpAssumption DEF Types, Main, Evds, Places
<1> DEFINE s == queue[e0]
<1>1. s \in Seq(FunctorSet) /\ QueueOk(con, e0, s) /\ OnceIn(s)
  BY <1>0 DEF QueueType, Handed
<1>2. queue'[e0] = Append(s, g) /\ \A e \in Evds : e # e0 => queue'[e] = queue[e]
  BY <1>0 DEF QueueType
<1> HIDE DEF s
<1>3. /\ Append(s, g) \in Seq(FunctorSet)
      /\ QueueOk(con, e0, Append(s, g)) /\ OnceIn(Append(s, g))
      /\ \A c : HasErase(Append(s, g), c) <=> g = EraseOf(c) \/ HasErase(s, c)
  BY <1>1, AppendOk
<1>4. QueueType'
  BY <1>0, <1>3 DEF QueueType, s
<1>5. \A c : g # EraseOf(c)
  BY DEF Unique, EraseOf, Functor
<1>6. \A c : HasErase(queue'[Main], c) <=> HasErase(queue[Main], c)
  BY <1>0, <1>2, <1>3, <1>5 DEF s
<1>7. \A e \in Evds : QueueOk(con', e, queue'[e]) /\ OnceIn(queue'[e])
  BY <1>0, <1>2, <1>3 DEF Handed
<1>8. Handed'
  BY <1>7 DEF Handed
<1>9. Acting' /\ Listed'
  BY <1>0 DEF Acting, Listed, Inserting
<1>10. Erasing'
  BY <1>0, <1>6 DEF Erasing, Inserting, InTable
<1> QED
  BY <1>4, <1>8, <1>9, <1>10 DEF Places

-----------------------------------------------------------------------------
(* The steps, one by one: first the types, then the rest of the invariant  *)
(* as long as no closed connection is used.                                *)

\* A connection that was made stays made, and keeps its identifier.
Ages ==
    \A d \in Conns : con[d].status # "NONE" =>
        con'[d].status # "NONE" /\ con'[d].id = con[d].id

\* What holds of the channels and the loops' steps when the connections age.
LEMMA AgeTypes ==
    ASSUME Types, Ages
    PROVE  /\ UNCHANGED channels => ChannelType'
           /\ UNCHANGED act => ActType'
<1>1. ASSUME UNCHANGED channels PROVE ChannelType'
  BY <1>1 DEF Types, ChannelType, Ages
<1>2. ASSUME UNCHANGED act PROVE ActType'
  <2>1. ActType /\ NoCon \notin Conns
    BY TcpAssumption DEF Types
  <2>2. ASSUME NEW e \in Evds
        PROVE  /\ act[e].con = NoCon <=> act[e].left = {}
               /\ act[e].con # NoCon => con'[act[e].con].status # "NONE"
               /\ "insert" \in act[e].left =>
                  act[e].left = {"insert"} /\ con'[act[e].con].id # 0
    <3>1. act[e].con # NoCon => act[e].con \in Conns
      BY <2>1 DEF ActType
    <3> QED
      BY <2>1, <3>1 DEF ActType, Ages
  <2> QED
    BY <1>2, <2>1, <2>2 DEF ActType
<1> QED
  BY <1>1, <1>2

\* A handler of the event is over.
LEMMA LeaveTypes ==
    ASSUME Types, Ages, NEW e \in Evds, NEW left \in SUBSET {"r", "w", "close"},
           act[e].left # {}, Leave(e, left)
    PROVE  /\ ActType' /\ act'[e].left = left
           /\ left # {} => act'[e].con = act[e].con
           /\ \A e2 \in Evds : e2 # e => act'[e2] = act[e2]
<1>0. ActType /\ NoCon \notin Conns
  BY TcpAssumption DEF Types
<1>1. act[e] \in [con : Conns \cup {NoCon}, left : Left] /\ act[e].con \in Conns
  BY <1>0 DEF ActType
<1> DEFINE a == IF left = {} THEN NoAct ELSE [act[e] EXCEPT !.left = left]
<1>2. act' = [act EXCEPT ![e] = a]
  BY DEF Leave
<1>3. /\ a \in [con : Conns \cup {NoCon}, left : Left] /\ a.left = left
      /\ a.con = NoCon <=> left = {}
      /\ left # {} => a.con = act[e].con
  BY <1>0, <1>1 DEF NoAct, Left
<1> HIDE DEF a
<1>4. /\ act' \in [Evds -> [con : Conns \cup {NoCon}, left : Left]] /\ act'[e] = a
      /\ \A e2 \in Evds : e2 # e => act'[e2] = act[e2]
  BY <1>0, <1>2, <1>3 DEF ActType
<1>5. ASSUME NEW x \in Evds
      PROVE  /\ act'[x].con = NoCon <=> act'[x].left = {}
             /\ act'[x].con # NoCon => con'[act'[x].con].status # "NONE"
             /\ "insert" \in act'[x].left =>
                act'[x].left = {"insert"} /\ con'[act'[x].con].id # 0
  <2>1. CASE x = e
    BY <1>0, <1>1, <1>3, <1>4, <2>1 DEF ActType, Ages
  <2>2. CASE x # e
    <3>1. act'[x] = act[x] /\ (act[x].con # NoCon => act[x].con \in Conns)
      BY <1>0, <1>4, <2>2 DEF ActType
    <3> QED
      BY <1>0, <3>1 DEF ActType, Ages
  <2> QED
    BY <2>1, <2>2
<1>6. ActType'
  BY <1>4, <1>5 DEF ActType
<1> QED
  BY <1>3, <1>4, <1>6

\* Nothing but the input, the peers and the selected events change.
LEMMA QuietSteps ==
    ASSUME IInv,
           UNCHANGED <<con, table, nextId, nextEvd, channels, epoll, open, queue, act,
                       caller, wire, accepted, late>>,
           \/ UNCHANGED fatal
           \/ fatal = "none" /\ fatal' \in {"read", "accept"}
    PROVE  BatchType' => IInv'
<1> USE DEF IInv
<1>1. ASSUME BatchType' PROVE Types'
  <2>1. /\ ConType' /\ CounterType' /\ TableType' /\ ChannelType' /\ EpollType'
        /\ QueueType' /\ CallerType' /\ OpenType' /\ WireType'
    BY DEF Types, ConType, CounterType, TableType, ChannelType, EpollType, QueueType,
           CallerType, OpenType, WireType
  <2>2. ActType' /\ FlagType'
    BY DEF Types, ActType, FlagType
  <2> QED
    BY <1>1, <2>1, <2>2 DEF Types
<1>2. ASSUME Good PROVE Good'
  <2>1. Registry'
    BY <1>2 DEF Good, Registry
  <2>2. Output'
    BY <1>2 DEF Good, Output
  <2>3. Handed' /\ Acting'
    BY <1>2 DEF Good, Places, Handed, Acting
  <2>4. Listed' /\ Erasing'
    BY <1>2 DEF Good, Places, Listed, Erasing, Inserting, InTable
  <2> QED
    BY <2>1, <2>2, <2>3, <2>4 DEF Good, Places
<1> QED
  BY <1>1, <1>2

\* The parts of the types whose variables a step leaves alone.
LEMMA SameTypes ==
    ASSUME Types
    PROVE  /\ UNCHANGED con => ConType' /\ Ages
           /\ UNCHANGED <<nextId, nextEvd>> => CounterType'
           /\ UNCHANGED table => TableType'
           /\ UNCHANGED epoll => EpollType'
           /\ UNCHANGED batch => BatchType'
           /\ UNCHANGED queue => QueueType'
           /\ UNCHANGED caller => CallerType'
           /\ UNCHANGED open => OpenType'
           /\ UNCHANGED <<wire, accepted>> => WireType'
           /\ UNCHANGED <<fatal, late>> => FlagType'
<1>1. UNCHANGED con => ConType' /\ Ages
  BY DEF Types, ConType, Ages
<1>2. UNCHANGED <<nextId, nextEvd>> => CounterType'
  BY DEF Types, CounterType
<1>3. UNCHANGED table => TableType'
  BY DEF Types, TableType
<1>4. UNCHANGED epoll => EpollType'
  BY DEF Types, EpollType
<1>5. UNCHANGED batch => BatchType'
  BY DEF Types, BatchType
<1>6. /\ UNCHANGED caller => CallerType'
      /\ UNCHANGED open => OpenType'
      /\ UNCHANGED <<wire, accepted>> => WireType'
      /\ UNCHANGED <<fatal, late>> => FlagType'
  BY DEF Types, CallerType, OpenType, WireType, FlagType
<1>7. UNCHANGED queue => QueueType'
  BY DEF Types, QueueType
<1> QED
  BY <1>1, <1>2, <1>3, <1>4, <1>5, <1>6, <1>7

\* Select chooses among the descriptors of the epoll set.
LEMMA SelectStep ==
    ASSUME IInv, fatal = "none", NEW e \in Evds, Select(e)
    PROVE  IInv'
<1>0. PICK F \in SUBSET DOMAIN epoll[e] : \E b \in [F -> Interest] :
         /\ \A f \in F : Ready(open[f], b[f])
         /\ batch' = [batch EXCEPT ![e] = b]
  BY DEF Select
<1>1. PICK b \in [F -> Interest] :
         /\ \A f \in F : Ready(open[f], b[f])
         /\ batch' = [batch EXCEPT ![e] = b]
  BY <1>0
<1>2. F \subseteq Fds /\ \A f \in F : b[f] \in Interest \ {{}}
  BY <1>1 DEF IInv, Types, EpollType, Ready
<1>3. batch = [x \in Evds |-> batch[x]]
  BY DEF IInv, Types, BatchType
<1>4. batch' = [x \in Evds |-> batch'[x]] /\ \A x \in Evds : batch'[x] = IF x = e THEN b ELSE batch[x]
  BY <1>1, <1>3
<1>5. BatchType'
  BY <1>2, <1>4 DEF BatchType, IInv, Types
<1> QED
  BY <1>5, QuietSteps DEF Select, conVars, regVars, peerVars, history

\* Dispatch of an event.  A descriptor without a channel is one of a closed
\* connection.
LEMMA DispatchStep ==
    ASSUME IInv, fatal = "none", NEW e \in Evds, Dispatch(e)
    PROVE  IInv'
<1>0. /\ Types /\ EpollType /\ ChannelType /\ BatchType /\ ActType /\ NoCon \notin Conns
      /\ act[e].left = {} /\ FlagType
  BY TcpAssumption DEF IInv, Types, Dispatch, Idle
<1>1. PICK f \in DOMAIN batch[e] :
          /\ batch' = [batch EXCEPT ![e] = Without(@, f)]
          /\ IF f \in DOMAIN channels[e]
             THEN /\ act' = [act EXCEPT ![e] = [con |-> channels[e][f],
                                                left |-> batch[e][f]]]
                  /\ UNCHANGED <<regVars, fatal, late>>
             ELSE /\ EpollRemove(e, f)
                  /\ late' = late \cup {"event"}
                  /\ UNCHANGED <<channels, act>>
  BY DEF Dispatch
<1>2. UNCHANGED <<con, table, nextId, nextEvd, open, queue, caller, wire, accepted>>
  BY DEF Dispatch, conVars, peerVars
<1>3. BatchType'
  <2>1. batch = [x \in Evds |-> batch[x]]
    BY <1>0 DEF BatchType
  <2>2. /\ batch' = [x \in Evds |-> batch'[x]] /\ batch'[e] = Without(batch[e], f)
        /\ \A x \in Evds : x # e => batch'[x] = batch[x]
    BY <1>1, <2>1
  <2>3. ASSUME NEW x \in Evds
        PROVE  /\ DOMAIN batch'[x] \subseteq Fds
               /\ \A y \in DOMAIN batch'[x] : batch'[x][y] \in Interest \ {{}}
    <3>1. CASE x = e
      BY <1>0, <2>2, <3>1 DEF BatchType, Without
    <3>2. CASE x # e
      BY <1>0, <2>2, <3>2 DEF BatchType
    <3> QED
      BY <3>1, <3>2
  <2> QED
    BY <2>2, <2>3 DEF BatchType
<1>4. /\ ConType' /\ Ages /\ CounterType' /\ TableType' /\ QueueType' /\ CallerType'
      /\ OpenType' /\ WireType'
  BY <1>0, <1>2, SameTypes
<1>5. CASE f \in DOMAIN channels[e]
  <2> DEFINE a == [con |-> channels[e][f], left |-> batch[e][f]]
  <2>1. act' = [act EXCEPT ![e] = a] /\ UNCHANGED <<channels, epoll, fatal, late>>
    BY <1>1, <1>5 DEF regVars
  <2>2. a.left \in Interest \ {{}} /\ a.con \in Conns /\ con[a.con].status # "NONE"
    BY <1>0, <1>5 DEF BatchType, ChannelType
  <2>3. a \in [con : Conns \cup {NoCon}, left : Left] /\ "insert" \notin a.left
        /\ "close" \notin a.left
    BY <2>2 DEF Interest, Left
  <2>4. a.con = channels[e][f]
    OBVIOUS
  <2> HIDE DEF a
  <2>5. /\ act' \in [Evds -> [con : Conns \cup {NoCon}, left : Left]] /\ act'[e] = a
        /\ \A x \in Evds : x # e => act'[x] = act[x]
    BY <1>0, <2>1, <2>3 DEF ActType
  <2>6. ActType'
    BY <1>0, <1>2, <2>2, <2>3, <2>5 DEF ActType
  <2>7. EpollType' /\ ChannelType' /\ FlagType'
    BY <1>0, <1>4, <2>1, AgeTypes, SameTypes
  <2>8. Types'
    BY <1>3, <1>4, <2>6, <2>7 DEF Types
  <2>9. ASSUME Good PROVE Good'
    <3>1. Registry'
      BY <1>2, <2>1, <2>9 DEF Good, Registry
    <3>2. Output' /\ Handed'
      BY <1>2, <2>9 DEF Good, Output, Places, Handed
    <3>3. con[a.con].status = "CONNECTED" /\ con[a.con].evd = e
      BY <1>5, <2>4, <2>9 DEF Good, Registry
    <3>4. Acting'
      <4> SUFFICES ASSUME NEW x \in Evds
                   PROVE  /\ "r" \in act'[x].left =>
                                con[act'[x].con].status = "CONNECTED" /\ con[act'[x].con].evd = x
                          /\ "close" \in act'[x].left =>
                                con[act'[x].con].status = "CLOSING" /\ con[act'[x].con].evd = x
                          /\ "insert" \in act'[x].left =>
                                /\ x = Main
                                /\ con[act'[x].con].id \notin DOMAIN table
        BY <1>2 DEF Acting
      <4>1. CASE x = e
        BY <2>3, <2>5, <3>3, <4>1
      <4>2. CASE x # e
        BY <2>5, <2>9, <4>2 DEF Good, Places, Acting
      <4> QED
        BY <4>1, <4>2
    <3>5. \A d \in Conns : Inserting(d)' <=> Inserting(d)
      <4>1. Main \in Evds
        BY TcpAssumption DEF Main, Evds
      <4>2. CASE e = Main
        BY <1>0, <2>3, <2>5, <4>1, <4>2 DEF Inserting
      <4>3. CASE e # Main
        BY <2>5, <4>1, <4>3 DEF Inserting
      <4> QED
        BY <4>2, <4>3
    <3>6. Listed' /\ Erasing'
      BY <1>2, <2>9, <3>5 DEF Good, Places, Listed, Erasing, InTable
    <3> QED
      BY <3>1, <3>2, <3>4, <3>6 DEF Good, Places
  <2> QED
    BY <2>1, <2>8, <2>9 DEF IInv
<1>6. CASE f \notin DOMAIN channels[e]
  <2>1. late' = late \cup {"event"} /\ UNCHANGED <<channels, act>> /\ EpollRemove(e, f)
    BY <1>1, <1>6
  <2>2. EpollType' /\ fatal' \in {"none", "epoll"}
    <3>1. CASE UNCHANGED epoll /\ fatal' = "epoll"
      BY <1>0, <3>1, SameTypes
    <3>2. CASE UNCHANGED fatal /\ epoll' = [epoll EXCEPT ![e] = Without(@, f)]
      BY <1>0, <3>2 DEF EpollType, Without
    <3> QED
      BY <2>1, <3>1, <3>2 DEF EpollRemove
  <2>3. ActType' /\ ChannelType'
    BY <1>0, <1>4, <2>1, AgeTypes
  <2>4. FlagType'
    BY <1>0, <2>1, <2>2 DEF FlagType
  <2> QED
    BY <1>3, <1>4, <2>1, <2>2, <2>3, <2>4 DEF Types, IInv
<1> QED
  BY <1>5, <1>6

\* What a handler of an event starts from.
LEMMA HandlerStarts ==
    ASSUME Types, NEW e \in Evds, act[e].left \cap {"r", "w", "close"} # {}
    PROVE  /\ act[e].con \in Conns /\ con[act[e].con].status # "NONE"
           /\ act[e].left \in SUBSET {"r", "w", "close"} /\ act[e].left # {}
<1>1. ActType /\ NoCon \notin Conns
  BY TcpAssumption DEF Types
<1>2. act[e].left # {} /\ "insert" \notin act[e].left /\ act[e].left \in Left
  BY <1>1 DEF ActType
<1>3. act[e].con # NoCon /\ act[e].con \in Conns \cup {NoCon}
  BY <1>1, <1>2 DEF ActType
<1> QED
  BY <1>1, <1>2, <1>3 DEF ActType, Left

\* Such a handler ends.
LEMMA LeaveShrinks ==
    ASSUME Types, Ages, NEW e \in Evds, act[e].left \cap {"r", "w", "close"} # {},
           NEW left \in SUBSET act[e].left, Leave(e, left)
    PROVE  ActType' /\ ActShrinks
<1>1. act[e].left \in SUBSET {"r", "w", "close"} /\ act[e].left # {}
  BY HandlerStarts
<1>2. /\ ActType' /\ act'[e].left = left
      /\ left # {} => act'[e].con = act[e].con
      /\ \A e2 \in Evds : e2 # e => act'[e2] = act[e2]
  <2>1. left \in SUBSET {"r", "w", "close"}
    BY <1>1
  <2> QED
    BY <1>1, <2>1, LeaveTypes
<1> QED
  BY <1>1, <1>2 DEF ActShrinks

\* HandleRead with input.
LEMMA HandleInputStep ==
    ASSUME IInv, fatal = "none", NEW e \in Evds, HandleInput(e)
    PROVE  IInv'
<1> DEFINE c == act[e].con
           left == act[e].left \ {"r"}
<1>0. /\ Types /\ ConType /\ QueueType /\ "r" \in act[e].left
      /\ left \in SUBSET act[e].left /\ Leave(e, left)
      /\ UNCHANGED <<nextId, nextEvd, batch, caller>>
      /\ act[e].left \cap {"r", "w", "close"} # {}
  BY DEF IInv, Types, HandleInput
<1>1. c \in Conns /\ act[e].left \in SUBSET {"r", "w", "close"}
  BY <1>0, HandlerStarts
<1>2. CounterType' /\ BatchType' /\ CallerType'
  BY <1>0, SameTypes
<1> HIDE DEF left
<1>3. CASE UNCHANGED <<con, table, regVars, open, queue, wire, fatal, history>>
  <2>0. UNCHANGED <<con, table, channels, epoll, open, queue, wire, accepted, fatal, late>>
    BY <1>3 DEF regVars, history
  <2>1. Ages /\ ActType' /\ ActShrinks
    BY <1>0, <2>0, SameTypes, LeaveShrinks
  <2>2. Types'
    BY <1>0, <1>2, <2>0, <2>1, SameTypes, AgeTypes DEF Types
  <2>3. ASSUME Good PROVE Good'
    <3>1. Registry'
      BY <1>0, <2>0, <2>3, RegistryStays DEF Good
    <3>2. Output'
      BY <2>0, <2>3 DEF Good, Output
    <3>3. SameIdentity /\ Advanced(queue')
      BY <2>0 DEF SameIdentity, Advanced
    <3>4. Places'
      BY <1>0, <2>0, <2>1, <2>3, <3>3, PlacesKept DEF Good
    <3> QED
      BY <3>1, <3>2, <3>4 DEF Good
  <2> QED
    BY <2>0, <2>2, <2>3 DEF IInv
<1>4. ASSUME NEW m \in Messages, Send(c, m), UNCHANGED <<table, open, queue, late>>
      PROVE  IInv'
  <2>1. /\ ConType' /\ EpollType' /\ WireType' /\ UNCHANGED channels
        /\ fatal' \in {"none", "epoll", "pipe"}
        /\ \A d \in Conns : /\ con'[d].status = con[d].status /\ con'[d].fd = con[d].fd
                            /\ con'[d].evd = con[d].evd /\ con'[d].id = con[d].id
    BY <1>0, <1>1, <1>4, SendTypes
  <2>2. Ages /\ SameIdentity
    BY <2>1 DEF Ages, SameIdentity
  <2>3. ActType' /\ ActShrinks
    BY <1>0, <2>2, LeaveShrinks
  <2>4. FlagType'
    BY <1>0, <1>4, <2>1 DEF FlagType, Types
  <2>5. Types'
    BY <1>0, <1>2, <1>4, <2>1, <2>2, <2>3, <2>4, SameTypes, AgeTypes DEF Types
  <2>6. ASSUME Good PROVE Good'
    <3>1. Registry' /\ Output'
      BY <1>0, <1>1, <1>4, <2>6, SendGood DEF Good
    <3>2. Advanced(queue')
      BY <1>4 DEF Advanced
    <3>3. Places'
      BY <1>0, <1>4, <2>2, <2>3, <2>6, <3>2, PlacesKept DEF Good
    <3> QED
      BY <3>1, <3>3 DEF Good
  <2> QED
    BY <1>4, <2>5, <2>6 DEF IInv
<1>5. ASSUME NEW d \in Conns, con[d].status = "CONNECTED", con[d].evd = e,
             ForceClosed(d, queue), UNCHANGED <<wire, accepted>>
      PROVE  IInv'
  <2>0. /\ CloseConnect(d, queue, "CLOSED") /\ open' = [open EXCEPT ![con[d].fd] = NoCon]
        /\ queue \in [Evds -> Seq(FunctorSet)] /\ Advanced(queue)
    BY <1>0, <1>5 DEF ForceClosed, QueueType, Advanced
  <2>1. /\ ConType' /\ TableType' /\ ChannelType' /\ EpollType' /\ QueueType'
        /\ FlagType' /\ late \subseteq late'
        /\ con'[d].status = "CLOSED" /\ con'[d].fd = con[d].fd /\ con'[d].evd = con[d].evd
        /\ con'[d].id = con[d].id /\ con'[d].out = con[d].out
        /\ \A x \in Conns : x # d => con'[x] = con[x]
    BY <1>0, <2>0, CloseTypes
  <2>2. Ages
    BY <2>1 DEF Ages
  <2>3. /\ ActType' /\ act'[e].left = left
        /\ left # {} => act'[e].con = act[e].con
        /\ \A e2 \in Evds : e2 # e => act'[e2] = act[e2]
    <3>1. left \in SUBSET {"r", "w", "close"} /\ act[e].left # {}
      BY <1>0, <1>1
    <3> QED
      BY <1>0, <2>2, <3>1, LeaveTypes
  <2>4. OpenType' /\ WireType'
    <3>1. OpenType
      BY <1>0 DEF Types
    <3>2. OpenType'
      BY <2>0, <3>1 DEF OpenType
    <3> QED
      BY <1>0, <1>5, <3>2, SameTypes
  <2>5. Types'
    BY <1>2, <2>1, <2>3, <2>4 DEF Types
  <2>6. ASSUME Good PROVE Good'
    <3>1. Registry'
      BY <1>0, <1>5, <2>0, <2>6, CloseRegistry DEF Good
    <3>2. Output'
      <4>1. \A x \in Conns :
              /\ con'[x].out = con[x].out
              /\ con'[x].status \in {"NONE", "CONNECTING"} =>
                    con[x].status \in {"NONE", "CONNECTING"}
              /\ con'[x].status = "CONNECTED" =>
                    con[x].status = "CONNECTED" /\ con'[x].events = con[x].events
        BY <2>1
      <4> QED
        BY <1>5, <2>6, <4>1, OutputStays DEF Good
    <3>3. {"r", "insert", "close"} \cap act'[e].left = {} /\ "insert" \notin act[e].left
      <4>1. "close" \notin act[e].left
        BY <1>0, <2>6 DEF Good, Places, Acting
      <4> QED
        BY <1>1, <2>3, <4>1 DEF left
    <3>4. /\ "insert" \notin act[con[d].evd].left
          /\ \A e2 \in Evds : e2 # con[d].evd => act'[e2] = act[e2]
          /\ {"r", "insert"} \cap act'[con[d].evd].left = {}
          /\ "close" \notin act'[con[d].evd].left
      BY <1>5, <2>3, <3>3
    <3>5. Places'
      BY <1>0, <1>5, <2>0, <2>6, <3>4, PlacesClose DEF Good
    <3> QED
      BY <3>1, <3>2, <3>5 DEF Good
  <2> QED
    BY <2>1, <2>5, <2>6 DEF IInv
<1> QED
  BY <1>3, <1>4, <1>5 DEF HandleInput

\* HandleRead at the end of the input, up to the close callback.
LEMMA HandleEndStep ==
    ASSUME IInv, fatal = "none", NEW e \in Evds, HandleEnd(e)
    PROVE  IInv'
<1> DEFINE c == act[e].con
           left == (act[e].left \ {"r"}) \cup {"close"}
<1>0. /\ Types /\ ConType /\ QueueType /\ "r" \in act[e].left /\ Leave(e, left)
      /\ CloseConnect(c, queue, "CLOSING")
      /\ UNCHANGED <<nextId, nextEvd, open, batch, caller, wire, accepted>>
      /\ act[e].left \cap {"r", "w", "close"} # {}
  BY DEF IInv, Types, HandleEnd, peerVars
<1>1. /\ c \in Conns /\ act[e].left \in SUBSET {"r", "w", "close"} /\ act[e].left # {}
      /\ left \in SUBSET {"r", "w", "close"} /\ left # {} /\ "r" \notin left
  BY <1>0, HandlerStarts
<1>2. CounterType' /\ BatchType' /\ CallerType' /\ OpenType' /\ WireType'
  BY <1>0, SameTypes
<1>3. queue \in [Evds -> Seq(FunctorSet)] /\ Advanced(queue)
  BY <1>0 DEF QueueType, Advanced
<1> HIDE DEF left
<1>4. /\ ConType' /\ TableType' /\ ChannelType' /\ EpollType' /\ QueueType'
      /\ FlagType' /\ late \subseteq late'
      /\ con'[c].status = "CLOSING" /\ con'[c].fd = con[c].fd /\ con'[c].evd = con[c].evd
      /\ con'[c].id = con[c].id /\ con'[c].out = con[c].out
      /\ \A x \in Conns : x # c => con'[x] = con[x]
  BY <1>0, <1>1, <1>3, CloseTypes
<1>5. Ages
  BY <1>4 DEF Ages
<1>6. /\ ActType' /\ act'[e].left = left /\ act'[e].con = c
      /\ \A e2 \in Evds : e2 # e => act'[e2] = act[e2]
  BY <1>0, <1>1, <1>5, LeaveTypes
<1>7. Types'
  BY <1>2, <1>4, <1>6 DEF Types
<1>8. ASSUME Good PROVE Good'
  <2>1. con[c].status = "CONNECTED" /\ con[c].evd = e
    BY <1>0, <1>8 DEF Good, Places, Acting
  <2>2. Registry'
    BY <1>0, <1>1, <1>3, <1>8, <2>1, CloseRegistry DEF Good
  <2>3. Output'
    <3>1. \A x \in Conns :
            /\ con'[x].out = con[x].out
            /\ con'[x].status \in {"NONE", "CONNECTING"} =>
                  con[x].status \in {"NONE", "CONNECTING"}
            /\ con'[x].status = "CONNECTED" =>
                  con[x].status = "CONNECTED" /\ con'[x].events = con[x].events
      BY <1>4
    <3> QED
      BY <1>0, <1>8, <3>1, OutputStays DEF Good
  <2>4. /\ "insert" \notin act[con[c].evd].left
        /\ \A e2 \in Evds : e2 # con[c].evd => act'[e2] = act[e2]
        /\ {"r", "insert"} \cap act'[con[c].evd].left = {}
        /\ act'[con[c].evd].con = c
    <3>1. "insert" \notin left /\ "insert" \notin act[e].left
      BY <1>1
    <3> QED
      BY <1>1, <1>6, <2>1, <3>1
  <2>5. Places'
    <3> HIDE DEF c
    <3> QED
      BY <1>0, <1>1, <1>3, <1>8, <2>1, <2>4, PlacesClose DEF Good
  <2> QED
    BY <2>2, <2>3, <2>5 DEF Good
<1> QED
  BY <1>4, <1>7, <1>8 DEF IInv

\* HandleRead after its close callback.
LEMMA HandleEndReturnsStep ==
    ASSUME IInv, fatal = "none", NEW e \in Evds, HandleEndReturns(e)
    PROVE  IInv'
<1> DEFINE c == act[e].con
           left == act[e].left \ {"close"}
<1>0. /\ Types /\ ConType /\ FlagType /\ "close" \in act[e].left /\ Leave(e, left)
      /\ con' = [con EXCEPT ![c].status = "CLOSED"]
      /\ late' \in {late, late \cup {"freed"}}
      /\ UNCHANGED <<table, nextId, nextEvd, channels, epoll, open, queue, batch,
                     caller, wire, fatal, accepted>>
      /\ act[e].left \cap {"r", "w", "close"} # {}
  BY DEF IInv, Types, HandleEndReturns, peerVars, regVars
<1>1. /\ c \in Conns /\ act[e].left \in SUBSET {"r", "w", "close"} /\ act[e].left # {}
      /\ left \in SUBSET {"r", "w", "close"} /\ "close" \notin left
      /\ left \subseteq act[e].left /\ con[c].status # "NONE"
  BY <1>0, HandlerStarts
<1> HIDE DEF left, c
<1>2. /\ con' \in [Conns -> Records] /\ con'[c].status = "CLOSED"
      /\ con'[c].evd = con[c].evd /\ con'[c].id = con[c].id /\ con'[c].out = con[c].out
      /\ \A d \in Conns : d # c => con'[d] = con[d]
  <2> DEFINE r == [con[c] EXCEPT !.status = "CLOSED"]
  <2>1. con[c] \in Records
    BY <1>0, <1>1 DEF ConType
  <2>2. /\ r \in Records /\ r.status = "CLOSED" /\ r.evd = con[c].evd /\ r.id = con[c].id
        /\ r.out = con[c].out
    BY <2>1 DEF Records, Statuses
  <2>3. con' = [con EXCEPT ![c] = r]
    BY <1>0
  <2> HIDE DEF r
  <2> QED
    BY <1>0, <1>1, <2>2, <2>3 DEF ConType
<1>3. Ages /\ ConType'
  BY <1>2 DEF Ages, ConType
<1>4. /\ ActType' /\ act'[e].left = left
      /\ left # {} => act'[e].con = c
      /\ \A e2 \in Evds : e2 # e => act'[e2] = act[e2]
  BY <1>0, <1>1, <1>3, LeaveTypes DEF c
<1>5. /\ CounterType' /\ TableType' /\ EpollType' /\ BatchType' /\ QueueType'
      /\ CallerType' /\ OpenType' /\ WireType' /\ ChannelType'
  BY <1>0, <1>3, SameTypes, AgeTypes
<1>6. FlagType'
  BY <1>0 DEF FlagType
<1>7. Types'
  BY <1>3, <1>4, <1>5, <1>6 DEF Types
<1>8. ASSUME Good PROVE Good'
  <2>1. con[c].status = "CLOSING" /\ con[c].evd = e /\ "r" \notin left
    BY <1>0, <1>1, <1>8 DEF Good, Places, Acting, c
  <2>2. Registry'
    <3>1. \A d \in Conns : \/ con'[d] = con[d]
                           \/ /\ con[d].status \in {"CLOSING", "CLOSED"}
                              /\ con'[d].status \in {"CLOSING", "CLOSED"}
      BY <1>2, <2>1
    <3> QED
      BY <1>0, <1>8, <3>1, RegistryStays DEF Good
  <2>3. Output'
    <3>1. \A x \in Conns :
            /\ con'[x].out = con[x].out
            /\ con'[x].status \in {"NONE", "CONNECTING"} =>
                  con[x].status \in {"NONE", "CONNECTING"}
            /\ con'[x].status = "CONNECTED" =>
                  con[x].status = "CONNECTED" /\ con'[x].events = con[x].events
      BY <1>2
    <3> QED
      BY <1>0, <1>8, <3>1, OutputStays DEF Good
  <2>4. Handed /\ Acting /\ Listed /\ Erasing /\ QueueType /\ TableType /\ ActType
        /\ Main \in Evds /\ NoCon \notin Conns /\ CallerType
    BY <1>0, <1>8, TcpAssumption DEF Good, Places, Types, Main, Evds
  <2>5. \A d \in Conns :
          /\ con'[d].evd = con[d].evd /\ con'[d].id = con[d].id
          /\ con'[d].status \in {"CLOSING", "CLOSED"} <=> con[d].status \in {"CLOSING", "CLOSED"}
          /\ con[d].status \notin {"CLOSING", "CLOSED"} => con'[d].status = con[d].status
    BY <1>2, <2>1
  <2>6. Handed'
    <3>1. ASSUME NEW x \in Evds PROVE QueueOk(con', x, queue[x])
      <4>1. ASSUME NEW i \in 1..Len(queue[x]), FunctorOk(con, x, queue[x][i])
            PROVE  FunctorOk(con', x, queue[x][i])
        <5>1. queue[x] \in Seq(FunctorSet)
          BY <2>4 DEF QueueType
        <5>2. queue[x][i] \in FunctorSet
          BY <5>1
        <5>3. queue[x][i].con \in Conns
          BY <5>2 DEF FunctorSet
        <5> QED
          BY <2>5, <4>1, <5>3 DEF FunctorOk
      <4>2. QueueOk(con, x, queue[x])
        BY <2>4 DEF Handed
      <4> QED
        BY <4>1, <4>2, StillOk
    <3>2. \A t \in Threads : caller[t] \in Conns =>
            con'[caller[t]].status \notin {"NONE", "CONNECTING"}
      BY <2>4, <2>5 DEF Handed
    <3> QED
      BY <1>0, <2>4, <3>1, <3>2 DEF Handed
  <2>7. Acting'
    <3> SUFFICES ASSUME NEW x \in Evds
                 PROVE  /\ "r" \in act'[x].left =>
                              con'[act'[x].con].status = "CONNECTED" /\ con'[act'[x].con].evd = x
                        /\ "close" \in act'[x].left =>
                              con'[act'[x].con].status = "CLOSING" /\ con'[act'[x].con].evd = x
                        /\ "insert" \in act'[x].left =>
                              /\ x = Main
                              /\ con'[act'[x].con].id \notin DOMAIN table
      BY <1>0 DEF Acting
    <3>1. CASE x = e
      BY <1>1, <1>4, <2>1, <3>1
    <3>2. CASE x # e
      <4>1. act'[x] = act[x] /\ (act[x].left # {} => act[x].con \in Conns)
        BY <1>4, <2>4, <3>2 DEF ActType
      <4>2. \A d \in Conns : con[d].evd = x => con'[d] = con[d]
        BY <1>2, <2>1, <3>2
      <4> QED
        BY <2>4, <2>5, <4>1, <4>2 DEF Acting
    <3> QED
      BY <3>1, <3>2
  <2>8. \A d \in Conns : Inserting(d)' <=> Inserting(d)
    BY <1>1, <1>4, <2>4 DEF Inserting
  <2>9. Listed'
    <3>1. \A i \in DOMAIN table : table[i] \in Conns
      BY <2>4 DEF TableType
    <3> QED
      BY <1>0, <2>4, <2>5, <2>8, <3>1 DEF Listed
  <2>10. Erasing'
    BY <1>0, <2>4, <2>5, <2>8 DEF Erasing, InTable
  <2> QED
    BY <2>2, <2>3, <2>6, <2>7, <2>9, <2>10 DEF Good, Places
<1> QED
  BY <1>0, <1>7, <1>8 DEF IInv

\* HandleWrite.
LEMMA HandleWriteStep ==
    ASSUME IInv, fatal = "none", NEW e \in Evds, HandleWrite(e)
    PROVE  IInv'
<1> DEFINE c == act[e].con
<1>0. /\ Types /\ FlagType /\ act[e].left = {"w"} /\ Leave(e, {}) /\ Drains(c)
      /\ late' = IF con[c].status = "CONNECTED" THEN late ELSE late \cup {"write"}
      /\ UNCHANGED <<table, nextId, nextEvd, open, queue, batch, caller, accepted>>
      /\ act[e].left \cap {"r", "w", "close"} # {}
  BY DEF IInv, Types, HandleWrite, Drains
<1>1. c \in Conns
  BY <1>0, HandlerStarts
<1> HIDE DEF c
<1>2. /\ ConType' /\ EpollType' /\ WireType' /\ UNCHANGED channels
      /\ fatal' \in {"none", "epoll"}
      /\ \A d \in Conns : /\ con'[d].status = con[d].status /\ con'[d].fd = con[d].fd
                          /\ con'[d].evd = con[d].evd /\ con'[d].id = con[d].id
  BY <1>0, <1>1, DrainTypes
<1>3. Ages /\ SameIdentity
  BY <1>2 DEF Ages, SameIdentity
<1>4. ActType' /\ ActShrinks
  BY <1>0, <1>3, LeaveShrinks
<1>5. FlagType'
  BY <1>0, <1>2 DEF FlagType
<1>6. Types'
  BY <1>0, <1>2, <1>3, <1>4, <1>5, SameTypes, AgeTypes DEF Types
<1>7. ASSUME Good, late' = {} PROVE Good'
  <2>1. con[c].status = "CONNECTED"
    BY <1>0, <1>7
  <2>2. Registry' /\ Output'
    BY <1>0, <1>1, <1>7, <2>1, DrainGood DEF Good
  <2>3. Advanced(queue')
    BY <1>0 DEF Advanced
  <2>4. Places'
    BY <1>0, <1>3, <1>4, <1>7, <2>3, PlacesKept DEF Good
  <2> QED
    BY <2>2, <2>4 DEF Good
<1> QED
  BY <1>0, <1>6, <1>7 DEF IInv

\* An entry leaves the table.
LEMMA TableWithout ==
    ASSUME TableType, NEW i, table' = Without(table, i)
    PROVE  /\ TableType' /\ DOMAIN table' = DOMAIN table \ {i}
           /\ \A j \in DOMAIN table' : table'[j] = table[j]
<1>1. /\ DOMAIN table' = DOMAIN table \ {i}
      /\ \A j \in DOMAIN table' : table'[j] = table[j]
  BY DEF Without
<1>2. IsFiniteSet(DOMAIN table')
  BY <1>1, FS_Subset DEF TableType
<1> QED
  BY <1>1, <1>2 DEF TableType

\* A functor leaves its queue.
LEMMA FunctorTaken ==
    ASSUME QueueType, NEW e \in Evds, queue[e] # <<>>,
           NEW q, q = [queue EXCEPT ![e] = Tail(@)]
    PROVE  /\ Head(queue[e]) \in FunctorSet /\ Head(queue[e]).con \in Conns
           /\ Head(queue[e]).op = "send" => Head(queue[e]).msg \in Messages
           /\ q \in [Evds -> Seq(FunctorSet)] /\ q[e] = Tail(queue[e])
           /\ \A x \in Evds : x # e => q[x] = queue[x]
           /\ Head(queue[e]).op \in {"send", "close"} => Advanced(q)
<1>1. queue[e] \in Seq(FunctorSet)
  BY DEF QueueType
<1>2. Head(queue[e]) \in FunctorSet /\ Tail(queue[e]) \in Seq(FunctorSet)
  BY <1>1
<1>3. /\ Head(queue[e]).con \in Conns
      /\ Head(queue[e]).op = "send" => Head(queue[e]).msg \in Messages
  BY <1>2 DEF FunctorSet
<1>4. /\ q \in [Evds -> Seq(FunctorSet)] /\ q[e] = Tail(queue[e])
      /\ \A x \in Evds : x # e => q[x] = queue[x]
  BY <1>2 DEF QueueType
<1>5. Head(queue[e]).op \in {"send", "close"} => Advanced(q)
  BY DEF Advanced
<1> QED
  BY <1>2, <1>3, <1>4, <1>5

\* The functor that establishes a connection.
LEMMA EstablishStep ==
    ASSUME IInv, fatal = "none", NEW e \in Evds, queue[e] # <<>>,
           Head(queue[e]).op = "establish",
           Establish(Head(queue[e]).con, con[Head(queue[e]).con]),
           queue' = [queue EXCEPT ![e] = Tail(@)],
           UNCHANGED <<table, open, wire, accepted, late, nextId, nextEvd, batch, act, caller>>
    PROVE  IInv'
<1> DEFINE g == Head(queue[e])
           c == g.con
<1>0. Types /\ ConType /\ ChannelType /\ EpollType /\ QueueType /\ FlagType
  BY DEF IInv, Types
<1>1. /\ g \in FunctorSet /\ c \in Conns /\ queue' \in [Evds -> Seq(FunctorSet)]
      /\ queue'[e] = Tail(queue[e]) /\ \A x \in Evds : x # e => queue'[x] = queue[x]
  BY <1>0, FunctorTaken
<1>2. g.op = "establish" /\ g.con = c /\ g = Head(queue[e]) /\ Establish(c, con[c])
  OBVIOUS
<1> HIDE DEF g, c
<1>r. con[c] \in Records
  BY <1>0, <1>1 DEF ConType
<1>3. /\ ConType' /\ ChannelType' /\ EpollType' /\ fatal' \in {"none", "accept", "epoll"}
      /\ con'[c].status = "CONNECTED" /\ con'[c].fd = con[c].fd /\ con'[c].evd = con[c].evd
      /\ con'[c].id = con[c].id /\ con'[c].out = con[c].out /\ con'[c].events = {"r"}
      /\ \A d \in Conns : d # c => con'[d] = con[d]
  BY <1>0, <1>1, <1>2, <1>r, EstablishTypes
<1>4. Ages
  BY <1>3 DEF Ages
<1>5. FlagType' /\ QueueType'
  BY <1>0, <1>1, <1>3 DEF FlagType, QueueType
<1>6. Types'
  BY <1>0, <1>3, <1>4, <1>5, SameTypes, AgeTypes DEF Types
<1>7. ASSUME Good PROVE Good'
  <2>0. Handed /\ Acting /\ Listed /\ Erasing /\ TableType /\ ActType /\ Registry
        /\ Main \in Evds /\ NoCon \notin Conns
    BY <1>0, <1>7, TcpAssumption DEF Good, Places, Types, Main, Evds
  <2>1. /\ queue[e] \in Seq(FunctorSet) /\ QueueOk(con, e, queue[e]) /\ OnceIn(queue[e])
        /\ queue[e] # <<>>
    BY <1>0, <2>0 DEF QueueType, Handed
  <2>2. /\ FunctorOk(con, e, g)
        /\ QueueOk(con, e, queue'[e]) /\ OnceIn(queue'[e])
        /\ \A i \in 1..Len(queue'[e]) : ~Same(g, queue'[e][i])
        /\ \A d : HasErase(queue[e], d) <=> HasErase(queue'[e], d)
    <3> DEFINE s == queue[e]
    <3>1. s \in Seq(FunctorSet) /\ QueueOk(con, e, s) /\ OnceIn(s) /\ s # <<>> /\ Head(s) = g
          /\ queue'[e] = Tail(s)
      BY <1>1, <1>2, <2>1
    <3> HIDE DEF s
    <3>2. /\ FunctorOk(con, e, g)
          /\ QueueOk(con, e, Tail(s)) /\ OnceIn(Tail(s))
          /\ Unique(g) => \A i \in 1..Len(Tail(s)) : ~Same(g, Tail(s)[i])
          /\ \A d : HasErase(s, d) <=> g = EraseOf(d) \/ HasErase(Tail(s), d)
      BY <3>1, TailOk
    <3>3. Unique(g) /\ \A d : g # EraseOf(d)
      BY <1>2 DEF Unique, EraseOf, Functor
    <3> QED
      BY <3>1, <3>2, <3>3 DEF s
  <2>3. con[c].status = "CONNECTING" /\ con[c].evd = e
    BY <1>2, <2>2 DEF FunctorOk
  <2>4. Registry'
    BY <1>0, <1>1, <1>2, <1>r, <2>0, <2>3, EstablishRegistry DEF Registry
  <2>5. Output'
    <3>1. \A d \in Conns :
            /\ con'[d].out = con[d].out
            /\ con'[d].status \in {"NONE", "CONNECTING"} =>
                  con[d].status \in {"NONE", "CONNECTING"}
            /\ con'[d].status = "CONNECTED" =>
                  \/ con[d].status = "CONNECTED" /\ con'[d].events = con[d].events
                  \/ con[d].status \in {"NONE", "CONNECTING"} /\ "w" \notin con'[d].events
      BY <1>3, <2>3
    <3> QED
      BY <1>7, <3>1, OutputStays DEF Good
  <2>6. Handed'
    <3>1. ASSUME NEW x \in Evds PROVE QueueOk(con', x, queue'[x]) /\ OnceIn(queue'[x])
      <4>1. QueueOk(con, x, queue'[x]) /\ OnceIn(queue'[x]) /\ queue'[x] \in Seq(FunctorSet)
        BY <1>1, <2>0, <2>2 DEF Handed
      <4>2. ASSUME NEW i \in 1..Len(queue'[x]), FunctorOk(con, x, queue'[x][i])
            PROVE  FunctorOk(con', x, queue'[x][i])
        <5> DEFINE h == queue'[x][i]
        <5>1. h \in FunctorSet
          BY <4>1
        <5>2. h.con \in Conns
          BY <5>1 DEF FunctorSet
        <5>3. h.con = c => h.op # "establish"
          <6>1. CASE x = e
            <7>1. ~Same(g, queue'[x][i])
              BY <2>2, <6>1
            <7> QED
              BY <1>2, <7>1 DEF Same
          <6>2. CASE x # e
            BY <2>3, <4>2, <6>2 DEF FunctorOk
          <6> QED
            BY <6>1, <6>2
        <5>4. FunctorOk(con, x, h)
          BY <4>2
        <5> HIDE DEF h
        <5>5. FunctorOk(con', x, h)
          BY <1>3, <2>3, <5>2, <5>3, <5>4 DEF FunctorOk
        <5> QED
          BY <5>5 DEF h
      <4> QED
        BY <4>1, <4>2, StillOk
    <3>2. \A t \in Threads : caller'[t] \in Conns =>
            con'[caller'[t]].status \notin {"NONE", "CONNECTING"}
      BY <1>3, <2>0 DEF Handed
    <3> QED
      BY <3>1, <3>2 DEF Handed
  <2>7. Acting'
    <3> SUFFICES ASSUME NEW x \in Evds
                 PROVE  /\ "r" \in act[x].left =>
                              con'[act[x].con].status = "CONNECTED" /\ con'[act[x].con].evd = x
                        /\ "close" \in act[x].left =>
                              con'[act[x].con].status = "CLOSING" /\ con'[act[x].con].evd = x
                        /\ "insert" \in act[x].left =>
                              /\ x = Main
                              /\ con'[act[x].con].id \notin DOMAIN table
      BY DEF Acting
    <3>1. act[x].left # {} => act[x].con \in Conns
      BY <2>0 DEF ActType
    <3> QED
      BY <1>3, <2>0, <2>3, <3>1 DEF Acting
  <2>8. \A d \in Conns : Inserting(d)' <=> Inserting(d)
    BY DEF Inserting
  <2>9. Listed'
    <3>1. \A i \in DOMAIN table : table[i] \in Conns
      BY <2>0 DEF TableType
    <3> QED
      BY <1>3, <2>0, <2>3, <2>8, <3>1 DEF Listed
  <2>10. Erasing'
    <3>1. \A d : HasErase(queue'[Main], d) <=> HasErase(queue[Main], d)
      BY <1>1, <2>0, <2>2
    <3> QED
      BY <1>3, <2>0, <2>8, <3>1 DEF Erasing, InTable
  <2> QED
    BY <2>4, <2>5, <2>6, <2>7, <2>9, <2>10 DEF Good, Places
<1> QED
  BY <1>6, <1>7 DEF IInv

\* The functor that erases a connection finds it in the table.
LEMMA EraseStep ==
    ASSUME IInv, fatal = "none", NEW e \in Evds, queue[e] # <<>>, Resting(e),
           Head(queue[e]).op = "erase", Erase(Head(queue[e]).con),
           queue' = [queue EXCEPT ![e] = Tail(@)],
           UNCHANGED <<con, channels, epoll, open, wire, fatal, accepted, late, nextId,
                       nextEvd, batch, act, caller>>
    PROVE  IInv'
<1> DEFINE g == Head(queue[e])
           c == g.con
<1>0. Types /\ TableType /\ QueueType
  BY DEF IInv, Types
<1>1. /\ g \in FunctorSet /\ c \in Conns /\ queue' \in [Evds -> Seq(FunctorSet)]
      /\ queue'[e] = Tail(queue[e]) /\ \A x \in Evds : x # e => queue'[x] = queue[x]
  BY <1>0, FunctorTaken
<1>2. /\ g.op = "erase" /\ g.con = c /\ g = Head(queue[e])
      /\ table' = Without(table, con[c].id)
  BY DEF Erase
<1> HIDE DEF g, c
<1>3. /\ TableType' /\ DOMAIN table' = DOMAIN table \ {con[c].id}
      /\ \A i \in DOMAIN table' : table'[i] = table[i]
  BY <1>0, <1>2, TableWithout
<1>4. ConType' /\ Ages /\ ChannelType' /\ ActType' /\ QueueType'
  BY <1>0, <1>1, SameTypes, AgeTypes DEF QueueType
<1>5. Types'
  BY <1>0, <1>3, <1>4, SameTypes DEF Types
<1>6. ASSUME Good PROVE Good'
  <2>0. Handed /\ Acting /\ Listed /\ Erasing /\ Main \in Evds
    BY <1>6, TcpAssumption DEF Good, Places, Main, Evds
  <2>1. g = EraseOf(c)
    BY <1>1, <1>2 DEF EraseOf, Functor, FunctorSet
  <2>2. /\ FunctorOk(con, e, g)
        /\ QueueOk(con, e, queue'[e]) /\ OnceIn(queue'[e])
        /\ ~HasErase(queue'[e], c) /\ HasErase(queue[e], c)
        /\ \A d : d # c => (HasErase(queue[e], d) <=> HasErase(queue'[e], d))
    <3> DEFINE s == queue[e]
               t == Tail(s)
    <3>1. s \in Seq(FunctorSet) /\ QueueOk(con, e, s) /\ OnceIn(s) /\ s # <<>> /\ Head(s) = g
          /\ queue'[e] = t
      BY <1>0, <1>1, <1>2, <2>0 DEF QueueType, Handed
    <3> HIDE DEF s
    <3>2. /\ FunctorOk(con, e, g)
          /\ QueueOk(con, e, t) /\ OnceIn(t)
          /\ Unique(g) => \A i \in 1..Len(t) : ~Same(g, t[i])
          /\ \A d : HasErase(s, d) <=> g = EraseOf(d) \/ HasErase(t, d)
      BY <3>1, TailOk
    <3> HIDE DEF t
    <3>3. Unique(g) /\ \A d : d # c => g # EraseOf(d)
      BY <1>2 DEF Unique, EraseOf, Functor
    <3>4. ~HasErase(t, c)
      BY <2>1, <3>2, <3>3 DEF HasErase, Same
    <3> QED
      BY <2>1, <3>1, <3>2, <3>3, <3>4 DEF s
  <2>3. e = Main /\ con[c].status \in {"CLOSING", "CLOSED"}
    BY <1>2, <2>2 DEF FunctorOk
  <2>4. \A d : ~Inserting(d) /\ ~Inserting(d)'
    BY <2>3 DEF Inserting, Resting, Idle
  <2>5. con[c].id \in DOMAIN table /\ table[con[c].id] = c
    <3>1. InTable(c)
      BY <1>1, <2>0, <2>2, <2>3, <2>4 DEF Erasing
    <3> QED
      BY <2>0, <3>1 DEF InTable, Listed
  <2>6. \A d \in Conns : d # c => \A i \in DOMAIN table : table[i] = d => i \in DOMAIN table'
    BY <1>3, <2>5
  <2>7. Registry' /\ Output'
    <3>1. Registry'
      BY <1>0, <1>6, RegistryStays DEF Good
    <3>2. Output'
      BY <1>6, OutputStays DEF Good
    <3> QED
      BY <3>1, <3>2
  <2>8. Handed'
    BY <1>1, <2>0, <2>2 DEF Handed
  <2>9. Acting'
    BY <1>3, <2>0 DEF Acting
  <2>10. Listed'
    <3>1. \A i \in DOMAIN table' : con[table'[i]].id = i /\ con[table'[i]].status # "NONE"
      BY <1>3, <2>0 DEF Listed
    <3>2. ASSUME NEW d \in Conns, con[d].status \in {"CONNECTING", "CONNECTED"}
          PROVE  con[d].id \in DOMAIN table' /\ table'[con[d].id] = d
      BY <1>3, <2>0, <2>3, <2>4, <2>6, <3>2 DEF Listed
    <3> QED
      BY <3>1, <3>2 DEF Listed
  <2>11. Erasing'
    <3> SUFFICES ASSUME NEW d \in Conns, con[d].status \in {"CLOSING", "CLOSED"}
                 PROVE  InTable(d)' \/ Inserting(d)' <=> HasErase(queue'[Main], d)
      BY DEF Erasing
    <3>1. CASE d = c
      <4>1. ~InTable(d)'
        BY <1>3, <2>0, <3>1 DEF InTable, Listed
      <4> QED
        BY <2>2, <2>3, <2>4, <3>1, <4>1
    <3>2. CASE d # c
      <4>1. InTable(d)' <=> InTable(d)
        BY <1>3, <2>6, <3>2 DEF InTable
      <4>2. InTable(d) <=> HasErase(queue[Main], d)
        BY <2>0, <2>4 DEF Erasing
      <4> QED
        BY <2>2, <2>3, <2>4, <3>2, <4>1, <4>2
    <3> QED
      BY <3>1, <3>2
  <2> QED
    BY <2>7, <2>8, <2>9, <2>10, <2>11 DEF Good, Places
<1> QED
  BY <1>5, <1>6 DEF IInv

\* A functor runs in its loop.
LEMMA RunFunctorStep ==
    ASSUME IInv, fatal = "none", NEW e \in Evds, RunFunctor(e)
    PROVE  IInv'
<1> DEFINE g == Head(queue[e])
           q == [queue EXCEPT ![e] = Tail(@)]
<1>0. /\ Types /\ ConType /\ QueueType /\ FlagType /\ queue[e] # <<>> /\ Resting(e)
      /\ UNCHANGED <<nextId, nextEvd, batch, act, caller>>
  BY DEF IInv, Types, RunFunctor
<1>1. /\ g \in FunctorSet /\ g.con \in Conns
      /\ g.op = "send" => g.msg \in Messages
      /\ q \in [Evds -> Seq(FunctorSet)]
      /\ g.op \in {"send", "close"} => Advanced(q)
  BY <1>0, FunctorTaken
<1>2. CASE /\ g.op = "establish" /\ Establish(g.con, con[g.con]) /\ queue' = q
           /\ UNCHANGED <<table, open, wire, accepted, late>>
  BY <1>0, <1>2, EstablishStep
<1>3. CASE /\ g.op = "erase" /\ Erase(g.con) /\ queue' = q
           /\ UNCHANGED <<con, regVars, open, wire, fatal, accepted, late>>
  BY <1>0, <1>3, EraseStep DEF regVars
<1>4. CASE /\ g.op = "send" /\ Send(g.con, g.msg) /\ queue' = q
           /\ UNCHANGED <<table, open, late>>
  <2> DEFINE c == g.con
             m == g.msg
  <2>0. /\ c \in Conns /\ m \in Messages /\ Send(c, m) /\ UNCHANGED <<table, open, late>>
        /\ Advanced(queue') /\ queue' \in [Evds -> Seq(FunctorSet)]
    BY <1>1, <1>4
  <2> HIDE DEF c, m
  <2>1. /\ ConType' /\ EpollType' /\ WireType' /\ UNCHANGED channels
        /\ fatal' \in {"none", "epoll", "pipe"}
        /\ \A d \in Conns : /\ con'[d].status = con[d].status /\ con'[d].fd = con[d].fd
                            /\ con'[d].evd = con[d].evd /\ con'[d].id = con[d].id
    BY <1>0, <2>0, SendTypes
  <2>2. Ages /\ SameIdentity /\ ActShrinks
    BY <1>0, <2>1 DEF Ages, SameIdentity, ActShrinks
  <2>3. FlagType' /\ QueueType'
    BY <1>0, <2>0, <2>1 DEF FlagType, QueueType
  <2>4. Types'
    BY <1>0, <2>0, <2>1, <2>2, <2>3, SameTypes, AgeTypes DEF Types
  <2>5. ASSUME Good PROVE Good'
    <3>1. Registry' /\ Output'
      BY <1>0, <2>0, <2>5, SendGood DEF Good
    <3>2. Places'
      BY <1>0, <2>0, <2>2, <2>5, PlacesKept DEF Good
    <3> QED
      BY <3>1, <3>2 DEF Good
  <2> QED
    BY <2>0, <2>4, <2>5 DEF IInv
<1>5. CASE g.op = "close" /\ ForceClosed(g.con, q) /\ UNCHANGED <<wire, accepted>>
  <2> DEFINE c == g.con
  <2>0. /\ c \in Conns /\ CloseConnect(c, q, "CLOSED")
        /\ open' = [open EXCEPT ![con[c].fd] = NoCon] /\ Advanced(q)
        /\ late' = IF con[c].fd \in DOMAIN channels[con[c].evd]
                          /\ channels[con[c].evd][con[c].fd] = c
                   THEN late ELSE late \cup {"remove"}
    BY <1>1, <1>5 DEF ForceClosed, CloseConnect
  <2>g. g.op = "close" /\ g.con = c
    BY <1>5
  <2> HIDE DEF c
  <2>1. /\ ConType' /\ TableType' /\ ChannelType' /\ EpollType' /\ QueueType'
        /\ FlagType' /\ late \subseteq late'
        /\ con'[c].status = "CLOSED" /\ con'[c].fd = con[c].fd /\ con'[c].evd = con[c].evd
        /\ con'[c].id = con[c].id /\ con'[c].out = con[c].out
        /\ \A x \in Conns : x # c => con'[x] = con[x]
    <3> HIDE DEF q
    <3> QED
      BY <1>0, <1>1, <2>0, CloseTypes
  <2>2. Ages
    BY <2>1 DEF Ages
  <2>3. ActType' /\ CounterType' /\ BatchType' /\ CallerType' /\ WireType'
    BY <1>0, <1>5, <2>2, SameTypes, AgeTypes
  <2>4. OpenType'
    BY <1>0, <2>0 DEF OpenType, Types
  <2>5. Types'
    BY <2>1, <2>3, <2>4 DEF Types
  <2>6. ASSUME Good, late' = {} PROVE Good'
    <3>0. con[c].evd = e
      <4> DEFINE s == queue[e]
      <4>1. s \in Seq(FunctorSet) /\ QueueOk(con, e, s) /\ OnceIn(s) /\ s # <<>> /\ Head(s) = g
        BY <1>0, <2>6 DEF QueueType, Handed, Good, Places
      <4> HIDE DEF s, g
      <4>2. FunctorOk(con, e, g)
        BY <4>1, TailOk
      <4> QED
        BY <2>g, <4>2 DEF FunctorOk
    <3>1. con[c].status = "CONNECTED"
      <4>1. con[c].fd \in DOMAIN channels[e] /\ channels[e][con[c].fd] = c
        BY <2>0, <2>6, <3>0
      <4> QED
        BY <2>6, <4>1 DEF Good, Registry
    <3> HIDE DEF q
    <3>2. Registry'
      BY <1>0, <1>1, <2>0, <2>6, <3>1, CloseRegistry DEF Good
    <3>3. Output'
      <4>1. \A x \in Conns :
              /\ con'[x].out = con[x].out
              /\ con'[x].status \in {"NONE", "CONNECTING"} =>
                    con[x].status \in {"NONE", "CONNECTING"}
              /\ con'[x].status = "CONNECTED" =>
                    con[x].status = "CONNECTED" /\ con'[x].events = con[x].events
        BY <2>1
      <4> QED
        BY <1>5, <2>6, <4>1, OutputStays DEF Good
    <3>4. /\ "insert" \notin act[con[c].evd].left
          /\ \A e2 \in Evds : e2 # con[c].evd => act'[e2] = act[e2]
          /\ {"r", "insert"} \cap act'[con[c].evd].left = {}
          /\ "close" \notin act'[con[c].evd].left
      BY <1>0, <3>0 DEF Resting, Idle
    <3>5. Places'
      BY <1>0, <2>0, <2>6, <3>1, <3>4, PlacesClose DEF Good
    <3> QED
      BY <3>2, <3>3, <3>5 DEF Good
  <2> QED
    BY <2>1, <2>5, <2>6 DEF IInv
<1> QED
  BY <1>2, <1>3, <1>4, <1>5 DEF RunFunctor

\* The end of newConnect: the identifier is still free.
LEMMA InsertConnectStep ==
    ASSUME IInv, fatal = "none", InsertConnect
    PROVE  IInv'
<1> DEFINE c == act[Main].con
           i0 == con[c].id
<1>0. /\ Types /\ ConType /\ TableType /\ ActType /\ Main \in Evds /\ NoCon \notin Conns
      /\ "insert" \in act[Main].left /\ table' = With(table, i0, c) /\ Leave(Main, {})
      /\ UNCHANGED <<con, nextId, nextEvd, channels, epoll, open, queue, batch, caller,
                     wire, fatal, accepted, late>>
  BY TcpAssumption DEF IInv, Types, InsertConnect, regVars, peerVars, history, Main, Evds
<1>1. /\ c \in Conns /\ i0 \in Nat \ {0} /\ con[c].status # "NONE"
      /\ act[Main].left = {"insert"}
  <2>1. act[Main].left # {} /\ act[Main].con # NoCon /\ act[Main].con \in Conns \cup {NoCon}
    BY <1>0 DEF ActType
  <2>2. c \in Conns /\ i0 # 0 /\ con[c].status # "NONE" /\ act[Main].left = {"insert"}
    BY <1>0, <2>1 DEF ActType
  <2>3. con[c] \in Records
    BY <1>0, <2>2 DEF ConType
  <2> QED
    BY <2>2, <2>3 DEF Records
<1>2. ConType' /\ Ages
  BY <1>0, SameTypes
<1>3. /\ ActType' /\ act'[Main].left = {}
      /\ \A e \in Evds : e # Main => act'[e] = act[e]
  <2>1. {} \in SUBSET {"r", "w", "close"} /\ act[Main].left # {}
    BY <1>1
  <2> QED
    BY <1>0, <1>2, <2>1, LeaveTypes
<1> DEFINE T == DOMAIN table
<1>i. Inserting(c) /\ \A d : Inserting(d) => d = c
  BY <1>0 DEF Inserting
<1> HIDE DEF c, i0
<1>4. /\ DOMAIN table' = T \cup {i0}
      /\ \A i \in T : table'[i] = table[i]
      /\ i0 \notin T => table'[i0] = c
      /\ table'[i0] \in {table[i0], c} /\ (i0 \in T => table'[i0] = table[i0])
  BY <1>0 DEF With
<1>5. TableType'
  <2>1. IsFiniteSet(T \cup {i0})
    BY <1>0, FS_AddElement DEF TableType
  <2> QED
    BY <1>0, <1>1, <1>4, <2>1 DEF TableType
<1>6. Types'
  BY <1>0, <1>2, <1>3, <1>5, SameTypes, AgeTypes DEF Types
<1>7. ASSUME Good PROVE Good'
  <2>0. Handed /\ Acting /\ Listed /\ Erasing
    BY <1>7 DEF Good, Places
  <2>1. i0 \notin T /\ con[c].id = i0
    BY <1>0, <2>0 DEF Acting, i0, c
  <2>2. Registry'
    BY <1>0, <1>7, RegistryStays DEF Good
  <2>3. Output'
    BY <1>0, <1>7, OutputStays DEF Good
  <2>4. Handed'
    BY <1>0, <2>0 DEF Handed
  <2>5. Acting'
    <3> SUFFICES ASSUME NEW x \in Evds
                 PROVE  /\ "r" \in act'[x].left =>
                              con[act'[x].con].status = "CONNECTED" /\ con[act'[x].con].evd = x
                        /\ "close" \in act'[x].left =>
                              con[act'[x].con].status = "CLOSING" /\ con[act'[x].con].evd = x
                        /\ "insert" \in act'[x].left =>
                              /\ x = Main
                              /\ con[act'[x].con].id \notin DOMAIN table'
      BY <1>0 DEF Acting
    <3>1. CASE x = Main
      BY <1>3, <3>1
    <3>2. CASE x # Main
      BY <1>3, <2>0, <3>2 DEF Acting
    <3> QED
      BY <3>1, <3>2
  <2>6. \A d : ~Inserting(d)'
    BY <1>3 DEF Inserting
  <2>7. Listed'
    <3>1. ASSUME NEW i \in DOMAIN table'
          PROVE  con[table'[i]].id = i /\ con[table'[i]].status # "NONE"
      <4>1. CASE i \in T
        BY <1>4, <2>0, <4>1 DEF Listed
      <4>2. CASE i = i0
        BY <1>1, <1>4, <2>1, <4>2
      <4> QED
        BY <1>4, <4>1, <4>2
    <3>2. ASSUME NEW d \in Conns, con[d].status \in {"CONNECTING", "CONNECTED"}
          PROVE  con[d].id \in DOMAIN table' /\ table'[con[d].id] = d
      <4>1. \/ con[d].id \in T /\ table[con[d].id] = d
            \/ Inserting(d)
        BY <2>0, <3>2 DEF Listed
      <4>2. CASE con[d].id \in T /\ table[con[d].id] = d
        BY <1>4, <4>2
      <4>3. CASE Inserting(d)
        BY <1>4, <1>i, <2>1, <4>3
      <4> QED
        BY <4>1, <4>2, <4>3
    <3> QED
      BY <1>0, <3>1, <3>2 DEF Listed
  <2>8. Erasing'
    <3> SUFFICES ASSUME NEW d \in Conns, con[d].status \in {"CLOSING", "CLOSED"}
                 PROVE  InTable(d)' \/ Inserting(d)' <=> HasErase(queue[Main], d)
      BY <1>0 DEF Erasing
    <3>1. InTable(d)' <=> InTable(d) \/ d = c
      BY <1>4, <2>1 DEF InTable
    <3>2. Inserting(d) <=> d = c
      BY <1>i
    <3> QED
      BY <2>0, <2>6, <3>1, <3>2 DEF Erasing
  <2> QED
    BY <2>2, <2>3, <2>4, <2>5, <2>7, <2>8 DEF Good, Places
<1> QED
  BY <1>0, <1>6, <1>7 DEF IInv

\* Send and ForceClose in another thread: only the queues and the callers
\* change.
LEMMA OtherThreads ==
    ASSUME IInv, fatal = "none", CallerType',
           UNCHANGED <<con, table, nextId, nextEvd, channels, epoll, open, batch, act, wire,
                       fatal, accepted, late>>,
           late = {} => \A t \in Threads : caller'[t] \in Conns =>
              con[caller'[t]].status \notin {"NONE", "CONNECTING"},
           \/ UNCHANGED queue
           \/ \E c \in Conns, g \in FunctorSet :
                 /\ g.con = c /\ g.op \in {"send", "close"}
                 /\ late = {} => con[c].status # "NONE"
                 /\ late = {} /\ g.op = "close" => con[c].status # "CONNECTING"
                 /\ queue' = [queue EXCEPT ![con[c].evd] = Append(@, g)]
    PROVE  IInv'
<1>0. Types /\ ConType /\ QueueType
  BY DEF IInv, Types
<1>1. ConType' /\ Ages /\ ChannelType' /\ ActType'
  BY <1>0, SameTypes, AgeTypes
<1>2. CASE UNCHANGED queue
  <2>1. Types'
    BY <1>0, <1>1, <1>2, SameTypes DEF Types
  <2>2. ASSUME late = {} PROVE Good'
    <3>0. Good
      BY <2>2 DEF IInv
    <3>1. Registry'
      BY <1>0, <3>0, RegistryStays DEF Good
    <3>2. Output'
      BY <3>0, OutputStays DEF Good
    <3>3. Handed'
      BY <1>2, <2>2, <3>0 DEF Good, Places, Handed
    <3>4. Acting' /\ Listed'
      BY <3>0 DEF Good, Places, Acting, Listed, Inserting
    <3>5. Erasing'
      BY <1>2, <3>0 DEF Good, Places, Erasing, Inserting, InTable
    <3> QED
      BY <3>1, <3>2, <3>3, <3>4, <3>5 DEF Good, Places
  <2> QED
    BY <2>1, <2>2 DEF IInv
<1>3. ASSUME NEW c \in Conns, NEW g \in FunctorSet,
             g.con = c, g.op \in {"send", "close"},
             late = {} => con[c].status # "NONE",
             late = {} /\ g.op = "close" => con[c].status # "CONNECTING",
             queue' = [queue EXCEPT ![con[c].evd] = Append(@, g)]
      PROVE  IInv'
  <2>1. con[c].evd \in Evds
    BY <1>0 DEF ConType, Records
  <2>2. queue[con[c].evd] \in Seq(FunctorSet)
    BY <1>0, <2>1 DEF QueueType
  <2>3. QueueType'
    BY <1>0, <1>3, <2>1, <2>2 DEF QueueType
  <2>4. Types'
    BY <1>0, <1>1, <2>3, SameTypes DEF Types
  <2>5. ASSUME late = {} PROVE Good'
    <3>0. Good
      BY <2>5 DEF IInv
    <3>1. Registry'
      BY <1>0, <3>0, RegistryStays DEF Good
    <3>2. Output'
      BY <3>0, OutputStays DEF Good
    <3>3. FunctorOk(con, con[c].evd, g) /\ ~Unique(g)
      BY <1>3, <2>5 DEF FunctorOk, Unique
    <3>4. Places'
      BY <1>0, <1>3, <2>1, <2>5, <3>0, <3>3, PlacesQueue DEF Good
    <3> QED
      BY <3>1, <3>2, <3>4 DEF Good
  <2> QED
    BY <2>4, <2>5 DEF IInv
<1> QED
  BY <1>2, <1>3

\* Send in another thread.
LEMMA SendFromStep ==
    ASSUME IInv, fatal = "none", NEW c \in Conns, NEW m \in Messages, SendFrom(c, m)
    PROVE  IInv'
<1> DEFINE g == Functor("send", c, m)
<1>1. /\ UNCHANGED <<con, table, nextId, nextEvd, channels, epoll, open, batch, act, wire,
                     fatal, accepted, late, caller>>
      /\ con[c].status # "NONE" /\ queue' = [queue EXCEPT ![con[c].evd] = Append(@, g)]
  BY DEF SendFrom, conVars, regVars, peerVars
<1>2. g \in FunctorSet /\ g.con = c /\ g.op = "send"
  BY DEF Functor, FunctorSet
<1> HIDE DEF g
<1>3. CallerType' /\ (late = {} => Handed)
  BY <1>1, SameTypes DEF IInv, Good, Places
<1> QED
  BY <1>1, <1>2, <1>3, OtherThreads DEF Handed

\* ForceClose in another thread: the test ...
LEMMA ForceCloseStep ==
    ASSUME IInv, fatal = "none", NEW t \in Threads, NEW c \in Conns, ForceClose(t, c)
    PROVE  IInv'
<1>1. /\ UNCHANGED <<con, table, nextId, nextEvd, channels, epoll, open, queue, batch, act,
                     wire, fatal, accepted, late>>
      /\ con[c].status = "CONNECTED" /\ caller' = [caller EXCEPT ![t] = c]
  BY DEF ForceClose, conVars, regVars, peerVars, loopVars, history
<1>2. CallerType /\ (late = {} => Handed)
  BY DEF IInv, Good, Places, Types
<1>3. CallerType' /\ \A u \in Threads : caller'[u] \in {caller[u], c}
  BY <1>1, <1>2 DEF CallerType
<1>4. late = {} => \A u \in Threads : caller'[u] \in Conns =>
              con[caller'[u]].status \notin {"NONE", "CONNECTING"}
  BY <1>1, <1>2, <1>3 DEF Handed
<1> QED
  BY <1>1, <1>3, <1>4, OtherThreads

\* ... and the hand-over.
LEMMA ForceCloseRunStep ==
    ASSUME IInv, fatal = "none", NEW t \in Threads, ForceCloseRun(t)
    PROVE  IInv'
<1> DEFINE c == caller[t]
           g == Functor("close", c, NoCon)
<1>1. /\ UNCHANGED <<con, table, nextId, nextEvd, channels, epoll, open, batch, act,
                     wire, fatal, accepted, late>>
      /\ c \in Conns /\ queue' = [queue EXCEPT ![con[c].evd] = Append(@, g)]
      /\ caller' = [caller EXCEPT ![t] = "done"]
  BY DEF ForceCloseRun, conVars, regVars, peerVars, history
<1>2. g \in FunctorSet /\ g.con = c /\ g.op = "close"
  BY <1>1 DEF Functor, FunctorSet
<1>3. CallerType /\ (late = {} => Handed) /\ "done" \notin Conns
  BY TcpAssumption DEF IInv, Good, Places, Types
<1>4. CallerType' /\ \A u \in Threads : caller'[u] \in {caller[u], "done"}
  BY <1>1, <1>3 DEF CallerType
<1>5. late = {} => con[c].status \notin {"NONE", "CONNECTING"}
  BY <1>1, <1>3 DEF Handed
<1> HIDE DEF c, g
<1>6. late = {} => \A u \in Threads : caller'[u] \in Conns =>
              con[caller'[u]].status \notin {"NONE", "CONNECTING"}
  BY <1>3, <1>4 DEF Handed
<1> QED
  BY <1>1, <1>2, <1>4, <1>5, <1>6, OtherThreads

\* Nobody has heard of a connection that was not made: newConnect puts it where
\* it belongs.
LEMMA PlacesNew ==
    ASSUME Types, Places, Idle(Main), NEW c \in Conns, con[c].status = "NONE",
           NEW e0 \in Evds, con'[c].evd = e0, con'[c].id \notin DOMAIN table,
           con'[c].status \in {"CONNECTING", "CONNECTED"},
           \A d \in Conns : d # c => con'[d] = con[d],
           act'[Main] = [con |-> c, left |-> {"insert"}],
           \A e \in Evds : e # Main => act'[e] = act[e],
           UNCHANGED <<table, caller>>,
           \/ UNCHANGED queue
           \/ /\ con'[c].status = "CONNECTING"
              /\ queue' = [queue EXCEPT ![e0] = Append(@, Functor("establish", c, NoCon))]
    PROVE  QueueType' /\ Places'
<1>0. /\ QueueType /\ TableType /\ ActType /\ Main \in Evds /\ NoCon \notin Conns
      /\ Handed /\ Acting /\ Listed /\ Erasing
  BY TcpAssumption DEF Types, Places, Main, Evds
<1>1. ASSUME NEW e \in Evds
      PROVE  /\ queue[e] \in Seq(FunctorSet) /\ QueueOk(con', e, queue[e]) /\ OnceIn(queue[e])
             /\ \A i \in 1..Len(queue[e]) : queue[e][i].con # c
  <2>1. queue[e] \in Seq(FunctorSet) /\ QueueOk(con, e, queue[e]) /\ OnceIn(queue[e])
    BY <1>0 DEF QueueType, Handed
  <2>2. ASSUME NEW i \in 1..Len(queue[e]), FunctorOk(con, e, queue[e][i])
        PROVE  FunctorOk(con', e, queue[e][i]) /\ queue[e][i].con # c
    <3>1. queue[e][i] \in FunctorSet
      BY <2>1
    <3>2. queue[e][i].con \in Conns
      BY <3>1 DEF FunctorSet
    <3>3. queue[e][i].con # c
      BY <2>2 DEF FunctorOk
    <3> QED
      BY <2>2, <3>2, <3>3 DEF FunctorOk
  <2> QED
    BY <2>1, <2>2 DEF QueueOk
<1>2. /\ QueueType' /\ \A e \in Evds : QueueOk(con', e, queue'[e]) /\ OnceIn(queue'[e])
      /\ \A d : HasErase(queue'[Main], d) <=> HasErase(queue[Main], d)
  <2>1. CASE UNCHANGED queue
    BY <1>0, <1>1, <2>1 DEF QueueType
  <2>2. CASE /\ con'[c].status = "CONNECTING"
             /\ queue' = [queue EXCEPT ![e0] = Append(@, Functor("establish", c, NoCon))]
    <3> DEFINE s == queue[e0]
               g == Functor("establish", c, NoCon)
    <3>1. /\ s \in Seq(FunctorSet) /\ QueueOk(con', e0, s) /\ OnceIn(s)
          /\ \A i \in 1..Len(s) : s[i].con # c
      BY <1>1
    <3>2. /\ g \in FunctorSet /\ FunctorOk(con', e0, g) /\ \A d : g # EraseOf(d)
          /\ g.con = c
      BY <2>2 DEF Functor, FunctorSet, FunctorOk, EraseOf
    <3>3. queue'[e0] = Append(s, g) /\ \A e \in Evds : e # e0 => queue'[e] = queue[e]
      BY <1>0, <2>2 DEF QueueType
    <3>4. queue' = [queue EXCEPT ![e0] = Append(s, g)]
      BY <2>2
    <3> HIDE DEF s, g
    <3>5. \A i \in 1..Len(s) : ~Same(g, s[i])
      BY <3>1, <3>2 DEF Same
    <3>6. /\ Append(s, g) \in Seq(FunctorSet)
          /\ QueueOk(con', e0, Append(s, g)) /\ OnceIn(Append(s, g))
          /\ \A d : HasErase(Append(s, g), d) <=> g = EraseOf(d) \/ HasErase(s, d)
      BY <3>1, <3>2, <3>5, AppendOk
    <3>7. QueueType'
      BY <1>0, <3>4, <3>6 DEF QueueType
    <3>8. \A d : HasErase(queue'[Main], d) <=> HasErase(queue[Main], d)
      <4>1. CASE e0 = Main
        <5>1. \A d : HasErase(Append(s, g), d) <=> HasErase(s, d)
          BY <3>2, <3>6
        <5>2. queue'[Main] = Append(s, g) /\ queue[Main] = s
          BY <3>3, <4>1 DEF s
        <5> QED
          BY <5>1, <5>2
      <4>2. CASE e0 # Main
        BY <1>0, <3>3, <4>2
      <4> QED
        BY <4>1, <4>2
    <3>9. \A e \in Evds : QueueOk(con', e, queue'[e]) /\ OnceIn(queue'[e])
      BY <1>1, <3>3, <3>6
    <3> QED
      BY <3>7, <3>8, <3>9
  <2> QED
    BY <2>1, <2>2
<1>3. Handed'
  <2>1. \A t \in Threads : caller'[t] \in Conns =>
          con'[caller'[t]].status \notin {"NONE", "CONNECTING"}
    BY <1>0 DEF Handed
  <2> QED
    BY <1>2, <2>1 DEF Handed
<1>4. Acting'
  <2> SUFFICES ASSUME NEW x \in Evds
               PROVE  /\ "r" \in act'[x].left =>
                            con'[act'[x].con].status = "CONNECTED" /\ con'[act'[x].con].evd = x
                      /\ "close" \in act'[x].left =>
                            con'[act'[x].con].status = "CLOSING" /\ con'[act'[x].con].evd = x
                      /\ "insert" \in act'[x].left =>
                            /\ x = Main
                            /\ con'[act'[x].con].id \notin DOMAIN table
    BY DEF Acting
  <2>1. CASE x = Main
    BY <2>1
  <2>2. CASE x # Main
    <3>1. act'[x] = act[x] /\ (act[x].left # {} => act[x].con \in Conns /\ act[x].con # c)
      BY <1>0, <2>2 DEF ActType
    <3> QED
      BY <1>0, <3>1 DEF Acting
  <2> QED
    BY <2>1, <2>2
<1>5. \A d \in Conns : ~Inserting(d) /\ (Inserting(d)' <=> d = c)
  BY DEF Inserting, Idle
<1>6. \A i \in DOMAIN table : table[i] \in Conns /\ table[i] # c
  BY <1>0 DEF TableType, Listed
<1>7. Listed'
  BY <1>0, <1>5, <1>6 DEF Listed
<1>8. Erasing'
  BY <1>0, <1>2, <1>5 DEF Erasing, InTable
<1> QED
  BY <1>2, <1>3, <1>4, <1>7, <1>8 DEF Places

\* newConnect up to the hand-over.
LEMMA NewConnectStep ==
    ASSUME IInv, fatal = "none", NEW c \in Conns, NEW f \in AcceptResults, NewConnect(c, f)
    PROVE  IInv'
<1> DEFINE e0 == ChosenEvd
           i0 == NextId
           r == [con[c] EXCEPT !.status = "CONNECTING", !.fd = f, !.evd = e0, !.id = i0]
           a == [con |-> c, left |-> {"insert"}]
<1>0. /\ Types /\ ConType /\ CounterType /\ TableType /\ ChannelType /\ EpollType
      /\ QueueType /\ ActType /\ OpenType /\ FlagType
      /\ Main \in Evds /\ NoCon \notin Conns /\ NoFd \notin Fds /\ WorkerNum \in Nat
  BY TcpAssumption DEF IInv, Types, Main, Evds
<1>1. /\ Idle(Main) /\ con[c].status = "NONE"
      /\ open' = (IF f = NoFd THEN open ELSE [open EXCEPT ![f] = c])
      /\ nextId' = i0
      /\ nextEvd' = (IF nextEvd >= WorkerNum THEN 1 ELSE nextEvd + 1)
      /\ act' = [act EXCEPT ![Main] = a]
      /\ IF e0 = Main
         THEN Establish(c, r) /\ UNCHANGED queue
         ELSE /\ con' = [con EXCEPT ![c] = r]
              /\ queue' = [queue EXCEPT ![e0] =
                              Append(@, Functor("establish", c, NoCon))]
              /\ UNCHANGED <<channels, epoll, fatal>>
      /\ UNCHANGED <<table, batch, caller, wire, accepted, late>>
  BY DEF NewConnect, regVars, peerVars, history
<1>2. i0 \in Nat \ {0} /\ i0 \notin DOMAIN table
  BY <1>0, NextIdFree
<1>3. e0 \in Evds
  BY <1>0 DEF ChosenEvd, CounterType, Evds
<1>4. f \in Fds \cup {NoFd} /\ (f # NoFd => f \in Fds /\ open[f] = NoCon)
  BY DEF AcceptResults
<1> HIDE DEF e0, i0
<1>5. con[c] \in Records
  BY <1>0 DEF ConType
<1>6. /\ r \in Records /\ r.status = "CONNECTING" /\ r.fd = f /\ r.evd = e0 /\ r.id = i0
      /\ r.out = con[c].out /\ r.events = con[c].events
  BY <1>2, <1>3, <1>4, <1>5 DEF Records, Statuses
<1> HIDE DEF r
<1>7. CounterType'
  BY <1>0, <1>1, <1>2 DEF CounterType
<1>8. OpenType' /\ (f # NoFd => open'[f] = c) /\ \A g \in Fds : g # f => open'[g] = open[g]
  BY <1>0, <1>1, <1>4 DEF OpenType
<1>9. /\ act' \in [Evds -> [con : Conns \cup {NoCon}, left : Left]] /\ act'[Main] = a
      /\ \A e \in Evds : e # Main => act'[e] = act[e]
  <2>1. a \in [con : Conns \cup {NoCon}, left : Left]
    BY DEF Left
  <2> HIDE DEF a
  <2> QED
    BY <1>0, <1>1, <2>1 DEF ActType
<1>10. /\ ConType' /\ ChannelType' /\ EpollType' /\ FlagType'
       /\ con'[c].status \in {"CONNECTING", "CONNECTED"} /\ con'[c].evd = e0
       /\ con'[c].id = i0 /\ con'[c].out = con[c].out
       /\ con'[c].status = "CONNECTED" => con'[c].events = {"r"}
       /\ \A d \in Conns : d # c => con'[d] = con[d]
  <2>1. CASE e0 = Main
    <3>1. /\ ConType' /\ ChannelType' /\ EpollType' /\ fatal' \in {"none", "accept", "epoll"}
          /\ con'[c].status = "CONNECTED" /\ con'[c].fd = r.fd /\ con'[c].evd = r.evd
          /\ con'[c].id = r.id /\ con'[c].out = r.out /\ con'[c].events = {"r"}
          /\ \A d \in Conns : d # c => con'[d] = con[d]
      BY <1>0, <1>1, <1>6, <2>1, EstablishTypes
    <3>2. FlagType'
      BY <1>0, <1>1, <3>1 DEF FlagType
    <3> QED
      BY <1>6, <3>1, <3>2
  <2>2. CASE e0 # Main
    <3>1. /\ con' \in [Conns -> Records] /\ con'[c] = r
          /\ \A d \in Conns : d # c => con'[d] = con[d]
      BY <1>0, <1>1, <1>6, <2>2 DEF ConType
    <3>2. Ages
      BY <1>1, <3>1 DEF Ages
    <3>3. ChannelType' /\ EpollType' /\ FlagType'
      BY <1>0, <1>1, <2>2, <3>2, SameTypes, AgeTypes
    <3> QED
      BY <1>6, <3>1, <3>3 DEF ConType
  <2> QED
    BY <2>1, <2>2
<1>11. ActType'
  <2> SUFFICES ASSUME NEW x \in Evds
               PROVE  /\ act'[x].con = NoCon <=> act'[x].left = {}
                      /\ act'[x].con # NoCon => con'[act'[x].con].status # "NONE"
                      /\ "insert" \in act'[x].left =>
                            act'[x].left = {"insert"} /\ con'[act'[x].con].id # 0
    BY <1>9 DEF ActType
  <2>1. CASE x = Main
    BY <1>0, <1>2, <1>9, <1>10, <2>1
  <2>2. CASE x # Main
    <3>1. act'[x] = act[x] /\ (act[x].con # NoCon => act[x].con \in Conns)
      BY <1>0, <1>9, <2>2 DEF ActType
    <3>2. act[x].con # NoCon => act[x].con # c /\ con'[act[x].con] = con[act[x].con]
      BY <1>0, <1>1, <1>10, <3>1 DEF ActType
    <3>3. act[x].left # {} => act[x].con # NoCon
      BY <1>0 DEF ActType
    <3> QED
      BY <1>0, <3>1, <3>2, <3>3 DEF ActType
  <2> QED
    BY <2>1, <2>2
<1>12. QueueType'
  <2>1. Functor("establish", c, NoCon) \in FunctorSet /\ queue[e0] \in Seq(FunctorSet)
    BY <1>0, <1>3 DEF Functor, FunctorSet, QueueType
  <2>2. Append(queue[e0], Functor("establish", c, NoCon)) \in Seq(FunctorSet)
    BY <2>1
  <2> QED
    BY <1>0, <1>1, <1>3, <2>2 DEF QueueType
<1>13. Types'
  BY <1>0, <1>1, <1>7, <1>8, <1>10, <1>11, <1>12, SameTypes DEF Types
<1>14. ASSUME Good PROVE Good'
  <2>1. Registry'
    <3>1. CASE e0 = Main
      <4>1. r.fd # NoFd => open'[r.fd] = c /\ open[r.fd] \in {c, NoCon}
        BY <1>4, <1>6, <1>8
      <4>2. \A g \in Fds : g # r.fd => open'[g] = open[g]
        BY <1>6, <1>8
      <4> QED
        BY <1>0, <1>1, <1>6, <1>14, <3>1, <4>1, <4>2, EstablishRegistry DEF Good
    <3>2. CASE e0 # Main
      <4>0. Registry /\ UNCHANGED <<channels, epoll, fatal>> /\ con'[c] = r
        BY <1>0, <1>1, <1>6, <1>14, <3>2 DEF Good, ConType
      <4>1. ASSUME NEW e \in Evds, NEW g \in DOMAIN channels[e]
            PROVE  /\ channels[e][g] \in Conns /\ channels[e][g] # c
                   /\ con'[channels[e][g]] = con[channels[e][g]] /\ open'[g] = open[g]
        <5>1. channels[e][g] \in Conns /\ g \in Fds
          BY <1>0 DEF ChannelType
        <5>2. con[channels[e][g]].status = "CONNECTED" /\ open[g] = channels[e][g]
          BY <4>0 DEF Registry
        <5> QED
          BY <1>0, <1>1, <1>4, <1>8, <1>10, <5>1, <5>2
      <4>2. ASSUME NEW d \in Conns, con'[d].status = "CONNECTED"
            PROVE  con'[d] = con[d]
        BY <1>6, <1>10, <4>0, <4>2
      <4>3. ASSUME NEW d \in Conns, con'[d].status = "CONNECTING", con'[d].fd # NoFd
            PROVE  open'[con'[d].fd] = d
        <5>1. CASE d = c
          BY <1>6, <1>8, <4>0, <4>3, <5>1
        <5>2. CASE d # c
          <6>1. con'[d] = con[d] /\ con[d].fd \in Fds
            BY <1>0, <1>10, <4>3, <5>2 DEF ConType, Records
          <6>2. open[con[d].fd] = d
            BY <4>0, <4>3, <6>1 DEF Registry
          <6>3. con[d].fd # f
            BY <1>0, <1>4, <6>1, <6>2
          <6> QED
            BY <1>8, <6>1, <6>2, <6>3
        <5> QED
          BY <5>1, <5>2
      <4> QED
        BY <4>0, <4>1, <4>2, <4>3 DEF Registry
    <3> QED
      BY <3>1, <3>2
  <2>2. Output'
    <3>1. \A d \in Conns :
            /\ con'[d].out = con[d].out
            /\ con'[d].status \in {"NONE", "CONNECTING"} =>
                  con[d].status \in {"NONE", "CONNECTING"}
            /\ con'[d].status = "CONNECTED" =>
                  \/ con[d].status = "CONNECTED" /\ con'[d].events = con[d].events
                  \/ con[d].status \in {"NONE", "CONNECTING"} /\ "w" \notin con'[d].events
      BY <1>1, <1>10
    <3> QED
      BY <1>1, <1>14, <3>1, OutputStays DEF Good
  <2>3. Places'
    <3>1. \/ UNCHANGED queue
          \/ /\ con'[c].status = "CONNECTING"
             /\ queue' = [queue EXCEPT ![e0] = Append(@, Functor("establish", c, NoCon))]
      <4>1. CASE e0 = Main
        BY <1>1, <4>1
      <4>2. CASE e0 # Main
        BY <1>0, <1>1, <1>6, <4>2 DEF ConType
      <4> QED
        BY <4>1, <4>2
    <3> QED
      BY <1>0, <1>1, <1>2, <1>3, <1>9, <1>10, <1>14, <3>1, PlacesNew DEF Good
  <2> QED
    BY <2>1, <2>2, <2>3 DEF Good
<1> QED
  BY <1>1, <1>13, <1>14 DEF IInv

-----------------------------------------------------------------------------
(* The invariant.                                                          *)

\* It holds when the server starts.
LEMMA InitIInv == Init => IInv
<1> SUFFICES ASSUME Init PROVE IInv
  OBVIOUS
<1>0. /\ Main \in Evds /\ NoCon \notin Conns /\ WorkerNum \in Nat
      /\ {"idle", "done"} \cap Conns = {} /\ NoFd \notin Fds
  BY TcpAssumption DEF Main, Evds
<1>1. DOMAIN EmptyMap = {} /\ <<>> \in Seq(Data) /\ <<>> \in Seq(FunctorSet) /\ Len(<<>>) = 0
  BY DEF EmptyMap
<1>2. \A c \in Conns : /\ con[c] \in Records /\ con[c].status = "NONE" /\ con[c].out = <<>>
  <2>1. <<>> \in Seq(Messages \X (1..MsgLen))
    OBVIOUS
  <2> QED
    BY <1>0, <2>1 DEF Init, Records, Statuses, Interest
<1>3. ConType /\ CounterType
  <2>1. con = [c \in Conns |-> con[c]]
    BY DEF Init
  <2>2. ConType
    BY <1>2, <2>1 DEF ConType
  <2>3. CounterType
    BY DEF Init, CounterType
  <2> QED
    BY <2>2, <2>3
<1>4. TableType
  BY <1>1, FS_EmptySet DEF Init, TableType
<1>5. ChannelType /\ EpollType /\ BatchType
  BY <1>1 DEF Init, ChannelType, EpollType, BatchType
<1>6. QueueType /\ OpenType /\ WireType /\ FlagType
  BY <1>1 DEF Init, QueueType, OpenType, WireType, FlagType
<1>7. ActType /\ CallerType
  BY <1>0 DEF Init, ActType, CallerType, NoAct, Left
<1>8. Types
  BY <1>3, <1>4, <1>5, <1>6, <1>7 DEF Types
<1>9. Registry
  BY <1>1, <1>2 DEF Init, Registry
<1>10. Output
  <2>1. <<>> \o <<>> = <<>>
    BY <1>1, ConcatEmptySeq
  <2> QED
    BY <1>2, <2>1 DEF Init, Output
<1>11. \A e \in Evds : queue[e] = <<>> /\ Len(queue[e]) = 0
  BY <1>1 DEF Init
<1>12. Handed
  <2>1. \A e \in Evds : QueueOk(con, e, queue[e]) /\ OnceIn(queue[e])
    BY <1>11 DEF QueueOk, OnceIn
  <2>2. \A t \in Threads : caller[t] \notin Conns
    BY <1>0 DEF Init
  <2> QED
    BY <2>1, <2>2 DEF Handed
<1>13. Acting
  BY DEF Init, Acting, NoAct
<1>14. Listed /\ Erasing
  BY <1>1, <1>2 DEF Init, Listed, Erasing
<1> QED
  BY <1>8, <1>9, <1>10, <1>12, <1>13, <1>14 DEF IInv, Good, Places

\* Every step keeps it.
LEMMA NextIInv == IInv /\ [Next]_vars => IInv'
<1> SUFFICES ASSUME IInv, [Next]_vars PROVE IInv'
  OBVIOUS
<1>1. CASE UNCHANGED vars
  <2>1. BatchType'
    BY <1>1 DEF IInv, Types, BatchType, vars
  <2> QED
    BY <1>1, <2>1, QuietSteps DEF vars
<1>2. ASSUME NEW e \in Evds, LoopStep(e) PROVE IInv'
  <2>0. fatal = "none"
    BY <1>2 DEF LoopStep
  <2>1. CASE Select(e)
    BY <2>0, <2>1, SelectStep
  <2>2. CASE Dispatch(e)
    BY <2>0, <2>2, DispatchStep
  <2>3. CASE HandleInput(e)
    BY <2>0, <2>3, HandleInputStep
  <2>4. CASE HandleEnd(e)
    BY <2>0, <2>4, HandleEndStep
  <2>5. CASE HandleEndReturns(e)
    BY <2>0, <2>5, HandleEndReturnsStep
  <2>6. CASE HandleReadError(e)
    <3>1. BatchType'
      BY <2>6 DEF IInv, Types, BatchType, HandleReadError, loopVars
    <3> QED
      BY <2>0, <2>6, <3>1, QuietSteps
         DEF HandleReadError, conVars, regVars, loopVars, peerVars, history
  <2>7. CASE HandleWrite(e)
    BY <2>0, <2>7, HandleWriteStep
  <2>8. CASE RunFunctor(e)
    BY <2>0, <2>8, RunFunctorStep
  <2> QED
    BY <1>2, <2>1, <2>2, <2>3, <2>4, <2>5, <2>6, <2>7, <2>8 DEF LoopStep
<1>3. CASE OtherStep
  <2>0. fatal = "none" /\ (UNCHANGED batch => BatchType')
    BY <1>3, SameTypes DEF OtherStep, IInv
  <2>1. ASSUME NEW c \in Conns, NEW f \in AcceptResults, NewConnect(c, f) PROVE IInv'
    BY <2>0, <2>1, NewConnectStep
  <2>2. CASE InsertConnect
    BY <2>0, <2>2, InsertConnectStep
  <2>3. CASE AcceptDies
    BY <2>0, <2>3, QuietSteps
       DEF AcceptDies, conVars, regVars, loopVars, peerVars, history
  <2>4. ASSUME NEW c \in Conns, NEW m \in Messages, SendFrom(c, m) PROVE IInv'
    BY <2>0, <2>4, SendFromStep
  <2>5. ASSUME NEW t \in Threads, NEW c \in Conns, ForceClose(t, c) PROVE IInv'
    BY <2>0, <2>5, ForceCloseStep
  <2>6. ASSUME NEW t \in Threads, ForceCloseRun(t) PROVE IInv'
    BY <2>0, <2>6, ForceCloseRunStep
  <2>7. ASSUME NEW c \in Conns, PeerSends(c) PROVE IInv'
    BY <2>0, <2>7, QuietSteps DEF PeerSends, conVars, regVars, loopVars, history
  <2>8. ASSUME NEW c \in Conns, NEW how \in {"closed", "reset"}, PeerEnds(c, how)
        PROVE  IInv'
    BY <2>0, <2>8, QuietSteps DEF PeerEnds, conVars, regVars, loopVars, history
  <2> QED
    BY <1>3, <2>1, <2>2, <2>3, <2>4, <2>5, <2>6, <2>7, <2>8 DEF OtherStep
<1> QED
  BY <1>1, <1>2, <1>3 DEF Next

\* It holds throughout.
LEMMA AlwaysIInv == Spec => []IInv
BY InitIInv, NextIInv, PTL DEF Spec

\* multi::Server, Acceptor, Connection, Channel and EpollSelector: as long as no
\* closed connection is used, channel table, epoll set, descriptors, connections
\* and the table of the server agree, whatever the loops and threads do.
THEOREM TablesAgree == Spec => []RegistryConsistent
<1>1. IInv => RegistryConsistent
  <2> SUFFICES ASSUME IInv PROVE RegistryConsistent
    OBVIOUS
  <2>1. TypeOK
    <3>0. /\ ConType /\ CounterType /\ TableType /\ ChannelType /\ EpollType /\ BatchType
          /\ ActType /\ OpenType /\ FlagType
      BY DEF IInv, Types
    <3>1. nextEvd \in 1..(WorkerNum + 1)
      BY <3>0, TcpAssumption DEF CounterType
    <3>2. DOMAIN table \subseteq Nat \ {0} /\ Values(table) \subseteq Conns
      BY <3>0 DEF TableType, Values
    <3>3. ASSUME NEW e \in Evds
          PROVE  /\ DOMAIN channels[e] \subseteq Fds /\ Values(channels[e]) \subseteq Conns
                 /\ DOMAIN epoll[e] \subseteq Fds /\ Values(epoll[e]) \subseteq Interest
                 /\ DOMAIN batch[e] \subseteq Fds /\ Values(batch[e]) \subseteq Interest \ {{}}
      BY <3>0 DEF ChannelType, EpollType, BatchType, Values
    <3>4. ASSUME NEW e \in Evds
          PROVE  /\ act[e].con = NoCon <=> act[e].left = {}
                 /\ act[e].con # NoCon => con[act[e].con].status # "NONE"
      BY <3>0 DEF ActType
    <3> QED
      BY <3>0, <3>1, <3>2, <3>3, <3>4
         DEF TypeOK, ConType, CounterType, OpenType, FlagType
  <2>2. ASSUME late = {}, NEW e \in Evds
        PROVE  /\ DOMAIN channels[e] = DOMAIN epoll[e]
               /\ \A f \in DOMAIN channels[e] :
                     LET c == channels[e][f]
                     IN  /\ con[c].fd = f /\ con[c].evd = e /\ open[f] = c
                         /\ con[c].status = "CONNECTED"
                         /\ \/ con[c].id \in DOMAIN table /\ table[con[c].id] = c
                            \/ Inserting(c) /\ con[c].id \notin DOMAIN table
    <3>0. Registry /\ Listed /\ Acting /\ ChannelType /\ Main \in Evds
      BY <2>2, TcpAssumption DEF IInv, Good, Places, Types, Main, Evds
    <3>1. DOMAIN channels[e] = DOMAIN epoll[e]
      BY <3>0 DEF Registry
    <3>2. ASSUME NEW f \in DOMAIN channels[e], NEW c, c = channels[e][f]
          PROVE  /\ con[c].fd = f /\ con[c].evd = e /\ open[f] = c
                 /\ con[c].status = "CONNECTED"
                 /\ \/ con[c].id \in DOMAIN table /\ table[con[c].id] = c
                    \/ Inserting(c) /\ con[c].id \notin DOMAIN table
      <4>1. /\ con[c].fd = f /\ con[c].evd = e /\ open[f] = c
            /\ con[c].status = "CONNECTED" /\ c \in Conns
        BY <3>0, <3>2 DEF Registry, ChannelType
      <4>2. \/ con[c].id \in DOMAIN table /\ table[con[c].id] = c
            \/ Inserting(c)
        BY <3>0, <4>1 DEF Listed
      <4>3. Inserting(c) => con[c].id \notin DOMAIN table
        BY <3>0 DEF Inserting, Acting
      <4> QED
        BY <4>1, <4>2, <4>3
    <3> QED
      BY <3>1, <3>2
  <2> QED
    BY <2>1, <2>2 DEF RegistryConsistent
<1> QED
  BY <1>1, AlwaysIInv, PTL

\* Connection::send, HandleWrite and Channel::SetEvents: a connected connection
\* waits for its socket to be writable exactly while it has buffered output.
THEOREM InterestFollowsOutput == Spec => []WriteInterest
<1>1. IInv => WriteInterest
  <2> SUFFICES ASSUME IInv, late = {}, fatal = "none", NEW c \in Conns,
                      con[c].status = "CONNECTED"
               PROVE  /\ epoll[con[c].evd][con[c].fd] = con[c].events
                      /\ "w" \in con[c].events <=> con[c].out # <<>>
    BY DEF WriteInterest
  <2>0. Registry /\ Output /\ ConType
    BY DEF IInv, Good, Types
  <2>1. con[c].evd \in Evds
    BY <2>0 DEF ConType, Records
  <2>2. /\ con[c].fd \in DOMAIN channels[con[c].evd]
        /\ channels[con[c].evd][con[c].fd] = c
    BY <2>0 DEF Registry
  <2>3. epoll[con[c].evd][con[c].fd] = con[c].events
    BY <2>0, <2>1, <2>2 DEF Registry
  <2>4. "w" \in con[c].events <=> con[c].out # <<>>
    BY <2>0 DEF Output
  <2> QED
    BY <2>3, <2>4
<1> QED
  BY <1>1, AlwaysIInv, PTL

\* Connection::send and HandleWrite: the peer gets what send() took over, in
\* order and without gaps.
THEOREM BytesInOrder == Spec => []OutputInOrder
<1>1. IInv => OutputInOrder
  BY DEF IInv, Good, Output, OutputInOrder
<1> QED
  BY <1>1, AlwaysIInv, PTL

\* EpollSelector: epoll_ctl fails only when a closed connection is used.
THEOREM EpollSucceeds == Spec => []EpollFailsOnlyLate
<1>1. IInv => EpollFailsOnlyLate
  BY DEF IInv, Good, Registry, EpollFailsOnlyLate
<1> QED
  BY <1>1, AlwaysIInv, PTL

\* multi::Server::removeConnect: a closed connection is in the table exactly as
\* long as the functor that erases it is queued.
THEOREM ClosedLeaveTable == Spec => []ClosedIsErased
<1>1. IInv => ClosedIsErased
  <2> SUFFICES ASSUME IInv, late = {}, NEW c \in Conns,
                      con[c].status \in {"CLOSING", "CLOSED"}
               PROVE  c \in Values(table) \/ Inserting(c) <=>
                         Functor("erase", c, NoCon) \in ToSet(queue[Main])
    BY DEF ClosedIsErased
  <2>1. Erasing /\ queue[Main] \in Seq(FunctorSet)
    BY TcpAssumption DEF IInv, Good, Places, Types, QueueType, Main, Evds
  <2>2. c \in Values(table) <=> InTable(c)
    BY DEF Values, InTable
  <2>3. EraseOf(c) \in ToSet(queue[Main]) <=> HasErase(queue[Main], c)
    <3>1. DOMAIN queue[Main] = 1..Len(queue[Main])
      BY <2>1, LenProperties
    <3> QED
      BY <3>1 DEF ToSet, HasErase
  <2> QED
    BY <2>1, <2>2, <2>3 DEF Erasing, EraseOf
<1> QED
  BY <1>1, AlwaysIInv, PTL
=============================================================================
