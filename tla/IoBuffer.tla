------------------------------ MODULE IoBuffer ------------------------------
(***************************************************************************)
(* rpc/io_buffer.{h,cpp}: the byte buffer between a socket and the         *)
(* protocol code.  A vector with a reader index and a writer index; the    *)
(* bytes between them are readable, the ones before the reader index are   *)
(* the prepend area, the ones after the writer index are writable and hold *)
(* whatever was there before.                                              *)
(*                                                                         *)
(* A buffer is used by one thread.  Indices are 0-based as in the code:    *)
(* byte i is mem[i + 1].  The assertions of the code are compiled out      *)
(* (CMakeLists.txt sets NDEBUG); the ones that are a contract with the     *)
(* caller of Prepend and GetAsString are guards here.                      *)
(***************************************************************************)
EXTENDS Naturals, Sequences, SequencesExt

CONSTANTS
    CheapPrepend,   \* kCheapPrepend
    InitialSize,    \* kInitialSize
    ExtraBuf,       \* sizeof extrabuf in Retrieve
    Bytes,          \* the bytes that occur
    CR, LF, Zero,   \* '\r', '\n' and the fill of vector::resize
    MaxData,        \* bound: length of one piece of data put or read
    MaxReadable     \* bound: readable bytes before a put

ASSUME SizeAssumption ==
    /\ CheapPrepend \in Nat /\ InitialSize \in Nat /\ ExtraBuf \in Nat
    /\ MaxData \in Nat /\ MaxReadable \in Nat
    /\ {CR, LF, Zero} \subseteq Bytes

VARIABLES
    b,          \* the buffer: [mem |-> _buf, reader |-> _reader_index,
                \*              writer |-> _writer_index]
    moved       \* history: the bytes the last operation was given or handed over

vars == <<b, moved>>

Buffers == [mem : Seq(Bytes), reader : Nat, writer : Nat]

\* Pieces of data of at most n bytes.
Data(n) == UNION {[1..k -> Bytes] : k \in 0..n}

WritableBytes(x) == Len(x.mem) - x.writer
PrependBytes(x) == x.reader
ReadableBytes(x) == x.writer - x.reader

\* The bytes a reader of x may see.
Content(x) == SubSeq(x.mem, x.reader + 1, x.writer)

Fill(n) == [i \in 1..n |-> Zero]

\* mem with the bytes d written from index "at" on (std::copy).
Overwrite(mem, at, d) ==
    [i \in 1..Len(mem) |->
        IF i > at /\ i <= at + Len(d) THEN d[i - at] ELSE mem[i]]

\* The constructor with its default argument.
NewBuffer ==
    [mem |-> Fill(InitialSize + CheapPrepend),
     reader |-> CheapPrepend, writer |-> CheapPrepend]

Init == b = NewBuffer /\ moved = <<>>

-----------------------------------------------------------------------------
(* The private helpers.                                                    *)

Compact(x) ==
    [mem |-> Overwrite(x.mem, CheapPrepend, Content(x)),
     reader |-> CheapPrepend, writer |-> CheapPrepend + ReadableBytes(x)]

MustGrow(x, n) == WritableBytes(x) + PrependBytes(x) < n + CheapPrepend

MutMakeSpace(x, n) ==
    IF WritableBytes(x) + PrependBytes(x) < n
    THEN [x EXCEPT !.mem = @ \o Fill(x.writer + n - Len(@))]
    ELSE Compact(x)

\* Room for n more bytes at the end: resize, or move the content down.
MakeSpace(x, n) ==
    IF MustGrow(x, n)
    THEN [x EXCEPT !.mem = @ \o Fill(x.writer + n - Len(@))]
    ELSE Compact(x)

\* wpeek and wseek: d is copied behind the writer index.
CopyIn(x, d) ==
    [x EXCEPT !.mem = Overwrite(@, x.writer, d), !.writer = @ + Len(d)]

\* Put.
PutInto(x, d) ==
    IF WritableBytes(x) < Len(d) THEN CopyIn(MakeSpace(x, Len(d)), d)
    ELSE CopyIn(x, d)

\* Seek, also beyond the readable bytes: the content is dropped.
SeekIn(x, n) ==
    IF n < ReadableBytes(x) THEN [x EXCEPT !.reader = @ + n]
    ELSE [x EXCEPT !.reader = CheapPrepend, !.writer = CheapPrepend]

\* findCRLF searches the _writer_index bytes that start at the reader index,
\* not the ReadableBytes() bytes: the search runs on into old bytes and, past
\* the end of the vector, into memory that may hold anything.
ScanEnd(x) == x.reader + x.writer
InMem(x, i) == i < Len(x.mem)
MayBe(x, i, c) == InMem(x, i) => x.mem[i + 1] = c
CRLFMayBeAt(x, i) == MayBe(x, i, CR) /\ MayBe(x, i + 1, LF)
CRLFIsAt(x, i) == InMem(x, i + 1) /\ CRLFMayBeAt(x, i)

\* The indices findCRLF may return (none: NULL).  A match that depends on
\* memory outside the vector is there or not.
FindCRLF(x) ==
    {i \in x.reader..ScanEnd(x) :
        /\ i + 2 <= ScanEnd(x)
        /\ CRLFMayBeAt(x, i)
        /\ \A j \in x.reader..ScanEnd(x) : j < i => ~CRLFIsAt(x, j)}

-----------------------------------------------------------------------------
(* The operations.                                                         *)

\* Put, Append, PutString.
Put(d) ==
    /\ ReadableBytes(b) <= MaxReadable
    /\ b' = PutInto(b, d)
    /\ moved' = d

\* The contract is that there is room in front of the reader index.
Prepend(d) ==
    /\ ReadableBytes(b) <= MaxReadable
    /\ Len(d) <= PrependBytes(b)
    /\ b' = [b EXCEPT !.reader = @ - Len(d),
                      !.mem = Overwrite(@, b.reader - Len(d), d)]
    /\ moved' = d

Seek(n) ==
    /\ n <= ReadableBytes(b)
    /\ b' = SeekIn(b, n)
    /\ moved' = <<>>

\* Get hands over at most what is there.
Get(n) ==
    LET actual == IF n < ReadableBytes(b) THEN n ELSE ReadableBytes(b)
    IN  IF ReadableBytes(b) <= 0
        THEN moved' = <<>> /\ UNCHANGED b
        ELSE /\ moved' = SubSeq(b.mem, b.reader + 1, b.reader + actual)
             /\ b' = SeekIn(b, actual)

\* GetAsString and GetAllAsString: the contract is that n bytes are there.
GetAsString(n) ==
    /\ n <= ReadableBytes(b)
    /\ moved' = SubSeq(b.mem, b.reader + 1, b.reader + n)
    /\ b' = SeekIn(b, n)

MutRetrieve(d) ==
    LET writable == WritableBytes(b)
        room == IF writable < ExtraBuf THEN writable + ExtraBuf ELSE writable
    IN  /\ ReadableBytes(b) <= MaxReadable
        /\ Len(d) <= room
        /\ b' = IF Len(d) <= writable THEN CopyIn(b, d)
                ELSE PutInto(b, SubSeq(d, writable + 1, Len(d)))
        /\ moved' = d

\* Retrieve: readv fills the writable bytes first, then extrabuf, whose bytes
\* are put behind the others.  (A failing readv aborts the process.)
Retrieve(d) ==
    LET writable == WritableBytes(b)
        room == IF writable < ExtraBuf THEN writable + ExtraBuf ELSE writable
    IN  /\ ReadableBytes(b) <= MaxReadable
        /\ Len(d) <= room
        /\ b' = IF Len(d) <= writable THEN CopyIn(b, d)
                ELSE PutInto(CopyIn(b, SubSeq(d, 1, writable)),
                             SubSeq(d, writable + 1, Len(d)))
        /\ moved' = d

\* Shrink: a new buffer with room for the content and n more bytes.
Shrink(n) ==
    LET need == n + ReadableBytes(b)
        fresh == IF WritableBytes(NewBuffer) < need
                 THEN MakeSpace(NewBuffer, need) ELSE NewBuffer
    IN  b' = PutInto(fresh, Content(b)) /\ moved' = <<>>

Reset == b' = NewBuffer /\ moved' = <<>>

\* HttpContext::parseRequest with a line it accepts:
\* crlf = findCRLF(); ...; GetUntil(crlf + 2).
ConsumeLine ==
    \E crlf \in FindCRLF(b) :
        b' = SeekIn(b, crlf + 2 - b.reader) /\ moved' = <<>>

Next ==
    \/ \E d \in Data(MaxData) : Put(d) \/ Prepend(d) \/ Retrieve(d)
    \/ \E n \in 0..MaxData : Seek(n) \/ Get(n) \/ GetAsString(n) \/ Shrink(n)
    \/ Reset
    \/ ConsumeLine

Spec == Init /\ [][Next]_vars

-----------------------------------------------------------------------------
(* Properties.                                                             *)

\* The two indices never cross and never leave the vector, so no operation
\* of the buffer copies from or to memory outside of it.
TypeOK ==
    /\ b \in Buffers /\ moved \in Seq(Bytes)
    /\ b.reader <= b.writer /\ b.writer <= Len(b.mem)

\* makeSpace makes the room that Put asked for and keeps the content, and it
\* moves bytes only towards the front: the situation that compact's assertion
\* (kCheapPrepend < _reader_index) says will "Never happen" does not.  The
\* indices stay in the vector.
MakeSpaceMakesRoom ==
    /\ TypeOK
    /\ \A n \in 1..(MaxData + InitialSize) :
          WritableBytes(b) < n =>
              /\ WritableBytes(MakeSpace(b, n)) >= n
              /\ Content(MakeSpace(b, n)) = Content(b)
              /\ ~MustGrow(b, n) => CheapPrepend < b.reader

\* The indices, the compaction, the growth, the swap and the two-part read
\* are invisible: the buffer is a queue of bytes (module ByteQueue).
Queue == INSTANCE ByteQueue WITH content <- Content(b)
ImplementsByteQueue == Queue!Spec
=============================================================================
